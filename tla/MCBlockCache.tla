---------------------------- MODULE MCBlockCache ----------------------------
(* Four sectors of two bytes, and a cache that is full with three.         *)
EXTENDS BlockCache

MCKey == 0 .. 3
MCNode == 1 .. 4
MCBuffer == 11 .. 14

(* What kernel/fs/Ext2.zig reads: whole blocks from the start of one, and  *)
(* parts of one block.                                                     *)
AlignedRequests ==
    [address : {0, 2, 4, 6}, len : {2}] \cup [address : {2}, len : {4}]
        \cup [address : {5}, len : {1}]

(* Two bytes on both sides of the end of a sector.                         *)
CrossingRequests == {[address |-> 1, len |-> 2]}

AllRequests == AlignedRequests \cup CrossingRequests
=============================================================================
