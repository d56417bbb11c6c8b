--------------------------- MODULE MCBuddyAllocator ---------------------------
(* The ranges that clients of BuddyAllocator reserve.                      *)
EXTENDS BuddyPort

SomeFromStart == {[start |-> 0, len |-> n] : n \in {3, 4}}
===============================================================================
