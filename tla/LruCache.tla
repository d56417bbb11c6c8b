------------------------------ MODULE LruCache ------------------------------
(***************************************************************************)
(* What the block cache of kernel/io.zig is to do, whatever it is built    *)
(* of: keep the blocks used last, at most MaxBlocks of them, and forget    *)
(* the one not used for longest when there is no room.                     *)
(***************************************************************************)
EXTENDS SequencesExt

CONSTANTS Address, MaxBlocks

VARIABLE recent     \* the cached addresses, the one used last first

Init == recent = <<>>

Without(a) == RemoveFirst(recent, a)    \* where it is at most once

Use(a) ==
    LET used == <<a>> \o Without(a)
    IN  recent' = IF Len(used) > MaxBlocks THEN Front(used) ELSE used

Forget(a) == a \in Range(recent) /\ recent' = Without(a)

Next == \E a \in Address : Use(a) \/ Forget(a)

Spec == Init /\ [][Next]_recent
=============================================================================
