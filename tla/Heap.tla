--------------------------------- MODULE Heap ---------------------------------
(***************************************************************************)
(* What a buddy allocator promises, with no tree and no lists: an          *)
(* allocation is an aligned place of the request's rounded size that       *)
(* nothing else has, it fails only when there is no such place, and what   *)
(* is freed is free at once.                                               *)
(***************************************************************************)
EXTENDS Integers

CONSTANTS
    Area,           \* how many bytes are managed
    RoundedSize(_), \* the bytes a request of some size takes
    Sizes,          \* the sizes that are asked for
    Reservable,     \* the ranges that are reserved, [start, len]
    Null            \* no address

VARIABLES
    allocs,         \* the allocations, [start, size]
    reserved,       \* bytes withheld by reserve
    refused         \* the last request, if it was refused

heapVars == <<allocs, reserved, refused>>

Bytes(start, len) == start .. start + len - 1
Taken == UNION {Bytes(a.start, RoundedSize(a.size)) : a \in allocs}
Unused == (0 .. Area - 1) \ (Taken \cup reserved)

Places(size) ==
    {p \in 0 .. Area - 1 : /\ p % RoundedSize(size) = 0
                           /\ Bytes(p, RoundedSize(size)) \subseteq Unused}

Init == allocs = {} /\ reserved = {} /\ refused = {}

(* A request for a place anywhere.                                         *)
Anywhere(size) == [start |-> Null, len |-> size]

Alloc(size) ==
    /\ IF size > Area \/ Places(size) = {}
       THEN refused' = {Anywhere(size)} /\ UNCHANGED allocs
       ELSE /\ refused' = {}
            /\ \E p \in Places(size) : allocs' = allocs \cup {[start |-> p, size |-> size]}
    /\ UNCHANGED reserved

Free(a) ==
    /\ a \in allocs
    /\ allocs' = allocs \ {a} /\ refused' = {}
    /\ UNCHANGED reserved

(* Bytes next to the range may be withheld with it.                        *)
Reserve(r) ==
    /\ IF Bytes(r.start, r.len) \subseteq Unused
       THEN /\ refused' = {}
            /\ reserved \cup Bytes(r.start, r.len) \subseteq reserved'
            /\ reserved' \subseteq (0 .. Area - 1) \ Taken
       ELSE refused' = {r} /\ UNCHANGED reserved
    /\ UNCHANGED allocs

Next ==
    \/ \E size \in Sizes : Alloc(size)
    \/ \E a \in allocs : Free(a)
    \/ \E r \in Reservable : Reserve(r)

Spec == Init /\ [][Next]_heapVars
===============================================================================
