------------------------------ MODULE BuddyPort ------------------------------
(***************************************************************************)
(* kernel/buddy_allocator.zig next to the prototype it was ported from,    *)
(* scripts/prototypes/buddy.py: both get the same requests, the prototype  *)
(* for an area whose smallest blocks are MinSize of its cells each.        *)
(*                                                                         *)
(* They go together until something happens that they are known to do      *)
(* differently: reserve, which the prototype does not have, and a merge    *)
(* into a list that is not empty, after which the prototype's list has a   *)
(* wrong link (BlocksAreAsExpected of BuddyPrototype).                     *)
(***************************************************************************)
EXTENDS BuddyAllocator

CONSTANTS Start, Junk

VARIABLES
    py,             \* the prototype
    following       \* whether both still go together

portVars == <<buddyVars, py, following>>

Scale == 4          \* the prototype's min_size, for a MinSize of 1

P == INSTANCE BuddyPrototype WITH
    Size <- Scale * MaxSize, Nil <- Null

ASSUME PortAssumption == MinSize = 1 /\ P!SizeFits

(* The prototype's own links are in the blocks, so it goes with that kind. *)
PortInit ==
    /\ BuddyInit
    /\ following = (kind = "InManagedArea")
    /\ py = P!Fresh

(* A merge that frees a block of a level which has other free blocks.      *)
MergesIntoList(before, after) ==
    \E level \in Level :
        /\ before.freeLists[level] # Null
        /\ \E index \in 0 .. Pow2[level] - 1 :
              /\ P!StatusOf(before, level, index) = "split"
              /\ P!StatusOf(after, level, index) = "free"

Follow(after) ==
    IF following /\ ~ MergesIntoList(py, after)
    THEN py' = after /\ UNCHANGED following
    ELSE py' = P!Fresh /\ following' = FALSE

PortNext ==
    /\ ba.phase = "run" /\ UNCHANGED kind
    /\ \/ \E size \in Sizes : Alloc(size) /\ Follow(P!Allocated(py, Scale * size).b)
       \/ \E a \in allocs : Free(a) /\ Follow(P!Freed(py, Start + Scale * a.start))
       \/ \E r \in Reservable : Reserve(r) /\ py' = P!Fresh /\ following' = FALSE

PortSpec == PortInit /\ [][PortNext]_portVars
------------------------------------------------------------------------------
StatusName == [invalid |-> "Invalid", split |-> "Split", free |-> "Free", used |-> "Used"]
ToAddress(pointer) == IF pointer = Null THEN Null ELSE Start + Scale * pointer

(* The port has the prototype's statuses and, link by link, its lists; the *)
(* prototype, which has met no block of an unexpected status, thus has its *)
(* pointers where nobody else wrote.                                       *)
PortFollowsPrototype ==
    following =>
        /\ ~ P!IsRaised(py)
        /\ \A b \in Block : ba.status[b] = StatusName[P!StatusOf(py, b[1], b[2])]
        /\ \A level \in Level :
              P!WalkOf(py, level) = [i \in DOMAIN WalkOf(level) |-> ToAddress(WalkOf(level)[i])]

(* A request is granted by both, with the same place, or by neither.       *)
PortAnswersAlike ==
    [][following =>
        \A size \in Sizes :
            Alloc(size) => {Start + Scale * a.start : a \in allocs' \ allocs}
                               = P!Allocated(py, Scale * size).given]_portVars

(* free's InvalidPointer: of an address around which nothing is allocated, *)
(* whatever has been split, merged and freed there, the prototype frees    *)
(* nothing.  (The port has no such check.)                                 *)
StrayFreeIsRefused ==
    following =>
        \A address \in P!Address :
            (\A a \in allocs : address \notin
                Start + Scale * a.start .. Start + Scale * (a.start + RoundedSize(a.size)) - 1)
            => P!Freed(py, address) = py
===============================================================================
