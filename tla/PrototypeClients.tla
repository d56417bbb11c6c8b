--------------------------- MODULE PrototypeClients ---------------------------
(***************************************************************************)
(* The prototype of the buddy allocator, scripts/prototypes/buddy.py, and  *)
(* its clients, who free what they were given.                             *)
(***************************************************************************)
EXTENDS BuddyPrototype

CONSTANT AskedSizes     \* the sizes clients ask for

VARIABLES
    buddy,          \* the allocator
    held            \* the addresses that were given and not freed yet

protoVars == <<buddy, held>>

Init == buddy = Fresh /\ held = {}

Alloc(size) ==
    LET result == Allocated(buddy, size)
    IN  /\ buddy' = result.b
        /\ held' = held \cup result.given

Free(address) ==
    /\ address \in held
    /\ buddy' = Freed(buddy, address)
    /\ held' = held \ {address}

Next ==
    /\ ~ IsRaised(buddy)
    /\ \/ \E size \in AskedSizes : Alloc(size)
       \/ \E address \in held : Free(address)

Spec == Init /\ [][Next]_protoVars

(* "Assert existing blocks are free and new/parrent block is split"        *)
(* (buddy.py:295), and split asks the same of its block: as long as the    *)
(* clients keep to the rules, no block that split and merge take from the  *)
(* lists has another status.                                               *)
BlocksAreAsExpected == buddy.raised # "WrongBlockStatus"
===============================================================================
