----------------------------- MODULE MappedList -----------------------------
(***************************************************************************)
(* kernel/mapped_list.zig: nodes that are in a tree, to be found by key,   *)
(* and in a list, to be kept in order, at the same time.  What the block   *)
(* cache calls is here; push_back, pop_front and find_bump_to_back are the *)
(* same with the ends of the list exchanged, and only tests call them.     *)
(*                                                                         *)
(* A mapped list is [map, list, value, used]; used holds the nodes that    *)
(* are allocated.  What a freed node held is lost.                         *)
(***************************************************************************)
EXTENDS LinkedList, SearchTree, FiniteSets

CONSTANT Value

MappedListType == [map : TreeType, list : ListType,
                   value : [Node -> Value \cup {Null}], used : SUBSET Node]

EmptyMappedList == [map |-> EmptyTree, list |-> EmptyList,
                    value |-> [n \in Node |-> Null], used |-> {}]

Find(m, key) == FindNode(m.map, key)

(* find_bump_to_front, of a key that is there.                             *)
FoundBumped(m, key) == [m EXCEPT !.list = BumpedToFront(@, Find(m, key))]

SpareNode(m) == CHOOSE n \in Node \ m.used : TRUE

(* push_front, when a node can be allocated.                               *)
Pushed(m, key, value) ==
    LET n == SpareNode(m)
        blank == [m.map EXCEPT !.key[n] = key, !.left[n] = Null, !.right[n] = Null]
    IN  [map   |-> Inserted(blank, n),
         list  |-> PushedFront(m.list, n),
         value |-> [m.value EXCEPT ![n] = value],
         used  |-> m.used \cup {n}]

(* remove_node of both, and the node is freed: pop_back of the list's last *)
(* node, find_remove of the node found.                                    *)
TakenOut(m, n) ==
    LET map == RemovedFromTree(m.map, n)
        list == RemovedNode(m.list, n)
    IN  [map   |-> [map EXCEPT !.left[n] = Null, !.right[n] = Null,
                               !.parent[n] = Null, !.key[n] = Null],
         list  |-> [list EXCEPT !.next[n] = Null, !.prev[n] = Null],
         value |-> [m.value EXCEPT ![n] = Null],
         used  |-> m.used \ {n}]

(* The tree and the list hold the same nodes, every node is where the      *)
(* search for its key ends, and it is a child of its parent.               *)
Agree(m) ==
    /\ WellLinked(m.list)
    /\ {InOrder(m.list)[i] : i \in 1 .. m.list.len} = m.used
    /\ InTree(m.map) = m.used
    /\ m.map.len = Cardinality(m.used)
    /\ \A n \in m.used : Find(m, m.map.key[n]) = n
    /\ \A n \in m.used \ {m.map.root} : IsChild(m.map, m.map.parent[n], n)
=============================================================================
