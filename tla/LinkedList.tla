----------------------------- MODULE LinkedList -----------------------------
(***************************************************************************)
(* The doubly linked list of kernel/list.zig, as pure operators on one     *)
(* list value.  A pointer to a node is the node, and the nodes' links are  *)
(* kept in two functions beside head, tail and len.                        *)
(***************************************************************************)
EXTENDS Nodes
ListType == [head : Link, tail : Link, len : Nat,
             next : [Node -> Link], prev : [Node -> Link]]

EmptyList == [head |-> Null, tail |-> Null, len |-> 0,
              next |-> [n \in Node |-> Null], prev |-> [n \in Node |-> Null]]

(* remove_node: the node keeps its own links.                              *)
RemovedNode(l, n) ==
    LET next == l.next[n]
        prev == l.prev[n]
    IN  [head |-> IF l.head = n THEN next ELSE l.head,
         tail |-> IF l.tail = n THEN prev ELSE l.tail,
         len  |-> l.len - 1,
         next |-> IF prev = Null THEN l.next ELSE [l.next EXCEPT ![prev] = next],
         prev |-> IF next = Null THEN l.prev ELSE [l.prev EXCEPT ![next] = prev]]

(* push_front_node *)
PushedFront(l, n) ==
    [head |-> n,
     tail |-> IF l.len = 0 THEN n ELSE l.tail,
     len  |-> l.len + 1,
     next |-> [l.next EXCEPT ![n] = l.head],
     prev |-> [m \in Node |-> IF m = n THEN Null ELSE IF m = l.head THEN n ELSE l.prev[m]]]

(* bump_node_to_front *)
BumpedToFront(l, n) == IF l.head = n THEN l ELSE PushedFront(RemovedNode(l, n), n)

(* The nodes in the order a walk from the head meets them.                 *)
InOrder(l) ==
    LET node[i \in 1 .. l.len] == IF i = 1 THEN l.head ELSE l.next[node[i - 1]]
    IN  [i \in 1 .. l.len |-> node[i]]

(* What the fields of a list must be to each other.                        *)
WellLinked(l) ==
    LET order == InOrder(l)
    IN  /\ \A i, j \in 1 .. l.len : order[i] \in Node /\ (order[i] = order[j] => i = j)
        /\ l.head = IF l.len = 0 THEN Null ELSE order[1]
        /\ l.tail = IF l.len = 0 THEN Null ELSE order[l.len]
        /\ l.len > 0 => l.next[l.tail] = Null /\ l.prev[l.head] = Null
        /\ \A i \in 2 .. l.len : l.prev[order[i]] = order[i - 1]
=============================================================================
