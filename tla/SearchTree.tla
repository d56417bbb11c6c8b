----------------------------- MODULE SearchTree -----------------------------
(***************************************************************************)
(* The map of kernel/map.zig, a binary search tree that is not balanced,   *)
(* as pure operators on one tree value.  A pointer to a node is the node.  *)
(* Keys are numbers and cmp is "greater than", as in every use of the map. *)
(***************************************************************************)
EXTENDS Nodes

CONSTANT Key

ASSUME KeyAssumption == Key \subseteq Int

TreeType == [root : Link, len : Nat, left : [Node -> Link], right : [Node -> Link],
             parent : [Node -> Link], key : [Node -> Key \cup {Null}]]

EmptyTree == LET none == [n \in Node |-> Null] IN
    [root |-> Null, len |-> 0, left |-> none, right |-> none, parent |-> none, key |-> none]

Child(t, n, right) == IF right THEN t.right[n] ELSE t.left[n]

(* find_parent: the node below which the key is, or would be, and on which *)
(* side of it.  The search goes left at a node with the key itself.        *)
FindParent(t, key, start) ==
    LET from[i \in Node] ==
            LET right == key > t.key[i]
                child == Child(t, i, right)
            IN  IF child = Null \/ t.key[child] = key THEN [parent |-> i, right |-> right]
                ELSE from[child]
    IN  from[start]

(* node.parent = r.parent; r.leaf.* = node;                                *)
Attached(t, r, n) ==
    [t EXCEPT !.parent[n] = r.parent,
              !.left[r.parent]  = IF r.right THEN @ ELSE n,
              !.right[r.parent] = IF r.right THEN n ELSE @]

(* insert_node, of a node whose key and empty children are set.            *)
Inserted(t, n) ==
    [(IF t.root = Null THEN [t EXCEPT !.parent[n] = Null, !.root = n]
      ELSE Attached(t, FindParent(t, t.key[n], t.root), n)) EXCEPT !.len = @ + 1]

FindNode(t, key) ==
    IF t.root = Null THEN Null
    ELSE IF t.key[t.root] = key THEN t.root
    ELSE LET r == FindParent(t, key, t.root) IN Child(t, r.parent, r.right)

IsChild(t, p, n) == p # Null /\ n \in {t.left[p], t.right[p]}

(* replace_node, with Node.replace_child.  A new root keeps the parent     *)
(* that it had.  The panic of replace_child is out of reach as long as      *)
(* Agree of MappedList holds.                                              *)
Replaced(t, current, new) ==
    IF current = t.root THEN [t EXCEPT !.root = new]
    ELSE LET p == t.parent[current]
             linked == IF t.left[p] = current THEN [t EXCEPT !.left[p] = new]
                       ELSE [t EXCEPT !.right[p] = new]
         IN  IF new = Null THEN linked ELSE [linked EXCEPT !.parent[new] = p]

RemovedTwoSlip(t, n) ==             \* what was on the right of n is forgotten
    [(IF t.left[n] = Null THEN Replaced(t, n, t.right[n])
      ELSE Replaced(t, n, t.left[n])) EXCEPT !.len = @ - 1]

(* remove_node: with two children, the left one takes the place of n and   *)
(* the right one goes below it.                                            *)
RemovedFromTree(t, n) ==
    LET left == t.left[n]
        right == t.right[n]
        without == Replaced(t, n, IF left = Null THEN right ELSE left)
    IN  [(IF left = Null \/ right = Null THEN without
          ELSE Attached(without, FindParent(without, t.key[right], left), right))
            EXCEPT !.len = @ - 1]

(* The nodes that can be reached from the root.                            *)
InTree(t) ==
    LET below[n \in Node] == {n} \cup UNION {below[c] : c \in {t.left[n], t.right[n]} \ {Null}}
    IN  IF t.root = Null THEN {} ELSE below[t.root]
=============================================================================
