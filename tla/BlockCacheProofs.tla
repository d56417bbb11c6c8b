--------------------------- MODULE BlockCacheProofs ---------------------------
(***************************************************************************)
(* Proofs about the block cache: that the list and the tree of             *)
(* kernel/mapped_list.zig never part, for any nodes and keys, that what is *)
(* cached is what is on the disk, that readers are given it, and that the  *)
(* cache as a whole is the one LruCache describes.                         *)
(*                                                                         *)
(* A list stands for the sequence of its nodes, and a tree for the sets of *)
(* the nodes below each of them.  Each operation is shown to do to the     *)
(* sequence and to the sets what it is meant to do.                        *)
(***************************************************************************)
EXTENDS BlockCache, SequenceTheorems, Induction

-----------------------------------------------------------------------------
(* The list.                                                               *)

(* The list l links the nodes of the sequence s, both ways.                *)
ListIs(l, s) ==
    /\ l \in ListType
    /\ s \in Seq(Node) /\ l.len = Len(s)
    /\ \A i, j \in 1 .. Len(s) : s[i] = s[j] => i = j
    /\ l.head = IF Len(s) = 0 THEN Null ELSE s[1]
    /\ l.tail = IF Len(s) = 0 THEN Null ELSE s[Len(s)]
    /\ \A i \in 1 .. Len(s) :
          /\ l.next[s[i]] = IF i = Len(s) THEN Null ELSE s[i + 1]
          /\ l.prev[s[i]] = IF i = 1 THEN Null ELSE s[i - 1]

LEMMA EmptyListIs == ListIs(EmptyList, <<>>)
<1>1. <<>> \in Seq(Node) /\ Len(<<>>) = 0
  OBVIOUS
<1>2. EmptyList \in ListType
  BY DEF EmptyList, ListType, Link
<1>3. QED BY <1>1, <1>2 DEF ListIs, EmptyList

(* push_front_node puts a node that is not linked in front.                *)
LEMMA PushedFrontIs ==
    ASSUME NEW l, NEW s, ListIs(l, s), NEW n \in Node, \A i \in 1 .. Len(s) : s[i] # n
    PROVE  ListIs(PushedFront(l, n), Consed(s, n))
<1> DEFINE r == PushedFront(l, n)
           t == Consed(s, n)
<1>1. /\ l \in ListType /\ s \in Seq(Node) /\ Len(s) \in Nat /\ l.len = Len(s)
      /\ \A i \in 1 .. Len(s) : s[i] \in Node
      /\ Null \notin Node
  BY NullAssumption DEF ListIs
<1>2. /\ t \in Seq(Node) /\ Len(t) = Len(s) + 1 /\ t[1] = n
      /\ \A i \in 2 .. Len(s) + 1 : t[i] = s[i - 1]
  BY <1>1, ConsedIs
<1>3. r.head = n /\ r.len = Len(t)
      /\ r.tail = (IF Len(s) = 0 THEN n ELSE l.tail)
      /\ r.next = [l.next EXCEPT ![n] = l.head]
      /\ r.prev = [m \in Node |-> IF m = n THEN Null ELSE IF m = l.head THEN n ELSE l.prev[m]]
  BY <1>1, <1>2 DEF PushedFront
<1>4. r \in ListType
  <2>1. l.head \in Link /\ l.tail \in Link /\ l.next \in [Node -> Link] /\ l.prev \in [Node -> Link]
    BY <1>1 DEF ListType
  <2>2. r.next \in [Node -> Link] /\ r.prev \in [Node -> Link]
    BY <1>3, <2>1 DEF Link
  <2>3. r.head \in Link /\ r.tail \in Link /\ r.len \in Nat
    BY <1>1, <1>2, <1>3, <2>1 DEF Link
  <2>4. r = [head |-> r.head, tail |-> r.tail, len |-> r.len, next |-> r.next, prev |-> r.prev]
    BY DEF PushedFront
  <2> HIDE DEF r
  <2>5. QED BY <2>2, <2>3, <2>4 DEF ListType
<1> HIDE DEF t, r
<1>5. \A i, j \in 1 .. Len(t) : t[i] = t[j] => i = j
  <2>1. \A i \in 2 .. Len(t) : t[i] # n /\ i - 1 \in 1 .. Len(s)
    BY <1>1, <1>2
  <2>2. \A i, j \in 1 .. Len(s) : s[i] = s[j] => i = j
    BY DEF ListIs
  <2>3. ASSUME NEW i \in 1 .. Len(t), NEW j \in 1 .. Len(t), t[i] = t[j]
        PROVE  i = j
    <3>1. CASE i = 1 \/ j = 1
      BY <1>1, <1>2, <2>1, <2>3, <3>1
    <3>2. CASE i # 1 /\ j # 1
      <4>1. i \in 2 .. Len(t) /\ j \in 2 .. Len(t)
        BY <1>1, <1>2, <3>2
      <4>2. s[i - 1] = s[j - 1]
        BY <1>2, <2>3, <4>1
      <4>3. i - 1 = j - 1
        BY <2>1, <2>2, <4>1, <4>2
      <4>4. QED BY <4>1, <4>3
    <3>3. QED BY <3>1, <3>2
  <2>4. QED BY <2>3
<1>6. r.tail = t[Len(t)]
  <2>1. CASE Len(s) = 0
    BY <1>2, <1>3, <2>1
  <2>2. CASE Len(s) # 0
    <3>1. Len(t) \in 2 .. Len(s) + 1 /\ Len(t) - 1 = Len(s)
      BY <1>1, <1>2, <2>2
    <3>2. t[Len(t)] = s[Len(t) - 1]
      BY <1>2, <3>1
    <3>3. r.tail = s[Len(s)]
      BY <1>3, <2>2 DEF ListIs
    <3>4. QED BY <3>1, <3>2, <3>3
  <2>3. QED BY <2>1, <2>2
<1>7. ASSUME NEW i \in 1 .. Len(t)
      PROVE  /\ r.next[t[i]] = IF i = Len(t) THEN Null ELSE t[i + 1]
             /\ r.prev[t[i]] = IF i = 1 THEN Null ELSE t[i - 1]
  <2>0. l.next \in [Node -> Link] /\ t[i] \in Node
    <3>1. l.next \in [Node -> Link]
      BY <1>1 DEF ListType
    <3>2. QED BY <3>1, <1>2, ElementOfSeq
  <2>1. CASE i = 1
    <3>1. r.next[n] = l.head /\ r.prev[n] = Null
      BY <1>3, <2>0
    <3>2. l.head = IF Len(t) = 1 THEN Null ELSE t[2]
      <4>1. CASE Len(s) = 0
        BY <1>2, <4>1 DEF ListIs
      <4>2. CASE Len(s) # 0
        <5>1. 2 \in 2 .. Len(s) + 1 /\ Len(t) # 1
          BY <1>1, <1>2, <4>2
        <5>2. QED BY <1>2, <4>2, <5>1 DEF ListIs
      <4>3. QED BY <4>1, <4>2
    <3>3. QED BY <1>2, <2>1, <3>1, <3>2
  <2>2. CASE i # 1
    <3> DEFINE j == i - 1
    <3>1. j \in 1 .. Len(s) /\ t[i] = s[j] /\ s[j] # n /\ i \in 2 .. Len(t)
      BY <1>1, <1>2, <2>2
    <3>2. /\ l.next[s[j]] = IF j = Len(s) THEN Null ELSE s[j + 1]
          /\ l.prev[s[j]] = IF j = 1 THEN Null ELSE s[j - 1]
      BY <3>1 DEF ListIs
    <3>3. r.next[t[i]] = l.next[s[j]]
      BY <1>3, <2>0, <3>1
    <3>4. j # Len(s) => t[i + 1] = s[j + 1] /\ i # Len(t)
      <4> SUFFICES ASSUME j # Len(s) PROVE t[i + 1] = s[j + 1] /\ i # Len(t)
        OBVIOUS
      <4>1. i + 1 \in 2 .. Len(s) + 1 /\ (i + 1) - 1 = j + 1 /\ i # Len(t)
        BY <1>1, <1>2, <3>1
      <4>2. t[i + 1] = s[(i + 1) - 1]
        BY <1>2, <4>1
      <4>3. QED BY <4>1, <4>2
    <3>5. j = Len(s) => i = Len(t)
      BY <1>2
    <3>6. r.prev[t[i]] = t[i - 1]
      <4>1. CASE j = 1
        <5>1. s[j] = l.head
          BY <1>1, <3>1, <4>1 DEF ListIs
        <5>2. QED BY <1>2, <1>3, <2>0, <3>1, <4>1, <5>1
      <4>2. CASE j # 1
        <5>1. l.head = s[1] /\ 1 \in 1 .. Len(s)
          BY <1>1, <3>1 DEF ListIs
        <5>2. s[j] # l.head
          BY <3>1, <4>2, <5>1 DEF ListIs
        <5>3. r.prev[t[i]] = l.prev[s[j]]
          BY <1>3, <2>0, <3>1, <5>2
        <5>4. t[i - 1] = s[j - 1]
          BY <1>1, <1>2, <3>1, <4>2
        <5>5. QED BY <3>2, <4>2, <5>3, <5>4
      <4>3. QED BY <4>1, <4>2
    <3>7. QED BY <2>2, <3>2, <3>3, <3>4, <3>5, <3>6
  <2>3. QED BY <2>1, <2>2
<1>8. Len(t) # 0 /\ r.head = t[1]
  BY <1>1, <1>2, <1>3
<1>9. ListIs(r, t)
  BY <1>2, <1>3, <1>4, <1>5, <1>6, <1>7, <1>8 DEF ListIs
<1>10. QED BY <1>9 DEF r, t

(* remove_node takes the k-th node out.                                    *)
LEMMA RemovedNodeIs ==
    ASSUME NEW l, NEW s, ListIs(l, s), NEW k \in 1 .. Len(s)
    PROVE  ListIs(RemovedNode(l, s[k]), Dropped(s, k))
<1> DEFINE n == s[k]
           m == Len(s)
           r == RemovedNode(l, n)
           t == Dropped(s, k)
<1>1. /\ l \in ListType /\ s \in Seq(Node) /\ m \in Nat /\ k \in 1 .. m /\ l.len = m /\ m # 0
      /\ \A i \in 1 .. m : s[i] \in Node
      /\ Null \notin Node
      /\ l.next \in [Node -> Link] /\ l.prev \in [Node -> Link]
      /\ l.head = s[1] /\ l.tail = s[m]
      /\ \A i, j \in 1 .. m : s[i] = s[j] => i = j
  BY NullAssumption DEF ListIs, ListType
<1>2. \A i \in 1 .. m : /\ l.next[s[i]] = IF i = m THEN Null ELSE s[i + 1]
                        /\ l.prev[s[i]] = IF i = 1 THEN Null ELSE s[i - 1]
  BY DEF ListIs
<1>3. /\ t \in Seq(Node) /\ Len(t) = m - 1
      /\ \A i \in 1 .. m - 1 : t[i] = IF i < k THEN s[i] ELSE s[i + 1]
  BY <1>1, DroppedIs
<1>4. /\ n \in Node
      /\ l.next[n] = IF k = m THEN Null ELSE s[k + 1]
      /\ l.prev[n] = IF k = 1 THEN Null ELSE s[k - 1]
  BY <1>1, <1>2
<1>5. /\ r.head = IF l.head = n THEN l.next[n] ELSE l.head
      /\ r.tail = IF l.tail = n THEN l.prev[n] ELSE l.tail
      /\ r.len = m - 1
      /\ r.next = IF l.prev[n] = Null THEN l.next ELSE [l.next EXCEPT ![l.prev[n]] = l.next[n]]
      /\ r.prev = IF l.next[n] = Null THEN l.prev ELSE [l.prev EXCEPT ![l.next[n]] = l.prev[n]]
  BY <1>1 DEF RemovedNode
<1>6. r \in ListType
  <2>1. l.next[n] \in Link /\ l.prev[n] \in Link
    BY <1>1, <1>4
  <2>2. l.head \in Link /\ l.tail \in Link
    BY <1>1 DEF ListType
  <2>3. r.next \in [Node -> Link] /\ r.prev \in [Node -> Link]
    <3>1. /\ \A p \in Node : [l.next EXCEPT ![p] = l.next[n]] \in [Node -> Link]
          /\ \A p \in Node : [l.prev EXCEPT ![p] = l.prev[n]] \in [Node -> Link]
      BY <1>1, <2>1
    <3>2. /\ l.next[n] # Null => l.next[n] \in Node
          /\ l.prev[n] # Null => l.prev[n] \in Node
      BY <2>1 DEF Link
    <3> HIDE DEF r
    <3>3. QED BY <1>1, <1>5, <3>1, <3>2
  <2>4. r.head \in Link /\ r.tail \in Link /\ r.len \in Nat
    BY <1>1, <1>5, <2>1, <2>2
  <2>5. r = [head |-> r.head, tail |-> r.tail, len |-> r.len, next |-> r.next, prev |-> r.prev]
    BY DEF RemovedNode
  <2> HIDE DEF r
  <2>6. QED BY <2>3, <2>4, <2>5 DEF ListType
<1>7. ASSUME NEW p \in 1 .. m, p # k
      PROVE  /\ r.next[s[p]] = IF p = k - 1 THEN l.next[n] ELSE l.next[s[p]]
             /\ r.prev[s[p]] = IF p = k + 1 THEN l.prev[n] ELSE l.prev[s[p]]
  <2> HIDE DEF r
  <2>0. s[p] \in Node
    BY <1>1
  <2>1. CASE p = k - 1
    <3>1. l.prev[n] = s[p] /\ l.prev[n] # Null
      BY <1>1, <1>4, <2>1
    <3>2. r.next[s[p]] = l.next[n]
      BY <1>1, <1>5, <2>0, <3>1
    <3>3. l.next[n] # s[p]
      <4>1. CASE k = m
        BY <1>1, <1>4, <2>0, <4>1
      <4>2. CASE k # m
        <5>1. k + 1 \in 1 .. m /\ k + 1 # p
          BY <1>1, <2>1, <4>2
        <5>2. QED BY <1>1, <1>4, <4>2, <5>1
      <4>3. QED BY <4>1, <4>2
    <3>4. r.prev[s[p]] = l.prev[s[p]]
      BY <1>1, <1>5, <2>0, <3>3
    <3>5. p # k + 1
      BY <1>1, <2>1
    <3>6. QED BY <2>1, <3>2, <3>4, <3>5
  <2>2. CASE p # k - 1
    <3>1. l.prev[n] # s[p]
      <4>1. CASE k = 1
        BY <1>1, <1>4, <2>0, <4>1
      <4>2. CASE k # 1
        <5>1. k - 1 \in 1 .. m
          BY <1>1, <4>2
        <5>2. QED BY <1>1, <1>4, <2>2, <4>2, <5>1
      <4>3. QED BY <4>1, <4>2
    <3>2. r.next[s[p]] = l.next[s[p]]
      BY <1>1, <1>5, <2>0, <3>1
    <3>3. CASE p = k + 1
      <4>1. l.next[n] = s[p] /\ l.next[n] # Null
        BY <1>1, <1>4, <2>0, <3>3
      <4>2. r.prev[s[p]] = l.prev[n]
        BY <1>1, <1>5, <2>0, <4>1
      <4>3. QED BY <2>2, <3>2, <3>3, <4>2
    <3>4. CASE p # k + 1
      <4>1. l.next[n] # s[p]
        <5>1. CASE k = m
          BY <1>1, <1>4, <2>0, <5>1
        <5>2. CASE k # m
          <6>1. k + 1 \in 1 .. m
            BY <1>1, <5>2
          <6>2. QED BY <1>1, <1>4, <3>4, <5>2, <6>1
        <5>3. QED BY <5>1, <5>2
      <4>2. r.prev[s[p]] = l.prev[s[p]]
        BY <1>1, <1>5, <2>0, <4>1
      <4>3. QED BY <2>2, <3>2, <3>4, <4>2
    <3>5. QED BY <3>3, <3>4
  <2>3. QED BY <2>1, <2>2
<1> HIDE DEF r, t
<1>8. ASSUME NEW i \in 1 .. m - 1
      PROVE  /\ r.next[t[i]] = IF i = m - 1 THEN Null ELSE t[i + 1]
             /\ r.prev[t[i]] = IF i = 1 THEN Null ELSE t[i - 1]
  <2>1. CASE i < k
    <3>1. i \in 1 .. m /\ i # k /\ i # k + 1 /\ t[i] = s[i]
      BY <1>1, <1>3, <2>1
    <3>2. r.prev[t[i]] = l.prev[s[i]]
      BY <1>7, <3>1
    <3>3. r.prev[t[i]] = IF i = 1 THEN Null ELSE t[i - 1]
      <4>1. CASE i = 1
        BY <1>2, <3>1, <3>2, <4>1
      <4>2. CASE i # 1
        <5>1. i - 1 \in 1 .. m - 1 /\ i - 1 < k
          BY <1>1, <2>1, <4>2
        <5>2. t[i - 1] = s[i - 1]
          BY <1>3, <5>1
        <5>3. QED BY <1>2, <3>1, <3>2, <4>2, <5>2
      <4>3. QED BY <4>1, <4>2
    <3>4. CASE i = k - 1
      <4>1. r.next[t[i]] = l.next[n]
        BY <1>7, <3>1, <3>4
      <4>2. i = m - 1 <=> k = m
        BY <1>1, <3>4
      <4>3. ASSUME i # m - 1 PROVE t[i + 1] = s[k + 1]
        <5>1. i + 1 \in 1 .. m - 1 /\ ~ (i + 1 < k) /\ (i + 1) + 1 = k + 1
          BY <1>1, <3>4, <4>3
        <5>2. t[i + 1] = s[(i + 1) + 1]
          BY <1>3, <5>1
        <5>3. QED BY <5>1, <5>2
      <4>4. QED BY <1>4, <3>3, <4>1, <4>2, <4>3
    <3>5. CASE i # k - 1
      <4>1. r.next[t[i]] = l.next[s[i]]
        BY <1>7, <3>1, <3>5
      <4>2. i # m /\ i # m - 1 /\ i + 1 \in 1 .. m - 1 /\ i + 1 < k
        BY <1>1, <2>1, <3>5
      <4>3. t[i + 1] = s[i + 1]
        BY <1>3, <4>2
      <4>4. QED BY <1>2, <3>1, <3>3, <4>1, <4>2, <4>3
    <3>6. QED BY <3>4, <3>5
  <2>2. CASE ~ (i < k)
    <3>1. i + 1 \in 1 .. m /\ i + 1 # k /\ i + 1 # k - 1 /\ t[i] = s[i + 1] /\ i + 1 # 1
      BY <1>1, <1>3, <2>2
    <3>2. r.next[t[i]] = l.next[s[i + 1]]
      BY <1>7, <3>1
    <3>3. l.next[s[i + 1]] = IF i + 1 = m THEN Null ELSE s[(i + 1) + 1]
      BY <1>2, <3>1
    <3>4. r.next[t[i]] = IF i = m - 1 THEN Null ELSE t[i + 1]
      <4>1. CASE i = m - 1
        BY <1>1, <3>2, <3>3, <4>1
      <4>2. CASE i # m - 1
        <5>1. i + 1 \in 1 .. m - 1 /\ ~ (i + 1 < k) /\ i + 1 # m
          BY <1>1, <2>2, <4>2
        <5>2. t[i + 1] = s[(i + 1) + 1]
          BY <1>3, <5>1
        <5>3. QED BY <3>2, <3>3, <4>2, <5>1, <5>2
      <4>3. QED BY <4>1, <4>2
    <3>5. CASE i = k
      <4>1. r.prev[t[i]] = l.prev[n]
        BY <1>7, <3>1, <3>5
      <4>2. ASSUME i # 1 PROVE t[i - 1] = s[k - 1]
        <5>1. i - 1 \in 1 .. m - 1 /\ i - 1 < k /\ i - 1 = k - 1
          BY <1>1, <3>5, <4>2
        <5>2. t[i - 1] = s[i - 1]
          BY <1>3, <5>1
        <5>3. QED BY <5>1, <5>2
      <4>3. QED BY <1>4, <3>4, <3>5, <4>1, <4>2
    <3>6. CASE i # k
      <4>1. r.prev[t[i]] = l.prev[s[i + 1]]
        BY <1>7, <3>1, <3>6
      <4>2. l.prev[s[i + 1]] = s[(i + 1) - 1] /\ (i + 1) - 1 = i
        BY <1>2, <3>1
      <4>3. i - 1 \in 1 .. m - 1 /\ ~ (i - 1 < k) /\ (i - 1) + 1 = i /\ i # 1
        BY <1>1, <2>2, <3>6
      <4>4. t[i - 1] = s[(i - 1) + 1]
        BY <1>3, <4>3
      <4>5. QED BY <3>4, <4>1, <4>2, <4>3, <4>4
    <3>7. QED BY <3>5, <3>6
  <2>3. QED BY <2>1, <2>2
<1>9. \A i, j \in 1 .. m - 1 : t[i] = t[j] => i = j
  <2>1. ASSUME NEW i \in 1 .. m - 1, NEW j \in 1 .. m - 1, t[i] = t[j]
        PROVE  i = j
    <3> DEFINE p(x) == IF x < k THEN x ELSE x + 1
    <3>1. p(i) \in 1 .. m /\ p(j) \in 1 .. m
      BY <1>1
    <3>2. t[i] = s[p(i)] /\ t[j] = s[p(j)]
      BY <1>3
    <3>3. p(i) = p(j)
      <4> HIDE DEF p
      <4>1. QED BY <1>1, <2>1, <3>1, <3>2
    <3>4. QED BY <1>1, <3>3
  <2>2. QED BY <2>1
<1>10. r.head = IF m - 1 = 0 THEN Null ELSE t[1]
  <2>1. CASE k = 1
    <3>1. r.head = l.next[n]
      BY <1>1, <1>5, <2>1
    <3>2. ASSUME m # 1 PROVE t[1] = s[2]
      <4>0. m \in Nat /\ m # 0
        BY <1>1
      <4>1. 1 \in 1 .. m - 1 /\ ~ (1 < k)
        BY <2>1, <3>2, <4>0
      <4>2. QED BY <1>3, <4>1
    <3>3. QED BY <1>1, <1>4, <2>1, <3>1, <3>2
  <2>2. CASE k # 1
    <3>1. 1 \in 1 .. m /\ s[1] # n /\ 1 < k /\ 1 \in 1 .. m - 1
      BY <1>1, <2>2
    <3>2. r.head = s[1]
      BY <1>1, <1>5, <3>1
    <3>3. QED BY <1>1, <1>3, <3>1, <3>2
  <2>3. QED BY <2>1, <2>2
<1>11. r.tail = IF m - 1 = 0 THEN Null ELSE t[m - 1]
  <2>1. CASE k = m
    <3>1. r.tail = l.prev[n]
      BY <1>1, <1>5, <2>1
    <3>2. ASSUME m # 1 PROVE t[m - 1] = s[m - 1]
      <4>1. m - 1 \in 1 .. m - 1 /\ m - 1 < k
        BY <1>1, <2>1, <3>2
      <4>2. QED BY <1>3, <4>1
    <3>3. QED BY <1>1, <1>4, <2>1, <3>1, <3>2
  <2>2. CASE k # m
    <3>1. m \in 1 .. m /\ s[m] # n /\ ~ (m - 1 < k) /\ m - 1 \in 1 .. m - 1 /\ (m - 1) + 1 = m
      BY <1>1, <2>2
    <3>2. r.tail = s[m]
      BY <1>1, <1>5, <3>1
    <3>3. t[m - 1] = s[(m - 1) + 1]
      BY <1>3, <3>1
    <3>4. QED BY <1>1, <3>1, <3>2, <3>3
  <2>3. QED BY <2>1, <2>2
<1>12. ListIs(r, t)
  BY <1>3, <1>5, <1>6, <1>8, <1>9, <1>10, <1>11 DEF ListIs
<1>13. QED BY <1>12 DEF r, t

(* A sequence with its k-th node moved to the front.                       *)
ToFront(s, k) == Consed(Dropped(s, k), s[k])

LEMMA ToFrontIs ==
    ASSUME NEW S, NEW s \in Seq(S), NEW k \in 1 .. Len(s)
    PROVE  /\ ToFront(s, k) \in Seq(S) /\ Len(ToFront(s, k)) = Len(s)
           /\ ToFront(s, k)[1] = s[k]
           /\ \A i \in 2 .. Len(s) : ToFront(s, k)[i] = IF i <= k THEN s[i - 1] ELSE s[i]
<1> DEFINE t == Dropped(s, k)
<1>1. Len(s) \in Nat /\ s[k] \in S /\ Len(s) # 0
  OBVIOUS
<1>2. /\ t \in Seq(S) /\ Len(t) = Len(s) - 1
      /\ \A i \in 1 .. Len(s) - 1 : t[i] = IF i < k THEN s[i] ELSE s[i + 1]
  BY DroppedIs
<1>3. ToFront(s, k) = Consed(t, s[k])
  BY DEF ToFront
<1> HIDE DEF t
<1>4. /\ ToFront(s, k) \in Seq(S) /\ Len(ToFront(s, k)) = Len(t) + 1
      /\ ToFront(s, k)[1] = s[k]
      /\ \A i \in 2 .. Len(t) + 1 : ToFront(s, k)[i] = t[i - 1]
  <2>1. ASSUME NEW x \in S
        PROVE  /\ Consed(t, x) \in Seq(S) /\ Len(Consed(t, x)) = Len(t) + 1
               /\ Consed(t, x)[1] = x
               /\ \A i \in 2 .. Len(t) + 1 : Consed(t, x)[i] = t[i - 1]
    <3>1. t \in Seq(S) /\ Len(t) \in Nat
      BY <1>1, <1>2
    <3>2. \A i \in 1 .. Len(t) : t[i] \in S
      BY <3>1
    <3> HIDE <1>2
    <3>3. QED BY <2>1, <3>1, <3>2 DEF Consed
  <2>2. QED BY <1>1, <1>3, <2>1
<1>5. ASSUME NEW i \in 2 .. Len(s)
      PROVE  ToFront(s, k)[i] = IF i <= k THEN s[i - 1] ELSE s[i]
  <2>0. Len(s) \in Nat
    BY <1>1
  <2>1. i - 1 \in 1 .. Len(s) - 1 /\ (i - 1) + 1 = i /\ (i - 1 < k <=> i <= k)
    BY <2>0
  <2>2. i \in 2 .. Len(t) + 1
    BY <1>1, <1>2
  <2>3. ToFront(s, k)[i] = t[i - 1]
    BY <1>4, <2>2
  <2>4. t[i - 1] = IF i - 1 < k THEN s[i - 1] ELSE s[(i - 1) + 1]
    BY <1>2, <2>1
  <2>5. QED BY <2>1, <2>3, <2>4
<1>6. QED BY <1>1, <1>2, <1>4, <1>5

(* bump_node_to_front does that, also to a node that is in front already.  *)
LEMMA BumpedToFrontIs ==
    ASSUME NEW l, NEW s, ListIs(l, s), NEW k \in 1 .. Len(s)
    PROVE  ListIs(BumpedToFront(l, s[k]), ToFront(s, k))
<1>1. /\ s \in Seq(Node) /\ Len(s) \in Nat /\ Len(s) # 0 /\ l.head = s[1]
      /\ \A i, j \in 1 .. Len(s) : s[i] = s[j] => i = j
  BY DEF ListIs
<1>2. CASE k = 1
  <2>1. BumpedToFront(l, s[k]) = l
    BY <1>1, <1>2 DEF BumpedToFront
  <2>2. /\ ToFront(s, k) \in Seq(Node) /\ Len(ToFront(s, k)) = Len(s)
        /\ ToFront(s, k)[1] = s[k]
        /\ \A i \in 2 .. Len(s) : ToFront(s, k)[i] = IF i <= k THEN s[i - 1] ELSE s[i]
    BY <1>1, ToFrontIs
  <2>3. ASSUME NEW i \in 1 .. Len(s) PROVE ToFront(s, k)[i] = s[i]
    BY <1>2, <2>2
  <2>4. ToFront(s, k) = s
    BY <1>1, <2>2, <2>3, SeqEqual
  <2>5. QED BY <2>1, <2>4
<1>3. CASE k # 1
  <2> DEFINE t == Dropped(s, k)
             r == RemovedNode(l, s[k])
  <2>1. s[k] # l.head /\ s[k] \in Node
    BY <1>1, <1>3
  <2>2. BumpedToFront(l, s[k]) = PushedFront(r, s[k])
    BY <2>1 DEF BumpedToFront
  <2>3. ListIs(r, t)
    BY RemovedNodeIs
  <2>4. /\ Len(t) = Len(s) - 1
        /\ \A i \in 1 .. Len(s) - 1 : t[i] = IF i < k THEN s[i] ELSE s[i + 1]
    BY <1>1, DroppedIs
  <2>5. ASSUME NEW i \in 1 .. Len(t) PROVE t[i] # s[k]
    <3>1. CASE i < k
      <4>1. i \in 1 .. Len(s) /\ i # k /\ t[i] = s[i]
        BY <1>1, <2>4, <3>1
      <4>2. QED BY <1>1, <4>1
    <3>2. CASE ~ (i < k)
      <4>1. i + 1 \in 1 .. Len(s) /\ i + 1 # k /\ t[i] = s[i + 1]
        BY <1>1, <2>4, <3>2
      <4>2. QED BY <1>1, <4>1
    <3>3. QED BY <3>1, <3>2
  <2> HIDE DEF t, r
  <2>6. ListIs(PushedFront(r, s[k]), Consed(t, s[k]))
    BY <2>1, <2>3, <2>5, PushedFrontIs
  <2>7. QED BY <2>2, <2>6 DEF ToFront, t
<1>4. QED BY <1>2, <1>3

(* Clearing the links of a node that is not linked changes nothing.        *)
LEMMA ClearedListIs ==
    ASSUME NEW l, NEW s, ListIs(l, s), NEW n \in Node, \A i \in 1 .. Len(s) : s[i] # n
    PROVE  ListIs([l EXCEPT !.next[n] = Null, !.prev[n] = Null], s)
<1> DEFINE r == [l EXCEPT !.next[n] = Null, !.prev[n] = Null]
<1>1. /\ l \in ListType /\ l.next \in [Node -> Link] /\ l.prev \in [Node -> Link]
      /\ s \in Seq(Node) /\ \A i \in 1 .. Len(s) : s[i] \in Node
  BY DEF ListIs, ListType
<1>2. /\ r.head = l.head /\ r.tail = l.tail /\ r.len = l.len
      /\ r.next = [l.next EXCEPT ![n] = Null] /\ r.prev = [l.prev EXCEPT ![n] = Null]
      /\ r \in ListType
  BY <1>1 DEF ListType, Link
<1> HIDE DEF r
<1>3. \A i \in 1 .. Len(s) : r.next[s[i]] = l.next[s[i]] /\ r.prev[s[i]] = l.prev[s[i]]
  BY <1>1, <1>2
<1>4. ListIs(r, s)
  BY <1>2, <1>3 DEF ListIs
<1>5. QED BY <1>4 DEF r

(* A walk from the head meets the nodes of the sequence.                   *)
LEMMA InOrderIs ==
    ASSUME NEW l, NEW s, ListIs(l, s)
    PROVE  InOrder(l) = s
<1> DEFINE n == Len(s)
           IsWalk(f) == f = [i \in 1 .. l.len |-> IF i = 1 THEN l.head ELSE l.next[f[i - 1]]]
           node == CHOOSE f : IsWalk(f)
<1>1. /\ s \in Seq(Node) /\ n \in Nat /\ l.len = n /\ s = [i \in 1 .. n |-> s[i]]
      /\ n # 0 => l.head = s[1]
      /\ \A i \in 1 .. n : l.next[s[i]] = IF i = n THEN Null ELSE s[i + 1]
  BY DEF ListIs
<1>2. IsWalk(s)
  <2>1. ASSUME NEW i \in 1 .. n
        PROVE  s[i] = IF i = 1 THEN l.head ELSE l.next[s[i - 1]]
    <3>1. CASE i = 1
      BY <1>1, <3>1
    <3>2. CASE i # 1
      <4>1. i - 1 \in 1 .. n /\ i - 1 # n /\ (i - 1) + 1 = i
        BY <1>1, <3>2
      <4>2. QED BY <1>1, <3>2, <4>1
    <3>3. QED BY <3>1, <3>2
  <2>2. [i \in 1 .. n |-> s[i]] = [i \in 1 .. n |-> IF i = 1 THEN l.head ELSE l.next[s[i - 1]]]
    BY <2>1
  <2>3. QED BY <1>1, <2>2
<1>3. IsWalk(node)
  <2> HIDE DEF IsWalk
  <2>1. QED BY <1>2
<1>4. ASSUME NEW i \in 1 .. n PROVE node[i] = IF i = 1 THEN l.head ELSE l.next[node[i - 1]]
  <2> HIDE DEF node, n
  <2>1. QED BY <1>1, <1>3
<1>5. InOrder(l) = [i \in 1 .. l.len |-> node[i]]
  BY DEF InOrder
<1> HIDE DEF node, IsWalk
<1> DEFINE Same == {m \in Nat : m \in 1 .. n => node[m] = s[m]}
<1>6. 0 \in Same
  OBVIOUS
<1>7. ASSUME NEW m \in Nat, m \in Same PROVE m + 1 \in Same
  <2>1. SUFFICES ASSUME m + 1 \in 1 .. n PROVE node[m + 1] = s[m + 1]
    OBVIOUS
  <2>2. CASE m = 0
    BY <1>1, <1>4, <2>1, <2>2
  <2>3. CASE m # 0
    <3>1. m \in 1 .. n /\ m # n /\ m + 1 # 1 /\ (m + 1) - 1 = m
      BY <1>1, <2>1, <2>3
    <3>2. node[m] = s[m]
      BY <1>7, <3>1
    <3>3. node[m + 1] = l.next[node[m]]
      BY <1>4, <2>1, <3>1
    <3>4. QED BY <1>1, <3>1, <3>2, <3>3
  <2>4. QED BY <2>2, <2>3
<1>8. \A i \in 1 .. n : node[i] = s[i]
  <2>1. Nat \subseteq Same
    <3> HIDE DEF Same
    <3>1. QED BY <1>6, <1>7, SetInduction
  <2>2. QED BY <2>1
<1>9. [i \in 1 .. n |-> node[i]] = [i \in 1 .. n |-> s[i]]
  BY <1>8
<1>10. QED BY <1>1, <1>5, <1>9

(* Such a list is well linked.                                             *)
LEMMA WellLinkedList ==
    ASSUME NEW l, NEW s, ListIs(l, s)
    PROVE  WellLinked(l)
<1>1. InOrder(l) = s
  BY InOrderIs
<1>2. /\ s \in Seq(Node) /\ Len(s) \in Nat /\ l.len = Len(s)
      /\ \A i, j \in 1 .. Len(s) : s[i] = s[j] => i = j
      /\ \A i \in 1 .. Len(s) : s[i] \in Node
  BY DEF ListIs
<1>3. l.len > 0 => l.next[l.tail] = Null /\ l.prev[l.head] = Null
  <2>1. SUFFICES ASSUME Len(s) > 0 PROVE l.next[l.tail] = Null /\ l.prev[l.head] = Null
    BY <1>2
  <2>2. 1 \in 1 .. Len(s) /\ Len(s) \in 1 .. Len(s)
    BY <1>2, <2>1
  <2>3. l.head = s[1] /\ l.tail = s[Len(s)]
    BY <2>1 DEF ListIs
  <2>4. QED BY <2>2, <2>3 DEF ListIs
<1>4. \A i \in 2 .. l.len : l.prev[s[i]] = s[i - 1]
  <2>1. \A i \in 2 .. Len(s) : i \in 1 .. Len(s) /\ i # 1
    BY <1>2
  <2>2. QED BY <1>2, <2>1 DEF ListIs
<1>5. /\ l.head = IF l.len = 0 THEN Null ELSE s[1]
      /\ l.tail = IF l.len = 0 THEN Null ELSE s[l.len]
  BY <1>2 DEF ListIs
<1>6. QED BY <1>1, <1>2, <1>3, <1>4, <1>5 DEF WellLinked

-----------------------------------------------------------------------------
(* The tree.                                                               *)

Below(sub, c) == IF c = Null THEN {} ELSE sub[c]

(* The nodes of U are trees, each of them in order: sub[n] is the set of   *)
(* the nodes that can be reached from n, itself included.                  *)
Forest(t, U, sub) ==
    /\ t \in TreeType
    /\ U \in SUBSET Node /\ IsFiniteSet(U) /\ sub \in [U -> SUBSET U]
    /\ \A n \in Node : t.left[n] \in U \cup {Null} /\ t.right[n] \in U \cup {Null}
    /\ \A n \in U :
          /\ t.key[n] \in Key
          /\ sub[n] = {n} \cup Below(sub, t.left[n]) \cup Below(sub, t.right[n])
          /\ \A x \in Below(sub, t.left[n]) : t.key[x] < t.key[n]
          /\ \A x \in Below(sub, t.right[n]) : t.key[x] > t.key[n]
          /\ t.left[n] # Null => t.parent[t.left[n]] = n
          /\ t.right[n] # Null => t.parent[t.right[n]] = n

(* They are one tree, and no other node has children.                      *)
Tree(t, U, sub) ==
    /\ Forest(t, U, sub)
    /\ IF U = {} THEN t.root = Null ELSE t.root \in U /\ sub[t.root] = U
    /\ \A n \in Node \ U : t.left[n] = Null /\ t.right[n] = Null

LEMMA ForestTypes ==
    ASSUME NEW t, NEW U, NEW sub, Forest(t, U, sub)
    PROVE  /\ t.left \in [Node -> Link] /\ t.right \in [Node -> Link]
           /\ t.parent \in [Node -> Link] /\ t.key \in [Node -> Key \cup {Null}]
           /\ t.root \in Link /\ t.len \in Nat
           /\ U \in SUBSET Node /\ IsFiniteSet(U) /\ sub \in [U -> SUBSET U]
           /\ Null \notin Node
           /\ \A n \in U : t.key[n] \in Key /\ t.key[n] \in Int /\ n \in Node /\ n # Null
  BY KeyAssumption, NullAssumption DEF Forest, TreeType

(* A child has fewer nodes below it.                                       *)
LEMMA ChildBelow ==
    ASSUME NEW t, NEW U, NEW sub, Forest(t, U, sub), NEW n \in U,
           NEW c, c = t.left[n] \/ c = t.right[n], c # Null
    PROVE  c \in U /\ c \in sub[c] /\ sub[c] \subseteq sub[n] /\ n \notin sub[c] /\ c # n
           /\ t.parent[c] = n
<1>1. n \in Node /\ \A x \in U : t.key[x] \in Int
  BY ForestTypes
<1>2. c \in U
  BY <1>1 DEF Forest
<1>3. c \in sub[c]
  BY <1>2 DEF Forest
<1>4. sub[c] \subseteq sub[n] /\ t.parent[c] = n
  BY DEF Forest, Below
<1>5. sub[c] \in SUBSET U
  BY <1>2 DEF Forest
<1>6. n \notin sub[c]
  <2>1. \A x \in sub[c] : t.key[x] < t.key[n] \/ t.key[x] > t.key[n]
    BY DEF Forest, Below
  <2>2. QED BY <1>1, <2>1
<1>7. QED BY <1>2, <1>3, <1>4, <1>6

(* Who is below a node is the node, or is below one of its children, and   *)
(* its key says which.                                                     *)
LEMMA BelowNode ==
    ASSUME NEW t, NEW U, NEW sub, Forest(t, U, sub), NEW n \in U, NEW x \in sub[n], x # n
    PROVE  /\ x \in U
           /\ \/ t.left[n] # Null /\ x \in sub[t.left[n]] /\ t.key[x] < t.key[n]
              \/ t.right[n] # Null /\ x \in sub[t.right[n]] /\ t.key[x] > t.key[n]
<1>1. x \in U
  BY DEF Forest
<1>2. x \in Below(sub, t.left[n]) \/ x \in Below(sub, t.right[n])
  BY DEF Forest
<1>3. /\ \A y \in Below(sub, t.left[n]) : t.key[y] < t.key[n]
      /\ \A y \in Below(sub, t.right[n]) : t.key[y] > t.key[n]
  BY DEF Forest
<1>4. QED BY <1>1, <1>2, <1>3 DEF Below

(* What holds of a node when it holds of its children holds of all nodes.  *)
LEMMA TreeInduction ==
    ASSUME NEW t, NEW U, NEW sub, Forest(t, U, sub), NEW S,
           \A n \in U : /\ t.left[n] # Null => t.left[n] \in S
                        /\ t.right[n] # Null => t.right[n] \in S
                        => n \in S
    PROVE  U \subseteq S
<1> DEFINE size(n) == Cardinality(sub[n])
           Done == {k \in Nat : \A n \in U : size(n) <= k => n \in S}
<1>1. \A n \in U : sub[n] \in SUBSET U /\ n \in sub[n]
  BY DEF Forest
<1>2. \A n \in U : IsFiniteSet(sub[n]) /\ size(n) \in Nat
  <2>1. IsFiniteSet(U)
    BY DEF Forest
  <2>2. QED BY <1>1, <2>1, FS_Subset, FS_CardinalityType
<1>3. ASSUME NEW n \in U, NEW c, c = t.left[n] \/ c = t.right[n], c # Null
      PROVE  c \in U /\ size(c) < size(n)
  <2>1. c \in U /\ sub[c] \subseteq sub[n] /\ n \notin sub[c]
    BY <1>3, ChildBelow
  <2>2. sub[c] # sub[n]
    BY <1>1, <2>1
  <2>3. Cardinality(sub[c]) < Cardinality(sub[n])
    BY <1>2, <2>1, <2>2, FS_Subset
  <2>4. QED BY <2>1, <2>3
<1>4. 0 \in Done
  <2>1. ASSUME NEW n \in U, size(n) <= 0 PROVE FALSE
    <3>1. sub[n] = {}
      BY <1>2, <2>1, FS_EmptySet
    <3>2. QED BY <1>1, <3>1
  <2>2. QED BY <2>1
<1>5. ASSUME NEW k \in Nat, k \in Done PROVE k + 1 \in Done
  <2>1. ASSUME NEW n \in U, size(n) <= k + 1 PROVE n \in S
    <3>1. ASSUME NEW c, c = t.left[n] \/ c = t.right[n], c # Null
          PROVE  c \in S
      <4>1. c \in U /\ size(c) < size(n)
        BY <1>3, <3>1
      <4>2. size(c) \in Nat /\ size(n) \in Nat
        BY <1>2, <4>1
      <4> HIDE DEF size
      <4>3. size(c) <= k
        BY <2>1, <4>1, <4>2
      <4>4. QED BY <1>5, <4>1, <4>3
    <3>2. QED BY <3>1
  <2>2. QED BY <2>1
<1>6. ASSUME NEW n \in U PROVE n \in S
  <2>1. Nat \subseteq Done
    <3> HIDE DEF Done
    <3>1. QED BY <1>4, <1>5, SetInduction
  <2>2. size(n) \in Nat /\ size(n) <= size(n)
    BY <1>2
  <2> HIDE DEF size
  <2>3. QED BY <2>1, <2>2
<1>7. QED BY <1>6

(* What is below a node that is below x is below x, and x is not below it. *)
LEMMA Nested ==
    ASSUME NEW t, NEW U, NEW sub, Forest(t, U, sub), NEW x \in U, NEW y \in sub[x]
    PROVE  y \in U /\ sub[y] \subseteq sub[x] /\ (y # x => x \notin sub[y])
<1> DEFINE S == {n \in U : \A z \in sub[n] : sub[z] \subseteq sub[n] /\ (z # n => n \notin sub[z])}
<1>1. ASSUME NEW n \in U,
             t.left[n] # Null => t.left[n] \in S,
             t.right[n] # Null => t.right[n] \in S
      PROVE  n \in S
  <2>1. ASSUME NEW z \in sub[n], z # n
        PROVE  sub[z] \subseteq sub[n] /\ n \notin sub[z]
    <3>1. PICK c : c # Null /\ (c = t.left[n] \/ c = t.right[n]) /\ z \in sub[c]
      BY <2>1, BelowNode
    <3>2. c \in S
      BY <1>1, <3>1
    <3>3. sub[z] \subseteq sub[c]
      BY <3>1, <3>2
    <3>4. sub[c] \subseteq sub[n] /\ n \notin sub[c]
      BY <3>1, ChildBelow
    <3>5. QED BY <3>3, <3>4
  <2>2. QED BY <2>1
<1>2. U \subseteq S
  <2> HIDE DEF S
  <2>1. QED BY <1>1, TreeInduction
<1>3. y \in U
  BY DEF Forest
<1>4. QED BY <1>2, <1>3

(* Who is below another node is the child of its parent, which is below    *)
(* that node as well.                                                      *)
LEMMA ParentBelow ==
    ASSUME NEW t, NEW U, NEW sub, Forest(t, U, sub), NEW x \in U, NEW y \in sub[x], y # x
    PROVE  /\ t.parent[y] \in sub[x] /\ t.parent[y] \in U
           /\ y = t.left[t.parent[y]] \/ y = t.right[t.parent[y]]
<1> DEFINE S == {n \in U : \A z \in sub[n] : z # n =>
                    /\ t.parent[z] \in sub[n]
                    /\ z = t.left[t.parent[z]] \/ z = t.right[t.parent[z]]}
<1>1. ASSUME NEW n \in U,
             t.left[n] # Null => t.left[n] \in S,
             t.right[n] # Null => t.right[n] \in S
      PROVE  n \in S
  <2>1. ASSUME NEW z \in sub[n], z # n
        PROVE  /\ t.parent[z] \in sub[n]
               /\ z = t.left[t.parent[z]] \/ z = t.right[t.parent[z]]
    <3>1. PICK c : c # Null /\ (c = t.left[n] \/ c = t.right[n]) /\ z \in sub[c]
      BY <2>1, BelowNode
    <3>2. c \in S
      BY <1>1, <3>1
    <3>3. sub[c] \subseteq sub[n] /\ t.parent[c] = n /\ n \in sub[n]
      <4>1. n \in sub[n]
        BY DEF Forest
      <4>2. QED BY <3>1, <4>1, ChildBelow
    <3>4. CASE z = c
      BY <3>1, <3>3, <3>4
    <3>5. CASE z # c
      <4>1. /\ t.parent[z] \in sub[c]
            /\ z = t.left[t.parent[z]] \/ z = t.right[t.parent[z]]
        BY <3>1, <3>2, <3>5
      <4>2. QED BY <3>3, <4>1
    <3>6. QED BY <3>4, <3>5
  <2>2. QED BY <2>1
<1>2. U \subseteq S
  <2> HIDE DEF S
  <2>1. QED BY <1>1, TreeInduction
<1>3. sub[x] \in SUBSET U
  BY DEF Forest
<1>4. QED BY <1>2, <1>3

(* Of two nodes with a common node below them, one is below the other.     *)
LEMMA Laminar ==
    ASSUME NEW t, NEW U, NEW sub, Forest(t, U, sub), NEW x \in U, NEW y \in U,
           NEW p \in sub[x], p \in sub[y]
    PROVE  x \in sub[y] \/ y \in sub[x]
<1> DEFINE S == {n \in U : p \in sub[n] => n \in sub[y] \/ y \in sub[n]}
<1>1. ASSUME NEW n \in U,
             t.left[n] # Null => t.left[n] \in S,
             t.right[n] # Null => t.right[n] \in S
      PROVE  n \in S
  <2> SUFFICES ASSUME p \in sub[n], p # n PROVE n \in sub[y] \/ y \in sub[n]
    OBVIOUS
  <2>1. PICK c : c # Null /\ (c = t.left[n] \/ c = t.right[n]) /\ p \in sub[c]
    BY BelowNode
  <2>2. c \in S
    BY <1>1, <2>1
  <2>3. sub[c] \subseteq sub[n] /\ t.parent[c] = n /\ c \in sub[c]
    BY <2>1, ChildBelow
  <2>4. c \in sub[y] \/ y \in sub[c]
    BY <2>1, <2>2
  <2>5. CASE c \in sub[y] /\ c # y
    <3>1. t.parent[c] \in sub[y]
      BY <2>5, ParentBelow
    <3>2. QED BY <2>3, <3>1
  <2>6. QED BY <2>3, <2>4, <2>5
<1>2. U \subseteq S
  <2> HIDE DEF S
  <2>1. QED BY <1>1, TreeInduction
<1>3. QED BY <1>2


(* The search for a key.  It goes on to the child on the side of the key   *)
(* and stops where there is none, or the child has the key.                *)
SideChild(t, k, y) == Child(t, y, k > t.key[y])
Stops(t, k, y) == SideChild(t, k, y) = Null \/ t.key[SideChild(t, k, y)] = k

(* The search from i ends at p: it passes the nodes above p, each to the   *)
(* side that p is on.                                                      *)
EndsAt(t, sub, k, i, p) ==
    /\ p \in sub[i] /\ Stops(t, k, p)
    /\ \A y \in sub[i] : p \in sub[y] /\ y # p =>
          ~Stops(t, k, y) /\ p \in sub[SideChild(t, k, y)]

LEMMA SideChildIs ==
    ASSUME NEW t, NEW U, NEW sub, Forest(t, U, sub), NEW k, NEW i \in Node, ~Stops(t, k, i)
    PROVE  /\ SideChild(t, k, i) \in U /\ SideChild(t, k, i) # Null
           /\ SideChild(t, k, i) = t.left[i] \/ SideChild(t, k, i) = t.right[i]
<1>1. SideChild(t, k, i) = t.left[i] \/ SideChild(t, k, i) = t.right[i]
  BY DEF SideChild, Child
<1>2. SideChild(t, k, i) # Null
  BY DEF Stops
<1>3. t.left[i] \in U \cup {Null} /\ t.right[i] \in U \cup {Null}
  BY DEF Forest
<1> HIDE DEF SideChild
<1>4. QED BY <1>1, <1>2, <1>3

LEMMA EndsHere ==
    ASSUME NEW t, NEW U, NEW sub, Forest(t, U, sub), NEW k, NEW i \in U, Stops(t, k, i), NEW p
    PROVE  EndsAt(t, sub, k, i, p) <=> p = i
<1>1. i \in sub[i]
  BY DEF Forest
<1>2. ASSUME NEW y \in sub[i], i \in sub[y], y # i PROVE FALSE
  BY <1>2, Nested
<1>3. p = i => EndsAt(t, sub, k, i, p)
  BY <1>1, <1>2 DEF EndsAt
<1>4. EndsAt(t, sub, k, i, p) => p = i
  BY <1>1 DEF EndsAt
<1>5. QED BY <1>3, <1>4

LEMMA EndsBelow ==
    ASSUME NEW t, NEW U, NEW sub, Forest(t, U, sub), NEW k, NEW i \in U, ~Stops(t, k, i), NEW p
    PROVE  EndsAt(t, sub, k, i, p) <=> EndsAt(t, sub, k, SideChild(t, k, i), p)
<1> DEFINE c == SideChild(t, k, i)
<1>1. i \in Node /\ i \in sub[i] /\ \A x \in U : t.key[x] \in Int
  BY ForestTypes DEF Forest
<1>2. c \in U /\ c # Null /\ (c = t.left[i] \/ c = t.right[i])
  BY <1>1, SideChildIs
<1> HIDE DEF c
<1>3. sub[c] \subseteq sub[i] /\ i \notin sub[c] /\ sub[c] \subseteq U
  BY <1>2, ChildBelow DEF Forest
<1>4. ASSUME EndsAt(t, sub, k, i, p) PROVE EndsAt(t, sub, k, c, p)
  <2>1. p # i /\ p \in sub[i]
    BY <1>4 DEF EndsAt
  <2>2. p \in sub[c]
    BY <1>1, <1>4, <2>1 DEF EndsAt, c
  <2>3. QED BY <1>3, <1>4, <2>2 DEF EndsAt
<1>5. ASSUME EndsAt(t, sub, k, c, p) PROVE EndsAt(t, sub, k, i, p)
  <2>1. p \in sub[c] /\ Stops(t, k, p) /\ p \in U
    BY <1>3, <1>5 DEF EndsAt
  <2>2. ASSUME NEW y \in sub[i], p \in sub[y], y # p
        PROVE  ~Stops(t, k, y) /\ p \in sub[SideChild(t, k, y)]
    <3>1. CASE y = i
      BY <2>1, <3>1 DEF c
    <3>2. CASE y \in sub[c]
      BY <1>5, <2>2, <3>2 DEF EndsAt
    <3>3. CASE y # i /\ y \notin sub[c]
      <4>1. PICK d : /\ d # Null /\ y \in sub[d]
                     /\ d = t.left[i] \/ d = t.right[i]
        BY <3>3, BelowNode
      <4>2. d # c /\ y \in U
        BY <3>3, <4>1, Nested
      <4>3. sub[y] \subseteq sub[d]
        <5>1. d \in U
          BY <4>1, ChildBelow
        <5>2. QED BY <4>1, <5>1, Nested
      <4>4. p \in sub[d]
        BY <2>2, <4>3
      <4>5. /\ \A x \in Below(sub, t.left[i]) : t.key[x] < t.key[i]
            /\ \A x \in Below(sub, t.right[i]) : t.key[x] > t.key[i]
        BY DEF Forest
      <4>6. t.key[p] < t.key[i] /\ t.key[p] > t.key[i]
        BY <1>2, <2>1, <4>1, <4>2, <4>4, <4>5 DEF Below
      <4>7. QED BY <1>1, <2>1, <4>6
    <3>4. QED BY <3>1, <3>2, <3>3
  <2>3. QED BY <1>3, <2>1, <2>2 DEF EndsAt
<1>6. QED BY <1>4, <1>5 DEF c

LEMMA EndsOnce ==
    ASSUME NEW t, NEW U, NEW sub, Forest(t, U, sub), NEW k, NEW start \in U
    PROVE  \E p \in U : EndsAt(t, sub, k, start, p) /\ \A q : EndsAt(t, sub, k, start, q) => q = p
<1> DEFINE S == {n \in U : \E p \in U : EndsAt(t, sub, k, n, p)
                                          /\ \A q : EndsAt(t, sub, k, n, q) => q = p}
<1>1. ASSUME NEW n \in U,
             t.left[n] # Null => t.left[n] \in S,
             t.right[n] # Null => t.right[n] \in S
      PROVE  n \in S
  <2>1. CASE Stops(t, k, n)
    BY <2>1, EndsHere
  <2>2. CASE ~Stops(t, k, n)
    <3> DEFINE c == SideChild(t, k, n)
    <3>1. c # Null /\ (c = t.left[n] \/ c = t.right[n])
      BY <2>2, ForestTypes, SideChildIs
    <3>2. c \in S
      <4> HIDE DEF S, c
      <4>1. QED BY <1>1, <3>1
    <3>3. \A p : EndsAt(t, sub, k, n, p) <=> EndsAt(t, sub, k, c, p)
      BY <2>2, EndsBelow
    <3>4. PICK p \in U : EndsAt(t, sub, k, c, p) /\ \A q : EndsAt(t, sub, k, c, q) => q = p
      BY <3>2
    <3> HIDE DEF c
    <3>5. EndsAt(t, sub, k, n, p) /\ \A q : EndsAt(t, sub, k, n, q) => q = p
      BY <3>3, <3>4
    <3>6. QED BY <3>5
  <2>3. QED BY <2>1, <2>2
<1>2. U \subseteq S
  <2> HIDE DEF S
  <2>1. QED BY <1>1, TreeInduction
<1>3. QED BY <1>2

(* find_parent gives the node where the search ends, and the side.         *)
LEMMA FindParentIs ==
    ASSUME NEW t, NEW U, NEW sub, Forest(t, U, sub), NEW k, NEW start \in U
    PROVE  \E p \in U : /\ EndsAt(t, sub, k, start, p)
                        /\ FindParent(t, k, start) = [parent |-> p, right |-> k > t.key[p]]
<1> DEFINE IsFrom(f) ==
               f = [i \in Node |->
                       IF SideChild(t, k, i) = Null \/ t.key[SideChild(t, k, i)] = k
                       THEN [parent |-> i, right |-> k > t.key[i]]
                       ELSE f[SideChild(t, k, i)]]
           from == CHOOSE f : IsFrom(f)
           End(i) == CHOOSE p \in U : EndsAt(t, sub, k, i, p)
           R(p) == [parent |-> p, right |-> k > t.key[p]]
           g == [i \in Node |-> IF i \in U THEN R(End(i))
                                ELSE IF Stops(t, k, i) THEN R(i) ELSE R(End(SideChild(t, k, i)))]
<1>1. U \subseteq Node
  BY DEF Forest
<1>2. ASSUME NEW i \in U
      PROVE  /\ End(i) \in U /\ EndsAt(t, sub, k, i, End(i))
             /\ \A q : EndsAt(t, sub, k, i, q) => q = End(i)
  BY EndsOnce
<1> HIDE DEF End
<1>3. ASSUME NEW i \in U PROVE Stops(t, k, i) => End(i) = i
  BY <1>2, EndsHere
<1>4. ASSUME NEW i \in U, ~Stops(t, k, i)
      PROVE  SideChild(t, k, i) \in U /\ End(i) = End(SideChild(t, k, i))
  <2>1. SideChild(t, k, i) \in U
    BY <1>1, <1>4, SideChildIs
  <2>2. EndsAt(t, sub, k, SideChild(t, k, i), End(i))
    BY <1>2, <1>4, EndsBelow
  <2>3. QED BY <1>2, <2>1, <2>2
<1> HIDE DEF R
<1>5. ASSUME NEW i \in Node
      PROVE  g[i] = IF Stops(t, k, i) THEN R(i) ELSE g[SideChild(t, k, i)]
  <2>1. CASE i \in U
    BY <1>1, <1>3, <1>4, <2>1
  <2>2. CASE i \notin U
    <3>1. ~Stops(t, k, i) => SideChild(t, k, i) \in U
      BY SideChildIs
    <3>2. QED BY <1>1, <2>2, <3>1
  <2>3. QED BY <2>1, <2>2
<1>6. IsFrom(g)
  <2>1. \A i \in Node : g[i] = IF SideChild(t, k, i) = Null \/ t.key[SideChild(t, k, i)] = k
                               THEN [parent |-> i, right |-> k > t.key[i]]
                               ELSE g[SideChild(t, k, i)]
    <3> HIDE DEF g
    <3>1. QED BY <1>5 DEF Stops, R
  <2>2. g = [i \in Node |-> g[i]]
    OBVIOUS
  <2> HIDE DEF g
  <2>3. [i \in Node |-> g[i]]
            = [i \in Node |-> IF SideChild(t, k, i) = Null \/ t.key[SideChild(t, k, i)] = k
                              THEN [parent |-> i, right |-> k > t.key[i]]
                              ELSE g[SideChild(t, k, i)]]
    BY <2>1
  <2>4. QED BY <2>2, <2>3
<1>7. IsFrom(from)
  <2> HIDE DEF IsFrom
  <2>1. QED BY <1>6
<1>8. FindParent(t, k, start) = from[start]
  BY DEF FindParent, SideChild
<1>9. \A i \in Node : from[i] = IF Stops(t, k, i) THEN R(i) ELSE from[SideChild(t, k, i)]
  <2> HIDE DEF from
  <2>1. QED BY <1>7 DEF Stops, R
<1> HIDE DEF from, g, IsFrom
<1> DEFINE S == {n \in U : from[n] = R(End(n))}
<1>10. ASSUME NEW n \in U,
             t.left[n] # Null => t.left[n] \in S,
             t.right[n] # Null => t.right[n] \in S
      PROVE  n \in S
  <2>1. CASE Stops(t, k, n)
    BY <1>1, <1>3, <1>9, <2>1
  <2>2. CASE ~Stops(t, k, n)
    <3>1. SideChild(t, k, n) \in S
      <4> HIDE DEF S
      <4>1. QED BY <1>1, <1>10, <2>2, SideChildIs
    <3>2. QED BY <1>1, <1>4, <1>9, <2>2, <3>1
  <2>3. QED BY <2>1, <2>2
<1>11. U \subseteq S
  <2> HIDE DEF S
  <2>1. QED BY <1>10, TreeInduction
<1>12. QED BY <1>2, <1>8, <1>11 DEF R

(* get finds the node with the key, and no other.                          *)
LEMMA FindNodeIs ==
    ASSUME NEW t, NEW U, NEW sub, Tree(t, U, sub), NEW k
    PROVE  /\ FindNode(t, k) = Null \/ (FindNode(t, k) \in U /\ t.key[FindNode(t, k)] = k)
           /\ \A n \in U : t.key[n] = k => FindNode(t, k) = n
<1>1. Forest(t, U, sub) /\ U \subseteq Node /\ Null \notin Node
  BY ForestTypes DEF Tree
<1>2. CASE U = {}
  BY <1>2 DEF Tree, FindNode
<1>3. CASE U # {}
  <2> DEFINE root == t.root
  <2>1. root \in U /\ sub[root] = U /\ root # Null
    BY <1>1, <1>3 DEF Tree
  <2>2. CASE t.key[root] = k
    <3>1. FindNode(t, k) = root
      BY <2>1, <2>2 DEF FindNode
    <3>2. ASSUME NEW n \in U, t.key[n] = k, n # root PROVE FALSE
      <4>1. t.key[n] < t.key[root] \/ t.key[n] > t.key[root]
        BY <1>1, <2>1, <3>2, BelowNode
      <4>2. t.key[root] \in Int
        BY <1>1, <2>1, ForestTypes
      <4>3. QED BY <2>2, <3>2, <4>1, <4>2
    <3>3. QED BY <2>1, <2>2, <3>1, <3>2
  <2>3. CASE t.key[root] # k
    <3>1. PICK p \in U : /\ EndsAt(t, sub, k, root, p)
                         /\ FindParent(t, k, root) = [parent |-> p, right |-> k > t.key[p]]
      BY <1>1, <2>1, FindParentIs
    <3>2. FindNode(t, k) = SideChild(t, k, p)
      BY <2>1, <2>3, <3>1 DEF FindNode, SideChild
    <3>3. FindNode(t, k) = Null \/ (FindNode(t, k) \in U /\ t.key[FindNode(t, k)] = k)
      <4>1. SideChild(t, k, p) = Null \/ t.key[SideChild(t, k, p)] = k
        BY <3>1 DEF EndsAt, Stops
      <4>2. SideChild(t, k, p) \in U \cup {Null}
        BY <1>1 DEF SideChild, Child, Forest
      <4>3. QED BY <3>2, <4>1, <4>2
    <3>4. ASSUME NEW n \in U, t.key[n] = k PROVE FindNode(t, k) = n
      <4> DEFINE q == t.parent[n]
      <4>1. n # root /\ n \in sub[root]
        BY <2>1, <2>3, <3>4
      <4>2. q \in U /\ (n = t.left[q] \/ n = t.right[q]) /\ n # Null
        BY <1>1, <2>1, <4>1, ParentBelow
      <4> HIDE DEF q
      <4>3. n \in sub[n] /\ sub[n] \subseteq sub[q] /\ q \notin sub[n] /\ n # q
        BY <1>1, <4>2, ChildBelow
      <4>4. t.key[q] \in Int /\ k \in Int
        BY <1>1, <3>4, <4>2, ForestTypes
      <4>5. SideChild(t, k, q) = n
        <5>1. /\ n = t.left[q] => k < t.key[q]
              /\ n = t.right[q] => k > t.key[q]
          BY <1>1, <3>4, <4>2, <4>3 DEF Forest, Below
        <5>2. QED BY <4>2, <4>4, <5>1 DEF SideChild, Child
      <4>6. Stops(t, k, q)
        BY <3>4, <4>5 DEF Stops
      <4>7. ASSUME NEW y \in U, q \in sub[y], y # q
            PROVE  ~Stops(t, k, y) /\ q \in sub[SideChild(t, k, y)]
        <5>1. PICK d : d # Null /\ (d = t.left[y] \/ d = t.right[y]) /\ q \in sub[d]
          BY <1>1, <4>7, BelowNode
        <5>2. d \in U /\ t.key[y] \in Int /\ t.key[d] \in Int
          BY <1>1, <5>1, ChildBelow, ForestTypes
        <5>3. n \in sub[d]
          BY <1>1, <4>3, <5>1, <5>2, Nested
        <5>4. SideChild(t, k, y) = d
          <6>1. /\ d = t.left[y] => k < t.key[y]
                /\ d = t.right[y] => k > t.key[y]
            BY <1>1, <3>4, <5>1, <5>3 DEF Forest, Below
          <6>2. QED BY <4>4, <5>1, <5>2, <6>1 DEF SideChild, Child
        <5>5. n # d
          BY <4>3, <5>1
        <5>6. t.key[n] < t.key[d] \/ t.key[n] > t.key[d]
          BY <1>1, <5>2, <5>3, <5>5, BelowNode
        <5>7. QED BY <3>4, <4>4, <5>1, <5>2, <5>4, <5>6 DEF Stops
      <4>8. EndsAt(t, sub, k, root, q)
        BY <2>1, <4>2, <4>6, <4>7 DEF EndsAt
      <4>9. q = p
        BY <1>1, <2>1, <3>1, <4>8, EndsOnce
      <4>10. QED BY <3>2, <4>5, <4>9
    <3>5. QED BY <3>3, <3>4
  <2>4. QED BY <2>2, <2>3
<1>4. QED BY <1>2, <1>3

LEMMA AttachedFields ==
    ASSUME NEW t \in TreeType, NEW p \in Node, NEW n \in Node, NEW b \in BOOLEAN
    PROVE  LET a == Attached(t, [parent |-> p, right |-> b], n)
           IN  /\ a \in TreeType
               /\ a.root = t.root /\ a.len = t.len /\ a.key = t.key
               /\ a.parent = [t.parent EXCEPT ![n] = p]
               /\ a.left = IF b THEN t.left ELSE [t.left EXCEPT ![p] = n]
               /\ a.right = IF b THEN [t.right EXCEPT ![p] = n] ELSE t.right
<1> DEFINE a == Attached(t, [parent |-> p, right |-> b], n)
<1>1. /\ t.left \in [Node -> Link] /\ t.right \in [Node -> Link] /\ t.parent \in [Node -> Link]
      /\ t.root \in Link /\ t.len \in Nat /\ t.key \in [Node -> Key \cup {Null}]
      /\ n \in Link /\ p \in Link
  BY DEF TreeType, Link
<1>2. /\ a.root = t.root /\ a.len = t.len /\ a.key = t.key
      /\ a.parent = [t.parent EXCEPT ![n] = p]
      /\ a.left = [t.left EXCEPT ![p] = IF b THEN t.left[p] ELSE n]
      /\ a.right = [t.right EXCEPT ![p] = IF b THEN n ELSE t.right[p]]
      /\ a = [root |-> a.root, len |-> a.len, left |-> a.left, right |-> a.right,
              parent |-> a.parent, key |-> a.key]
  <2> DEFINE left == [t.left EXCEPT ![p] = IF b THEN t.left[p] ELSE n]
             right == [t.right EXCEPT ![p] = IF b THEN n ELSE t.right[p]]
             parent == [t.parent EXCEPT ![n] = p]
  <2>1. a = [t EXCEPT !.parent = parent, !.left = left, !.right = right]
    BY DEF Attached
  <2>2. t = [root |-> t.root, len |-> t.len, left |-> t.left, right |-> t.right,
             parent |-> t.parent, key |-> t.key]
    BY DEF TreeType
  <2> HIDE DEF left, right, parent, a
  <2>3. a = [root |-> t.root, len |-> t.len, left |-> left, right |-> right,
             parent |-> parent, key |-> t.key]
    BY <2>1, <2>2
  <2>4. QED BY <2>3 DEF left, right, parent
<1> HIDE DEF a
<1>3. /\ a.left = IF b THEN t.left ELSE [t.left EXCEPT ![p] = n]
      /\ a.right = IF b THEN [t.right EXCEPT ![p] = n] ELSE t.right
  BY <1>1, <1>2
<1>4. a.left \in [Node -> Link] /\ a.right \in [Node -> Link] /\ a.parent \in [Node -> Link]
  BY <1>1, <1>2
<1>5. a \in TreeType
  BY <1>1, <1>2, <1>4 DEF TreeType
<1>6. QED BY <1>2, <1>3, <1>5 DEF a

(* The sets of the nodes below each, when n with those below it goes       *)
(* below p.                                                                *)
Joined(U, sub, p, n) == [y \in U |-> IF p \in sub[y] THEN sub[y] \cup sub[n] ELSE sub[y]]

(* The nodes below n, which has no parent, may go below start: they are on *)
(* the same side as n of all that is below start, and on the side on which *)
(* start is of all that is above.                                          *)
MayAttach(t, U, sub, start, n) ==
    /\ Forest(t, U, sub) /\ start \in U /\ n \in U
    /\ \A m \in U : t.left[m] # n /\ t.right[m] # n
    /\ sub[n] \cap sub[start] = {}
    /\ \A y \in sub[start] : t.key[y] # t.key[n]
    /\ \A y \in sub[start], x \in sub[n] :
          t.key[x] # t.key[y] /\ (t.key[x] > t.key[y] <=> t.key[n] > t.key[y])
    /\ \A y \in U, x \in sub[n] :
          /\ start \in Below(sub, t.left[y]) => t.key[x] < t.key[y]
          /\ start \in Below(sub, t.right[y]) => t.key[x] > t.key[y]

(* a is the forest with n and those below it below p.                      *)
JoinedAt(a, t, U, sub, p, n) ==
    /\ Forest(a, U, Joined(U, sub, p, n))
    /\ a.root = t.root /\ a.len = t.len /\ a.key = t.key
    /\ \A m \in Node : m # p => a.left[m] = t.left[m] /\ a.right[m] = t.right[m]

(* A tree that is put where the search for its key ends is on the side it  *)
(* should be of every node above it.                                       *)
LEMMA AttachedIs ==
    ASSUME NEW t, NEW U, NEW sub, NEW start, NEW n, MayAttach(t, U, sub, start, n)
    PROVE  \E p \in sub[start] :
               JoinedAt(Attached(t, FindParent(t, t.key[n], start), n), t, U, sub, p, n)
<1>0. /\ Forest(t, U, sub) /\ start \in U /\ n \in U
      /\ \A m \in U : t.left[m] # n /\ t.right[m] # n
      /\ sub[n] \cap sub[start] = {}
      /\ \A y \in sub[start] : t.key[y] # t.key[n]
      /\ \A y \in sub[start], x \in sub[n] :
            t.key[x] # t.key[y] /\ (t.key[x] > t.key[y] <=> t.key[n] > t.key[y])
      /\ \A y \in U, x \in sub[n] :
            /\ start \in Below(sub, t.left[y]) => t.key[x] < t.key[y]
            /\ start \in Below(sub, t.right[y]) => t.key[x] > t.key[y]
  BY DEF MayAttach
<1> USE <1>0
<1> DEFINE k == t.key[n]
<1>1. PICK p \in U : /\ EndsAt(t, sub, k, start, p)
                     /\ FindParent(t, k, start) = [parent |-> p, right |-> k > t.key[p]]
  BY FindParentIs
<1> DEFINE b == k > t.key[p]
           a == Attached(t, FindParent(t, k, start), n)
           sub2 == Joined(U, sub, p, n)
<1>2. /\ t \in TreeType /\ U \in SUBSET Node /\ IsFiniteSet(U) /\ sub \in [U -> SUBSET U]
      /\ Null \notin Node /\ t.left \in [Node -> Link] /\ t.right \in [Node -> Link]
      /\ t.parent \in [Node -> Link]
      /\ \A y \in U : y \in Node /\ y # Null /\ t.key[y] \in Int /\ t.key[y] \in Key
  BY ForestTypes DEF Forest
<1>3. /\ a \in TreeType
      /\ a.root = t.root /\ a.len = t.len /\ a.key = t.key
      /\ a.parent = [t.parent EXCEPT ![n] = p]
      /\ a.left = IF b THEN t.left ELSE [t.left EXCEPT ![p] = n]
      /\ a.right = IF b THEN [t.right EXCEPT ![p] = n] ELSE t.right
  <2>1. p \in Node /\ n \in Node /\ b \in BOOLEAN
    BY <1>2
  <2>2. t \in TreeType
    BY <1>2
  <2> HIDE DEF k, b
  <2>3. a = Attached(t, [parent |-> p, right |-> b], n)
    BY <1>1 DEF b
  <2> HIDE DEF a
  <2>4. QED BY ONLY <2>1, <2>2, <2>3, AttachedFields
<1>4. p \in sub[start] /\ p \notin sub[n] /\ p \in sub[p] /\ n \in sub[n] /\ p # n
  <2>1. p \in sub[start]
    BY <1>1 DEF EndsAt
  <2>2. p \in sub[p] /\ n \in sub[n]
    BY DEF Forest
  <2>3. QED BY <2>1, <2>2
<1>5. SideChild(t, k, p) = Null
  <2>1. SUFFICES ASSUME SideChild(t, k, p) # Null PROVE FALSE
    OBVIOUS
  <2>2. t.key[SideChild(t, k, p)] = k
    BY <1>1, <2>1 DEF EndsAt, Stops
  <2>3. SideChild(t, k, p) = t.left[p] \/ SideChild(t, k, p) = t.right[p]
    BY DEF SideChild, Child
  <2> DEFINE c == SideChild(t, k, p)
  <2> HIDE DEF c
  <2>4. c \in sub[c] /\ sub[c] \subseteq sub[p]
    BY <2>1, <2>3, ChildBelow DEF c
  <2>5. sub[p] \subseteq sub[start]
    BY <1>4, Nested
  <2>6. c \in sub[start] /\ t.key[c] = k
    BY <2>2, <2>4, <2>5 DEF c
  <2>7. QED BY <2>6
<1>6. IF b THEN t.right[p] = Null ELSE t.left[p] = Null
  BY <1>5 DEF SideChild, Child
<1> HIDE DEF a, b
<1>7. ASSUME NEW m \in Node
      PROVE  /\ m # p => a.left[m] = t.left[m] /\ a.right[m] = t.right[m]
             /\ m = p => IF b THEN a.left[m] = t.left[p] /\ a.right[m] = n
                              ELSE a.left[m] = n /\ a.right[m] = t.right[p]
             /\ m # n => a.parent[m] = t.parent[m]
             /\ m = n => a.parent[m] = p
  BY <1>2, <1>3
<1>8. ASSUME NEW y \in U
      PROVE  /\ sub2[y] = IF p \in sub[y] THEN sub[y] \cup sub[n] ELSE sub[y]
             /\ sub2[y] \in SUBSET U
  BY <1>2 DEF Joined
<1>9. sub2 \in [U -> SUBSET U]
  BY <1>2 DEF Joined
<1> HIDE DEF sub2, k
<1>10. ASSUME NEW m \in Node
       PROVE  a.left[m] \in U \cup {Null} /\ a.right[m] \in U \cup {Null}
  <2>1. t.left[m] \in U \cup {Null} /\ t.right[m] \in U \cup {Null}
    BY DEF Forest
  <2>2. QED BY <1>7, <2>1
<1>11. ASSUME NEW y \in U, y # p, NEW c, c = t.left[y] \/ c = t.right[y], c # Null,
              p \in sub[c], NEW x \in sub[n]
       PROVE  /\ c = t.left[y] => t.key[x] < t.key[y]
              /\ c = t.right[y] => t.key[x] > t.key[y]
  <2>1. c \in U /\ t.parent[c] = y /\ sub[c] \subseteq sub[y]
    BY <1>11, ChildBelow
  <2>2. c \in sub[start] \/ start \in sub[c]
    BY <1>4, <1>11, <2>1, Laminar
  <2>3. CASE start \in sub[c]
    BY <1>11, <2>3 DEF Below
  <2>4. CASE c \in sub[start] /\ c # start
    <3>1. y \in sub[start] /\ p \in sub[y]
      BY <1>11, <2>1, <2>4, ParentBelow
    <3>2. p \in sub[SideChild(t, k, y)] /\ ~Stops(t, k, y)
      BY <1>1, <1>11, <3>1 DEF EndsAt
    <3>3. /\ SideChild(t, k, y) # Null
          /\ SideChild(t, k, y) = IF k > t.key[y] THEN t.right[y] ELSE t.left[y]
      BY <3>2 DEF Stops, SideChild, Child
    <3>4. /\ p \in Below(sub, t.left[y]) => t.key[p] < t.key[y]
          /\ p \in Below(sub, t.right[y]) => t.key[p] > t.key[y]
      BY DEF Forest
    <3>5. /\ c = t.left[y] => ~ (k > t.key[y])
          /\ c = t.right[y] => k > t.key[y]
      BY <1>2, <1>11, <3>2, <3>3, <3>4 DEF Below
    <3>6. t.key[x] # t.key[y] /\ (t.key[x] > t.key[y] <=> k > t.key[y])
      BY <3>1 DEF k
    <3>7. t.key[x] \in Int /\ t.key[y] \in Int
      BY <1>2
    <3>8. QED BY <3>5, <3>6, <3>7
  <2>5. QED BY <2>2, <2>3, <2>4, <1>4, <1>11
<1>12. ASSUME NEW y \in U, y # p
       PROVE  /\ sub2[y] = {y} \cup Below(sub2, a.left[y]) \cup Below(sub2, a.right[y])
              /\ \A x \in Below(sub2, a.left[y]) : a.key[x] < a.key[y]
              /\ \A x \in Below(sub2, a.right[y]) : a.key[x] > a.key[y]
              /\ a.left[y] # Null => a.parent[a.left[y]] = y
              /\ a.right[y] # Null => a.parent[a.right[y]] = y
  <2>1. a.left[y] = t.left[y] /\ a.right[y] = t.right[y] /\ a.key = t.key
    BY <1>2, <1>3, <1>7, <1>12
  <2>2. /\ sub[y] = {y} \cup Below(sub, t.left[y]) \cup Below(sub, t.right[y])
        /\ \A x \in Below(sub, t.left[y]) : t.key[x] < t.key[y]
        /\ \A x \in Below(sub, t.right[y]) : t.key[x] > t.key[y]
        /\ t.left[y] # Null => t.parent[t.left[y]] = y
        /\ t.right[y] # Null => t.parent[t.right[y]] = y
        /\ t.left[y] \in U \cup {Null} /\ t.right[y] \in U \cup {Null}
        /\ t.left[y] # n /\ t.right[y] # n
    BY <1>2 DEF Forest
  <2>3. ASSUME NEW c, c \in U \cup {Null}
        PROVE  Below(sub2, c) = IF p \in Below(sub, c) THEN Below(sub, c) \cup sub[n]
                                ELSE Below(sub, c)
    BY <1>2, <1>8, <2>3 DEF Below
  <2>4. sub2[y] = {y} \cup Below(sub2, t.left[y]) \cup Below(sub2, t.right[y])
    <3>1. sub2[y] = IF p \in sub[y] THEN sub[y] \cup sub[n] ELSE sub[y]
      BY <1>8
    <3>2. /\ Below(sub2, t.left[y]) = IF p \in Below(sub, t.left[y])
                                      THEN Below(sub, t.left[y]) \cup sub[n]
                                      ELSE Below(sub, t.left[y])
          /\ Below(sub2, t.right[y]) = IF p \in Below(sub, t.right[y])
                                       THEN Below(sub, t.right[y]) \cup sub[n]
                                       ELSE Below(sub, t.right[y])
      BY <2>2, <2>3
    <3>3. p \in sub[y] <=> p \in Below(sub, t.left[y]) \/ p \in Below(sub, t.right[y])
      BY <1>12, <2>2
    <3>4. sub[y] = {y} \cup Below(sub, t.left[y]) \cup Below(sub, t.right[y])
      BY <2>2
    <3>5. QED BY ONLY <3>1, <3>2, <3>3, <3>4
  <2>5. ASSUME NEW x \in Below(sub2, t.left[y]) PROVE t.key[x] < t.key[y]
    <3>1. x \in Below(sub, t.left[y]) \/ (p \in Below(sub, t.left[y]) /\ x \in sub[n])
      BY <2>2, <2>3, <2>5
    <3>2. CASE p \in Below(sub, t.left[y]) /\ x \in sub[n]
      <4>1. t.left[y] # Null /\ p \in sub[t.left[y]]
        BY <3>2 DEF Below
      <4>2. QED BY <1>11, <1>12, <3>2, <4>1
    <3>3. QED BY <2>2, <3>1, <3>2
  <2>6. ASSUME NEW x \in Below(sub2, t.right[y]) PROVE t.key[x] > t.key[y]
    <3>1. x \in Below(sub, t.right[y]) \/ (p \in Below(sub, t.right[y]) /\ x \in sub[n])
      BY <2>2, <2>3, <2>6
    <3>2. CASE p \in Below(sub, t.right[y]) /\ x \in sub[n]
      <4>1. t.right[y] # Null /\ p \in sub[t.right[y]]
        BY <3>2 DEF Below
      <4>2. QED BY <1>11, <1>12, <3>2, <4>1
    <3>3. QED BY <2>2, <3>1, <3>2
  <2>7. /\ t.left[y] # Null => a.parent[t.left[y]] = y
        /\ t.right[y] # Null => a.parent[t.right[y]] = y
    BY <1>2, <1>7, <2>2
  <2>8. QED BY <2>1, <2>4, <2>5, <2>6, <2>7
<1>13. /\ sub2[p] = {p} \cup Below(sub2, a.left[p]) \cup Below(sub2, a.right[p])
       /\ \A x \in Below(sub2, a.left[p]) : a.key[x] < a.key[p]
       /\ \A x \in Below(sub2, a.right[p]) : a.key[x] > a.key[p]
       /\ a.left[p] # Null => a.parent[a.left[p]] = p
       /\ a.right[p] # Null => a.parent[a.right[p]] = p
  <2>1. /\ sub[p] = {p} \cup Below(sub, t.left[p]) \cup Below(sub, t.right[p])
        /\ \A x \in Below(sub, t.left[p]) : t.key[x] < t.key[p]
        /\ \A x \in Below(sub, t.right[p]) : t.key[x] > t.key[p]
        /\ t.left[p] # Null => t.parent[t.left[p]] = p /\ t.left[p] \in U
        /\ t.right[p] # Null => t.parent[t.right[p]] = p /\ t.right[p] \in U
        /\ t.left[p] # n /\ t.right[p] # n
    BY <1>2 DEF Forest
  <2>2. sub2[p] = sub[p] \cup sub[n] /\ sub2[n] = sub[n]
    BY <1>4, <1>8
  <2>3. ASSUME NEW c, c = t.left[p] \/ c = t.right[p]
        PROVE  Below(sub2, c) = Below(sub, c)
    <3>1. CASE c = Null
      BY <3>1 DEF Below
    <3>2. CASE c # Null
      <4>1. c \in U /\ p \notin sub[c]
        BY <2>3, <3>2, ChildBelow
      <4>2. QED BY <1>8, <3>2, <4>1 DEF Below
    <3>3. QED BY <3>1, <3>2
  <2>4. n # Null /\ n \in Node /\ p \in Node /\ Below(sub2, n) = sub[n] /\ Below(sub2, Null) = {}
    BY <1>2, <2>2 DEF Below
  <2>5. \A x \in sub[n] : IF b THEN t.key[x] > t.key[p] ELSE t.key[x] < t.key[p]
    <3>1. \A x \in sub[n] : t.key[x] # t.key[p] /\ (t.key[x] > t.key[p] <=> k > t.key[p])
      BY <1>4 DEF k
    <3>2. \A x \in sub[n] : t.key[x] \in Int
      BY <1>2
    <3>3. t.key[p] \in Int
      BY <1>2
    <3>4. QED BY <3>1, <3>2, <3>3 DEF b
  <2>6. CASE b
    <3>1. a.left[p] = t.left[p] /\ a.right[p] = n /\ t.right[p] = Null
      BY <1>6, <1>7, <2>4, <2>6
    <3>2. Below(sub2, a.left[p]) = Below(sub, t.left[p]) /\ Below(sub2, a.right[p]) = sub[n]
      BY <2>3, <2>4, <3>1
    <3>3. Below(sub, t.right[p]) = {}
      BY <3>1 DEF Below
    <3>4. sub2[p] = {p} \cup Below(sub2, a.left[p]) \cup Below(sub2, a.right[p])
      BY <2>1, <2>2, <3>2, <3>3
    <3>5. /\ a.left[p] # Null => a.parent[a.left[p]] = p
          /\ a.right[p] # Null => a.parent[a.right[p]] = p
      BY <1>2, <1>7, <2>1, <2>4, <3>1
    <3>6. QED BY <1>3, <2>1, <2>5, <2>6, <3>2, <3>4, <3>5
  <2>7. CASE ~b
    <3>1. a.right[p] = t.right[p] /\ a.left[p] = n /\ t.left[p] = Null
      BY <1>6, <1>7, <2>4, <2>7
    <3>2. Below(sub2, a.right[p]) = Below(sub, t.right[p]) /\ Below(sub2, a.left[p]) = sub[n]
      BY <2>3, <2>4, <3>1
    <3>3. Below(sub, t.left[p]) = {}
      BY <3>1 DEF Below
    <3>4. sub2[p] = {p} \cup Below(sub2, a.left[p]) \cup Below(sub2, a.right[p])
      BY <2>1, <2>2, <3>2, <3>3
    <3>5. /\ a.left[p] # Null => a.parent[a.left[p]] = p
          /\ a.right[p] # Null => a.parent[a.right[p]] = p
      BY <1>2, <1>7, <2>1, <2>4, <3>1
    <3>6. QED BY <1>3, <2>1, <2>5, <2>7, <3>2, <3>4, <3>5
  <2>8. QED BY <2>6, <2>7
<1>14. Forest(a, U, sub2)
  <2>1. ASSUME NEW y \in U
        PROVE  /\ a.key[y] \in Key
               /\ sub2[y] = {y} \cup Below(sub2, a.left[y]) \cup Below(sub2, a.right[y])
               /\ \A x \in Below(sub2, a.left[y]) : a.key[x] < a.key[y]
               /\ \A x \in Below(sub2, a.right[y]) : a.key[x] > a.key[y]
               /\ a.left[y] # Null => a.parent[a.left[y]] = y
               /\ a.right[y] # Null => a.parent[a.right[y]] = y
    <3>1. a.key[y] \in Key
      BY <1>2, <1>3
    <3>2. CASE y = p
      BY <1>13, <3>1, <3>2
    <3>3. CASE y # p
      BY <1>12, <3>1, <3>3
    <3>4. QED BY <3>2, <3>3
  <2>2. QED BY <1>2, <1>3, <1>9, <1>10, <2>1 DEF Forest
<1>15. JoinedAt(a, t, U, sub, p, n)
  BY <1>3, <1>7, <1>14 DEF sub2, JoinedAt
<1>16. QED BY <1>4, <1>15 DEF a, k

(* What a forest says of nothing else than the links and keys of its nodes.*)
LEMMA SameForest ==
    ASSUME NEW t, NEW U, NEW sub, Forest(t, U, sub), NEW a \in TreeType,
           \A m \in Node : a.left[m] \in U \cup {Null} /\ a.right[m] \in U \cup {Null},
           \A m \in U : /\ a.left[m] = t.left[m] /\ a.right[m] = t.right[m]
                        /\ a.key[m] = t.key[m] /\ a.parent[m] = t.parent[m]
    PROVE  Forest(a, U, sub)
<1>1. /\ U \in SUBSET Node /\ IsFiniteSet(U) /\ sub \in [U -> SUBSET U]
      /\ Null \notin Node
  BY ForestTypes
<1>2. ASSUME NEW y \in U
      PROVE  /\ a.key[y] \in Key
             /\ sub[y] = {y} \cup Below(sub, a.left[y]) \cup Below(sub, a.right[y])
             /\ \A x \in Below(sub, a.left[y]) : a.key[x] < a.key[y]
             /\ \A x \in Below(sub, a.right[y]) : a.key[x] > a.key[y]
             /\ a.left[y] # Null => a.parent[a.left[y]] = y
             /\ a.right[y] # Null => a.parent[a.right[y]] = y
  <2>1. /\ t.key[y] \in Key
        /\ sub[y] = {y} \cup Below(sub, t.left[y]) \cup Below(sub, t.right[y])
        /\ \A x \in Below(sub, t.left[y]) : t.key[x] < t.key[y]
        /\ \A x \in Below(sub, t.right[y]) : t.key[x] > t.key[y]
        /\ t.left[y] # Null => t.parent[t.left[y]] = y
        /\ t.right[y] # Null => t.parent[t.right[y]] = y
        /\ t.left[y] \in U \cup {Null} /\ t.right[y] \in U \cup {Null}
    BY <1>1 DEF Forest
  <2>2. Below(sub, t.left[y]) \subseteq U /\ Below(sub, t.right[y]) \subseteq U
    BY <1>1, <2>1 DEF Below
  <2>3. a.left[y] = t.left[y] /\ a.right[y] = t.right[y]
    OBVIOUS
  <2>4. QED BY <2>1, <2>2, <2>3
<1>3. QED BY <1>1, <1>2 DEF Forest

(* The root is the child of no node.                                       *)
LEMMA RootAbove ==
    ASSUME NEW t, NEW U, NEW sub, Tree(t, U, sub), NEW m \in U
    PROVE  t.root \in U /\ sub[t.root] = U /\ t.left[m] # t.root /\ t.right[m] # t.root
<1>1. Forest(t, U, sub) /\ t.root \in U /\ sub[t.root] = U /\ t.root # Null
  BY ForestTypes DEF Tree
<1>2. ASSUME NEW c, c = t.left[m] \/ c = t.right[m] PROVE c # t.root
  <2>1. c # Null => m \notin sub[c]
    BY <1>1, <1>2, ChildBelow
  <2>2. QED BY <1>1, <2>1
<1>3. QED BY <1>1, <1>2

(* A node before it is put into the tree.                                  *)
Blank(t, n, k) == [t EXCEPT !.key[n] = k, !.left[n] = Null, !.right[n] = Null]

(* The tree a is t and the node n, with the key k.                         *)
TreeWith(a, t, U, n, k) ==
    /\ \E sub2 : Tree(a, U \cup {n}, sub2)
    /\ a.key = [t.key EXCEPT ![n] = k] /\ a.len = t.len + 1

(* insert_node, of a node that is not in the tree, with a key that is not. *)
LEMMA InsertedIs ==
    ASSUME NEW t, NEW U, NEW sub, Tree(t, U, sub),
           NEW n \in Node, n \notin U, NEW k \in Key, \A y \in U : t.key[y] # k
    PROVE  TreeWith(Inserted(Blank(t, n, k), n), t, U, n, k)
<1> DEFINE b == Blank(t, n, k)
           a == Inserted(b, n)
           V == U \cup {n}
           sub1 == [y \in V |-> IF y = n THEN {n} ELSE sub[y]]
<1>1. /\ Forest(t, U, sub) /\ t \in TreeType
      /\ t.left \in [Node -> Link] /\ t.right \in [Node -> Link]
      /\ t.parent \in [Node -> Link] /\ t.key \in [Node -> Key \cup {Null}]
      /\ t.root \in Link /\ t.len \in Nat
      /\ U \in SUBSET Node /\ IsFiniteSet(U) /\ sub \in [U -> SUBSET U]
      /\ Null \notin Node
      /\ \A y \in U : t.key[y] \in Key /\ t.key[y] \in Int /\ y \in Node /\ y # Null
      /\ \A m \in Node \ U : t.left[m] = Null /\ t.right[m] = Null
  BY ForestTypes DEF Tree, Forest
<1>2. /\ b.root = t.root /\ b.len = t.len /\ b.parent = t.parent
      /\ b.key = [t.key EXCEPT ![n] = k]
      /\ b.left = [t.left EXCEPT ![n] = Null] /\ b.right = [t.right EXCEPT ![n] = Null]
      /\ b \in TreeType
  <2> DEFINE key == [t.key EXCEPT ![n] = k]
             left == [t.left EXCEPT ![n] = Null]
             right == [t.right EXCEPT ![n] = Null]
  <2>1. key \in [Node -> Key \cup {Null}] /\ left \in [Node -> Link] /\ right \in [Node -> Link]
    BY <1>1 DEF Link
  <2>2. b = [t EXCEPT !.key = key, !.left = left, !.right = right]
    BY DEF Blank
  <2>3. t = [root |-> t.root, len |-> t.len, left |-> t.left, right |-> t.right,
             parent |-> t.parent, key |-> t.key]
    BY <1>1 DEF TreeType
  <2> HIDE DEF b, key, left, right
  <2>4. b = [root |-> t.root, len |-> t.len, left |-> left, right |-> right,
             parent |-> t.parent, key |-> key]
    BY <2>2, <2>3
  <2>5. b \in TreeType
    BY <1>1, <2>1, <2>4 DEF TreeType
  <2>6. QED BY <2>4, <2>5 DEF key, left, right
<1> HIDE DEF b
<1>3. ASSUME NEW m \in Node
      PROVE  /\ b.left[m] = t.left[m] /\ b.right[m] = t.right[m]
             /\ m # n => b.key[m] = t.key[m]
             /\ m = n => b.key[m] = k
             /\ b.left[m] \in U \cup {Null} /\ b.right[m] \in U \cup {Null}
  <2>1. t.left[n] = Null /\ t.right[n] = Null
    BY <1>1
  <2>2. t.left[m] \in U \cup {Null} /\ t.right[m] \in U \cup {Null}
    BY <1>1 DEF Forest
  <2>3. QED BY <1>1, <1>2, <2>1, <2>2
<1>4. /\ V \in SUBSET Node /\ IsFiniteSet(V) /\ sub1 \in [V -> SUBSET V]
      /\ \A y \in U : sub1[y] = sub[y] /\ y # n
      /\ sub1[n] = {n}
  <2>1. IsFiniteSet(V)
    BY <1>1, FS_AddElement
  <2>2. QED BY <1>1, <2>1
<1> HIDE DEF sub1
<1>5. Forest(b, V, sub1)
  <2>1. ASSUME NEW c, c \in U \cup {Null} PROVE Below(sub1, c) = Below(sub, c)
    BY <1>1, <1>4, <2>1 DEF Below
  <2>2. ASSUME NEW y \in V
        PROVE  /\ b.key[y] \in Key
               /\ sub1[y] = {y} \cup Below(sub1, b.left[y]) \cup Below(sub1, b.right[y])
               /\ \A x \in Below(sub1, b.left[y]) : b.key[x] < b.key[y]
               /\ \A x \in Below(sub1, b.right[y]) : b.key[x] > b.key[y]
               /\ b.left[y] # Null => b.parent[b.left[y]] = y
               /\ b.right[y] # Null => b.parent[b.right[y]] = y
    <3>1. CASE y = n
      <4>1. b.left[n] = Null /\ b.right[n] = Null /\ b.key[n] = k
        BY <1>1, <1>3
      <4>2. Below(sub1, Null) = {}
        BY DEF Below
      <4>3. QED BY <1>4, <3>1, <4>1, <4>2
    <3>2. CASE y \in U
      <4>1. /\ t.key[y] \in Key
            /\ sub[y] = {y} \cup Below(sub, t.left[y]) \cup Below(sub, t.right[y])
            /\ \A x \in Below(sub, t.left[y]) : t.key[x] < t.key[y]
            /\ \A x \in Below(sub, t.right[y]) : t.key[x] > t.key[y]
            /\ t.left[y] # Null => t.parent[t.left[y]] = y
            /\ t.right[y] # Null => t.parent[t.right[y]] = y
            /\ t.left[y] \in U \cup {Null} /\ t.right[y] \in U \cup {Null}
        BY <1>1, <3>2 DEF Forest
      <4>2. Below(sub, t.left[y]) \subseteq U /\ Below(sub, t.right[y]) \subseteq U
        BY <1>1, <4>1 DEF Below
      <4>3. /\ b.left[y] = t.left[y] /\ b.right[y] = t.right[y] /\ b.parent = t.parent
            /\ \A x \in U : b.key[x] = t.key[x]
        BY <1>1, <1>2, <1>3, <1>4, <3>2
      <4>4. /\ Below(sub1, t.left[y]) = Below(sub, t.left[y])
            /\ Below(sub1, t.right[y]) = Below(sub, t.right[y])
            /\ sub1[y] = sub[y]
        BY <1>4, <2>1, <3>2, <4>1
      <4>5. QED BY <3>2, <4>1, <4>2, <4>3, <4>4
    <3>3. QED BY <3>1, <3>2
  <2>3. \A m \in Node : b.left[m] \in V \cup {Null} /\ b.right[m] \in V \cup {Null}
    BY <1>3
  <2>4. QED BY <1>2, <1>4, <2>2, <2>3 DEF Forest
<1>6. CASE t.root = Null
  <2>1. U = {} /\ V = {n}
    BY <1>1, <1>6 DEF Tree
  <2> DEFINE parent == [b.parent EXCEPT ![n] = Null]
  <2>2. parent \in [Node -> Link]
    BY <1>1, <1>2 DEF Link
  <2>3. a = [[b EXCEPT !.parent = parent, !.root = n] EXCEPT !.len = b.len + 1]
    BY <1>2, <1>6 DEF Inserted
  <2>4. b = [root |-> b.root, len |-> b.len, left |-> b.left, right |-> b.right,
             parent |-> b.parent, key |-> b.key]
    BY <1>2 DEF TreeType
  <2> HIDE DEF a, parent
  <2>5. a = [root |-> n, len |-> b.len + 1, left |-> b.left, right |-> b.right,
             parent |-> parent, key |-> b.key]
    BY <2>3, <2>4
  <2>6. a \in TreeType
    <3>1. b.len \in Nat /\ b.left \in [Node -> Link] /\ b.right \in [Node -> Link]
          /\ b.key \in [Node -> Key \cup {Null}] /\ n \in Link
      BY <1>2 DEF TreeType, Link
    <3>2. b.len + 1 \in Nat
      BY <3>1
    <3>3. QED BY <2>2, <2>5, <3>1, <3>2 DEF TreeType
  <2>7. \A m \in Node : a.left[m] = Null /\ a.right[m] = Null
    BY <1>1, <1>3, <2>1, <2>5
  <2>8. Forest(a, V, sub1)
    <3>1. a.key[n] = k
      BY <1>3, <2>5
    <3>2. Below(sub1, Null) = {}
      BY DEF Below
    <3>3. QED BY <1>4, <2>1, <2>6, <2>7, <3>1, <3>2 DEF Forest
  <2>9. Tree(a, V, sub1)
    BY <1>4, <2>1, <2>5, <2>7, <2>8 DEF Tree
  <2>10. a.key = [t.key EXCEPT ![n] = k] /\ a.len = t.len + 1
    BY <1>2, <2>5
  <2>11. QED BY <2>9, <2>10 DEF a, b, TreeWith
<1>7. CASE t.root # Null
  <2> DEFINE root == t.root
             c == Attached(b, FindParent(b, b.key[n], root), n)
  <2>1. root \in U /\ sub[root] = U /\ b.key[n] = k /\ root \in V
    BY <1>1, <1>3, <1>7 DEF Tree
  <2>2. a = [c EXCEPT !.len = c.len + 1]
    BY <1>2, <1>7 DEF Inserted
  <2>3. ASSUME NEW m \in V
        PROVE /\ b.left[m] # n /\ b.right[m] # n
              /\ root \notin Below(sub1, b.left[m]) /\ root \notin Below(sub1, b.right[m])
    <3>1. b.left[m] \in U \cup {Null} /\ b.right[m] \in U \cup {Null} /\ n # Null
      BY <1>1, <1>3, <1>4
    <3>2. ASSUME NEW d \in {b.left[m], b.right[m]}, root \in Below(sub1, d)
          PROVE  FALSE
      <4>1. d \in U /\ root \in sub[d] /\ d # Null
        BY <1>1, <1>4, <3>1, <3>2 DEF Below
      <4>2. m \in U
        BY <1>1, <1>3, <3>2, <4>1
      <4>3. d = t.left[m] \/ d = t.right[m]
        BY <1>1, <1>3, <3>2, <4>2
      <4>4. m \notin sub[d]
        BY <1>1, <4>1, <4>2, <4>3, ChildBelow
      <4>5. sub[root] \subseteq sub[d]
        BY <1>1, <4>1, Nested
      <4>6. QED BY <2>1, <4>2, <4>4, <4>5
    <3>3. QED BY <1>4, <3>1, <3>2
  <2>4. sub1[root] = U /\ sub1[n] = {n}
    BY <1>4, <2>1
  <2>5. \A y \in sub1[root] : b.key[y] # b.key[n]
    BY <1>1, <1>3, <1>4, <2>1, <2>4
  <2>6. \A y \in sub1[root], x \in sub1[n] :
            b.key[x] # b.key[y] /\ (b.key[x] > b.key[y] <=> b.key[n] > b.key[y])
    BY <2>4, <2>5
  <2> HIDE DEF c, root, a, V
  <2>7. PICK p \in sub1[root] : JoinedAt(c, b, V, sub1, p, n)
    <3>1. n \in V
      BY DEF V
    <3>2. sub1[n] \cap sub1[root] = {}
      BY <1>4, <2>4
    <3>3. \A m \in V : b.left[m] # n /\ b.right[m] # n
      BY <2>3
    <3>4. \A y \in V, x \in sub1[n] :
              /\ root \in Below(sub1, b.left[y]) => b.key[x] < b.key[y]
              /\ root \in Below(sub1, b.right[y]) => b.key[x] > b.key[y]
      BY <2>3
    <3>5. MayAttach(b, V, sub1, root, n)
      BY <1>5, <2>1, <2>5, <2>6, <3>1, <3>2, <3>3, <3>4 DEF MayAttach
    <3>6. QED BY <3>5, AttachedIs DEF c
  <2>8. /\ Forest(c, V, Joined(V, sub1, p, n))
         /\ c.root = b.root /\ c.len = b.len /\ c.key = b.key
         /\ \A m \in Node : m # p => c.left[m] = b.left[m] /\ c.right[m] = b.right[m]
    BY <2>7 DEF JoinedAt
  <2> DEFINE sub2 == Joined(V, sub1, p, n)
  <2>9. p \in U
    BY <2>4
  <2>10. c \in TreeType /\ c.len \in Nat
    BY <2>8, <1>1, <1>2 DEF Forest
  <2>11. a = [root |-> c.root, len |-> c.len + 1, left |-> c.left, right |-> c.right,
              parent |-> c.parent, key |-> c.key]
    BY <2>2, <2>10 DEF TreeType
  <2>12. a \in TreeType
    <3>1. c.len + 1 \in Nat
      BY <2>10
    <3>2. QED BY <2>10, <2>11, <3>1 DEF TreeType
  <2> HIDE DEF sub2
  <2>13. Forest(a, V, sub2)
    <3>1. \A m \in Node : a.left[m] \in V \cup {Null} /\ a.right[m] \in V \cup {Null}
      BY <2>8, <2>11 DEF Forest
    <3>2. Forest(c, V, sub2)
      BY <2>8 DEF sub2
    <3>3. QED BY <2>11, <2>12, <3>1, <3>2, SameForest
  <2>14. a.root = root
    BY <1>2, <2>8, <2>11 DEF root
  <2>15. sub2[root] = V
    <3>1. sub2[root] = IF p \in sub1[root] THEN sub1[root] \cup sub1[n] ELSE sub1[root]
      BY <2>1 DEF sub2, Joined, V
    <3>2. QED BY <2>4, <2>9, <3>1 DEF V
  <2>16. \A m \in Node \ V : a.left[m] = Null /\ a.right[m] = Null
    <3>1. ASSUME NEW m \in Node \ V PROVE a.left[m] = Null /\ a.right[m] = Null
      <4>1. m \notin U /\ m # p
        BY <2>9 DEF V
      <4>2. c.left[m] = b.left[m] /\ c.right[m] = b.right[m]
        BY <2>8, <4>1
      <4>3. QED BY <1>1, <1>3, <2>11, <4>1, <4>2
    <3>2. QED BY <3>1
  <2>17. Tree(a, V, sub2)
    BY <2>1, <2>13, <2>14, <2>15, <2>16 DEF Tree
  <2>18. a.key = [t.key EXCEPT ![n] = k] /\ a.len = t.len + 1
    BY <1>2, <2>8, <2>11
  <2>19. QED BY <2>17, <2>18 DEF a, b, V, TreeWith
<1>8. QED BY <1>6, <1>7

(* replace_node puts c, or nothing, in the place of a node n of the tree:  *)
(* n is the child of no node any more.                                     *)
LEMMA ReplacedFields ==
    ASSUME NEW t, NEW U, NEW sub, Tree(t, U, sub), NEW n \in U, NEW c \in U \cup {Null}, c # n
    PROVE  LET r == Replaced(t, n, c)
           IN  /\ r \in TreeType
               /\ r.key = t.key /\ r.len = t.len
               /\ r.root = IF n = t.root THEN c ELSE t.root
               /\ \A m \in Node : r.left[m] = IF m \in U /\ t.left[m] = n THEN c ELSE t.left[m]
               /\ \A m \in Node : r.right[m] = IF m \in U /\ t.right[m] = n THEN c ELSE t.right[m]
               /\ \A m \in Node : m # c => r.parent[m] = t.parent[m]
               /\ n # t.root /\ c # Null => r.parent[c] = t.parent[n]
<1> DEFINE r == Replaced(t, n, c)
           p == t.parent[n]
<1>1. /\ Forest(t, U, sub) /\ t \in TreeType
      /\ t.left \in [Node -> Link] /\ t.right \in [Node -> Link]
      /\ t.parent \in [Node -> Link] /\ t.key \in [Node -> Key \cup {Null}]
      /\ t.root \in Link /\ t.len \in Nat
      /\ U \in SUBSET Node /\ Null \notin Node
      /\ \A y \in U : t.key[y] \in Key /\ t.key[y] \in Int /\ y \in Node /\ y # Null
      /\ c \in Link
      /\ t = [root |-> t.root, len |-> t.len, left |-> t.left, right |-> t.right,
              parent |-> t.parent, key |-> t.key]
  BY ForestTypes DEF Tree, Forest, Link, TreeType
<1>2. CASE n = t.root
  <2>1. r = [root |-> c, len |-> t.len, left |-> t.left, right |-> t.right,
             parent |-> t.parent, key |-> t.key]
    BY <1>1, <1>2 DEF Replaced
  <2>2. \A m \in U : t.left[m] # n /\ t.right[m] # n
    BY <1>2, RootAbove
  <2> HIDE DEF r
  <2>3. r \in TreeType
    BY <1>1, <2>1 DEF TreeType
  <2>4. QED BY <1>2, <2>1, <2>2, <2>3 DEF r
<1>3. CASE n # t.root
  <2>1. t.root \in U /\ n \in sub[t.root]
    BY RootAbove
  <2>2. p \in U /\ p \in Node /\ (n = t.left[p] \/ n = t.right[p])
    BY <1>1, <1>3, <2>1, ParentBelow
  <2>3. ASSUME NEW m \in U, t.left[m] = n \/ t.right[m] = n PROVE m = p
    BY <1>1, <2>3, ChildBelow
  <2>4. ~ (t.left[p] = n /\ t.right[p] = n)
    <3>1. n \in sub[n] /\ n # Null
      BY <1>1 DEF Forest
    <3>2. /\ \A x \in Below(sub, t.left[p]) : t.key[x] < t.key[p]
          /\ \A x \in Below(sub, t.right[p]) : t.key[x] > t.key[p]
      BY <1>1, <2>2 DEF Forest
    <3>3. t.key[n] \in Int /\ t.key[p] \in Int
      BY <1>1, <2>2
    <3>4. QED BY <3>1, <3>2, <3>3 DEF Below
  <2> HIDE DEF p
  <2> DEFINE left == IF t.left[p] = n THEN [t.left EXCEPT ![p] = c] ELSE t.left
             right == IF t.left[p] = n THEN t.right ELSE [t.right EXCEPT ![p] = c]
             parent == IF c = Null THEN t.parent ELSE [t.parent EXCEPT ![c] = p]
  <2>5. r = [root |-> t.root, len |-> t.len, left |-> left, right |-> right,
             parent |-> parent, key |-> t.key]
    <3> DEFINE linked == IF t.left[p] = n THEN [t EXCEPT !.left[p] = c]
                         ELSE [t EXCEPT !.right[p] = c]
    <3>1. r = IF c = Null THEN linked ELSE [linked EXCEPT !.parent[c] = p]
      BY <1>3 DEF Replaced, p
    <3>2. linked = [root |-> t.root, len |-> t.len, left |-> left, right |-> right,
                    parent |-> t.parent, key |-> t.key]
      BY <1>1
    <3> HIDE DEF linked, left, right, r
    <3>3. [linked EXCEPT !.parent[c] = p]
             = [root |-> t.root, len |-> t.len, left |-> left, right |-> right,
                parent |-> [t.parent EXCEPT ![c] = p], key |-> t.key]
      BY <3>2
    <3>4. QED BY <3>1, <3>2, <3>3
  <2> HIDE DEF r
  <2>6. left \in [Node -> Link] /\ right \in [Node -> Link] /\ parent \in [Node -> Link]
    <3>1. p \in Link
      BY <2>2 DEF Link
    <3>2. QED BY <1>1, <2>2, <3>1
  <2>7. ASSUME NEW m \in Node
        PROVE  /\ left[m] = IF m \in U /\ t.left[m] = n THEN c ELSE t.left[m]
               /\ right[m] = IF m \in U /\ t.right[m] = n THEN c ELSE t.right[m]
    <3>1. CASE m = p
      BY <1>1, <2>2, <2>4, <3>1
    <3>2. CASE m # p
      <4>1. ~ (m \in U /\ t.left[m] = n) /\ ~ (m \in U /\ t.right[m] = n)
        BY <2>3, <3>2
      <4>2. QED BY <1>1, <3>2, <4>1
    <3>3. QED BY <3>1, <3>2
  <2>8. /\ \A m \in Node : m # c => parent[m] = t.parent[m]
        /\ c # Null => parent[c] = p
    BY <1>1 DEF Link
  <2> HIDE DEF left, right, parent
  <2>9. r \in TreeType
    BY <1>1, <2>5, <2>6 DEF TreeType
  <2>10. QED BY <1>3, <2>5, <2>7, <2>8, <2>9 DEF r, p
<1>4. QED BY <1>2, <1>3

(* The sets of the nodes below each, when those of drop go.                *)
Lost(V, sub, n, drop) == [y \in V |-> IF n \in sub[y] THEN sub[y] \ drop ELSE sub[y]]

(* When a child c takes the place of n, those below c stay below what n    *)
(* was below.                                                              *)
LEMMA ReplacedIs ==
    ASSUME NEW t, NEW U, NEW sub, Tree(t, U, sub), NEW n \in U,
           NEW c, c = t.left[n] \/ c = t.right[n],
           c = Null => t.left[n] = Null /\ t.right[n] = Null
    PROVE  Forest(Replaced(t, n, c), U \ {n}, Lost(U \ {n}, sub, n, sub[n] \ Below(sub, c)))
<1> DEFINE r == Replaced(t, n, c)
           V == U \ {n}
           drop == sub[n] \ Below(sub, c)
           sub1 == Lost(V, sub, n, drop)
<1>1. /\ Forest(t, U, sub)
      /\ U \in SUBSET Node /\ IsFiniteSet(U) /\ sub \in [U -> SUBSET U] /\ Null \notin Node
      /\ \A y \in U : t.key[y] \in Key /\ t.key[y] \in Int /\ y \in Node /\ y # Null
      /\ \A m \in Node : t.left[m] \in U \cup {Null} /\ t.right[m] \in U \cup {Null}
      /\ \A m \in Node \ U : t.left[m] = Null /\ t.right[m] = Null
      /\ n \in Node /\ n \in sub[n]
  BY ForestTypes DEF Tree, Forest
<1>2. /\ c \in U \cup {Null} /\ c # n
      /\ c # Null => /\ c \in sub[c] /\ sub[c] \subseteq sub[n] /\ n \notin sub[c]
                     /\ t.parent[c] = n
  <2>1. c \in U \cup {Null}
    BY <1>1
  <2>2. c # Null => /\ c \in sub[c] /\ sub[c] \subseteq sub[n] /\ n \notin sub[c]
                    /\ t.parent[c] = n /\ c # n
    BY <1>1, ChildBelow
  <2>3. QED BY <1>1, <2>1, <2>2
<1>3. /\ r \in TreeType /\ r.key = t.key
      /\ \A m \in Node : r.left[m] = IF m \in U /\ t.left[m] = n THEN c ELSE t.left[m]
      /\ \A m \in Node : r.right[m] = IF m \in U /\ t.right[m] = n THEN c ELSE t.right[m]
      /\ \A m \in Node : m # c => r.parent[m] = t.parent[m]
      /\ n # t.root /\ c # Null => r.parent[c] = t.parent[n]
  BY <1>2, ReplacedFields
<1> HIDE DEF r
<1>4. drop \subseteq sub[n] /\ n \in drop /\ (c # Null => drop = sub[n] \ sub[c])
  BY <1>1, <1>2 DEF Below
<1>5. c = Null => drop = {n} /\ sub[n] = {n}
  <2>1. sub[n] = {n} \cup Below(sub, t.left[n]) \cup Below(sub, t.right[n])
    BY <1>1 DEF Forest
  <2>2. QED BY <2>1 DEF Below
<1>6. V \in SUBSET Node /\ IsFiniteSet(V)
  BY <1>1, FS_RemoveElement
<1> HIDE DEF drop
<1>7. ASSUME NEW y \in V
      PROVE  /\ sub1[y] = IF n \in sub[y] THEN sub[y] \ drop ELSE sub[y]
             /\ sub1[y] \in SUBSET V
             /\ y \in U /\ y # n /\ y \in sub[y]
  <2>1. y \in U /\ y # n /\ y \in sub[y] /\ sub[y] \in SUBSET U
    BY <1>1 DEF Forest
  <2>2. sub1[y] = IF n \in sub[y] THEN sub[y] \ drop ELSE sub[y]
    BY DEF Lost
  <2>3. QED BY <1>4, <2>1, <2>2
<1>8. sub1 \in [V -> SUBSET V]
  <2>1. sub1 = [y \in V |-> sub1[y]]
    BY DEF Lost
  <2> HIDE DEF sub1
  <2>2. QED BY <1>7, <2>1
<1> HIDE DEF sub1
(* A child d of y, and the one that is in its place now.                   *)
<1>9. ASSUME NEW y \in V, NEW d \in U, NEW e \in U \cup {Null},
             {d, e} = {t.left[y], t.right[y]},
             NEW d1, d1 = IF d = n THEN c ELSE d
      PROVE  /\ Below(sub1, d1) = IF n \in sub[y] THEN sub[d] \ drop ELSE sub[d]
             /\ d1 # Null => r.parent[d1] = y
  <2>1. /\ d # Null /\ d \in sub[d] /\ sub[d] \subseteq sub[y] /\ t.parent[d] = y
        /\ y \in U /\ d \in Node
        /\ d = t.left[y] \/ d = t.right[y]
    <3>1. d = t.left[y] \/ d = t.right[y]
      BY <1>9
    <3>2. y \in U /\ d # Null
      BY <1>1
    <3>3. QED BY <1>1, <3>1, <3>2, ChildBelow
  <2>2. CASE d = n
    <3>1. Below(sub1, c) = sub[n] \ drop
      <4>1. CASE c = Null
        BY <1>5, <4>1 DEF Below
      <4>2. CASE c # Null
        <5>1. c \in V /\ sub1[c] = sub[c]
          BY <1>2, <1>7, <4>2
        <5>2. QED BY <1>2, <1>4, <4>2, <5>1 DEF Below
      <4>3. QED BY <4>1, <4>2
    <3>2. n \in sub[y]
      BY <2>1, <2>2
    <3>3. c # Null => r.parent[c] = y
      <4>1. n # t.root
        BY <2>1, <2>2, RootAbove
      <4>2. QED BY <1>2, <1>3, <2>1, <2>2, <4>1
    <3>4. QED BY <1>9, <2>2, <3>1, <3>2, <3>3
  <2>3. CASE d # n
    <3>1. d \in V /\ sub1[d] = IF n \in sub[d] THEN sub[d] \ drop ELSE sub[d]
      BY <1>7, <2>3
    <3>2. n \in sub[y] /\ n \notin sub[d] => sub[d] \cap drop = {}
      <4>1. SUFFICES ASSUME n \in sub[y], n \notin sub[d], NEW x \in sub[d], x \in sub[n]
                     PROVE  FALSE
        BY <1>4
      <4>2. n \in Below(sub, t.left[y]) \/ n \in Below(sub, t.right[y])
        BY <1>1, <1>7, <2>1, <4>1 DEF Forest
      <4>3. e # Null /\ n \in sub[e]
        BY <1>9, <2>1, <4>1, <4>2 DEF Below
      <4>4. x \in sub[e]
        BY <1>1, <4>1, <4>3, Nested
      <4>5. /\ \A z \in Below(sub, t.left[y]) : t.key[z] < t.key[y]
            /\ \A z \in Below(sub, t.right[y]) : t.key[z] > t.key[y]
        BY <1>1, <2>1 DEF Forest
      <4>6. x \in U
        BY <1>1
      <4>7. e # d
        BY <4>1, <4>3
      <4>8. t.key[x] < t.key[y] /\ t.key[x] > t.key[y]
        BY <1>9, <2>1, <4>1, <4>3, <4>4, <4>5, <4>7 DEF Below
      <4>9. QED BY <1>1, <2>1, <4>6, <4>8
    <3>3. n \notin sub[y] => n \notin sub[d]
      BY <2>1
    <3>4. Below(sub1, d) = sub1[d]
      BY <2>1 DEF Below
    <3>5. sub1[d] = IF n \in sub[y] THEN sub[d] \ drop ELSE sub[d]
      BY <3>1, <3>2, <3>3
    <3>6. r.parent[d] = y
      <4>1. d # c
        BY <1>2, <1>7, <2>1
      <4>2. QED BY <1>3, <2>1, <4>1
    <3>7. QED BY <1>9, <2>3, <3>4, <3>5, <3>6
  <2>4. QED BY <2>2, <2>3
<1>10. ASSUME NEW y \in V
       PROVE  /\ r.key[y] \in Key
              /\ sub1[y] = {y} \cup Below(sub1, r.left[y]) \cup Below(sub1, r.right[y])
              /\ \A x \in Below(sub1, r.left[y]) : r.key[x] < r.key[y]
              /\ \A x \in Below(sub1, r.right[y]) : r.key[x] > r.key[y]
              /\ r.left[y] # Null => r.parent[r.left[y]] = y
              /\ r.right[y] # Null => r.parent[r.right[y]] = y
  <2> DEFINE gone == IF n \in sub[y] THEN drop ELSE {}
  <2>1. y \in U /\ y \in Node /\ y # n /\ y \in sub[y]
    BY <1>1, <1>7
  <2>2. /\ t.key[y] \in Key
        /\ sub[y] = {y} \cup Below(sub, t.left[y]) \cup Below(sub, t.right[y])
        /\ \A x \in Below(sub, t.left[y]) : t.key[x] < t.key[y]
        /\ \A x \in Below(sub, t.right[y]) : t.key[x] > t.key[y]
        /\ t.left[y] \in U \cup {Null} /\ t.right[y] \in U \cup {Null}
    BY <1>1, <2>1 DEF Forest
  <2>3. ASSUME NEW d \in {t.left[y], t.right[y]},
               NEW d1, d1 = IF d = n THEN c ELSE d
        PROVE  /\ Below(sub1, d1) = Below(sub, d) \ gone
               /\ d1 # Null => r.parent[d1] = y
    <3>1. CASE d = Null
      <4>1. d1 = Null
        BY <1>1, <2>3, <3>1
      <4>2. QED BY <3>1, <4>1 DEF Below
    <3>2. CASE d # Null
      <4>1. d \in U /\ \E e \in U \cup {Null} : {d, e} = {t.left[y], t.right[y]}
        BY <2>2, <3>2
      <4>2. Below(sub, d) = sub[d]
        BY <3>2 DEF Below
      <4>3. /\ Below(sub1, d1) = IF n \in sub[y] THEN sub[d] \ drop ELSE sub[d]
            /\ d1 # Null => r.parent[d1] = y
        BY <1>9, <2>3, <4>1
      <4>4. QED BY <4>2, <4>3
    <3>3. QED BY <3>1, <3>2
  <2>4. /\ r.left[y] = IF t.left[y] = n THEN c ELSE t.left[y]
        /\ r.right[y] = IF t.right[y] = n THEN c ELSE t.right[y]
    BY <1>3, <2>1
  <2> HIDE DEF gone
  <2>5. /\ Below(sub1, r.left[y]) = Below(sub, t.left[y]) \ gone
        /\ r.left[y] # Null => r.parent[r.left[y]] = y
    BY <2>3, <2>4
  <2>6. /\ Below(sub1, r.right[y]) = Below(sub, t.right[y]) \ gone
        /\ r.right[y] # Null => r.parent[r.right[y]] = y
    BY <2>3, <2>4
  <2>7. sub1[y] = sub[y] \ gone
    BY <1>7 DEF gone
  <2>8. y \notin gone
    <3>1. n \in sub[y] => y \notin sub[n]
      BY <1>1, <2>1, Nested
    <3>2. QED BY <1>4, <3>1 DEF gone
  <2>9. sub1[y] = {y} \cup Below(sub1, r.left[y]) \cup Below(sub1, r.right[y])
    BY <2>2, <2>5, <2>6, <2>7, <2>8
  <2>10. QED BY <1>3, <2>2, <2>5, <2>6, <2>9
<1>11. ASSUME NEW m \in Node
       PROVE  r.left[m] \in V \cup {Null} /\ r.right[m] \in V \cup {Null}
  <2>1. m \notin U => t.left[m] = Null /\ t.right[m] = Null
    BY <1>1
  <2>2. n # Null
    BY <1>1
  <2>3. QED BY <1>1, <1>2, <1>3, <2>1, <2>2
<1>12. Forest(r, V, sub1)
  BY <1>3, <1>6, <1>8, <1>10, <1>11 DEF Forest
<1>13. QED BY <1>12 DEF r, sub1, drop

(* The two parts of remove_node: n is out of the links of the other nodes. *)
Unlinked(t, n) ==
    LET left == t.left[n]
        right == t.right[n]
        without == Replaced(t, n, IF left = Null THEN right ELSE left)
    IN  IF left = Null \/ right = Null THEN without
        ELSE Attached(without, FindParent(without, t.key[right], left), right)

(* The tree a has the nodes of V, but other nodes may still have links to  *)
(* them.                                                                   *)
Rooted(a, V, sub) ==
    /\ Forest(a, V, sub)
    /\ IF V = {} THEN a.root = Null ELSE a.root \in V /\ sub[a.root] = V

LEMMA UnlinkedIs ==
    ASSUME NEW t, NEW U, NEW sub, Tree(t, U, sub), NEW n \in U
    PROVE  LET a == Unlinked(t, n)
           IN  /\ \E sub2 : Rooted(a, U \ {n}, sub2)
               /\ \A m \in Node \ U : a.left[m] = Null /\ a.right[m] = Null
               /\ a.key = t.key /\ a.len = t.len
<1> DEFINE left == t.left[n]
           right == t.right[n]
           c == IF left = Null THEN right ELSE left
           r == Replaced(t, n, c)
           V == U \ {n}
           drop == sub[n] \ Below(sub, c)
           sub1 == Lost(V, sub, n, drop)
           root == t.root
<1>1. /\ Forest(t, U, sub)
      /\ U \in SUBSET Node /\ sub \in [U -> SUBSET U] /\ Null \notin Node
      /\ \A y \in U : t.key[y] \in Key /\ t.key[y] \in Int /\ y \in Node /\ y # Null
      /\ n \in Node /\ n \in sub[n]
      /\ \A m \in Node \ U : t.left[m] = Null /\ t.right[m] = Null
      /\ root \in U /\ sub[root] = U
      /\ sub[n] = {n} \cup Below(sub, left) \cup Below(sub, right)
      /\ \A x \in Below(sub, left) : t.key[x] < t.key[n]
      /\ \A x \in Below(sub, right) : t.key[x] > t.key[n]
      /\ left \in U \cup {Null} /\ right \in U \cup {Null}
  <2>1. Forest(t, U, sub)
    BY DEF Tree
  <2>2. root \in U /\ sub[root] = U /\ \A m \in Node \ U : t.left[m] = Null /\ t.right[m] = Null
    BY DEF Tree
  <2>3. QED BY <2>1, <2>2, ForestTypes DEF Forest
<1>2. /\ c = t.left[n] \/ c = t.right[n]
      /\ c = Null => t.left[n] = Null /\ t.right[n] = Null
  OBVIOUS
<1>3. ASSUME NEW d, d = left \/ d = right, d # Null
      PROVE  /\ d \in U /\ d \in sub[d] /\ sub[d] \subseteq sub[n] /\ n \notin sub[d] /\ d # n
             /\ t.parent[d] = n /\ d \in V
  BY <1>1, <1>3, ChildBelow
<1> HIDE DEF left, right
<1>4. c \in U \cup {Null} /\ c # n
  <2>1. n # Null
    BY <1>1
  <2>2. QED BY <1>1, <1>3, <2>1
<1>5. Forest(r, V, sub1)
  BY <1>2, ReplacedIs
<1>6. /\ r \in TreeType
      /\ r.key = t.key /\ r.len = t.len
      /\ r.root = IF n = root THEN c ELSE root
      /\ \A m \in Node : r.left[m] = IF m \in U /\ t.left[m] = n THEN c ELSE t.left[m]
      /\ \A m \in Node : r.right[m] = IF m \in U /\ t.right[m] = n THEN c ELSE t.right[m]
  BY <1>4, ReplacedFields
<1>7. \A y \in V : sub1[y] = IF n \in sub[y] THEN sub[y] \ drop ELSE sub[y]
  BY DEF Lost
<1>8. \A m \in Node \ U : r.left[m] = Null /\ r.right[m] = Null
  BY <1>1, <1>6
<1> HIDE DEF r, sub1, root
<1>9. CASE left = Null \/ right = Null
  <2>1. Unlinked(t, n) = r
    BY <1>9 DEF Unlinked, r, left, right
  <2>2. drop = {n} /\ sub[n] = {n} \cup Below(sub, c) /\ (c # Null => n \notin sub[c])
    <3>1. sub[n] = {n} \cup Below(sub, c)
      BY <1>1, <1>9 DEF Below
    <3>2. n \notin Below(sub, c)
      BY <1>3 DEF Below
    <3>3. QED BY <3>1, <3>2 DEF Below
  <2> HIDE DEF drop, c
  <2>3. CASE n = root
    <3>1. sub[n] = U /\ r.root = c
      BY <1>1, <1>6, <2>3
    <3>2. CASE c = Null
      <4>1. V = {}
        BY <2>2, <3>1, <3>2 DEF Below
      <4>2. QED BY <1>5, <1>6, <1>8, <2>1, <3>1, <3>2, <4>1 DEF Rooted
    <3>3. CASE c # Null
      <4>1. c \in V /\ sub[c] = V
        BY <1>4, <2>2, <3>1, <3>3 DEF Below
      <4>2. sub1[c] = V
        BY <1>7, <2>2, <3>3, <4>1
      <4>3. QED BY <1>5, <1>6, <1>8, <2>1, <3>1, <4>1, <4>2 DEF Rooted
    <3>4. QED BY <3>2, <3>3
  <2>4. CASE n # root
    <3>1. root \in V /\ r.root = root
      BY <1>1, <1>6, <2>4
    <3>2. sub1[root] = V
      BY <1>1, <1>7, <2>2, <3>1
    <3>3. QED BY <1>5, <1>6, <1>8, <2>1, <3>1, <3>2 DEF Rooted
  <2>5. QED BY <2>3, <2>4
<1>10. CASE left # Null /\ right # Null
  <2> DEFINE a == Attached(r, FindParent(r, r.key[right], left), right)
  <2>1. c = left
    BY <1>10
  <2>2. Unlinked(t, n) = a
    BY <1>6, <1>10 DEF Unlinked, r, left, right
  <2> HIDE DEF a
  <2>3. /\ left \in V /\ right \in V /\ left # right
        /\ \A x \in sub[left] : x \in U /\ t.key[x] < t.key[n]
        /\ \A x \in sub[right] : x \in U /\ t.key[x] > t.key[n]
        /\ sub[n] = {n} \cup sub[left] \cup sub[right]
        /\ sub[left] \cap sub[right] = {}
    <3>1. left \in V /\ right \in V
      BY <1>3, <1>10
    <3>2. /\ \A x \in sub[left] : x \in U /\ t.key[x] < t.key[n]
          /\ \A x \in sub[right] : x \in U /\ t.key[x] > t.key[n]
          /\ sub[n] = {n} \cup sub[left] \cup sub[right]
      BY <1>1, <1>10, <3>1 DEF Below
    <3>3. sub[left] \cap sub[right] = {}
      BY <1>1, <3>2
    <3>4. left \in sub[left] /\ right \in sub[right]
      BY <1>3, <1>10
    <3>5. QED BY <3>1, <3>2, <3>3, <3>4
  <2>4. drop = {n} \cup sub[right] /\ n \notin sub[left] /\ n \notin sub[right]
    <3>1. n \notin sub[left] /\ n \notin sub[right]
      BY <1>3, <1>10
    <3>2. drop = sub[n] \ sub[left]
      BY <1>10, <2>1 DEF Below
    <3>3. QED BY <2>3, <3>1, <3>2
  <2> HIDE DEF drop, c
  <2>5. sub1[left] = sub[left] /\ sub1[right] = sub[right]
    BY <1>7, <2>3, <2>4
  <2>6. MayAttach(r, V, sub1, left, right)
    <3>1. ASSUME NEW m \in V PROVE r.left[m] # right /\ r.right[m] # right
      <4>1. m \in U /\ m # n /\ m \in Node
        BY <1>1
      <4>2. right # Null /\ t.parent[right] = n
        BY <1>3, <1>10
      <4>3. t.left[m] # right /\ t.right[m] # right
        BY <1>1, <4>1, <4>2 DEF Forest
      <4>4. QED BY <1>6, <2>1, <2>3, <4>1, <4>3
    <3>2. sub1[right] \cap sub1[left] = {}
      BY <2>3, <2>5
    <3>3. /\ \A y \in sub1[left] : r.key[y] # r.key[right]
          /\ \A y \in sub1[left], x \in sub1[right] :
                r.key[x] # r.key[y] /\ (r.key[x] > r.key[y] <=> r.key[right] > r.key[y])
      <4>1. ASSUME NEW y \in sub[left], NEW x \in sub[right]
            PROVE  t.key[x] > t.key[y] /\ t.key[x] # t.key[y]
        <5>1. /\ t.key[y] \in Int /\ t.key[x] \in Int /\ t.key[n] \in Int
              /\ t.key[y] < t.key[n] /\ t.key[x] > t.key[n]
          BY <1>1, <2>3
        <5>2. QED BY <5>1
      <4>2. right \in sub[right]
        BY <1>3, <1>10
      <4>3. QED BY <1>6, <2>5, <4>1, <4>2
    <3>4. ASSUME NEW y \in V, NEW x \in sub1[right]
          PROVE  /\ left \in Below(sub1, r.left[y]) => r.key[x] < r.key[y]
                 /\ left \in Below(sub1, r.right[y]) => r.key[x] > r.key[y]
      <4>1. ASSUME NEW d \in {t.left[y], t.right[y]},
                   NEW e, e = IF d = n THEN left ELSE d, left \in Below(sub1, e)
            PROVE  d # Null /\ x \in sub[d]
        <5>1. y \in U /\ y \in Node /\ y # n /\ n # Null
          BY <1>1
        <5>2. t.left[y] \in U \cup {Null} /\ t.right[y] \in U \cup {Null}
          BY <1>1, <5>1 DEF Forest
        <5>3. x \in sub[right] /\ x \in sub[n]
          BY <2>3, <2>5
        <5>4. CASE d = n
          BY <5>1, <5>3, <5>4
        <5>5. CASE d # n
          <6>1. e = d /\ d # Null /\ left \in sub1[d]
            BY <4>1, <5>5 DEF Below
          <6>2. d \in V /\ t.parent[d] = y
            BY <1>1, <4>1, <5>1, <5>2, <5>5, <6>1 DEF Forest
          <6>3. left \in sub[d]
            BY <1>7, <6>1, <6>2
          <6>4. left # d
            BY <1>3, <1>10, <5>1, <6>2
          <6>5. t.parent[left] \in sub[d]
            BY <1>1, <6>2, <6>3, <6>4, ParentBelow
          <6>6. n \in sub[d]
            BY <1>3, <1>10, <6>5
          <6>7. sub[n] \subseteq sub[d]
            BY <1>1, <6>2, <6>6, Nested
          <6>8. QED BY <5>3, <6>1, <6>7
        <5>6. QED BY <5>4, <5>5
      <4>2. y \in U /\ y \in Node
        BY <1>1
      <4>3. /\ r.left[y] = IF t.left[y] = n THEN left ELSE t.left[y]
            /\ r.right[y] = IF t.right[y] = n THEN left ELSE t.right[y]
        BY <1>6, <2>1, <4>2
      <4>4. /\ \A z \in Below(sub, t.left[y]) : t.key[z] < t.key[y]
            /\ \A z \in Below(sub, t.right[y]) : t.key[z] > t.key[y]
        BY <1>1, <4>2 DEF Forest
      <4>5. ASSUME left \in Below(sub1, r.left[y]) PROVE t.key[x] < t.key[y]
        <5>1. t.left[y] # Null /\ x \in sub[t.left[y]]
          BY <4>1, <4>3, <4>5
        <5>2. QED BY <4>4, <5>1 DEF Below
      <4>6. ASSUME left \in Below(sub1, r.right[y]) PROVE t.key[x] > t.key[y]
        <5>1. t.right[y] # Null /\ x \in sub[t.right[y]]
          BY <4>1, <4>3, <4>6
        <5>2. QED BY <4>4, <5>1 DEF Below
      <4>7. QED BY <1>6, <4>5, <4>6
    <3>5. QED BY <1>5, <2>3, <3>1, <3>2, <3>3, <3>4 DEF MayAttach
  <2>7. PICK p \in sub1[left] : JoinedAt(a, r, V, sub1, p, right)
    BY <2>6, AttachedIs DEF a
  <2> DEFINE sub2 == Joined(V, sub1, p, right)
  <2>8. /\ Forest(a, V, sub2)
        /\ a.root = r.root /\ a.key = t.key /\ a.len = t.len
        /\ \A m \in Node : m # p => a.left[m] = r.left[m] /\ a.right[m] = r.right[m]
    BY <1>6, <2>7 DEF JoinedAt
  <2>9. p \in sub[left] /\ p \in U
    BY <2>3, <2>5
  <2>10. \A m \in Node \ U : a.left[m] = Null /\ a.right[m] = Null
    <3>1. \A m \in Node \ U : m # p
      BY <2>9
    <3>2. QED BY <1>8, <2>8, <3>1
  <2>11. a.root \in V /\ sub2[a.root] = V
    <3>1. \A y \in V : sub2[y] = IF p \in sub1[y] THEN sub1[y] \cup sub1[right] ELSE sub1[y]
      BY DEF Joined
    <3> HIDE DEF sub2
    <3>2. CASE n = root
      <4>1. a.root = left /\ sub[n] = U
        BY <1>1, <1>6, <2>1, <2>8, <3>2
      <4>2. sub2[left] = sub[left] \cup sub[right]
        BY <2>3, <2>5, <2>9, <3>1
      <4>3. QED BY <2>3, <2>4, <4>1, <4>2
    <3>3. CASE n # root
      <4>1. a.root = root /\ root \in V
        BY <1>1, <1>6, <2>8, <3>3
      <4>2. sub1[root] = U \ ({n} \cup sub[right])
        BY <1>1, <1>7, <2>4, <4>1
      <4>3. p \in sub1[root]
        BY <2>3, <2>4, <2>9, <4>2
      <4>4. sub2[root] = sub1[root] \cup sub[right]
        BY <2>5, <3>1, <4>1, <4>3
      <4>5. QED BY <2>3, <2>4, <4>1, <4>2, <4>4
    <3>4. QED BY <3>2, <3>3
  <2> HIDE DEF sub2
  <2>12. V # {}
    BY <2>3
  <2>13. Rooted(a, V, sub2)
    BY <2>8, <2>11, <2>12 DEF Rooted
  <2>14. QED BY <2>2, <2>8, <2>10, <2>13
<1>11. QED BY <1>9, <1>10

(* What is left of a node that is freed.                                   *)
Cleared(map, n) ==
    [map EXCEPT !.left[n] = Null, !.right[n] = Null, !.parent[n] = Null, !.key[n] = Null]

(* remove_node, and the node is freed.                                     *)
LEMMA TakenOutTree ==
    ASSUME NEW t, NEW U, NEW sub, Tree(t, U, sub), NEW n \in U, t.len # 0
    PROVE  LET a == Cleared(RemovedFromTree(t, n), n)
           IN  /\ \E sub2 : Tree(a, U \ {n}, sub2)
               /\ a.key = [t.key EXCEPT ![n] = Null] /\ a.len = t.len - 1
<1> DEFINE u == Unlinked(t, n)
           map == RemovedFromTree(t, n)
           a == Cleared(map, n)
           V == U \ {n}
           left == [u.left EXCEPT ![n] = Null]
           right == [u.right EXCEPT ![n] = Null]
           parent == [u.parent EXCEPT ![n] = Null]
           key == [u.key EXCEPT ![n] = Null]
<1>1. /\ \E sub2 : Rooted(u, V, sub2)
      /\ \A m \in Node \ U : u.left[m] = Null /\ u.right[m] = Null
      /\ u.key = t.key /\ u.len = t.len
  BY UnlinkedIs
<1>2. map = [u EXCEPT !.len = u.len - 1]
  BY DEF RemovedFromTree, Unlinked
<1> HIDE DEF u, map, V
<1>3. PICK sub2 : Rooted(u, V, sub2)
  BY <1>1
<1>4. /\ Forest(u, V, sub2) /\ u \in TreeType
      /\ u.left \in [Node -> Link] /\ u.right \in [Node -> Link]
      /\ u.parent \in [Node -> Link] /\ u.key \in [Node -> Key \cup {Null}]
      /\ u.root \in Link /\ u.len \in Nat
      /\ \A m \in Node : u.left[m] \in V \cup {Null} /\ u.right[m] \in V \cup {Null}
      /\ n \in Node /\ n \notin V /\ Null \notin Node /\ V \subseteq Node
      /\ u = [root |-> u.root, len |-> u.len, left |-> u.left, right |-> u.right,
              parent |-> u.parent, key |-> u.key]
  <2>1. Forest(u, V, sub2)
    BY <1>3 DEF Rooted
  <2>2. u \in TreeType /\ \A m \in Node : u.left[m] \in V \cup {Null} /\ u.right[m] \in V \cup {Null}
    BY <2>1 DEF Forest
  <2>3. n \in Node
    BY DEF Tree, Forest
  <2>4. V \subseteq Node
    BY <2>1 DEF Forest
  <2>5. QED BY <2>1, <2>2, <2>3, <2>4, NullAssumption DEF TreeType, V
<1>5. a = [root |-> u.root, len |-> u.len - 1, left |-> left, right |-> right,
           parent |-> parent, key |-> key]
  <2>1. map = [root |-> u.root, len |-> u.len - 1, left |-> u.left, right |-> u.right,
               parent |-> u.parent, key |-> u.key]
    BY <1>2, <1>4
  <2> DEFINE left2 == [map.left EXCEPT ![n] = Null]
             right2 == [map.right EXCEPT ![n] = Null]
             parent2 == [map.parent EXCEPT ![n] = Null]
             key2 == [map.key EXCEPT ![n] = Null]
  <2>2. a = [map EXCEPT !.left = left2, !.right = right2, !.parent = parent2, !.key = key2]
    BY DEF Cleared
  <2>3. left2 = left /\ right2 = right /\ parent2 = parent /\ key2 = key
    BY <2>1
  <2> HIDE DEF a, left2, right2, parent2, key2, left, right, parent, key
  <2>4. QED BY <2>1, <2>2, <2>3
<1>6. /\ left \in [Node -> Link] /\ right \in [Node -> Link] /\ parent \in [Node -> Link]
      /\ key \in [Node -> Key \cup {Null}] /\ u.len - 1 \in Nat
  BY <1>1, <1>4 DEF Link
<1>7. /\ \A m \in Node : m # n => /\ left[m] = u.left[m] /\ right[m] = u.right[m]
                                  /\ parent[m] = u.parent[m] /\ key[m] = u.key[m]
      /\ left[n] = Null /\ right[n] = Null
  BY <1>4
<1>8. key = [t.key EXCEPT ![n] = Null]
  BY <1>1
<1> HIDE DEF a, left, right, parent, key
<1>9. a \in TreeType
  BY <1>4, <1>5, <1>6 DEF TreeType
<1>10. \A m \in Node : a.left[m] \in V \cup {Null} /\ a.right[m] \in V \cup {Null}
  BY <1>4, <1>5, <1>7
<1>11. \A m \in V : /\ a.left[m] = u.left[m] /\ a.right[m] = u.right[m]
                    /\ a.key[m] = u.key[m] /\ a.parent[m] = u.parent[m]
  BY <1>4, <1>5, <1>7
<1>12. Forest(a, V, sub2)
  BY <1>4, <1>9, <1>10, <1>11, SameForest
<1>13. \A m \in Node \ V : a.left[m] = Null /\ a.right[m] = Null
  <2>1. ASSUME NEW m \in Node \ V PROVE a.left[m] = Null /\ a.right[m] = Null
    <3>1. CASE m = n
      BY <1>5, <1>7, <3>1
    <3>2. CASE m # n
      <4>1. m \in Node \ U
        BY <3>2 DEF V
      <4>2. QED BY <1>1, <1>5, <1>7, <3>2, <4>1
    <3>3. QED BY <3>1, <3>2
  <2>2. QED BY <2>1
<1>14. IF V = {} THEN a.root = Null ELSE a.root \in V /\ sub2[a.root] = V
  BY <1>3, <1>5 DEF Rooted
<1>15. Tree(a, V, sub2)
  BY <1>12, <1>13, <1>14 DEF Tree
<1>16. a.key = [t.key EXCEPT ![n] = Null] /\ a.len = t.len - 1
  BY <1>1, <1>5, <1>8
<1>17. QED BY <1>15, <1>16 DEF a, map, V

(* A walk down from the root meets the nodes of the tree.                  *)
LEMMA InTreeIs ==
    ASSUME NEW t, NEW U, NEW sub, Tree(t, U, sub)
    PROVE  InTree(t) = U
<1> DEFINE Step(f, n) == {n} \cup UNION {f[c] : c \in {t.left[n], t.right[n]} \ {Null}}
           IsBelow(f) == f = [n \in Node |-> {n} \cup UNION {f[c] : c \in {t.left[n], t.right[n]} \ {Null}}]
           below == CHOOSE f : IsBelow(f)
           g == [n \in Node |-> IF n \in U THEN sub[n] ELSE {n}]
<1>1. /\ Forest(t, U, sub) /\ U \subseteq Node /\ Null \notin Node
      /\ \A m \in Node \ U : t.left[m] = Null /\ t.right[m] = Null
      /\ \A m \in U : t.left[m] \in U \cup {Null} /\ t.right[m] \in U \cup {Null}
  BY ForestTypes DEF Tree, Forest
<1>2. ASSUME NEW f, NEW n PROVE Step(f, n) = {n} \cup Below(f, t.left[n]) \cup Below(f, t.right[n])
  BY DEF Below
<1>3. ASSUME NEW n \in Node PROVE g[n] = Step(g, n)
  <2>1. CASE n \in U
    <3>1. sub[n] = {n} \cup Below(sub, t.left[n]) \cup Below(sub, t.right[n])
      BY <1>1, <2>1 DEF Forest
    <3>2. ASSUME NEW c \in U \cup {Null} PROVE Below(g, c) = Below(sub, c)
      BY <1>1, <3>2 DEF Below
    <3> HIDE DEF Step
    <3>3. QED BY <1>1, <1>2, <2>1, <3>1, <3>2
  <2>2. CASE n \notin U
    <3>1. Below(g, Null) = {}
      BY DEF Below
    <3>2. t.left[n] = Null /\ t.right[n] = Null /\ g[n] = {n}
      BY <1>1, <2>2
    <3> HIDE DEF Step, g
    <3>3. Step(g, n) = {n} \cup Below(g, Null) \cup Below(g, Null)
      BY <1>2, <3>2
    <3>4. QED BY <3>1, <3>2, <3>3
  <2>3. QED BY <2>1, <2>2
<1>4. IsBelow(g)
  <2>1. g = [n \in Node |-> g[n]]
    OBVIOUS
  <2> HIDE DEF g
  <2>2. [n \in Node |-> g[n]] = [n \in Node |-> Step(g, n)]
    <3> HIDE DEF Step
    <3>1. QED BY <1>3
  <2>3. QED BY <2>1, <2>2
<1>5. IsBelow(below)
  <2> HIDE DEF IsBelow
  <2>1. QED BY <1>4
<1>6. \A n \in Node : below[n] = Step(below, n)
  <2> HIDE DEF below
  <2>1. QED BY <1>5
<1>7. InTree(t) = IF t.root = Null THEN {} ELSE below[t.root]
  BY DEF InTree
<1> HIDE DEF below, IsBelow, Step, g
<1> DEFINE S == {n \in U : below[n] = sub[n]}
<1>8. ASSUME NEW n \in U,
             t.left[n] # Null => t.left[n] \in S,
             t.right[n] # Null => t.right[n] \in S
      PROVE  n \in S
  <2>1. Below(below, t.left[n]) = Below(sub, t.left[n])
    BY <1>8 DEF Below
  <2>2. Below(below, t.right[n]) = Below(sub, t.right[n])
    BY <1>8 DEF Below
  <2>3. sub[n] = {n} \cup Below(sub, t.left[n]) \cup Below(sub, t.right[n])
    BY <1>1 DEF Forest
  <2>4. below[n] = {n} \cup Below(below, t.left[n]) \cup Below(below, t.right[n])
    BY <1>1, <1>2, <1>6
  <2>5. QED BY <2>1, <2>2, <2>3, <2>4
<1>9. U \subseteq S
  <2> HIDE DEF S
  <2>1. QED BY <1>1, <1>8, TreeInduction
<1>10. CASE U = {}
  BY <1>7, <1>10 DEF Tree
<1>11. CASE U # {}
  <2>1. t.root \in U /\ sub[t.root] = U
    BY <1>11 DEF Tree
  <2>2. QED BY <1>1, <1>7, <1>9, <2>1
<1>12. QED BY <1>10, <1>11

-----------------------------------------------------------------------------
(* The mapped list.                                                        *)

(* The list and the tree of m both hold the nodes of the sequence s, which *)
(* are the ones that are allocated.                                        *)
MappedIs(m, s) ==
    /\ m \in MappedListType
    /\ ListIs(m.list, s)
    /\ m.used = {s[i] : i \in 1 .. Len(s)}
    /\ \E sub : Tree(m.map, m.used, sub)
    /\ m.map.len = Cardinality(m.used)

LEMMA MappedTypes ==
    ASSUME NEW m, NEW s, MappedIs(m, s)
    PROVE  /\ s \in Seq(Node) /\ Len(s) \in Nat /\ m.list.len = Len(s)
           /\ \A i, j \in 1 .. Len(s) : s[i] = s[j] => i = j
           /\ \A i \in 1 .. Len(s) : s[i] \in Node /\ s[i] \in m.used
           /\ Len(s) > 0 => m.list.tail = s[Len(s)] /\ Len(s) \in 1 .. Len(s)
           /\ \A n \in m.used : \E i \in 1 .. Len(s) : n = s[i]
           /\ m.map \in TreeType /\ m.map.key \in [Node -> Key \cup {Null}] /\ m.map.len \in Nat
           /\ m.value \in [Node -> Value \cup {Null}]
           /\ m.used \in SUBSET Node /\ IsFiniteSet(m.used)
           /\ \A n \in m.used : m.map.key[n] \in Key
           /\ Null \notin Node
           /\ m = [map |-> m.map, list |-> m.list, value |-> m.value, used |-> m.used]
<1>1. /\ s \in Seq(Node) /\ Len(s) \in Nat /\ m.list.len = Len(s)
      /\ \A i, j \in 1 .. Len(s) : s[i] = s[j] => i = j
      /\ Len(s) > 0 => m.list.tail = s[Len(s)] /\ Len(s) \in 1 .. Len(s)
  BY DEF MappedIs, ListIs
<1>2. \A i \in 1 .. Len(s) : s[i] \in Node
  BY <1>1
<1>3. PICK sub : Forest(m.map, m.used, sub)
  BY DEF MappedIs, Tree
<1>4. /\ m.map \in TreeType /\ m.map.key \in [Node -> Key \cup {Null}] /\ m.map.len \in Nat
      /\ m.used \in SUBSET Node /\ IsFiniteSet(m.used) /\ Null \notin Node
      /\ \A n \in m.used : m.map.key[n] \in Key
  BY <1>3, ForestTypes DEF Forest
<1>5. /\ \A i \in 1 .. Len(s) : s[i] \in m.used
      /\ \A n \in m.used : \E i \in 1 .. Len(s) : n = s[i]
  BY DEF MappedIs
<1>6. /\ m.value \in [Node -> Value \cup {Null}]
      /\ m = [map |-> m.map, list |-> m.list, value |-> m.value, used |-> m.used]
  BY DEF MappedIs, MappedListType
<1>7. QED BY <1>1, <1>2, <1>4, <1>5, <1>6

LEMMA EmptyMappedIs == MappedIs(EmptyMappedList, <<>>)
<1> DEFINE none == [n \in Node |-> Null]
           m == EmptyMappedList
<1>1. none \in [Node -> Link] /\ none \in [Node -> Key \cup {Null}] /\ Null \in Link
      /\ none \in [Node -> Value \cup {Null}]
  BY DEF Link
<1>2. /\ EmptyTree = [root |-> Null, len |-> 0, left |-> none, right |-> none,
                      parent |-> none, key |-> none]
      /\ m = [map |-> EmptyTree, list |-> EmptyList, value |-> none, used |-> {}]
  BY DEF EmptyTree, EmptyMappedList
<1> HIDE DEF m
<1>3. EmptyTree \in TreeType
  BY <1>1, <1>2 DEF TreeType
<1>4. ListIs(EmptyList, <<>>)
  BY EmptyListIs
<1>5. m \in MappedListType
  BY <1>1, <1>2, <1>3, <1>4 DEF MappedListType, ListIs
<1>6. Tree(EmptyTree, {}, [n \in {} |-> {}])
  <2>1. \A n \in Node : EmptyTree.left[n] = Null /\ EmptyTree.right[n] = Null
    BY <1>2
  <2>2. IsFiniteSet({}) /\ [n \in {} |-> {}] \in [{} -> SUBSET {}]
    BY FS_EmptySet
  <2>3. QED BY <1>2, <1>3, <2>1, <2>2 DEF Tree, Forest
<1>7. m.map.len = Cardinality(m.used)
  BY <1>2, FS_EmptySet
<1>8. m.used = {<<>>[i] : i \in 1 .. Len(<<>>)}
  <2>1. 1 .. Len(<<>>) = {}
    OBVIOUS
  <2>2. QED BY <1>2, <2>1
<1>9. QED BY <1>2, <1>4, <1>5, <1>6, <1>7, <1>8 DEF MappedIs, m

(* What find gives: the node with the key, if there is one.                *)
LEMMA FindIs ==
    ASSUME NEW m, NEW s, MappedIs(m, s), NEW k
    PROVE  /\ Find(m, k) = Null \/ (Find(m, k) \in m.used /\ m.map.key[Find(m, k)] = k)
           /\ \A n \in m.used : m.map.key[n] = k => Find(m, k) = n /\ Find(m, k) # Null
<1>1. PICK sub : Tree(m.map, m.used, sub)
  BY DEF MappedIs
<1>2. \A n \in m.used : n # Null
  BY MappedTypes
<1>3. QED BY <1>1, <1>2, FindNodeIs DEF Find

(* find_bump_to_front                                                      *)
LEMMA FoundBumpedIs ==
    ASSUME NEW m, NEW s, MappedIs(m, s), NEW i \in 1 .. Len(s), NEW k, m.map.key[s[i]] = k
    PROVE  /\ MappedIs(FoundBumped(m, k), ToFront(s, i))
           /\ FoundBumped(m, k).map = m.map /\ FoundBumped(m, k).value = m.value
           /\ FoundBumped(m, k).used = m.used
<1> DEFINE a == FoundBumped(m, k)
           t == ToFront(s, i)
<1>1. /\ s \in Seq(Node) /\ Len(s) \in Nat /\ s[i] \in m.used
      /\ m = [map |-> m.map, list |-> m.list, value |-> m.value, used |-> m.used]
      /\ m \in MappedListType
  BY MappedTypes DEF MappedIs
<1>2. Find(m, k) = s[i]
  BY <1>1, FindIs
<1>3. a = [map |-> m.map, list |-> BumpedToFront(m.list, s[i]), value |-> m.value, used |-> m.used]
  BY <1>1, <1>2 DEF FoundBumped
<1> HIDE DEF a
<1>4. ListIs(a.list, t)
  BY <1>3, BumpedToFrontIs DEF MappedIs
<1>5. a \in MappedListType
  <2>1. a.list \in ListType
    BY <1>4 DEF ListIs
  <2>2. QED BY <1>1, <1>3, <2>1 DEF MappedListType
<1>6. {t[j] : j \in 1 .. Len(t)} = {s[j] : j \in 1 .. Len(s)}
  <2>1. /\ Len(t) = Len(s) /\ t[1] = s[i]
        /\ \A j \in 2 .. Len(s) : t[j] = IF j <= i THEN s[j - 1] ELSE s[j]
    BY <1>1, ToFrontIs
  <2> HIDE DEF t
  <2>2. ASSUME NEW j \in 1 .. Len(s) PROVE \E h \in 1 .. Len(s) : t[j] = s[h]
    <3>1. CASE j = 1
      BY <2>1, <3>1
    <3>2. CASE j # 1
      <4>1. j \in 2 .. Len(s) /\ j - 1 \in 1 .. Len(s)
        BY <1>1, <3>2
      <4>2. QED BY <2>1, <4>1
    <3>3. QED BY <3>1, <3>2
  <2>3. ASSUME NEW j \in 1 .. Len(s) PROVE \E h \in 1 .. Len(s) : t[h] = s[j]
    <3>1. CASE j = i
      <4>1. 1 \in 1 .. Len(s)
        BY <1>1
      <4>2. QED BY <2>1, <3>1, <4>1
    <3>2. CASE j < i
      <4>1. j + 1 \in 2 .. Len(s) /\ j + 1 \in 1 .. Len(s) /\ j + 1 <= i /\ (j + 1) - 1 = j
        BY <1>1, <3>2
      <4>2. t[j + 1] = s[(j + 1) - 1]
        BY <2>1, <4>1
      <4>3. QED BY <4>1, <4>2
    <3>3. CASE j > i
      <4>1. j \in 2 .. Len(s) /\ ~ (j <= i)
        BY <1>1, <3>3
      <4>2. QED BY <2>1, <4>1
    <3>4. QED BY <1>1, <3>1, <3>2, <3>3
  <2>4. {t[j] : j \in 1 .. Len(s)} = {s[j] : j \in 1 .. Len(s)}
    <3>1. ASSUME NEW x
          PROVE  x \in {t[j] : j \in 1 .. Len(s)} <=> x \in {s[j] : j \in 1 .. Len(s)}
      <4>1. ASSUME NEW j \in 1 .. Len(s), x = t[j] PROVE \E h \in 1 .. Len(s) : x = s[h]
        BY <2>2, <4>1
      <4>2. ASSUME NEW j \in 1 .. Len(s), x = s[j] PROVE \E h \in 1 .. Len(s) : x = t[h]
        BY <2>3, <4>2
      <4>3. QED BY <4>1, <4>2
    <3>2. QED BY <3>1
  <2>5. QED BY <2>1, <2>4
<1>7. MappedIs(a, t)
  BY <1>3, <1>4, <1>5, <1>6 DEF MappedIs
<1>8. QED BY <1>3, <1>7 DEF a

(* push_front, when there is a node, of a key that is not there.           *)
Absent(m, k) == \A n \in m.used : m.map.key[n] # k

(* a is m, with a node n in front that holds k and v.                      *)
PushedOnto(a, m, s, n, k, v) ==
    /\ n \in Node \ m.used
    /\ MappedIs(a, Consed(s, n))
    /\ a.map.key = [m.map.key EXCEPT ![n] = k]
    /\ a.value = [m.value EXCEPT ![n] = v]
    /\ a.used = m.used \cup {n}

LEMMA PushedIs ==
    ASSUME NEW m, NEW s, MappedIs(m, s), m.used # Node, NEW k \in Key, Absent(m, k), NEW v \in Value
    PROVE  \E n \in Node : PushedOnto(Pushed(m, k, v), m, s, n, k, v)
<1> DEFINE a == Pushed(m, k, v)
<1>0. PICK n : n = SpareNode(m)
  OBVIOUS
<1> DEFINE t == Consed(s, n)
<1>1. /\ s \in Seq(Node) /\ Len(s) \in Nat
      /\ \A i \in 1 .. Len(s) : s[i] \in m.used
      /\ m.used \in SUBSET Node /\ IsFiniteSet(m.used)
      /\ m.value \in [Node -> Value \cup {Null}] /\ m.map.len \in Nat
      /\ m.used = {s[i] : i \in 1 .. Len(s)} /\ m.map.len = Cardinality(m.used)
      /\ ListIs(m.list, s)
  BY MappedTypes DEF MappedIs
<1>2. n \in Node /\ n \notin m.used
  BY <1>0, <1>1 DEF SpareNode
<1>3. PICK sub : Tree(m.map, m.used, sub)
  BY DEF MappedIs
<1>4. /\ a.map = Inserted(Blank(m.map, n, k), n) /\ a.list = PushedFront(m.list, n)
      /\ a.value = [m.value EXCEPT ![n] = v] /\ a.used = m.used \cup {n}
      /\ a = [map |-> a.map, list |-> a.list, value |-> a.value, used |-> a.used]
  BY <1>0 DEF Pushed, Blank
<1> HIDE DEF a
<1>5. /\ \E sub2 : Tree(a.map, m.used \cup {n}, sub2)
      /\ a.map.key = [m.map.key EXCEPT ![n] = k] /\ a.map.len = m.map.len + 1
  <2>1. m.map.len \in Nat /\ k \in Key /\ \A y \in m.used : m.map.key[y] # k
    BY <1>1 DEF Absent
  <2>2. TreeWith(Inserted(Blank(m.map, n, k), n), m.map, m.used, n, k)
    BY <1>2, <1>3, <2>1, InsertedIs
  <2>3. QED BY <1>4, <2>2 DEF TreeWith
<1>6. ListIs(a.list, t)
  <2>1. \A i \in 1 .. Len(s) : s[i] # n
    BY <1>1, <1>2
  <2>2. QED BY <1>1, <1>2, <1>4, <2>1, PushedFrontIs
<1>7. a.used = {t[i] : i \in 1 .. Len(t)}
  <2>1. /\ Len(t) = Len(s) + 1 /\ t[1] = n
        /\ \A i \in 2 .. Len(s) + 1 : t[i] = s[i - 1]
    <3>1. s \in Seq(Node) /\ n \in Node
      BY <1>1, <1>2
    <3>2. /\ Len(Consed(s, n)) = Len(s) + 1 /\ Consed(s, n)[1] = n
          /\ \A i \in 2 .. Len(s) + 1 : Consed(s, n)[i] = s[i - 1]
      BY ONLY <3>1, ConsedIs
    <3>3. QED BY <3>2
  <2> HIDE DEF t
  <2>2. ASSUME NEW i \in 1 .. Len(t) PROVE t[i] \in m.used \cup {n}
    <3>1. CASE i = 1
      BY <2>1, <3>1
    <3>2. CASE i # 1
      <4>1. i \in 2 .. Len(s) + 1 /\ i - 1 \in 1 .. Len(s)
        BY <1>1, <2>1, <3>2
      <4>2. QED BY <1>1, <2>1, <4>1
    <3>3. QED BY <3>1, <3>2
  <2>3. ASSUME NEW x \in m.used \cup {n} PROVE \E i \in 1 .. Len(t) : t[i] = x
    <3>1. CASE x = n
      <4>1. 1 \in 1 .. Len(t)
        BY <1>1, <2>1
      <4>2. QED BY <2>1, <3>1, <4>1
    <3>2. CASE x # n
      <4>1. PICK i \in 1 .. Len(s) : x = s[i]
        BY <1>1, <3>2
      <4>2. i + 1 \in 2 .. Len(s) + 1 /\ i + 1 \in 1 .. Len(t) /\ (i + 1) - 1 = i
        BY <1>1, <2>1
      <4>3. t[i + 1] = s[(i + 1) - 1]
        BY <2>1, <4>2
      <4>4. QED BY <4>1, <4>2, <4>3
    <3>3. QED BY <3>1, <3>2
  <2>4. QED BY <1>4, <2>2, <2>3
<1>8. a.map.len = Cardinality(a.used)
  <2>1. Cardinality(m.used \cup {n}) = Cardinality(m.used) + 1
    <3>1. IsFiniteSet(m.used) /\ n \notin m.used
      BY <1>1, <1>2
    <3>2. QED BY ONLY <3>1, FS_AddElement
  <2>2. QED BY <1>1, <1>4, <1>5, <2>1
<1>9. a \in MappedListType
  <2>1. a.map \in TreeType
    BY <1>5 DEF Tree, Forest
  <2>2. a.list \in ListType
    BY <1>6 DEF ListIs
  <2>3. a.value \in [Node -> Value \cup {Null}] /\ a.used \in SUBSET Node
    BY <1>1, <1>2, <1>4
  <2>4. QED BY <1>4, <2>1, <2>2, <2>3 DEF MappedListType
<1>10. \E sub2 : Tree(a.map, a.used, sub2)
  BY <1>4, <1>5
<1>11. MappedIs(a, t)
  BY <1>6, <1>7, <1>8, <1>9, <1>10 DEF MappedIs
<1>12. PushedOnto(a, m, s, n, k, v)
  BY <1>2, <1>4, <1>5, <1>11 DEF PushedOnto
<1>13. QED BY <1>2, <1>12 DEF a

(* remove_node of both.                                                    *)
LEMMA TakenOutIs ==
    ASSUME NEW m, NEW s, MappedIs(m, s), NEW k \in 1 .. Len(s)
    PROVE  LET n == s[k]
               a == TakenOut(m, n)
           IN  /\ MappedIs(a, Dropped(s, k))
               /\ a.map.key = [m.map.key EXCEPT ![n] = Null]
               /\ a.value = [m.value EXCEPT ![n] = Null]
               /\ a.used = m.used \ {n}
<1>0. PICK n : n = s[k]
  OBVIOUS
<1> DEFINE a == TakenOut(m, n)
           t == Dropped(s, k)
           map == RemovedFromTree(m.map, n)
           list == RemovedNode(m.list, n)
<1>1. /\ s \in Seq(Node) /\ Len(s) \in Nat
      /\ \A i \in 1 .. Len(s) : s[i] \in m.used
      /\ \A i, j \in 1 .. Len(s) : s[i] = s[j] => i = j
      /\ m.used \in SUBSET Node /\ IsFiniteSet(m.used)
      /\ m.value \in [Node -> Value \cup {Null}] /\ m.map.len \in Nat
      /\ m.used = {s[i] : i \in 1 .. Len(s)} /\ m.map.len = Cardinality(m.used)
      /\ ListIs(m.list, s)
  BY MappedTypes DEF MappedIs
<1>2. n \in Node /\ n \in m.used
  BY <1>0, <1>1
<1>3. PICK sub : Tree(m.map, m.used, sub)
  BY DEF MappedIs
<1>4. /\ a.map = Cleared(map, n)
      /\ a.list = [list EXCEPT !.next[n] = Null, !.prev[n] = Null]
      /\ a.value = [m.value EXCEPT ![n] = Null] /\ a.used = m.used \ {n}
      /\ a = [map |-> a.map, list |-> a.list, value |-> a.value, used |-> a.used]
  BY DEF TakenOut, Cleared
<1> HIDE DEF a
<1>5. Cardinality(m.used \ {n}) = Cardinality(m.used) - 1 /\ m.map.len # 0
  <2>1. Cardinality(m.used \ {n}) = Cardinality(m.used) - 1
    BY <1>1, <1>2, FS_RemoveElement
  <2>2. Cardinality(m.used) # 0
    BY <1>1, <1>2, FS_EmptySet
  <2>3. QED BY <1>1, <2>1, <2>2
<1>6. /\ \E sub2 : Tree(a.map, m.used \ {n}, sub2)
      /\ a.map.key = [m.map.key EXCEPT ![n] = Null] /\ a.map.len = m.map.len - 1
  <2> HIDE DEF map
  <2>1. \E sub2 : Tree(Cleared(RemovedFromTree(m.map, n), n), m.used \ {n}, sub2)
    BY <1>2, <1>3, <1>5, TakenOutTree
  <2>2. /\ Cleared(RemovedFromTree(m.map, n), n).key = [m.map.key EXCEPT ![n] = Null]
        /\ Cleared(RemovedFromTree(m.map, n), n).len = m.map.len - 1
    BY <1>2, <1>3, <1>5, TakenOutTree
  <2>3. a.map = Cleared(RemovedFromTree(m.map, n), n)
    BY <1>4 DEF map
  <2>4. QED BY <2>1, <2>2, <2>3
<1>7. /\ t \in Seq(Node) /\ Len(t) = Len(s) - 1
      /\ \A i \in 1 .. Len(s) - 1 : t[i] = IF i < k THEN s[i] ELSE s[i + 1]
  BY <1>1, DroppedIs
<1>8. ListIs(list, t)
  BY <1>0, <1>1, RemovedNodeIs
<1> HIDE DEF list, map, t
<1>9. \A i \in 1 .. Len(t) : t[i] # n /\ t[i] \in m.used
  <2>1. ASSUME NEW i \in 1 .. Len(t) PROVE t[i] # n /\ t[i] \in m.used
    <3>1. CASE i < k
      <4>1. i \in 1 .. Len(s) /\ i # k /\ t[i] = s[i]
        BY <1>1, <1>7, <3>1
      <4>2. QED BY <1>0, <1>1, <4>1
    <3>2. CASE ~ (i < k)
      <4>1. i + 1 \in 1 .. Len(s) /\ i + 1 # k /\ t[i] = s[i + 1]
        BY <1>1, <1>7, <3>2
      <4>2. QED BY <1>0, <1>1, <4>1
    <3>3. QED BY <3>1, <3>2
  <2>2. QED BY <2>1
<1>10. ListIs(a.list, t)
  <2>1. \A i \in 1 .. Len(t) : t[i] # n
    BY <1>9
  <2>2. ListIs([list EXCEPT !.next[n] = Null, !.prev[n] = Null], t)
    BY <1>2, <1>8, <2>1, ClearedListIs
  <2>3. QED BY <1>4, <2>2
<1>11. a.used = {t[i] : i \in 1 .. Len(t)}
  <2>1. ASSUME NEW x \in m.used \ {n} PROVE \E i \in 1 .. Len(t) : t[i] = x
    <3>1. PICK j \in 1 .. Len(s) : x = s[j]
      BY <1>1
    <3>2. j # k
      BY <1>0, <2>1, <3>1
    <3>3. CASE j < k
      <4>1. j \in 1 .. Len(t)
        BY <1>1, <1>7, <3>3
      <4>2. QED BY <1>7, <3>1, <3>3, <4>1
    <3>4. CASE j > k
      <4>1. j - 1 \in 1 .. Len(t) /\ ~ (j - 1 < k) /\ (j - 1) + 1 = j
        BY <1>1, <1>7, <3>4
      <4>2. t[j - 1] = s[(j - 1) + 1]
        BY <1>7, <4>1
      <4>3. QED BY <3>1, <4>1, <4>2
    <3>5. QED BY <1>1, <3>2, <3>3, <3>4
  <2>2. QED BY <1>4, <1>9, <2>1
<1>12. a.map.len = Cardinality(a.used)
  BY <1>1, <1>4, <1>5, <1>6
<1>13. a \in MappedListType
  <2>1. a.map \in TreeType
    BY <1>6 DEF Tree, Forest
  <2>2. a.list \in ListType
    BY <1>10 DEF ListIs
  <2>3. a.value \in [Node -> Value \cup {Null}] /\ a.used \in SUBSET Node
    BY <1>1, <1>2, <1>4
  <2>4. QED BY <1>4, <2>1, <2>2, <2>3 DEF MappedListType
<1>14. \E sub2 : Tree(a.map, a.used, sub2)
  BY <1>4, <1>6
<1>15. MappedIs(a, t)
  BY <1>10, <1>11, <1>12, <1>13, <1>14 DEF MappedIs
<1>16. QED BY <1>0, <1>4, <1>6, <1>15 DEF a, t

(* In such a mapped list the list and the tree agree.                      *)
LEMMA MappedAgree ==
    ASSUME NEW m, NEW s, MappedIs(m, s)
    PROVE  Agree(m)
<1>1. PICK sub : Tree(m.map, m.used, sub)
  BY DEF MappedIs
<1>2. InOrder(m.list) = s /\ WellLinked(m.list)
  BY InOrderIs, WellLinkedList DEF MappedIs
<1>3. {InOrder(m.list)[i] : i \in 1 .. m.list.len} = m.used
  <2>1. m.list.len = Len(s) /\ m.used = {s[i] : i \in 1 .. Len(s)}
    BY MappedTypes DEF MappedIs
  <2>2. QED BY <1>2, <2>1
<1>4. InTree(m.map) = m.used
  BY <1>1, InTreeIs
<1>5. \A n \in m.used : Find(m, m.map.key[n]) = n
  BY FindIs
<1>6. ASSUME NEW n \in m.used \ {m.map.root}
      PROVE  IsChild(m.map, m.map.parent[n], n)
  <2>1. Forest(m.map, m.used, sub) /\ m.map.root \in m.used /\ sub[m.map.root] = m.used
    BY <1>1, <1>6 DEF Tree
  <2>2. /\ m.map.parent[n] \in m.used
        /\ n = m.map.left[m.map.parent[n]] \/ n = m.map.right[m.map.parent[n]]
    BY <1>6, <2>1, ParentBelow
  <2>3. m.map.parent[n] # Null
    BY <2>2, MappedTypes
  <2>4. QED BY <2>2, <2>3 DEF IsChild
<1>7. QED BY <1>2, <1>3, <1>4, <1>5, <1>6 DEF Agree, MappedIs

-----------------------------------------------------------------------------
(* The blocks of the cache.                                                *)

Block == [address : Key, data : Buffer]

LEMMA BlockFields ==
    /\ \A x \in Block : x.address \in Key /\ x.data \in Buffer
                        /\ x = [address |-> x.address, data |-> x.data]
    /\ \A a \in Key, d \in Buffer : [address |-> a, data |-> d] \in Block
  BY DEF Block

(* The blocks that c caches, the one used last first.                      *)
Blocks(c) ==
    [i \in 1 .. c.list.len |->
        LET n == InOrder(c.list)[i] IN [address |-> c.map.key[n], data |-> c.value[n]]]

(* The nodes of c are those of s, and hold the blocks of B in this order.  *)
NodesHold(c, s, B) ==
    /\ MappedIs(c, s) /\ Len(s) = Len(B)
    /\ \A i \in 1 .. Len(B) : B[i].address = c.map.key[s[i]] /\ B[i].data = c.value[s[i]]

CacheIs(c, B) == B \in Seq(Block) /\ \E s : NodesHold(c, s, B)

Missing(B, a) == \A i \in 1 .. Len(B) : B[i].address # a

(* The blocks are all of a cache, and each has an address of its own.      *)
LEMMA BlocksIs ==
    ASSUME NEW c, NEW B, CacheIs(c, B)
    PROVE  /\ B = Blocks(c) /\ Len(B) \in Nat /\ c.list.len = Len(B)
           /\ \A i \in 1 .. Len(B) : B[i] \in Block
           /\ \A i, j \in 1 .. Len(B) : B[i].address = B[j].address => i = j
           /\ c \in MappedListType
<1>1. PICK s : NodesHold(c, s, B)
  BY DEF CacheIs
<1>2. MappedIs(c, s) /\ Len(s) = Len(B) /\ B \in Seq(Block) /\ Len(B) \in Nat
  BY <1>1 DEF NodesHold, CacheIs
<1>3. InOrder(c.list) = s /\ c.list.len = Len(B)
  BY <1>2, InOrderIs DEF MappedIs, ListIs
<1>4. \A i \in 1 .. Len(B) : B[i].address = c.map.key[s[i]] /\ B[i].data = c.value[s[i]]
  BY <1>1 DEF NodesHold
<1>5. B = Blocks(c)
  <2>1. B = [i \in 1 .. Len(B) |-> B[i]]
    BY <1>2
  <2>2. [i \in 1 .. Len(B) |-> B[i]]
            = [i \in 1 .. Len(B) |-> [address |-> c.map.key[s[i]], data |-> c.value[s[i]]]]
    <3>1. \A i \in 1 .. Len(B) : B[i] = [address |-> B[i].address, data |-> B[i].data]
      <4>1. \A b \in Block : b = [address |-> b.address, data |-> b.data]
        BY BlockFields
      <4>2. \A i \in 1 .. Len(B) : B[i] \in Block
        BY <1>2
      <4>3. QED BY <4>1, <4>2
    <3>2. QED BY <1>4, <3>1
  <2>3. QED BY <1>3, <2>1, <2>2 DEF Blocks
<1>6. ASSUME NEW i \in 1 .. Len(B), NEW j \in 1 .. Len(B), B[i].address = B[j].address
      PROVE  i = j
  <2>1. c.map.key[s[i]] = c.map.key[s[j]]
    BY <1>4, <1>6
  <2>2. s[i] \in c.used /\ s[j] \in c.used
    BY <1>2, MappedTypes
  <2>3. s[i] = s[j]
    <3>1. PICK k : k = c.map.key[s[i]]
      OBVIOUS
    <3>2. \A n \in c.used : c.map.key[n] = k => Find(c, k) = n
      BY <1>2, FindIs
    <3>3. QED BY <2>1, <2>2, <3>1, <3>2
  <2>4. QED BY <1>2, <2>3, MappedTypes
<1>7. c \in MappedListType
  BY <1>2 DEF MappedIs
<1>8. \A i \in 1 .. Len(B) : B[i] \in Block
  BY <1>2
<1>9. QED BY <1>2, <1>3, <1>5, <1>6, <1>7, <1>8

LEMMA EmptyCacheIs == CacheIs(EmptyMappedList, <<>>)
<1>1. NodesHold(EmptyMappedList, <<>>, <<>>)
  BY EmptyMappedIs DEF NodesHold
<1>2. QED BY <1>1 DEF CacheIs

(* A block is found by its address.                                        *)
LEMMA FoundIs ==
    ASSUME NEW c, NEW B, CacheIs(c, B), NEW i \in 1 .. Len(B)
    PROVE  /\ Find(c, B[i].address) # Null
           /\ c.value[Find(c, B[i].address)] = B[i].data
           /\ CacheIs(FoundBumped(c, B[i].address), ToFront(B, i))
<1>1. PICK s : NodesHold(c, s, B)
  BY DEF CacheIs
<1>2. /\ MappedIs(c, s) /\ Len(s) = Len(B) /\ B \in Seq(Block) /\ Len(B) \in Nat
      /\ s \in Seq(Node) /\ s[i] \in c.used
  BY <1>1, MappedTypes DEF NodesHold, CacheIs
<1>3. \A j \in 1 .. Len(B) : B[j].address = c.map.key[s[j]] /\ B[j].data = c.value[s[j]]
  BY <1>1 DEF NodesHold
<1> DEFINE a == B[i].address
           d == FoundBumped(c, a)
           t == ToFront(s, i)
           C == ToFront(B, i)
<1>4. c.map.key[s[i]] = a /\ c.value[s[i]] = B[i].data
  BY <1>3
<1>5. Find(c, a) = s[i] /\ Find(c, a) # Null
  BY <1>2, <1>4, FindIs
<1>6. MappedIs(d, t) /\ d.map = c.map /\ d.value = c.value
  <2> HIDE DEF a
  <2>1. QED BY <1>2, <1>4, FoundBumpedIs
<1>7. /\ t \in Seq(Node) /\ Len(t) = Len(s) /\ t[1] = s[i]
      /\ \A j \in 2 .. Len(s) : t[j] = IF j <= i THEN s[j - 1] ELSE s[j]
  BY <1>2, ToFrontIs
<1>8. /\ C \in Seq(Block) /\ Len(C) = Len(B) /\ C[1] = B[i]
      /\ \A j \in 2 .. Len(B) : C[j] = IF j <= i THEN B[j - 1] ELSE B[j]
  BY <1>2, ToFrontIs
<1> HIDE DEF a, d, t, C
<1>9. ASSUME NEW j \in 1 .. Len(C)
      PROVE  C[j].address = d.map.key[t[j]] /\ C[j].data = d.value[t[j]]
  <2>1. CASE j = 1
    BY <1>3, <1>6, <1>7, <1>8, <2>1
  <2>2. CASE j # 1
    <3>1. j \in 2 .. Len(B) /\ j - 1 \in 1 .. Len(B) /\ j \in 1 .. Len(B)
      BY <1>2, <1>8, <2>2
    <3>2. CASE j <= i
      <4>1. C[j] = B[j - 1] /\ t[j] = s[j - 1]
        BY <1>2, <1>7, <1>8, <3>1, <3>2
      <4>2. QED BY <1>3, <1>6, <3>1, <4>1
    <3>3. CASE ~ (j <= i)
      <4>1. C[j] = B[j] /\ t[j] = s[j]
        BY <1>2, <1>7, <1>8, <3>1, <3>3
      <4>2. QED BY <1>3, <1>6, <3>1, <4>1
    <3>4. QED BY <3>2, <3>3
  <2>3. QED BY <2>1, <2>2
<1>10. CacheIs(d, C)
  <2>1. NodesHold(d, t, C)
    BY <1>2, <1>6, <1>7, <1>8, <1>9 DEF NodesHold
  <2>2. QED BY <1>8, <2>1 DEF CacheIs
<1>11. QED BY <1>4, <1>5, <1>10 DEF a, d, C

(* A block that is not there is not found.                                 *)
LEMMA NotFoundIs ==
    ASSUME NEW c, NEW B, CacheIs(c, B), NEW a, Missing(B, a)
    PROVE  Find(c, a) = Null /\ Absent(c, a)
<1>1. PICK s : NodesHold(c, s, B)
  BY DEF CacheIs
<1>2. MappedIs(c, s) /\ Len(s) = Len(B)
  BY <1>1 DEF NodesHold
<1>3. ASSUME NEW n \in c.used PROVE c.map.key[n] # a
  <2>1. PICK i \in 1 .. Len(s) : n = s[i]
    BY <1>2, MappedTypes
  <2>2. B[i].address = c.map.key[n]
    BY <1>1, <1>2, <2>1 DEF NodesHold
  <2>3. QED BY <1>2, <2>1, <2>2 DEF Missing
<1>4. QED BY <1>2, <1>3, FindIs DEF Absent

(* A block that was not there is pushed in front.                          *)
LEMMA PushedBlockIs ==
    ASSUME NEW c, NEW B, CacheIs(c, B), NEW a \in Key, Missing(B, a), c.used # Node,
           NEW v \in Buffer
    PROVE  CacheIs(Pushed(c, a, v), Consed(B, [address |-> a, data |-> v]))
<1> DEFINE b == [address |-> a, data |-> v]
           C == Consed(B, b)
           d == Pushed(c, a, v)
<1>1. PICK s : NodesHold(c, s, B)
  BY DEF CacheIs
<1>2. /\ MappedIs(c, s) /\ Len(s) = Len(B) /\ B \in Seq(Block) /\ Len(B) \in Nat
      /\ s \in Seq(Node) /\ c.map.key \in [Node -> Key \cup {Null}]
      /\ c.value \in [Node -> Value \cup {Null}]
      /\ \A i \in 1 .. Len(s) : s[i] \in Node /\ s[i] \in c.used
  BY <1>1, MappedTypes DEF NodesHold, CacheIs
<1>3. \A i \in 1 .. Len(B) : B[i].address = c.map.key[s[i]] /\ B[i].data = c.value[s[i]]
  BY <1>1 DEF NodesHold
<1>4. Absent(c, a)
  BY NotFoundIs
<1>5. v \in Value /\ b \in Block /\ b.address = a /\ b.data = v
  BY DEF Buffer, Block
<1>6. PICK n \in Node \ c.used :
          /\ MappedIs(d, Consed(s, n))
          /\ d.map.key = [c.map.key EXCEPT ![n] = a]
          /\ d.value = [c.value EXCEPT ![n] = v]
  <2>1. MappedIs(c, s) /\ v \in Value
    BY <1>2, <1>5
  <2>2. \E n \in Node : PushedOnto(Pushed(c, a, v), c, s, n, a, v)
    BY <1>4, <2>1, PushedIs
  <2>3. QED BY <2>2 DEF PushedOnto
<1> DEFINE t == Consed(s, n)
<1>7. /\ Len(t) = Len(s) + 1 /\ t[1] = n
      /\ \A i \in 2 .. Len(s) + 1 : t[i] = s[i - 1]
  <2>1. s \in Seq(Node) /\ n \in Node
    BY <1>2
  <2>2. /\ Len(Consed(s, n)) = Len(s) + 1 /\ Consed(s, n)[1] = n
        /\ \A i \in 2 .. Len(s) + 1 : Consed(s, n)[i] = s[i - 1]
    BY <2>1, ConsedIs
  <2>3. QED BY <2>2
<1>8. /\ C \in Seq(Block) /\ Len(C) = Len(B) + 1 /\ C[1] = b
      /\ \A i \in 2 .. Len(B) + 1 : C[i] = B[i - 1]
  <2>1. B \in Seq(Block) /\ b \in Block
    BY <1>2, <1>5
  <2> HIDE DEF b
  <2>2. /\ Consed(B, b) \in Seq(Block) /\ Len(Consed(B, b)) = Len(B) + 1 /\ Consed(B, b)[1] = b
        /\ \A i \in 2 .. Len(B) + 1 : Consed(B, b)[i] = B[i - 1]
    BY <2>1, ConsedIs
  <2>3. QED BY <2>2
<1> HIDE DEF C, d, t, b
<1>9. ASSUME NEW i \in 1 .. Len(C)
      PROVE  C[i].address = d.map.key[t[i]] /\ C[i].data = d.value[t[i]]
  <2>1. CASE i = 1
    BY <1>2, <1>5, <1>6, <1>7, <1>8, <2>1
  <2>2. CASE i # 1
    <3>1. i \in 2 .. Len(B) + 1 /\ i - 1 \in 1 .. Len(B)
      BY <1>2, <1>8, <2>2
    <3>2. t[i] = s[i - 1] /\ C[i] = B[i - 1]
      BY <1>2, <1>7, <1>8, <3>1
    <3>3. s[i - 1] \in Node /\ s[i - 1] # n
      BY <1>2, <3>1
    <3>4. d.map.key[t[i]] = c.map.key[s[i - 1]] /\ d.value[t[i]] = c.value[s[i - 1]]
      BY <1>2, <1>6, <3>2, <3>3
    <3>5. QED BY <1>3, <3>1, <3>2, <3>4
  <2>3. QED BY <2>1, <2>2
<1>10. NodesHold(d, t, C)
  BY <1>2, <1>6, <1>7, <1>8, <1>9 DEF NodesHold, t
<1>11. QED BY <1>8, <1>10 DEF CacheIs, C, b, d

(* A block that is there is taken out, the last one or one that is found.  *)
LEMMA TakenBlockIs ==
    ASSUME NEW c, NEW B, CacheIs(c, B), NEW i \in 1 .. Len(B), NEW n,
           n = Find(c, B[i].address) \/ (i = Len(B) /\ n = c.list.tail)
    PROVE  /\ CacheIs(TakenOut(c, n), Dropped(B, i))
           /\ c.value[n] = B[i].data
<1>1. PICK s : NodesHold(c, s, B)
  BY DEF CacheIs
<1>2. /\ MappedIs(c, s) /\ Len(s) = Len(B) /\ B \in Seq(Block) /\ Len(B) \in Nat
      /\ s \in Seq(Node) /\ c.map.key \in [Node -> Key \cup {Null}]
      /\ c.value \in [Node -> Value \cup {Null}]
  BY <1>1, MappedTypes DEF NodesHold, CacheIs
<1>3. \A j \in 1 .. Len(B) : B[j].address = c.map.key[s[j]] /\ B[j].data = c.value[s[j]]
  BY <1>1 DEF NodesHold
<1>4. /\ \A j \in 1 .. Len(s) : s[j] \in Node /\ s[j] \in c.used
      /\ \A j, k \in 1 .. Len(s) : s[j] = s[k] => j = k
  BY <1>2, MappedTypes
<1>5. n = s[i]
  <2>1. CASE n = Find(c, B[i].address)
    <3>1. PICK k : k = B[i].address
      OBVIOUS
    <3>2. \A m \in c.used : c.map.key[m] = k => Find(c, k) = m
      BY <1>2, FindIs
    <3>3. QED BY <1>2, <1>3, <1>4, <2>1, <3>1, <3>2
  <2>2. CASE i = Len(B) /\ n = c.list.tail
    BY <1>2, <2>2, MappedTypes
  <2>3. QED BY <2>1, <2>2
<1> DEFINE d == TakenOut(c, n)
           t == Dropped(s, i)
           C == Dropped(B, i)
<1>6. /\ MappedIs(d, t)
      /\ d.map.key = [c.map.key EXCEPT ![n] = Null]
      /\ d.value = [c.value EXCEPT ![n] = Null]
  BY <1>2, <1>5, TakenOutIs
<1>7. /\ Len(t) = Len(s) - 1
      /\ \A j \in 1 .. Len(s) - 1 : t[j] = IF j < i THEN s[j] ELSE s[j + 1]
  BY <1>2, DroppedIs
<1>8. /\ C \in Seq(Block) /\ Len(C) = Len(B) - 1
      /\ \A j \in 1 .. Len(B) - 1 : C[j] = IF j < i THEN B[j] ELSE B[j + 1]
  BY <1>2, DroppedIs
<1> HIDE DEF C, d, t
<1>9. ASSUME NEW j \in 1 .. Len(C)
      PROVE  C[j].address = d.map.key[t[j]] /\ C[j].data = d.value[t[j]]
  <2>1. PICK k \in 1 .. Len(B) : k # i /\ t[j] = s[k] /\ C[j] = B[k]
    <3>1. CASE j < i
      <4>1. j \in 1 .. Len(B) /\ j # i
        BY <1>2, <1>8, <3>1
      <4>2. QED BY <1>2, <1>7, <1>8, <3>1, <4>1
    <3>2. CASE ~ (j < i)
      <4>1. j + 1 \in 1 .. Len(B) /\ j + 1 # i
        BY <1>2, <1>8, <3>2
      <4>2. QED BY <1>2, <1>7, <1>8, <3>2, <4>1
    <3>3. QED BY <3>1, <3>2
  <2>2. s[k] \in Node /\ s[k] # n
    BY <1>2, <1>4, <1>5, <2>1
  <2>3. d.map.key[t[j]] = c.map.key[s[k]] /\ d.value[t[j]] = c.value[s[k]]
    BY <1>2, <1>6, <2>1, <2>2
  <2>4. QED BY <1>3, <2>1, <2>3
<1>10. NodesHold(d, t, C)
  BY <1>2, <1>6, <1>7, <1>8, <1>9 DEF NodesHold
<1>11. CacheIs(d, C)
  BY <1>8, <1>10 DEF CacheIs
<1>12. QED BY <1>3, <1>5, <1>11 DEF C, d

Contents == Key \cup {Free, Junk}

(* The block of each buffer that is cached is in it.                       *)
OnDisk(B, b) == \A i \in 1 .. Len(B) : b[B[i].data] = B[i].address

(* C is B after block a, in buffer d, was used: what was last goes, if the *)
(* cache was full.                                                         *)
Brought(B, C, a, d) ==
    \/ \E i \in 1 .. Len(B) : B[i].address = a /\ B[i].data = d /\ C = ToFront(B, i)
    \/ /\ Missing(B, a) /\ d \in Buffer
       /\ LET more == Consed(B, [address |-> a, data |-> d])
          IN  C = IF Len(more) <= MaxBlocks THEN more ELSE Dropped(more, Len(more))

(* A block that is used is then the first, and the one that was is second. *)
LEMMA BroughtFirst ==
    ASSUME NEW B \in Seq(Block), NEW C, NEW a \in Key, NEW d, Brought(B, C, a, d)
    PROVE  /\ C \in Seq(Block) /\ Len(C) \in Nat \ {0} /\ d \in Buffer
           /\ C[1] = [address |-> a, data |-> d]
           /\ Len(B) # 0 /\ B[1].address # a => Len(C) >= 2 /\ C[2] = B[1]
<1>0. /\ Len(B) \in Nat /\ \A i \in 1 .. Len(B) : B[i] \in Block
      /\ \A x \in Block : x.data \in Buffer /\ x = [address |-> x.address, data |-> x.data]
      /\ MaxBlocks \in Nat /\ MaxBlocks >= 2
  BY CacheAssumption, BlockFields
<1>1. CASE \E i \in 1 .. Len(B) : B[i].address = a /\ B[i].data = d /\ C = ToFront(B, i)
  <2>1. PICK i \in 1 .. Len(B) : B[i].address = a /\ B[i].data = d /\ C = ToFront(B, i)
    BY <1>1
  <2>2. /\ C \in Seq(Block) /\ Len(C) = Len(B) /\ C[1] = B[i]
        /\ \A j \in 2 .. Len(B) : C[j] = IF j <= i THEN B[j - 1] ELSE B[j]
    BY <2>1, ToFrontIs
  <2>3. B[1].address # a => i >= 2 /\ 2 \in 2 .. Len(B) /\ 2 - 1 = 1
    BY <1>0, <2>1
  <2>4. B[1].address # a => C[2] = B[1]
    BY <1>0, <2>1, <2>2, <2>3
  <2>5. d \in Buffer /\ C[1] = [address |-> a, data |-> d]
    BY <1>0, <2>1, <2>2
  <2>6. QED BY <1>0, <2>1, <2>2, <2>3, <2>4, <2>5
<1>2. CASE ~ \E i \in 1 .. Len(B) : B[i].address = a /\ B[i].data = d /\ C = ToFront(B, i)
  <2> DEFINE x == [address |-> a, data |-> d]
             more == Consed(B, x)
  <2>1. d \in Buffer /\ C = (IF Len(more) <= MaxBlocks THEN more ELSE Dropped(more, Len(more)))
    BY <1>2 DEF Brought
  <2>2. x \in Block
    BY <2>1 DEF Block
  <2> HIDE DEF x
  <2>3. /\ more \in Seq(Block) /\ Len(more) = Len(B) + 1 /\ more[1] = x
        /\ \A j \in 2 .. Len(B) + 1 : more[j] = B[j - 1]
    BY <2>2, ConsedIs
  <2>4. Len(B) # 0 => 2 \in 2 .. Len(B) + 1 /\ 2 - 1 = 1
    BY <1>0
  <2>5. Len(B) # 0 => more[2] = B[1]
    BY <2>3, <2>4
  <2> HIDE DEF more
  <2>6. CASE Len(more) <= MaxBlocks
    BY <1>0, <2>1, <2>3, <2>5, <2>6 DEF x
  <2>7. CASE ~ (Len(more) <= MaxBlocks)
    <3>1. Len(more) \in 1 .. Len(more) /\ Len(more) >= 3
      BY <1>0, <2>3, <2>7
    <3>2. C = Dropped(more, Len(more))
      BY <2>1, <2>7
    <3>3. /\ C \in Seq(Block) /\ Len(C) = Len(more) - 1
          /\ \A j \in 1 .. Len(more) - 1 : C[j] = IF j < Len(more) THEN more[j] ELSE more[j + 1]
      BY <2>3, <3>1, <3>2, DroppedIs
    <3>4. 1 \in 1 .. Len(more) - 1 /\ 2 \in 1 .. Len(more) - 1 /\ 1 < Len(more) /\ 2 < Len(more)
      BY <1>0, <2>3, <3>1
    <3>5. C[1] = x /\ (Len(B) # 0 => C[2] = B[1])
      BY <2>3, <2>5, <3>3, <3>4
    <3>6. QED BY <1>0, <2>1, <2>3, <3>1, <3>3, <3>5 DEF x
  <2>8. QED BY <2>6, <2>7
<1>3. QED BY <1>1, <1>2

(* What is cached stays on the disk: when blocks change places, when a     *)
(* buffer that is not cached is written, when a block is added and when    *)
(* one goes.                                                               *)
LEMMA OnDiskToFront ==
    ASSUME NEW B \in Seq(Block), NEW b, OnDisk(B, b), NEW i \in 1 .. Len(B)
    PROVE  OnDisk(ToFront(B, i), b)
<1> DEFINE C == ToFront(B, i)
<1>1. /\ Len(B) \in Nat /\ Len(C) = Len(B) /\ C[1] = B[i]
      /\ \A j \in 2 .. Len(B) : C[j] = IF j <= i THEN B[j - 1] ELSE B[j]
  BY ToFrontIs
<1> HIDE DEF C
<1>2. ASSUME NEW j \in 1 .. Len(C) PROVE b[C[j].data] = C[j].address
  <2>1. PICK k \in 1 .. Len(B) : C[j] = B[k]
    <3>1. CASE j = 1
      BY <1>1, <3>1
    <3>2. CASE j # 1
      <4>1. j \in 2 .. Len(B) /\ j \in 1 .. Len(B) /\ j - 1 \in 1 .. Len(B)
        BY <1>1, <3>2
      <4>2. QED BY <1>1, <4>1
    <3>3. QED BY <3>1, <3>2
  <2>2. QED BY <2>1 DEF OnDisk
<1>3. QED BY <1>2 DEF OnDisk, C

LEMMA OnDiskWritten ==
    ASSUME NEW B \in Seq(Block), NEW b \in [Buffer -> Contents], OnDisk(B, b),
           NEW d \in Buffer, b[d] \notin Key, NEW x
    PROVE  OnDisk(B, [b EXCEPT ![d] = x])
<1>1. ASSUME NEW i \in 1 .. Len(B)
      PROVE  [b EXCEPT ![d] = x][B[i].data] = B[i].address
  <2>1. B[i].address \in Key /\ B[i].data \in Buffer
    BY BlockFields
  <2>2. b[B[i].data] = B[i].address
    BY DEF OnDisk
  <2>3. QED BY <2>1, <2>2
<1>2. QED BY <1>1 DEF OnDisk

LEMMA OnDiskConsed ==
    ASSUME NEW B \in Seq(Block), NEW b, OnDisk(B, b), NEW x \in Block, b[x.data] = x.address
    PROVE  OnDisk(Consed(B, x), b)
<1> DEFINE C == Consed(B, x)
<1>1. /\ Len(B) \in Nat /\ Len(C) = Len(B) + 1 /\ C[1] = x
      /\ \A j \in 2 .. Len(B) + 1 : C[j] = B[j - 1]
  <2>1. B \in Seq(Block) /\ x \in Block
    OBVIOUS
  <2>2. /\ Consed(B, x) \in Seq(Block) /\ Len(Consed(B, x)) = Len(B) + 1 /\ Consed(B, x)[1] = x
        /\ \A j \in 2 .. Len(B) + 1 : Consed(B, x)[j] = B[j - 1]
    BY ONLY <2>1, ConsedIs
  <2>3. QED BY <2>2
<1> HIDE DEF C
<1>2. ASSUME NEW j \in 1 .. Len(C) PROVE b[C[j].data] = C[j].address
  <2>1. CASE j = 1
    BY <1>1, <2>1
  <2>2. CASE j # 1
    <3>1. j \in 2 .. Len(B) + 1 /\ j - 1 \in 1 .. Len(B)
      BY <1>1, <2>2
    <3>2. QED BY <1>1, <3>1 DEF OnDisk
  <2>3. QED BY <2>1, <2>2
<1>3. QED BY <1>2 DEF OnDisk, C

LEMMA OnDiskDropped ==
    ASSUME NEW B \in Seq(Block), NEW b \in [Buffer -> Contents], OnDisk(B, b),
           \A i, j \in 1 .. Len(B) : B[i].address = B[j].address => i = j,
           NEW k \in 1 .. Len(B), NEW x
    PROVE  OnDisk(Dropped(B, k), [b EXCEPT ![B[k].data] = x])
<1> DEFINE C == Dropped(B, k)
<1>1. /\ Len(B) \in Nat /\ Len(C) = Len(B) - 1
      /\ \A j \in 1 .. Len(B) - 1 : C[j] = IF j < k THEN B[j] ELSE B[j + 1]
  BY DroppedIs
<1> HIDE DEF C
<1>2. ASSUME NEW j \in 1 .. Len(C) PROVE [b EXCEPT ![B[k].data] = x][C[j].data] = C[j].address
  <2>1. PICK i \in 1 .. Len(B) : i # k /\ C[j] = B[i]
    <3>1. CASE j < k
      <4>1. j \in 1 .. Len(B) /\ j # k
        BY <1>1, <3>1
      <4>2. QED BY <1>1, <3>1, <4>1
    <3>2. CASE ~ (j < k)
      <4>1. j + 1 \in 1 .. Len(B) /\ j + 1 # k
        BY <1>1, <3>2
      <4>2. QED BY <1>1, <3>2, <4>1
    <3>3. QED BY <3>1, <3>2
  <2>2. b[B[i].data] = B[i].address /\ b[B[k].data] = B[k].address
    BY DEF OnDisk
  <2>3. B[i].data # B[k].data
    BY <2>1, <2>2
  <2>4. B[i].data \in Buffer /\ B[k].data \in Buffer
    BY BlockFields
  <2>5. QED BY <2>1, <2>2, <2>3, <2>4
<1>3. QED BY <1>2 DEF OnDisk, C

(* r is what a read of block a gives, of a cache that has B in front of    *)
(* the disk, for a caller whose block has the buffer d: C is cached then.  *)
ReadIs(r, B, b, C, a, d) ==
    /\ CacheIs(r.cache, C) /\ Len(C) <= MaxBlocks
    /\ r.buffers \in [Buffer -> Contents]
    /\ IF r.ok THEN Brought(B, C, a, r.data) ELSE C = B /\ (d # Null => r.data = d)
    /\ d = Null /\ OnDisk(B, b) => OnDisk(C, r.buffers)

(* A block that is read into its buffer is pushed, and the last one goes.  *)
LEMMA PushedReadIs ==
    ASSUME NEW c, NEW B, CacheIs(c, B), Len(B) <= MaxBlocks, c.used # Node,
           NEW b \in [Buffer -> Contents], NEW a \in Key, Missing(B, a),
           NEW d \in Buffer, NEW f \in [Buffer -> Contents], f[d] = a, NEW given,
           given = Null /\ OnDisk(B, b) => OnDisk(B, f)
    PROVE  \E C : ReadIs(PushedBlock([cache |-> c, buffers |-> f], a, d), B, b, C, a, given)
<1> DEFINE r == PushedBlock([cache |-> c, buffers |-> f], a, d)
           x == [address |-> a, data |-> d]
           more == Consed(B, x)
           pushed == Pushed(c, a, d)
           last == pushed.list.tail
<1>1. x \in Block /\ B \in Seq(Block) /\ Len(B) \in Nat /\ f[x.data] = x.address
  BY BlockFields, BlocksIs DEF CacheIs
<1>2. CacheIs(pushed, more)
  BY PushedBlockIs
<1>3. Len(more) = Len(B) + 1
  <2>1. x \in Block /\ B \in Seq(Block)
    BY <1>1
  <2> HIDE DEF x
  <2>2. QED BY ONLY <2>1, ConsedIs DEF more
<1>4. given = Null /\ OnDisk(B, b) => OnDisk(more, f)
  <2> SUFFICES ASSUME given = Null /\ OnDisk(B, b) PROVE OnDisk(more, f)
    OBVIOUS
  <2>1. OnDisk(B, f)
    OBVIOUS
  <2> HIDE DEF x
  <2>2. QED BY <1>1, <2>1, OnDiskConsed
<1>5. pushed.list.len = Len(more)
  BY <1>2, BlocksIs
<1>6. r = IF Len(more) <= MaxBlocks
          THEN [cache |-> pushed, buffers |-> f, data |-> d, ok |-> TRUE]
          ELSE [cache |-> TakenOut(pushed, last), buffers |-> [f EXCEPT ![pushed.value[last]] = Free],
                data |-> d, ok |-> TRUE]
  <2> HIDE DEF more
  <2>1. QED BY <1>5 DEF PushedBlock
<1>7. CASE Len(more) <= MaxBlocks
  <2>1. r = [cache |-> pushed, buffers |-> f, data |-> d, ok |-> TRUE]
    BY <1>6, <1>7
  <2>2. Brought(B, more, a, d)
    BY <1>7 DEF Brought
  <2> HIDE DEF r, more, pushed
  <2>3. ReadIs(r, B, b, more, a, given)
    BY <1>2, <1>4, <1>7, <2>1, <2>2 DEF ReadIs
  <2>4. QED BY <2>3 DEF r
<1>8. CASE ~ (Len(more) <= MaxBlocks)
  <2> DEFINE n == Len(more)
             C == Dropped(more, n)
  <2>1. n \in 1 .. Len(more) /\ n = Len(B) + 1 /\ n \in Nat
    BY <1>1, <1>3
  <2>2. r = [cache |-> TakenOut(pushed, last), buffers |-> [f EXCEPT ![pushed.value[last]] = Free],
             data |-> d, ok |-> TRUE]
    BY <1>6, <1>8
  <2>3. Brought(B, C, a, d)
    BY <1>8 DEF Brought
  <2> HIDE DEF r, more, pushed
  <2>4. /\ more \in Seq(Block) /\ \A i, j \in 1 .. n : more[i].address = more[j].address => i = j
        /\ more[n] \in Block
    BY <1>2, <2>1, BlocksIs DEF CacheIs
  <2>5. CacheIs(TakenOut(pushed, last), C) /\ pushed.value[last] = more[n].data
    BY <1>2, <2>1, TakenBlockIs
  <2>6. Len(C) <= MaxBlocks
    <3>1. Len(C) = n - 1
      BY <2>1, <2>4, DroppedIs
    <3>2. QED BY <1>1, <2>1, <3>1
  <2>7. [f EXCEPT ![more[n].data] = Free] \in [Buffer -> Contents]
    BY DEF Contents
  <2>8. OnDisk(more, f) => OnDisk(C, [f EXCEPT ![more[n].data] = Free])
    BY <2>1, <2>4, OnDiskDropped
  <2> HIDE DEF C
  <2>9. ReadIs(r, B, b, C, a, given)
    BY <1>4, <2>2, <2>3, <2>5, <2>6, <2>7, <2>8 DEF ReadIs
  <2>10. QED BY <2>9 DEF r
<1>9. QED BY <1>7, <1>8

LEMMA UnreadIs ==
    ASSUME NEW c, NEW B, CacheIs(c, B), Len(B) <= MaxBlocks, NEW b, NEW a, NEW d,
           NEW f \in [Buffer -> Contents], NEW given, given # Null => d = given,
           given = Null /\ OnDisk(B, b) => OnDisk(B, f)
    PROVE  ReadIs(Unread([cache |-> c, buffers |-> f], d), B, b, B, a, given)
  BY DEF Unread, ReadIs

(* A read of a block, of the cache or of the disk.                         *)
LEMMA ReadBlockIs ==
    ASSUME NEW c, NEW B, CacheIs(c, B), Len(B) <= MaxBlocks,
           NEW b \in [Buffer -> Contents], NEW a \in Key, NEW given \in Buffer \cup {Null},
           NEW r \in ReadBlock([cache |-> c, buffers |-> b], a, given)
    PROVE  \E C : ReadIs(r, B, b, C, a, given)
<1> DEFINE s == [cache |-> c, buffers |-> b]
<1>1. /\ B \in Seq(Block) /\ Len(B) \in Nat /\ Null \notin Buffer
      /\ Junk \in Contents /\ a \in Contents /\ Free \notin Key
  BY BlocksIs, CacheAssumption DEF CacheIs, Contents
<1>2. CASE \E i \in 1 .. Len(B) : B[i].address = a
  <2>1. PICK i \in 1 .. Len(B) : B[i].address = a
    BY <1>2
  <2>2. /\ Find(c, a) # Null /\ c.value[Find(c, a)] = B[i].data
        /\ CacheIs(FoundBumped(c, a), ToFront(B, i))
    BY <2>1, FoundIs
  <2>3. r = [cache |-> FoundBumped(c, a), buffers |-> b, data |-> B[i].data, ok |-> TRUE]
    BY <2>2 DEF ReadBlock, Cached
  <2>4. Brought(B, ToFront(B, i), a, B[i].data)
    BY <2>1 DEF Brought
  <2>5. Len(ToFront(B, i)) <= MaxBlocks
    <3>1. Len(ToFront(B, i)) = Len(B)
      BY <1>1, ToFrontIs
    <3>2. QED BY <3>1
  <2>6. OnDisk(B, b) => OnDisk(ToFront(B, i), b)
    BY <1>1, OnDiskToFront
  <2>7. ReadIs(r, B, b, ToFront(B, i), a, given)
    BY <2>2, <2>3, <2>4, <2>5, <2>6 DEF ReadIs
  <2>8. QED BY <2>7
<1>3. CASE Missing(B, a)
  <2>1. r \in FromDevice(s, a, given)
    BY <1>3, NotFoundIs DEF ReadBlock
  <2>2. CASE given = Null /\ \A d \in Buffer : b[d] # Free
    <3>1. r = Unread(s, Null)
      BY <2>1, <2>2 DEF FromDevice
    <3>2. given # Null => Null = given
      BY <2>2
    <3>3. ReadIs(r, B, b, B, a, given)
      BY <3>1, <3>2, UnreadIs
    <3>4. QED BY <3>3
  <2>3. CASE ~ (given = Null /\ \A d \in Buffer : b[d] # Free)
    <3>1. PICK d : d = IF given # Null THEN given ELSE CHOOSE e \in Buffer : b[e] = Free
      OBVIOUS
    <3>2. /\ d \in Buffer /\ (given # Null => d = given) /\ (given = Null => b[d] = Free)
      BY <1>1, <2>3, <3>1
    <3> DEFINE g == [b EXCEPT ![d] = IF given = Null THEN Junk ELSE b[d]]
               f == [b EXCEPT ![d] = a]
    <3>3. /\ g \in [Buffer -> Contents] /\ f \in [Buffer -> Contents] /\ f[d] = a
      BY <1>1, <3>2
    <3>4. given = Null /\ OnDisk(B, b) => OnDisk(B, g) /\ OnDisk(B, f)
      BY <1>1, <3>2, OnDiskWritten
    <3> DEFINE failed == [cache |-> c, buffers |-> g]
               full == [cache |-> c, buffers |-> f]
    <3>5. /\ [s EXCEPT !.buffers[d] = IF given = Null THEN Junk ELSE @] = failed
          /\ [s EXCEPT !.buffers[d] = a] = full
      OBVIOUS
    <3>6. \/ r = Unread(failed, d) \/ r = Unread(full, d)
          \/ c.used # Node /\ r = PushedBlock(full, a, d)
      BY <2>1, <2>3, <3>1, <3>5 DEF FromDevice
    <3> HIDE DEF f, g
    <3>7. CASE r = Unread(failed, d)
      <4>1. ReadIs(r, B, b, B, a, given)
        BY <3>2, <3>3, <3>4, <3>7, UnreadIs
      <4>2. QED BY <4>1
    <3>8. CASE r = Unread(full, d)
      <4>1. ReadIs(r, B, b, B, a, given)
        BY <3>2, <3>3, <3>4, <3>8, UnreadIs
      <4>2. QED BY <4>1
    <3>9. CASE c.used # Node /\ r = PushedBlock(full, a, d)
      BY <1>3, <3>2, <3>3, <3>4, <3>9, PushedReadIs
    <3>10. QED BY <3>6, <3>7, <3>8, <3>9
  <2>4. QED BY <2>2, <2>3
<1>4. QED BY <1>2, <1>3 DEF Missing

-----------------------------------------------------------------------------
(* The invariant.                                                          *)

(* Where the search is says how many blocks it holds, and there is only a  *)
(* reader when it is over.                                                 *)
SearchOf(h, s, q) ==
    /\ s \in {"start", "table", "mounted", "none"} => Len(h) = 0
    /\ s \in {"mbr", "entries"} => Len(h) = 1
    /\ s = "header" => Len(h) = 2
    /\ s = "freeing" => Len(h) # 0
    /\ s = "mbr" => h[1].address = 0
    /\ s = "entries" => h[1].address \in Entries .. Entries + EntrySectors - 1
    /\ q # NoRequest => s = "mounted"

(* What is held are the blocks used last, the last one of them first.      *)
HeldFirst(h, B) ==
    /\ Len(h) <= Len(B)
    /\ \A i \in 1 .. Len(h) : B[Len(h) + 1 - i] = h[i]

(* The bytes that round i of the read q copies, counted from 1.            *)
Size(q, i) ==
    LET left == q.len - (i - 1) * SectorSize IN IF SectorSize < left THEN SectorSize ELSE left

Piece(q, i) ==
    Copied((q.address \div SectorSize) + (i - 1),
           IF i = 1 THEN q.address % SectorSize ELSE 0, Size(q, i))

Pieces(q, t) ==
    IF q = NoRequest THEN t = <<>>
    ELSE \A i \in 1 .. Len(t) : t[i] = Piece(q, i)

TypeInv ==
    /\ TypeOK
    /\ SearchOf(held, step, request)
    /\ CacheIs(cache, Blocks(cache)) /\ Len(Blocks(cache)) <= MaxBlocks

(* If one sector of entries is enough.                                     *)
DiskInv ==
    ~moved =>
        /\ HeldFirst(held, Blocks(cache))
        /\ OnDisk(Blocks(cache), buffers)
        /\ Pieces(request, to)
        /\ step # "panicked"

CacheInv == TypeInv /\ DiskInv

(* What a step may do to the blocks: what a cache that forgets the block   *)
(* not used for longest may do.                                            *)
Follows(B, C) ==
    \/ C = B
    \/ \E a \in Key, d \in Buffer : Brought(B, C, a, d)
    \/ \E i \in 1 .. Len(B) : C = Dropped(B, i)

Kept == CacheInv' /\ Follows(Blocks(cache), Blocks(cache'))

Steps == {"start", "mbr", "header", "table", "entries", "freeing", "mounted", "none", "panicked"}

LEMMA HeldType == \A h : h \in SeqOf(Block, 2) <=> h \in Seq(Block) /\ Len(h) <= 2
<1>1. ASSUME NEW h \in SeqOf(Block, 2) PROVE h \in Seq(Block) /\ Len(h) <= 2
  <2>1. PICK m \in 0 .. 2 : h \in [1 .. m -> Block]
    BY DEF SeqOf
  <2>2. QED BY <2>1
<1>2. ASSUME NEW h \in Seq(Block), Len(h) <= 2 PROVE h \in SeqOf(Block, 2)
  <2>1. Len(h) \in Nat /\ h \in [1 .. Len(h) -> Block]
    BY <1>2
  <2>2. Len(h) \in 0 .. 2
    BY <1>2, <2>1
  <2>3. QED BY <2>1, <2>2 DEF SeqOf
<1>3. QED BY <1>1, <1>2

(* What the invariant says of a state.                                     *)
LEMMA InvIs ==
    ASSUME CacheInv
    PROVE  LET B == Blocks(cache)
           IN  /\ CacheIs(cache, B) /\ Len(B) <= MaxBlocks /\ B \in Seq(Block) /\ Len(B) \in Nat
               /\ buffers \in [Buffer -> Contents]
               /\ held \in Seq(Block) /\ Len(held) <= 2 /\ Len(held) \in Nat
               /\ step \in Steps /\ next \in {"table", "mounted", "none"}
               /\ request \in Requests \cup {NoRequest} /\ to \in Seq(Seq(Int \cup {Junk}))
               /\ moved \in BOOLEAN /\ SearchOf(held, step, request)
               /\ ~moved => /\ HeldFirst(held, B) /\ OnDisk(B, buffers)
                            /\ Pieces(request, to) /\ step # "panicked"
<1>1. TypeOK /\ SearchOf(held, step, request) /\ CacheIs(cache, Blocks(cache))
      /\ Len(Blocks(cache)) <= MaxBlocks
  BY DEF CacheInv, TypeInv
<1>2. /\ Blocks(cache) \in Seq(Block) /\ Len(Blocks(cache)) \in Nat
  BY <1>1, BlocksIs DEF CacheIs
<1>3. /\ buffers \in [Buffer -> Contents] /\ held \in SeqOf(Block, 2)
      /\ step \in Steps /\ next \in {"table", "mounted", "none"}
      /\ request \in Requests \cup {NoRequest} /\ to \in Seq(Seq(Int \cup {Junk}))
      /\ moved \in BOOLEAN
  BY <1>1 DEF TypeOK, Contents, Block, Steps
<1>4. held \in Seq(Block) /\ Len(held) <= 2 /\ Len(held) \in Nat
  BY <1>3, HeldType
<1>5. ~moved => /\ HeldFirst(held, Blocks(cache)) /\ OnDisk(Blocks(cache), buffers)
                /\ Pieces(request, to) /\ step # "panicked"
  BY DEF CacheInv, DiskInv
<1>6. QED BY <1>1, <1>2, <1>3, <1>4, <1>5

(* The parts of the invariant after a step that leaves the blocks C.       *)
LEMMA KeptIs ==
    ASSUME CacheInv, NEW C, CacheIs(cache', C), Len(C) <= MaxBlocks, Follows(Blocks(cache), C),
           buffers' \in [Buffer -> Contents], held' \in Seq(Block), Len(held') <= 2,
           step' \in Steps, next' \in {"table", "mounted", "none"},
           request' \in Requests \cup {NoRequest}, to' \in Seq(Seq(Int \cup {Junk})),
           moved' \in BOOLEAN, SearchOf(held', step', request'),
           ~moved' => /\ HeldFirst(held', C) /\ OnDisk(C, buffers')
                      /\ Pieces(request', to') /\ step' # "panicked"
    PROVE  Kept
<1>1. C = Blocks(cache') /\ cache' \in MappedListType
  BY BlocksIs
<1>2. held' \in SeqOf([address : Key, data : Buffer], 2)
  BY HeldType DEF Block
<1>3. TypeOK'
  BY <1>1, <1>2 DEF TypeOK, Contents, Steps
<1>4. TypeInv'
  BY <1>1, <1>3 DEF TypeInv
<1>5. DiskInv'
  BY <1>1 DEF DiskInv
<1>6. QED BY <1>1, <1>4, <1>5 DEF Kept, CacheInv

(* A block that is read is held: it is the first of the cache then.        *)
LEMMA HeldMore ==
    ASSUME NEW h \in Seq(Block), Len(h) <= 1, NEW B \in Seq(Block), NEW C, HeldFirst(h, B),
           NEW a \in Key, NEW d, Brought(B, C, a, d), Len(h) = 1 => h[1].address # a
    PROVE  HeldFirst(Append(h, [address |-> a, data |-> d]), C)
<1> DEFINE x == [address |-> a, data |-> d]
           g == Append(h, x)
<1>1. /\ Len(C) \in Nat \ {0} /\ C[1] = x
      /\ Len(B) # 0 /\ B[1].address # a => Len(C) >= 2 /\ C[2] = B[1]
  BY BroughtFirst
<1>2. Len(h) \in Nat /\ Len(g) = Len(h) + 1 /\ g[Len(h) + 1] = x /\ Len(B) \in Nat
      /\ \A i \in 1 .. Len(h) : g[i] = h[i]
  OBVIOUS
<1> HIDE DEF g, x
<1>3. CASE Len(h) = 0
  <2>1. Len(g) = 1 /\ g[1] = x
    BY <1>2, <1>3
  <2>2. ASSUME NEW i \in 1 .. Len(g) PROVE C[Len(g) + 1 - i] = g[i]
    <3>1. i = 1 /\ Len(g) + 1 - i = 1
      BY <2>1
    <3>2. QED BY <1>1, <2>1, <3>1
  <2>3. HeldFirst(g, C)
    BY <1>1, <2>1, <2>2 DEF HeldFirst
  <2>4. QED BY <2>3 DEF g, x
<1>4. CASE Len(h) = 1
  <2>1. Len(g) = 2 /\ g[2] = x /\ g[1] = h[1]
    BY <1>2, <1>4
  <2>2. Len(B) # 0 /\ B[1] = h[1]
    BY <1>2, <1>4 DEF HeldFirst
  <2>3. Len(C) >= 2 /\ C[2] = g[1] /\ C[1] = g[2]
    BY <1>1, <1>4, <2>1, <2>2
  <2>4. ASSUME NEW i \in 1 .. Len(g) PROVE C[Len(g) + 1 - i] = g[i]
    <3>1. CASE i = 1
      BY <2>1, <2>3, <3>1
    <3>2. CASE i = 2
      BY <2>1, <2>3, <3>2
    <3>3. QED BY <2>1, <3>1, <3>2
  <2>5. HeldFirst(g, C)
    BY <1>1, <2>1, <2>3, <2>4 DEF HeldFirst
  <2>6. QED BY <2>5 DEF g, x
<1>5. Len(h) = 0 \/ Len(h) = 1
  <2>1. Len(h) \in Nat
    OBVIOUS
  <2>2. PICK n \in Nat : n = Len(h)
    BY <2>1
  <2>3. QED BY <2>2
<1>6. QED BY <1>3, <1>4, <1>5

-----------------------------------------------------------------------------
(* The steps.                                                              *)

(* A read, of a state in which the invariant holds.                        *)
LEMMA ReadsIs ==
    ASSUME CacheInv, NEW a \in Key, NEW given \in Buffer \cup {Null},
           NEW r \in ReadBlock(Store, a, given)
    PROVE  \E C : /\ ReadIs(r, Blocks(cache), buffers, C, a, given)
                  /\ Follows(Blocks(cache), C)
<1>1. /\ CacheIs(cache, Blocks(cache)) /\ Len(Blocks(cache)) <= MaxBlocks
      /\ buffers \in [Buffer -> Contents] /\ Blocks(cache) \in Seq(Block)
  BY InvIs
<1>2. \E C : ReadIs(r, Blocks(cache), buffers, C, a, given)
  BY <1>1, ReadBlockIs DEF Store
<1>3. ASSUME NEW C, ReadIs(r, Blocks(cache), buffers, C, a, given)
      PROVE  Follows(Blocks(cache), C)
  <2>1. CASE r.ok
    <3>1. Brought(Blocks(cache), C, a, r.data)
      BY <1>3, <2>1 DEF ReadIs
    <3>2. r.data \in Buffer
      BY <1>1, <3>1, BroughtFirst
    <3>3. QED BY <3>1, <3>2 DEF Follows
  <2>2. CASE ~r.ok
    BY <1>3, <2>2 DEF ReadIs, Follows
  <2>3. QED BY <2>1, <2>2
<1>4. QED BY <1>2, <1>3

(* The reads of the search that bring a block to be held.                  *)
LEMMA SearchReadsKeeps ==
    ASSUME CacheInv, NEW a \in Key, NEW where, SearchReads(a, where),
           \/ step = "start" /\ where = "mbr" /\ a = 0
           \/ step = "mbr" /\ where = "header" /\ a = 1
           \/ step = "table" /\ where = "entries" /\ a = Entries
    PROVE  Kept
<1> DEFINE B == Blocks(cache)
<1>1. /\ held \in Seq(Block) /\ Len(held) <= 2 /\ Len(held) \in Nat
      /\ next \in {"table", "mounted", "none"} /\ request \in Requests \cup {NoRequest}
      /\ to \in Seq(Seq(Int \cup {Junk})) /\ moved \in BOOLEAN /\ SearchOf(held, step, request)
  BY InvIs
<1>2. ~moved => HeldFirst(held, B) /\ OnDisk(B, buffers) /\ Pieces(request, to)
  BY InvIs
<1>3. B \in Seq(Block) /\ Null \in Buffer \cup {Null}
  BY InvIs
<1>4. PICK r \in ReadBlock(Store, a, Null) :
          /\ StoreIs(r)
          /\ IF r.ok THEN held' = Append(held, [address |-> a, data |-> r.data])
                          /\ step' = where /\ UNCHANGED next
             ELSE LeaveFor("none") /\ UNCHANGED held
          /\ UNCHANGED <<moved, reader>>
  BY DEF SearchReads
<1>5. PICK C : ReadIs(r, B, buffers, C, a, Null) /\ Follows(B, C)
  BY <1>3, ReadsIs
<1> HIDE DEF B
<1>6. /\ CacheIs(cache', C) /\ Len(C) <= MaxBlocks /\ buffers' \in [Buffer -> Contents]
      /\ (OnDisk(B, buffers) => OnDisk(C, buffers'))
      /\ request' = request /\ to' = to /\ moved' = moved
  BY <1>4, <1>5 DEF ReadIs, StoreIs, reader
<1>7. request = NoRequest /\ Len(held) <= 1
  <2>1. Len(held) = 0 \/ Len(held) = 1
    BY <1>1 DEF SearchOf
  <2>2. request = NoRequest
    BY <1>1 DEF SearchOf
  <2>3. PICK n : n = Len(held)
    OBVIOUS
  <2>4. n <= 1
    BY <2>1, <2>3
  <2>5. QED BY <2>2, <2>3, <2>4
<1>8. CASE r.ok
  <2> DEFINE x == [address |-> a, data |-> r.data]
  <2>1. Brought(B, C, a, r.data)
    BY <1>5, <1>8 DEF ReadIs
  <2>2. x \in Block
    BY <1>3, <2>1, BroughtFirst, BlockFields
  <2>3. held' = Append(held, x) /\ step' = where /\ next' = next
    BY <1>4, <1>8
  <2>4. ~moved => HeldFirst(held', C)
    <3>1. Len(held) = 1 => held[1].address # a
      BY <1>1 DEF SearchOf
    <3>2. QED BY <1>1, <1>2, <1>3, <1>7, <2>1, <2>3, <3>1, HeldMore
  <2> HIDE DEF x
  <2>5. /\ held' \in Seq(Block) /\ Len(held') = Len(held) + 1
        /\ \A i \in 1 .. Len(held) : held'[i] = held[i]
        /\ held'[Len(held) + 1] = x
    BY <1>1, <2>2, <2>3
  <2>6. SearchOf(held', step', request')
    <3>1. x.address = a /\ Entries \in Entries .. Entries + EntrySectors - 1
      <4>1. Entries \in Nat /\ EntrySectors \in Nat \ {0}
        BY CacheAssumption
      <4>2. QED BY <4>1 DEF x
    <3>2. CASE where = "mbr"
      BY <1>1, <1>6, <1>7, <2>3, <2>5, <3>1, <3>2 DEF SearchOf
    <3>3. CASE where = "header"
      BY <1>1, <1>6, <1>7, <2>3, <2>5, <3>1, <3>3 DEF SearchOf
    <3>4. CASE where = "entries"
      BY <1>1, <1>6, <1>7, <2>3, <2>5, <3>1, <3>4 DEF SearchOf
    <3>5. QED BY <3>2, <3>3, <3>4
  <2>7. Len(held') <= 2 /\ step' \in Steps /\ step' # "panicked"
    BY <1>1, <1>7, <2>3, <2>5 DEF Steps
  <2>8. QED
    BY <1>1, <1>2, <1>5, <1>6, <2>3, <2>4, <2>5, <2>6, <2>7, KeptIs DEF B
<1>9. CASE ~r.ok
  <2>1. C = B /\ held' = held
    BY <1>4, <1>5, <1>9 DEF ReadIs
  <2>2. IF held = <<>> THEN step' = "none" /\ next' = next ELSE step' = "freeing" /\ next' = "none"
    BY <1>4, <1>9 DEF LeaveFor
  <2>3. held = <<>> <=> Len(held) = 0
    BY <1>1
  <2>4. SearchOf(held', step', request')
    BY <1>1, <1>6, <1>7, <2>1, <2>2, <2>3 DEF SearchOf
  <2>5. step' \in Steps /\ next' \in {"table", "mounted", "none"} /\ step' # "panicked"
    BY <1>1, <2>2 DEF Steps
  <2>6. QED BY <1>1, <1>2, <1>5, <1>6, <2>1, <2>4, <2>5, KeptIs DEF B
<1>10. QED BY <1>8, <1>9

(* What a step that leaves the store as it is keeps.                       *)
LEMMA SameStoreKept ==
    ASSUME CacheInv, UNCHANGED store, held' \in Seq(Block), Len(held') <= 2,
           step' \in Steps, next' \in {"table", "mounted", "none"},
           request' \in Requests \cup {NoRequest}, to' \in Seq(Seq(Int \cup {Junk})),
           moved' \in BOOLEAN, SearchOf(held', step', request'),
           ~moved' => /\ HeldFirst(held', Blocks(cache)) /\ OnDisk(Blocks(cache), buffers)
                      /\ Pieces(request', to') /\ step' # "panicked"
    PROVE  Kept
<1>1. cache' = cache /\ buffers' = buffers
  BY DEF store
<1>2. CacheIs(cache, Blocks(cache)) /\ Len(Blocks(cache)) <= MaxBlocks /\ buffers \in [Buffer -> Contents]
  BY InvIs
<1>3. Follows(Blocks(cache), Blocks(cache))
  BY DEF Follows
<1>4. QED BY <1>1, <1>2, <1>3, KeptIs

(* The search frees what it holds, before it is over or goes on.           *)
LEMMA LeaveKeeps ==
    ASSUME CacheInv, NEW where \in {"table", "mounted", "none"},
           step \in {"mbr", "header", "entries"}, LeaveFor(where),
           UNCHANGED <<store, held, moved, reader>>
    PROVE  Kept
<1>1. /\ held \in Seq(Block) /\ Len(held) <= 2
      /\ request \in Requests \cup {NoRequest}
      /\ to \in Seq(Seq(Int \cup {Junk})) /\ moved \in BOOLEAN /\ SearchOf(held, step, request)
      /\ next \in {"table", "mounted", "none"}
  BY InvIs
<1>2. ~moved => /\ HeldFirst(held, Blocks(cache)) /\ OnDisk(Blocks(cache), buffers)
                /\ Pieces(request, to)
  BY InvIs
<1>3. /\ UNCHANGED store /\ held' = held /\ moved' = moved /\ request' = request /\ to' = to
  BY DEF reader
<1>4. Len(held) # 0 /\ request = NoRequest
  <2>1. Len(held) = 1 \/ Len(held) = 2
    BY <1>1 DEF SearchOf
  <2>2. request = NoRequest
    BY <1>1 DEF SearchOf
  <2>3. QED BY <2>1, <2>2
<1>5. held # <<>>
  BY <1>1, <1>4
<1>6. step' = "freeing" /\ next' = where
  BY <1>5 DEF LeaveFor
<1>7. SearchOf(held', step', request')
  BY <1>3, <1>4, <1>6 DEF SearchOf
<1>8. step' \in Steps /\ step' # "panicked" /\ next' \in {"table", "mounted", "none"}
  BY <1>6 DEF Steps
<1>9. QED BY <1>1, <1>2, <1>3, <1>7, <1>8, SameStoreKept

(* The second sector of entries is read into the block that is held: that  *)
(* is the last moment at which the cache holds what is on the disk.        *)
LEMMA NextEntriesKeeps ==
    ASSUME CacheInv, NextEntries
    PROVE  Kept
<1> DEFINE B == Blocks(cache)
           block == held[1]
           a == block.address + 1
<1>1. /\ held \in Seq(Block) /\ Len(held) <= 2
      /\ request \in Requests \cup {NoRequest}
      /\ to \in Seq(Seq(Int \cup {Junk})) /\ SearchOf(held, step, request)
      /\ next \in {"table", "mounted", "none"}
  BY InvIs
<1>2. step = "entries" /\ a < Entries + EntrySectors /\ moved' = TRUE /\ UNCHANGED reader
  BY DEF NextEntries
<1>3. Len(held) = 1 /\ block.address \in Entries .. Entries + EntrySectors - 1 /\ request = NoRequest
  BY <1>1, <1>2 DEF SearchOf
<1>4. block \in Block
  <2>1. 1 \in 1 .. Len(held) /\ held \in Seq(Block)
    BY <1>1, <1>3
  <2>2. QED BY <2>1, ElementOfSeq
<1>5. block.data \in Buffer /\ block.data # Null
  BY <1>4, BlockFields, CacheAssumption
<1>6. a \in Entries .. Entries + EntrySectors - 1 /\ a \in Key
  <2>1. /\ Entries \in Nat /\ EntrySectors \in Nat
        /\ Entries .. Entries + EntrySectors - 1 \subseteq Key
    BY CacheAssumption
  <2>2. a \in Entries .. Entries + EntrySectors - 1
    BY <1>2, <1>3, <2>1
  <2>3. QED BY <2>1, <2>2
<1>7. PICK r \in ReadBlock(Store, a, block.data) :
          /\ StoreIs(r)
          /\ held' = <<[address |-> a, data |-> r.data]>>
          /\ IF r.ok THEN UNCHANGED <<step, next>> ELSE LeaveFor("none")
  BY DEF NextEntries
<1> HIDE DEF a, B
<1>8. PICK C : ReadIs(r, B, buffers, C, a, block.data) /\ Follows(B, C)
  <2>1. block.data \in Buffer \cup {Null}
    BY <1>5
  <2> HIDE DEF block
  <2>2. QED BY <1>6, <2>1, ReadsIs DEF B
<1>9. CacheIs(cache', C) /\ Len(C) <= MaxBlocks /\ buffers' \in [Buffer -> Contents]
  BY <1>7, <1>8 DEF ReadIs, StoreIs
<1>10. r.data \in Buffer
  <2>1. CASE r.ok
    <3>1. Brought(B, C, a, r.data) /\ B \in Seq(Block)
      BY <1>8, <2>1, InvIs DEF ReadIs, B
    <3>2. QED BY <1>6, <3>1, BroughtFirst
  <2>2. CASE ~r.ok
    BY <1>5, <1>8, <2>2 DEF ReadIs
  <2>3. QED BY <2>1, <2>2
<1>11. /\ held' \in Seq(Block) /\ Len(held') = 1
       /\ held'[1].address \in Entries .. Entries + EntrySectors - 1
  <2> DEFINE x == [address |-> a, data |-> r.data]
  <2>1. x \in Block /\ x.address = a
    BY <1>6, <1>10, BlockFields
  <2>2. held' = <<x>>
    BY <1>7
  <2> HIDE DEF x
  <2>3. QED BY <1>6, <2>1, <2>2
<1>12. \/ step' = "entries" /\ next' = next
       \/ step' = "freeing" /\ next' = "none"
  <2>1. held # <<>>
    <3>1. Len(<<>>) = 0
      OBVIOUS
    <3>2. Len(held) # Len(<<>>)
      BY <1>3, <3>1
    <3>3. QED BY <3>2, Zenon
  <2>2. CASE r.ok
    BY <1>2, <1>7, <2>2
  <2>3. CASE ~r.ok
    BY <1>7, <2>1, <2>3 DEF LeaveFor
  <2>4. QED BY <2>2, <2>3
<1>13. request' = NoRequest /\ to' = to
  BY <1>2, <1>3 DEF reader
<1>14. SearchOf(held', step', request')
  BY <1>11, <1>12, <1>13 DEF SearchOf
<1>15. /\ step' \in Steps /\ next' \in {"table", "mounted", "none"} /\ Len(held') <= 2
       /\ moved' \in BOOLEAN /\ moved'
  BY <1>1, <1>2, <1>11, <1>12 DEF Steps
<1>16. QED
  BY <1>1, <1>8, <1>9, <1>11, <1>13, <1>14, <1>15, KeptIs DEF B

(* A sequence without its last element.                                    *)
LEMMA FrontIs ==
    ASSUME NEW S, NEW s \in Seq(S), Len(s) # 0
    PROVE  /\ Front(s) \in Seq(S) /\ Len(Front(s)) = Len(s) - 1
           /\ \A i \in 1 .. Len(s) - 1 : Front(s)[i] = s[i]
<1> DEFINE m == Len(s) - 1
<1>1. Len(s) \in Nat /\ m \in Nat /\ 1 \in Int /\ m \in Int
  OBVIOUS
<1>2. \A i \in 1 .. m : s[i] \in S
  BY <1>1
<1>3. Front(s) = SubSeq(s, 1, m)
  BY DEF Front
<1> HIDE DEF m
<1>4. /\ SubSeq(s, 1, m) \in Seq(S)
      /\ Len(SubSeq(s, 1, m)) = IF 1 <= m THEN m - 1 + 1 ELSE 0
      /\ \A i \in 1 .. m - 1 + 1 : SubSeq(s, 1, m)[i] = s[1 + i - 1]
  BY <1>1, <1>2, SubSeqProperties
<1>5. Len(Front(s)) = m
  BY <1>1, <1>3, <1>4
<1>6. ASSUME NEW i \in 1 .. m PROVE Front(s)[i] = s[i]
  <2>1. i \in 1 .. m - 1 + 1 /\ 1 + i - 1 = i
    BY <1>1
  <2>2. QED BY <1>3, <1>4, <2>1
<1>7. QED BY <1>3, <1>4, <1>5, <1>6 DEF m

(* One of the defers.  The block that is freed is the first of the cache,  *)
(* as long as the cache holds what is on the disk.                         *)
LEMMA FreeHeldKeeps ==
    ASSUME CacheInv, FreeHeld
    PROVE  Kept
<1> DEFINE B == Blocks(cache)
           block == Last(held)
           n == Find(cache, block.address)
<1>1. /\ CacheIs(cache, B) /\ Len(B) <= MaxBlocks /\ buffers \in [Buffer -> Contents]
      /\ B \in Seq(Block) /\ Len(B) \in Nat
      /\ held \in Seq(Block) /\ Len(held) <= 2 /\ Len(held) \in Nat
      /\ request \in Requests \cup {NoRequest} /\ to \in Seq(Seq(Int \cup {Junk}))
      /\ SearchOf(held, step, request) /\ next \in {"table", "mounted", "none"}
      /\ moved \in BOOLEAN
  BY InvIs
<1>2. ~moved => HeldFirst(held, B) /\ OnDisk(B, buffers) /\ Pieces(request, to)
  BY InvIs
<1>3. /\ step = "freeing" /\ held' = Front(held) /\ next' = next /\ moved' = moved
      /\ request' = request /\ to' = to
      /\ \/ n # Null /\ Freed(n, block) /\ step' = IF Len(held) = 1 THEN next ELSE step
         \/ n = Null /\ step' = "panicked" /\ UNCHANGED store
  BY DEF FreeHeld, reader
<1>4. Len(held) # 0 /\ request = NoRequest
  BY <1>1, <1>3 DEF SearchOf
<1> DEFINE k == Len(held)
<1>5. k \in 1 .. k /\ block = held[k] /\ block \in Block
  <2>1. k \in 1 .. k
    BY <1>1, <1>4
  <2>2. QED BY <1>1, <2>1, ElementOfSeq DEF Last
<1>6. block.data \in Buffer /\ block.address \in Key
  BY <1>5, BlockFields
<1>7. /\ held' \in Seq(Block) /\ Len(held') = k - 1 /\ Len(held') <= 2
      /\ \A i \in 1 .. k - 1 : held'[i] = held[i]
  <2>1. /\ Front(held) \in Seq(Block) /\ Len(Front(held)) = Len(held) - 1
        /\ \A i \in 1 .. Len(held) - 1 : Front(held)[i] = held[i]
    BY <1>1, <1>4, FrontIs
  <2>2. QED BY <1>1, <1>3, <2>1
<1>8. ~moved => k <= Len(B) /\ B[1] = block /\ 1 \in 1 .. Len(B)
  <2> SUFFICES ASSUME ~moved PROVE k <= Len(B) /\ B[1] = block /\ 1 \in 1 .. Len(B)
    OBVIOUS
  <2>1. k <= Len(B) /\ B[k + 1 - k] = held[k]
    BY <1>2, <1>5 DEF HeldFirst
  <2>2. k + 1 - k = 1 /\ 1 \in 1 .. Len(B)
    BY <1>1, <1>4, <2>1
  <2>3. QED BY <1>5, <2>1, <2>2
<1> HIDE DEF B, block, k
<1>9. CASE n # Null
  <2>1. PICK i \in 1 .. Len(B) : B[i].address = block.address /\ (~moved => i = 1)
    <3>1. CASE moved
      <4>1. ~Missing(B, block.address)
        BY <1>1, <1>9, NotFoundIs
      <4>2. QED BY <3>1, <4>1 DEF Missing
    <3>2. CASE ~moved
      BY <1>8, <3>2
    <3>3. QED BY <1>1, <3>1, <3>2
  <2>2. CacheIs(TakenOut(cache, n), Dropped(B, i))
    BY <1>1, <2>1, TakenBlockIs
  <2>3. /\ cache' = TakenOut(cache, n) /\ buffers' = [buffers EXCEPT ![block.data] = Free]
        /\ step' = IF Len(held) = 1 THEN next ELSE step
    BY <1>3, <1>9 DEF Freed
  <2> DEFINE C == Dropped(B, i)
  <2>4. /\ C \in Seq(Block) /\ Len(C) = Len(B) - 1
        /\ \A j \in 1 .. Len(B) - 1 : C[j] = IF j < i THEN B[j] ELSE B[j + 1]
    BY <1>1, DroppedIs
  <2>5. Len(C) <= MaxBlocks
    <3>1. MaxBlocks \in Nat
      BY CacheAssumption
    <3> HIDE DEF C
    <3>2. QED BY <1>1, <2>4, <3>1
  <2>6. Follows(B, C)
    BY DEF Follows
  <2>7. buffers' \in [Buffer -> Contents]
    BY <1>1, <2>3 DEF Contents
  <2>8. SearchOf(held', step', request')
    <3>1. CASE Len(held) = 1
      <4>1. Len(held') = 0 /\ step' = next
        BY <1>7, <2>3, <3>1 DEF k
      <4>2. QED BY <1>1, <1>3, <1>4, <4>1 DEF SearchOf
    <3>2. CASE Len(held) # 1
      <4>1. Len(held') # 0 /\ step' = "freeing"
        BY <1>1, <1>3, <1>7, <2>3, <3>2 DEF k
      <4>2. QED BY <1>3, <1>4, <4>1 DEF SearchOf
    <3>3. QED BY <3>1, <3>2
  <2>9. step' \in Steps /\ step' # "panicked"
    BY <1>1, <1>3, <2>3 DEF Steps
  <2>10. ~moved => OnDisk(C, buffers')
    <3>1. \A h, j \in 1 .. Len(B) : B[h].address = B[j].address => h = j
      BY <1>1, BlocksIs
    <3> SUFFICES ASSUME ~moved PROVE OnDisk(C, buffers')
      OBVIOUS
    <3>2. OnDisk(B, buffers) /\ B[i].data = block.data
      BY <1>2, <1>8, <2>1
    <3>3. OnDisk(Dropped(B, i), [buffers EXCEPT ![B[i].data] = Free])
      BY <1>1, <3>1, <3>2, OnDiskDropped
    <3>4. QED BY <2>3, <3>2, <3>3
  <2> HIDE DEF C
  <2>11. ~moved => HeldFirst(held', C)
    <3> SUFFICES ASSUME ~moved PROVE HeldFirst(held', C)
      OBVIOUS
    <3>1. i = 1 /\ HeldFirst(held, B) /\ Len(held') <= Len(C)
      <4>1. i = 1 /\ HeldFirst(held, B)
        BY <1>2, <2>1
      <4>2. k <= Len(B) /\ Len(held') = k - 1 /\ Len(C) = Len(B) - 1 /\ k \in Nat
        BY <1>1, <1>7, <1>8, <2>4 DEF k
      <4>3. QED BY <1>1, <4>1, <4>2
    <3>2. ASSUME NEW j \in 1 .. Len(held') PROVE C[Len(held') + 1 - j] = held'[j]
      <4>1. /\ j \in 1 .. Len(held) /\ held'[j] = held[j]
            /\ Len(held') + 1 - j \in 1 .. Len(B) - 1 /\ ~ (Len(held') + 1 - j < 1)
            /\ (Len(held') + 1 - j) + 1 = Len(held) + 1 - j
        BY <1>1, <1>7, <1>8 DEF k
      <4>2. C[Len(held') + 1 - j] = B[(Len(held') + 1 - j) + 1]
        BY <2>4, <3>1, <4>1
      <4>3. B[Len(held) + 1 - j] = held[j]
        BY <3>1, <4>1 DEF HeldFirst
      <4>4. QED BY <4>1, <4>2, <4>3
    <3>3. QED BY <3>1, <3>2 DEF HeldFirst
  <2>12. CacheIs(cache', C)
    BY <2>2, <2>3 DEF C
  <2>13. QED
    BY <1>1, <1>2, <1>3, <1>7, <2>5, <2>6, <2>7, <2>8, <2>9, <2>10, <2>11, <2>12, KeptIs DEF B
<1>10. CASE n = Null
  <2>1. moved
    <3> SUFFICES ASSUME ~moved PROVE FALSE
      BY <1>1
    <3>1. B[1].address = block.address /\ 1 \in 1 .. Len(B)
      BY <1>8
    <3>2. Find(cache, B[1].address) # Null
      BY <1>1, <3>1, FoundIs
    <3>3. QED BY <1>10, <3>1, <3>2
  <2>2. step' = "panicked" /\ UNCHANGED store
    BY <1>3, <1>10
  <2>3. SearchOf(held', step', request') /\ step' \in Steps
    BY <1>3, <1>4, <2>2 DEF SearchOf, Steps
  <2>4. QED BY <1>1, <1>3, <1>7, <2>1, <2>2, <2>3, SameStoreKept
<1>11. QED BY <1>9, <1>10

(* The bytes that are copied.                                              *)
LEMMA CopiedIs ==
    ASSUME NEW x, NEW from \in Nat, from < SectorSize, NEW size \in Nat
    PROVE  Copied(x, from, size) \in Seq(Int \cup {Junk})
<1> DEFINE m == IF SectorSize - from < size THEN SectorSize - from ELSE size
<1>1. SectorSize \in Nat /\ Key \subseteq Nat
  BY RequestsAssumption, CacheAssumption
<1>2. m \in Nat
  BY <1>1
<1>3. ASSUME NEW i \in 1 .. m PROVE Byte(x, from + i - 1) \in Int \cup {Junk}
  <2>1. CASE x \in Key
    <3>1. x \in Nat /\ from + i - 1 \in Int
      BY <1>1, <1>2, <2>1
    <3>2. x * SectorSize + (from + i - 1) \in Int
      BY <1>1, <3>1
    <3>3. QED BY <2>1, <3>2 DEF Byte
  <2>2. CASE x \notin Key
    BY <2>2 DEF Byte
  <2>3. QED BY <2>1, <2>2
<1> DEFINE f == [i \in 1 .. m |-> Byte(x, from + i - 1)]
<1>4. Copied(x, from, size) = f
  BY DEF Copied
<1> HIDE DEF m
<1>5. f \in Seq(Int \cup {Junk})
  BY <1>2, <1>3
<1>6. QED BY <1>4, <1>5

(* How many rounds a read takes.                                           *)
LEMMA RoundsIs ==
    ASSUME NEW q \in Requests
    PROVE  LET n == DivRoundUp(q.len, SectorSize)
           IN  /\ n \in Nat /\ (n - 1) * SectorSize < q.len /\ q.len <= n * SectorSize
               /\ SectorSize \in Nat \ {0} /\ q.len \in Nat \ {0} /\ q.address \in Nat
               /\ q.address = SectorSize * (q.address \div SectorSize) + (q.address % SectorSize)
               /\ q.address % SectorSize \in 0 .. SectorSize - 1
               /\ q.address \div SectorSize \in Nat
               /\ \A i \in 0 .. n - 1 : (q.address \div SectorSize) + i \in Key
<1> DEFINE n == DivRoundUp(q.len, SectorSize)
<1>1. /\ SectorSize \in Nat \ {0} /\ q.len \in Nat \ {0} /\ q.address \in Nat
      /\ \A i \in 0 .. n - 1 : (q.address \div SectorSize) + i \in Key
  BY RequestsAssumption
<1>2. PICK b : b = SectorSize
  OBVIOUS
<1>3. PICK l : l = q.len
  OBVIOUS
<1>4. PICK a : a = q.address
  OBVIOUS
<1>5. n \in Nat /\ (n - 1) * b < l /\ l <= n * b
  <2>1. l \in Nat \ {0} /\ b \in Nat \ {0} /\ n = (l + b - 1) \div b
    BY <1>1, <1>2, <1>3 DEF DivRoundUp
  <2> HIDE DEF n
  <2>2. QED BY ONLY <2>1
<1>6. a = b * (a \div b) + (a % b) /\ a % b \in 0 .. b - 1 /\ a \div b \in Nat
  <2>1. a \in Nat /\ b \in Nat \ {0}
    BY <1>1, <1>2, <1>4
  <2>2. QED BY ONLY <2>1
<1> HIDE DEF n
<1>7. QED BY <1>1, <1>2, <1>3, <1>4, <1>5, <1>6 DEF n

(* No request is the one that stands for none.                             *)
LEMMA RequestIs == \A q \in Requests : q # NoRequest
<1>1. NoRequest.len = 0
  BY DEF NoRequest
<1>2. QED BY <1>1, RequestsAssumption

LEMMA StartReadKeeps ==
    ASSUME CacheInv, StartRead
    PROVE  Kept
<1>1. /\ held \in Seq(Block) /\ Len(held) <= 2
      /\ SearchOf(held, step, request) /\ next \in {"table", "mounted", "none"}
      /\ moved \in BOOLEAN
  BY InvIs
<1>2. ~moved => HeldFirst(held, Blocks(cache)) /\ OnDisk(Blocks(cache), buffers)
  BY InvIs
<1>3. /\ step = "mounted" /\ request' \in Requests /\ to' = <<>> /\ UNCHANGED store
      /\ held' = held /\ step' = step /\ next' = next /\ moved' = moved
  BY DEF StartRead, search
<1>4. SearchOf(held', step', request')
  BY <1>1, <1>3 DEF SearchOf
<1>5. to' \in Seq(Seq(Int \cup {Junk})) /\ Len(to') = 0
  BY <1>3
<1>6. Pieces(request', to')
  BY <1>3, <1>5, RequestIs DEF Pieces
<1>7. step' \in Steps /\ step' # "panicked"
  BY <1>3 DEF Steps
<1>8. QED BY <1>1, <1>2, <1>3, <1>4, <1>5, <1>6, <1>7, SameStoreKept

LEMMA ReturnKeeps ==
    ASSUME CacheInv, Return
    PROVE  Kept
<1>1. /\ held \in Seq(Block) /\ Len(held) <= 2
      /\ SearchOf(held, step, request) /\ next \in {"table", "mounted", "none"}
      /\ moved \in BOOLEAN /\ step \in Steps
  BY InvIs
<1>2. ~moved => HeldFirst(held, Blocks(cache)) /\ OnDisk(Blocks(cache), buffers) /\ step # "panicked"
  BY InvIs
<1>3. /\ request' = NoRequest /\ to' = <<>> /\ UNCHANGED store
      /\ held' = held /\ step' = step /\ next' = next /\ moved' = moved
  BY DEF Return, search
<1>4. SearchOf(held', step', request')
  BY <1>1, <1>3 DEF SearchOf
<1>5. to' \in Seq(Seq(Int \cup {Junk}))
  BY <1>3
<1>6. Pieces(request', to')
  BY <1>3 DEF Pieces
<1>7. QED BY <1>1, <1>2, <1>3, <1>4, <1>5, <1>6, SameStoreKept

(* A round of a read brings the bytes that are its piece.                  *)
LEMMA ReadNextKeeps ==
    ASSUME CacheInv, ReadNext
    PROVE  Kept
<1> DEFINE B == Blocks(cache)
           i == Len(to)
           a == Sector(i)
<1>1. /\ held \in Seq(Block) /\ Len(held) <= 2
      /\ to \in Seq(Seq(Int \cup {Junk})) /\ SearchOf(held, step, request)
      /\ next \in {"table", "mounted", "none"} /\ request \in Requests \cup {NoRequest}
      /\ moved \in BOOLEAN /\ step \in Steps /\ B \in Seq(Block)
  BY InvIs
<1>2. ~moved => /\ HeldFirst(held, B) /\ OnDisk(B, buffers)
                /\ Pieces(request, to) /\ step # "panicked"
  BY InvIs
<1>3. PICK q : q = request
  OBVIOUS
<1> DEFINE dest == i * SectorSize
           left == q.len - dest
           size == IF SectorSize < left THEN SectorSize ELSE left
           from == IF i = 0 THEN q.address % SectorSize ELSE 0
<1>4. /\ request # NoRequest /\ i < SectorCount
      /\ \E r \in ReadBlock(Store, a, Null) :
            /\ StoreIs(r)
            /\ IF r.ok
               THEN to' = Append(to, Copied(r.buffers[r.data], from, size)) /\ UNCHANGED request
               ELSE to' = <<>> /\ request' = NoRequest
            /\ UNCHANGED search
  BY <1>3 DEF ReadNext, ReadSector
<1>5. q \in Requests /\ i \in Nat /\ step = "mounted"
  BY <1>1, <1>3, <1>4 DEF SearchOf
<1>6. /\ SectorSize \in Nat \ {0} /\ q.len \in Nat /\ i * SectorSize < q.len /\ a \in Key
      /\ q.address % SectorSize \in 0 .. SectorSize - 1
  <2> DEFINE n == DivRoundUp(q.len, SectorSize)
  <2>1. /\ n \in Nat /\ (n - 1) * SectorSize < q.len
        /\ SectorSize \in Nat \ {0} /\ q.len \in Nat \ {0}
        /\ q.address % SectorSize \in 0 .. SectorSize - 1
        /\ \A j \in 0 .. n - 1 : (q.address \div SectorSize) + j \in Key
    BY <1>5, RoundsIs
  <2>2. i < n
    BY <1>3, <1>4 DEF SectorCount
  <2> HIDE DEF n
  <2>3. i * SectorSize <= (n - 1) * SectorSize
    <3>1. i \in Nat /\ n \in Nat /\ i <= n - 1 /\ SectorSize \in Nat
      BY <1>5, <2>1, <2>2
    <3> HIDE DEF i
    <3>2. QED BY ONLY <3>1
  <2>4. i * SectorSize \in Nat /\ (n - 1) * SectorSize \in Int
    <3>1. i \in Nat /\ n - 1 \in Int /\ SectorSize \in Nat
      BY <1>5, <2>1
    <3>2. QED BY ONLY <3>1
  <2>5. a \in Key
    <3>1. i \in 0 .. n - 1
      BY <1>5, <2>1, <2>2
    <3>2. QED BY <1>3, <2>1, <3>1 DEF Sector, StartSector
  <2> HIDE DEF i, a
  <2>6. QED BY <2>1, <2>3, <2>4, <2>5
<1>7. PICK r \in ReadBlock(Store, a, Null) :
          /\ StoreIs(r)
          /\ IF r.ok
             THEN to' = Append(to, Copied(r.buffers[r.data], from, size)) /\ UNCHANGED request
             ELSE to' = <<>> /\ request' = NoRequest
          /\ UNCHANGED search
  BY <1>4
<1> HIDE DEF a, B
<1>8. PICK C : ReadIs(r, B, buffers, C, a, Null) /\ Follows(B, C)
  BY <1>6, ReadsIs DEF B
<1>9. /\ CacheIs(cache', C) /\ Len(C) <= MaxBlocks /\ buffers' \in [Buffer -> Contents]
      /\ (OnDisk(B, buffers) => OnDisk(C, buffers')) /\ buffers' = r.buffers
      /\ held' = held /\ step' = step /\ next' = next /\ moved' = moved
  BY <1>7, <1>8 DEF ReadIs, StoreIs, search
<1>10. request' \in Requests \cup {NoRequest} /\ SearchOf(held', step', request')
  BY <1>1, <1>3, <1>5, <1>7, <1>9 DEF SearchOf
<1>11. step' \in Steps /\ step' # "panicked"
  BY <1>5, <1>9 DEF Steps
<1>12. ~moved => HeldFirst(held', C)
  <2>1. Len(held) = 0
    BY <1>1, <1>5 DEF SearchOf
  <2>2. Len(C) \in Nat
    BY <1>9, BlocksIs
  <2>3. QED BY <1>9, <2>1, <2>2 DEF HeldFirst
<1>13. CASE r.ok
  <2> DEFINE piece == Copied(r.buffers[r.data], from, size)
  <2>1. to' = Append(to, piece) /\ request' = request
    BY <1>7, <1>13
  <2>2. piece \in Seq(Int \cup {Junk})
    <3>1. from \in Nat /\ from < SectorSize
      BY <1>6
    <3>2. size \in Nat
      <4>1. dest \in Nat /\ dest < q.len
        <5>1. i * SectorSize \in Nat
          <6>1. i \in Nat /\ SectorSize \in Nat
            BY <1>5, <1>6
          <6>2. QED BY ONLY <6>1
        <5> HIDE DEF i
        <5>2. QED BY <1>6, <5>1
      <4> HIDE DEF dest
      <4>2. QED BY <1>6, <4>1
    <3> HIDE DEF from, size
    <3>3. QED BY <3>1, <3>2, CopiedIs
  <2>3. ~moved => piece = Piece(q, i + 1)
    <3> SUFFICES ASSUME ~moved PROVE piece = Piece(q, i + 1)
      OBVIOUS
    <3>1. Brought(B, C, a, r.data)
      BY <1>8, <1>13 DEF ReadIs
    <3>2. C[1] = [address |-> a, data |-> r.data] /\ 1 \in 1 .. Len(C)
      BY <1>1, <1>6, <3>1, BroughtFirst
    <3>3. OnDisk(C, r.buffers)
      BY <1>2, <1>9
    <3>4. r.buffers[r.data] = a
      <4>1. r.buffers[C[1].data] = C[1].address
        BY <3>2, <3>3 DEF OnDisk
      <4>2. QED BY <3>2, <4>1
    <3>5. (i + 1) - 1 = i /\ (i + 1 = 1 <=> i = 0)
      BY <1>5
    <3>6. Piece(q, i + 1) = Copied((q.address \div SectorSize) + i, from, size)
      BY <3>5 DEF Piece, Size
    <3>7. a = (q.address \div SectorSize) + i
      BY <1>3 DEF a, Sector, StartSector
    <3>8. QED BY <3>4, <3>6, <3>7
  <2> HIDE DEF piece
  <2>4. to' \in Seq(Seq(Int \cup {Junk})) /\ Len(to') = i + 1 /\ to'[i + 1] = piece
        /\ \A j \in 1 .. i : to'[j] = to[j]
    BY <1>1, <2>1, <2>2
  <2>5. ~moved => Pieces(request', to')
    <3> SUFFICES ASSUME ~moved PROVE Pieces(request', to')
      OBVIOUS
    <3>1. \A j \in 1 .. i : to[j] = Piece(q, j)
      BY <1>2, <1>3, <1>4 DEF Pieces
    <3>2. ASSUME NEW j \in 1 .. Len(to') PROVE to'[j] = Piece(q, j)
      <4>1. j = i + 1 \/ j \in 1 .. i
        BY <1>5, <2>4
      <4>2. CASE j = i + 1
        <5>1. piece = Piece(q, i + 1)
          BY <2>3
        <5>2. QED BY <2>4, <4>2, <5>1
      <4>3. CASE j \in 1 .. i
        BY <2>4, <3>1, <4>3
      <4>4. QED BY <4>1, <4>2, <4>3
    <3>3. QED BY <1>3, <1>4, <2>1, <3>2 DEF Pieces
  <2>6. QED
    BY <1>1, <1>2, <1>8, <1>9, <1>10, <1>11, <1>12, <2>4, <2>5, KeptIs DEF B
<1>14. CASE ~r.ok
  <2>1. to' = <<>> /\ request' = NoRequest
    BY <1>7, <1>14
  <2>2. to' \in Seq(Seq(Int \cup {Junk})) /\ Pieces(request', to')
    BY <2>1 DEF Pieces
  <2>3. QED
    BY <1>1, <1>2, <1>8, <1>9, <1>10, <1>11, <1>12, <2>2, KeptIs DEF B
<1>15. QED BY <1>13, <1>14

LEMMA CacheInit == Init => CacheInv
<1> SUFFICES ASSUME Init PROVE CacheInv
  OBVIOUS
<1>1. /\ cache = EmptyMappedList /\ buffers = [b \in Buffer |-> Free]
      /\ held = <<>> /\ step = "start" /\ next = "none"
      /\ request = NoRequest /\ to = <<>> /\ moved = FALSE
  BY DEF Init
<1>2. CacheIs(cache, <<>>) /\ Blocks(cache) = <<>> /\ cache \in MappedListType
  <2>1. CacheIs(cache, <<>>)
    BY <1>1, EmptyCacheIs
  <2>2. QED BY <2>1, BlocksIs
<1>3. Len(<<>>) = 0 /\ held \in Seq(Block) /\ to \in Seq(Seq(Int \cup {Junk})) /\ MaxBlocks \in Nat
  BY <1>1, CacheAssumption
<1>4. TypeOK
  <2>1. held \in SeqOf([address : Key, data : Buffer], 2)
    <3>1. held \in Seq(Block) /\ Len(held) <= 2
      BY <1>1, <1>3
    <3>2. held \in SeqOf(Block, 2)
      BY <3>1, HeldType
    <3>3. QED BY <3>2 DEF Block
  <2>2. buffers \in [Buffer -> Key \cup {Free, Junk}]
    BY <1>1
  <2>3. QED BY <1>1, <1>2, <1>3, <2>1, <2>2 DEF TypeOK
<1>5. SearchOf(held, step, request)
  BY <1>1, <1>3 DEF SearchOf
<1>6. HeldFirst(held, <<>>) /\ OnDisk(<<>>, buffers) /\ Pieces(request, to)
  BY <1>1, <1>3 DEF HeldFirst, OnDisk, Pieces
<1>7. QED BY <1>1, <1>2, <1>3, <1>4, <1>5, <1>6 DEF CacheInv, TypeInv, DiskInv

(* Every step keeps the invariant, and does to the cache what a cache that *)
(* forgets the block not used for longest may do.                          *)
LEMMA CacheStep ==
    ASSUME CacheInv, [Next]_vars
    PROVE  Kept
<1>0. {0, 1} \subseteq Key /\ Entries \in Key
  <2>1. /\ {0, 1} \subseteq Key /\ Entries \in Nat /\ EntrySectors \in Nat \ {0}
        /\ Entries .. Entries + EntrySectors - 1 \subseteq Key
    BY CacheAssumption
  <2>2. Entries \in Entries .. Entries + EntrySectors - 1
    BY <2>1
  <2>3. QED BY <2>1, <2>2
<1>1. CASE ReadMbr
  BY <1>0, <1>1, SearchReadsKeeps DEF ReadMbr
<1>2. CASE LeaveMbr
  BY <1>2, LeaveKeeps DEF LeaveMbr
<1>3. CASE ReadHeader
  BY <1>0, <1>3, SearchReadsKeeps DEF ReadHeader
<1>4. CASE LeaveHeader
  BY <1>4, LeaveKeeps DEF LeaveHeader
<1>5. CASE ReadEntries
  BY <1>0, <1>5, SearchReadsKeeps DEF ReadEntries
<1>6. CASE NextEntries
  BY <1>6, NextEntriesKeeps
<1>7. CASE LeaveEntries
  BY <1>7, LeaveKeeps DEF LeaveEntries
<1>8. CASE FreeHeld
  BY <1>8, FreeHeldKeeps
<1>9. CASE StartRead
  BY <1>9, StartReadKeeps
<1>10. CASE ReadNext
  BY <1>10, ReadNextKeeps
<1>11. CASE Return
  BY <1>11, ReturnKeeps
<1>12. CASE UNCHANGED vars
  <2>1. /\ UNCHANGED store /\ held' = held /\ step' = step /\ next' = next /\ moved' = moved
        /\ request' = request /\ to' = to
    BY <1>12 DEF vars, store, search, reader
  <2>2. /\ held \in Seq(Block) /\ Len(held) <= 2 /\ step \in Steps
        /\ next \in {"table", "mounted", "none"}
        /\ request \in Requests \cup {NoRequest} /\ to \in Seq(Seq(Int \cup {Junk}))
        /\ moved \in BOOLEAN /\ SearchOf(held, step, request)
    BY InvIs
  <2>3. ~moved => /\ HeldFirst(held, Blocks(cache)) /\ OnDisk(Blocks(cache), buffers)
                  /\ Pieces(request, to) /\ step # "panicked"
    BY InvIs
  <2>4. QED BY <2>1, <2>2, <2>3, SameStoreKept
<1>13. QED
  BY <1>1, <1>2, <1>3, <1>4, <1>5, <1>6, <1>7, <1>8, <1>9, <1>10, <1>11, <1>12 DEF Next

(* The cache is a mapped list of blocks, and holds what is on the disk     *)
(* until a second sector of entries is read.                               *)
THEOREM CacheCorrect == Spec => []CacheInv
<1>1. CacheInv /\ [Next]_vars => CacheInv'
  BY CacheStep DEF Kept
<1>2. QED BY CacheInit, <1>1, PTL DEF Spec

-----------------------------------------------------------------------------
(* What the runs check of it.                                              *)

(* The tree and the list of the cache never part (kernel/mapped_list.zig). *)
THEOREM MapAndListNeverPart == Spec => []MapAndListAgree
<1>1. CacheInv => MapAndListAgree
  <2> SUFFICES ASSUME CacheInv PROVE MapAndListAgree
    OBVIOUS
  <2>1. TypeOK /\ CacheIs(cache, Blocks(cache))
    BY DEF CacheInv, TypeInv
  <2>2. PICK s : MappedIs(cache, s)
    BY <2>1 DEF CacheIs, NodesHold
  <2>3. QED BY <2>1, <2>2, MappedAgree DEF MapAndListAgree
<1>2. QED BY CacheCorrect, <1>1, PTL

(* free_block of kernel/io.zig never panics over a block it does not have, *)
(* in a search that needs one sector of entries.                           *)
THEOREM FreeBlockNeverPanics == Spec => []NoPanic
<1>1. CacheInv => NoPanic
  BY DEF CacheInv, DiskInv, NoPanic
<1>2. QED BY CacheCorrect, <1>1, PTL

(* A cached block is what is on the disk, in a buffer of its own, and what *)
(* the search holds is still cached.                                       *)
THEOREM CacheAlwaysHoldsDisk == Spec => []CacheHoldsDisk
<1>1. CacheInv => CacheHoldsDisk
  <2> DEFINE B == Blocks(cache)
  <2> SUFFICES ASSUME CacheInv, ~moved
               PROVE  /\ \A n \in cache.used : buffers[cache.value[n]] = cache.map.key[n]
                      /\ \A n, m \in cache.used : cache.value[n] = cache.value[m] => n = m
                      /\ \A i \in 1 .. Len(held) :
                            LET n == Find(cache, held[i].address)
                            IN  n # Null /\ cache.value[n] = held[i].data
    BY DEF CacheHoldsDisk
  <2>1. /\ CacheIs(cache, B) /\ HeldFirst(held, B) /\ OnDisk(B, buffers)
        /\ Len(held) \in Nat /\ Len(B) \in Nat
    BY InvIs
  <2> HIDE DEF B
  <2>2. \A i, j \in 1 .. Len(B) : B[i].address = B[j].address => i = j
    BY <2>1, BlocksIs
  <2>3. PICK s : NodesHold(cache, s, B)
    BY <2>1 DEF CacheIs
  <2>4. /\ MappedIs(cache, s) /\ Len(s) = Len(B)
        /\ \A i \in 1 .. Len(B) : B[i].address = cache.map.key[s[i]] /\ B[i].data = cache.value[s[i]]
    BY <2>3 DEF NodesHold
  <2>5. ASSUME NEW n \in cache.used PROVE \E i \in 1 .. Len(B) : n = s[i]
    BY <2>4, MappedTypes
  <2>6. ASSUME NEW n \in cache.used PROVE buffers[cache.value[n]] = cache.map.key[n]
    <3>1. PICK i \in 1 .. Len(B) : n = s[i]
      BY <2>5
    <3>2. buffers[B[i].data] = B[i].address
      BY <2>1 DEF OnDisk
    <3>3. QED BY <2>4, <3>1, <3>2
  <2>7. ASSUME NEW n \in cache.used, NEW m \in cache.used, cache.value[n] = cache.value[m]
        PROVE  n = m
    <3>1. PICK i \in 1 .. Len(B) : n = s[i]
      BY <2>5
    <3>2. PICK j \in 1 .. Len(B) : m = s[j]
      BY <2>5
    <3>3. B[i].address = B[j].address
      BY <2>4, <2>6, <2>7, <3>1, <3>2
    <3>4. QED BY <2>2, <3>1, <3>2, <3>3
  <2>8. ASSUME NEW i \in 1 .. Len(held)
        PROVE  /\ Find(cache, held[i].address) # Null
               /\ cache.value[Find(cache, held[i].address)] = held[i].data
    <3>1. Len(held) + 1 - i \in 1 .. Len(B) /\ B[Len(held) + 1 - i] = held[i]
      <4>1. Len(held) <= Len(B) /\ B[Len(held) + 1 - i] = held[i]
        BY <2>1 DEF HeldFirst
      <4>2. QED BY <2>1, <4>1
    <3>2. PICK k \in 1 .. Len(B) : B[k] = held[i]
      BY <3>1
    <3>3. QED BY <2>1, <3>2, FoundIs
  <2>9. QED BY <2>6, <2>7, <2>8
<1>2. QED BY CacheCorrect, <1>1, PTL

(* The n bytes of the disk from a on.                                      *)
Run(a, n) == [j \in 1 .. n |-> a + j - 1]

LEMMA RunIs ==
    ASSUME NEW a \in Int, NEW m \in Nat, NEW k \in Nat
    PROVE  Run(a, m) \o Run(a + m, k) = Run(a, m + k)
<1> DEFINE s == Run(a, m)
           t == Run(a + m, k)
           u == Run(a, m + k)
<1>1. s \in Seq(Int) /\ Len(s) = m /\ \A j \in 1 .. m : s[j] = a + j - 1
  BY DEF Run
<1>2. t \in Seq(Int) /\ Len(t) = k /\ \A j \in 1 .. k : t[j] = a + m + j - 1
  BY DEF Run
<1>3. u \in Seq(Int) /\ Len(u) = m + k /\ \A j \in 1 .. m + k : u[j] = a + j - 1
  BY DEF Run
<1> HIDE DEF s, t, u
<1>4. /\ s \o t \in Seq(Int) /\ Len(s \o t) = m + k
      /\ \A j \in 1 .. m + k : (s \o t)[j] = IF j <= m THEN s[j] ELSE t[j - m]
  BY <1>1, <1>2, ConcatProperties
<1>5. ASSUME NEW j \in 1 .. m + k PROVE (s \o t)[j] = u[j]
  <2>1. CASE j <= m
    BY <1>1, <1>3, <1>4, <2>1
  <2>2. CASE ~ (j <= m)
    <3>1. j - m \in 1 .. k /\ a + m + (j - m) - 1 = a + j - 1
      BY <2>2
    <3>2. (s \o t)[j] = t[j - m]
      BY <1>4, <2>2
    <3>3. t[j - m] = a + m + (j - m) - 1
      BY <1>2, <3>1
    <3>4. QED BY <1>3, <3>1, <3>2, <3>3
  <2>3. QED BY <2>1, <2>2
<1>6. s \o t = u
  BY <1>3, <1>4, <1>5, SeqEqual
<1>7. QED BY <1>6 DEF s, t, u

(* Pieces that lie one after the other make one run of bytes.              *)
LEMMA FlattenRuns ==
    ASSUME NEW a \in Int, NEW S, NEW parts \in Seq(Seq(S)), NEW P \in [0 .. Len(parts) -> Nat],
           P[0] = 0,
           \A i \in 1 .. Len(parts) :
              P[i - 1] <= P[i] /\ parts[i] = Run(a + P[i - 1], P[i] - P[i - 1])
    PROVE  FlattenSeq(parts) = Run(a, P[Len(parts)])
<1> DEFINE n == Len(parts)
<1>1. n \in Nat
  OBVIOUS
<1>2. PICK f : /\ f[0] = <<>>
               /\ \A i \in 1 .. n : f[i] = f[i - 1] \o parts[i]
               /\ FlattenSeq(parts) = f[n]
  <2>1. \E h : /\ h[0] = <<>> /\ \A i \in 1 .. Len(parts) : h[i] = h[i - 1] \o parts[i]
               /\ \A i \in 0 .. Len(parts) : h[i] \in Seq(S)
               /\ FlattenSeq(parts) = h[Len(parts)]
    BY FlattenAlong
  <2>2. QED BY <2>1
<1> DEFINE Have == {m \in Nat : m <= n => f[m] = Run(a, P[m])}
<1>3. 0 \in Have
  <2>1. Run(a, 0) = <<>>
    BY DEF Run
  <2>2. QED BY <1>2, <2>1
<1>4. ASSUME NEW m \in Nat, m \in Have PROVE m + 1 \in Have
  <2> SUFFICES ASSUME m + 1 <= n PROVE f[m + 1] = Run(a, P[m + 1])
    OBVIOUS
  <2>1. m + 1 \in 1 .. n /\ (m + 1) - 1 = m /\ m \in 0 .. n /\ m + 1 \in 0 .. n /\ m <= n
    BY <1>1
  <2>2. f[m + 1] = f[m] \o parts[m + 1] /\ f[m] = Run(a, P[m])
    BY <1>2, <1>4, <2>1
  <2> DEFINE k == P[m + 1] - P[m]
  <2>3. P[m] <= P[m + 1] /\ parts[m + 1] = Run(a + P[m], k)
    BY <2>1
  <2>4. P[m] \in Nat /\ k \in Nat /\ P[m] + k = P[m + 1]
    <3>1. P[m] \in Nat /\ P[m + 1] \in Nat
      BY <2>1
    <3>2. QED BY <2>3, <3>1
  <2> HIDE DEF k
  <2>5. Run(a, P[m]) \o Run(a + P[m], k) = Run(a, P[m] + k)
    BY <2>4, RunIs
  <2>6. f[m + 1] = Run(a, P[m]) \o Run(a + P[m], k)
    BY <2>2, <2>3, Zenon
  <2>7. QED BY <2>4, <2>5, <2>6
<1>5. n \in Have
  <2> HIDE DEF Have
  <2>1. QED BY <1>1, <1>3, <1>4, SetInduction
<1>6. QED BY <1>1, <1>2, <1>5

(* What is copied of a sector is a run of bytes of the disk.               *)
LEMMA CopiedRun ==
    ASSUME NEW y \in Key, NEW from \in Nat, NEW size \in Nat, from + size <= SectorSize
    PROVE  Copied(y, from, size) = Run(y * SectorSize + from, size)
<1>1. SectorSize \in Nat /\ y \in Nat
  BY RequestsAssumption, CacheAssumption
<1>2. PICK p : p = y * SectorSize
  OBVIOUS
<1>3. p \in Nat
  BY <1>1, <1>2
<1>4. (IF SectorSize - from < size THEN SectorSize - from ELSE size) = size
  BY <1>1
<1>5. \A j \in 1 .. size : Byte(y, from + j - 1) = p + from + j - 1
  <2>1. ASSUME NEW j \in 1 .. size PROVE Byte(y, from + j - 1) = p + from + j - 1
    <3>1. Byte(y, from + j - 1) = p + (from + j - 1)
      BY <1>2 DEF Byte
    <3>2. QED BY <1>3, <3>1
  <2>2. QED BY <2>1
<1>6. Copied(y, from, size) = [j \in 1 .. size |-> Byte(y, from + j - 1)]
  BY <1>4 DEF Copied
<1>7. Run(p + from, size) = [j \in 1 .. size |-> p + from + j - 1]
  BY DEF Run
<1>8. QED BY <1>2, <1>5, <1>6, <1>7

(* A piece is a run of bytes of the disk, for the reads that stay in a     *)
(* block or start at one: what was copied before it ends where it starts.  *)
LEMMA PieceIs ==
    ASSUME NEW q \in Requests, NEW n, n = DivRoundUp(q.len, SectorSize),
           \/ q.address % SectorSize = 0
           \/ (q.address % SectorSize) + q.len <= SectorSize,
           NEW i \in 1 .. n, NEW before, before = (i - 1) * SectorSize
    PROVE  /\ i = n => Piece(q, i) = Run(q.address + before, q.len - before) /\ before <= q.len
           /\ i < n => Piece(q, i) = Run(q.address + before, SectorSize) /\ before + SectorSize <= q.len
<1> DEFINE s == SectorSize
           first == q.address % s
           x == q.address \div s
<1>1. /\ n \in Nat /\ (n - 1) * s < q.len /\ q.len <= n * s
      /\ s \in Nat \ {0} /\ q.len \in Nat \ {0} /\ q.address \in Nat
      /\ q.address = s * x + first /\ first \in 0 .. s - 1 /\ x \in Nat
      /\ \A j \in 0 .. n - 1 : x + j \in Key
  BY RoundsIs
<1>2. i \in Nat /\ i - 1 \in 0 .. n - 1 /\ x + (i - 1) \in Key
  BY <1>1
<1> DEFINE from == IF i = 1 THEN first ELSE 0
           size == Size(q, i)
<1>3. Piece(q, i) = Copied(x + (i - 1), from, size)
  BY DEF Piece
<1> HIDE DEF first, x
<1>4. before \in Nat /\ before + s = i * s
  <2>1. i - 1 \in Nat /\ s \in Nat /\ i \in Nat
    BY <1>1, <1>2
  <2>2. (i - 1) * s \in Nat /\ (i - 1) * s + s = i * s
    BY ONLY <2>1
  <2>3. QED BY <2>2
<1>5. q.len - (i - 1) * s = q.len - before
  OBVIOUS
<1>6. (x + (i - 1)) * s + first = q.address + before
  <2>1. x \in Nat /\ i - 1 \in Nat /\ s \in Nat /\ before = (i - 1) * s
    BY <1>1, <1>2
  <2> HIDE DEF s
  <2>2. (x + (i - 1)) * s = s * x + before /\ (x + (i - 1)) * s \in Nat
    <3>1. PICK k : k = i - 1
      OBVIOUS
    <3>2. k \in Nat /\ before = k * s
      BY <2>1, <3>1
    <3>3. (x + k) * s = s * x + k * s /\ (x + k) * s \in Nat
      BY ONLY <2>1, <3>2
    <3>4. QED BY <3>1, <3>2, <3>3
  <2>3. s * x \in Nat /\ first \in Nat
    <3>1. s * x \in Nat
      BY ONLY <2>1
    <3>2. QED BY <1>1, <3>1
  <2>4. q.address = s * x + first /\ before \in Nat
    BY <1>1, <1>4
  <2>5. QED BY ONLY <2>2, <2>3, <2>4
<1>7. ASSUME size \in Nat, first + size <= s, i = 1 \/ first = 0
      PROVE  Piece(q, i) = Run(q.address + before, size)
  <2>1. from = first /\ first \in Nat
    BY <1>1, <1>7
  <2> HIDE DEF size, s, from
  <2>2. Copied(x + (i - 1), first, size) = Run((x + (i - 1)) * SectorSize + first, size)
    <3>1. PICK y \in Key : y = x + (i - 1)
      BY <1>2
    <3>2. first + size <= SectorSize
      BY <1>7 DEF s
    <3>3. Copied(y, first, size) = Run(y * SectorSize + first, size)
      BY <1>7, <2>1, <3>2, CopiedRun
    <3>4. QED BY <3>1, <3>3
  <2>3. QED BY <1>3, <1>6, <2>1, <2>2 DEF s
<1>8. CASE i < n
  <2>1. i * s <= (n - 1) * s
    <3>1. i \in Nat /\ n \in Nat /\ i <= n - 1 /\ s \in Nat
      BY <1>1, <1>2, <1>8
    <3>2. QED BY ONLY <3>1
  <2>2. before + s < q.len
    <3>1. (n - 1) * s \in Int /\ i * s \in Int
      <4>1. n - 1 \in Int /\ i \in Int /\ s \in Int
        BY <1>1, <1>2
      <4>2. QED BY ONLY <4>1
    <3>2. QED BY <1>1, <1>4, <2>1, <3>1
  <2>3. size = s
    BY <1>1, <1>4, <1>5, <2>2 DEF Size
  <2>4. first = 0
    BY <1>1, <1>4, <2>2 DEF first
  <2>5. size \in Nat /\ first + size <= s
    BY <1>1, <2>3, <2>4
  <2> HIDE DEF size
  <2>6. Piece(q, i) = Run(q.address + before, s)
    BY <1>7, <2>3, <2>4, <2>5
  <2>7. QED BY <1>1, <1>2, <1>4, <1>8, <2>2, <2>6
<1>9. CASE i = n
  <2>1. before < q.len /\ q.len - before <= s
    BY <1>1, <1>4, <1>9
  <2>2. size = q.len - before
    BY <1>1, <1>4, <1>5, <2>1 DEF Size
  <2>3. first + size <= s /\ (i = 1 \/ first = 0)
    <3>1. CASE first = 0
      BY <1>1, <1>4, <2>1, <2>2, <3>1
    <3>2. CASE first # 0
      <4>1. first + q.len <= s
        BY <3>2 DEF first
      <4>2. before < s
        BY <1>1, <1>4, <2>1, <4>1
      <4>3. i = 1
        <5>1. CASE i >= 2
          <6>1. i - 1 \in Nat /\ i - 1 >= 1 /\ s \in Nat
            BY <1>1, <1>2, <5>1
          <6>2. (i - 1) * s >= s
            BY ONLY <6>1
          <6>3. QED BY <1>1, <1>4, <4>2, <6>2
        <5>2. QED BY <1>2, <5>1
      <4>4. before = 0
        BY <4>3, <1>1
      <4>5. QED BY <1>1, <2>2, <4>1, <4>3, <4>4
    <3>3. QED BY <3>1, <3>2
  <2>4. size \in Nat
    BY <1>1, <1>4, <2>1, <2>2
  <2> HIDE DEF size
  <2>5. Piece(q, i) = Run(q.address + before, q.len - before)
    BY <1>7, <2>2, <2>3, <2>4
  <2>6. QED BY <1>1, <1>4, <1>9, <2>1, <2>5
<1>10. QED BY <1>1, <1>2, <1>8, <1>9

(* BlockStore.read gives what is on the disk, whatever was cached or       *)
(* evicted meanwhile, for the reads that stay in a block or start at one.  *)
THEOREM ReadAlwaysReturnsDisk == Spec => []ReadReturnsDisk
<1>1. CacheInv => ReadReturnsDisk
  <2> DEFINE start == request.address % SectorSize
  <2> SUFFICES ASSUME CacheInv, ~moved, start = 0 \/ start + request.len <= SectorSize,
                      request # NoRequest, Len(to) = SectorCount
               PROVE  FlattenSeq(to) = [i \in 1 .. request.len |-> request.address + i - 1]
    BY DEF ReadReturnsDisk, ReadIsRight
  <2>1. request \in Requests /\ to \in Seq(Seq(Int \cup {Junk})) /\ Pieces(request, to)
    BY InvIs
  <2>2. PICK q \in Requests : q = request
    BY <2>1
  <2>3. PICK n : n = DivRoundUp(q.len, SectorSize)
    OBVIOUS
  <2>4. /\ Len(to) = n
        /\ \A i \in 1 .. n : to[i] = Piece(q, i)
        /\ q.address % SectorSize = 0 \/ (q.address % SectorSize) + q.len <= SectorSize
    BY <2>1, <2>2, <2>3 DEF Pieces, SectorCount
  <2>5. /\ n \in Nat /\ (n - 1) * SectorSize < q.len /\ q.len <= n * SectorSize
        /\ SectorSize \in Nat \ {0} /\ q.len \in Nat \ {0} /\ q.address \in Nat
    BY <2>3, RoundsIs
  <2>6. n # 0
    <3>1. CASE n = 0
      <4>1. n * SectorSize = 0
        BY <2>5, <3>1
      <4>2. QED BY <2>5, <4>1
    <3>2. QED BY <3>1
  <2> DEFINE P == [i \in 0 .. Len(to) |-> IF i = n THEN q.len ELSE i * SectorSize]
  <2>7. P \in [0 .. Len(to) -> Nat] /\ P[0] = 0 /\ P[Len(to)] = q.len
    <3>1. ASSUME NEW i \in 0 .. n PROVE i * SectorSize \in Nat
      <4>1. i \in Nat /\ SectorSize \in Nat
        BY <2>5
      <4>2. QED BY ONLY <4>1
    <3>2. 0 * SectorSize = 0 /\ 0 \in 0 .. n /\ n \in 0 .. n
      BY <2>5
    <3>3. QED BY <2>4, <2>5, <2>6, <3>1, <3>2
  <2>8. ASSUME NEW i \in 1 .. n
        PROVE  P[i - 1] <= P[i] /\ to[i] = Run(q.address + P[i - 1], P[i] - P[i - 1])
    <3> DEFINE before == (i - 1) * SectorSize
    <3>1. i - 1 \in 0 .. n /\ i \in 0 .. n /\ i - 1 # n /\ i \in Nat
      BY <2>5
    <3>2. P[i - 1] = before /\ P[i] = IF i = n THEN q.len ELSE i * SectorSize
      BY <2>4, <3>1
    <3> HIDE DEF P
    <3>3. before \in Nat /\ i * SectorSize - before = SectorSize /\ i * SectorSize \in Nat
      <4>1. i - 1 \in Nat /\ i \in Nat /\ SectorSize \in Nat
        BY <2>5, <3>1
      <4>2. (i - 1) * SectorSize \in Nat /\ i * SectorSize - (i - 1) * SectorSize = SectorSize
            /\ i * SectorSize \in Nat
        BY ONLY <4>1
      <4>3. QED BY <4>2
    <3>4. PICK b : b = before
      OBVIOUS
    <3>5. /\ i = n => Piece(q, i) = Run(q.address + b, q.len - b) /\ b <= q.len
          /\ i < n => Piece(q, i) = Run(q.address + b, SectorSize) /\ b + SectorSize <= q.len
      BY <2>3, <2>4, <3>4, PieceIs
    <3> HIDE DEF before
    <3>6. CASE i = n
      BY <2>4, <3>2, <3>4, <3>5, <3>6
    <3>7. CASE i # n
      <4>1. i < n
        BY <2>5, <3>7
      <4>2. P[i] = i * SectorSize /\ P[i] - P[i - 1] = SectorSize /\ P[i - 1] <= P[i]
        BY <2>5, <3>2, <3>3, <3>7
      <4>3. QED BY <2>4, <3>2, <3>4, <3>5, <4>1, <4>2
    <3>8. QED BY <3>6, <3>7
  <2> HIDE DEF P
  <2>9. FlattenSeq(to) = Run(q.address, P[Len(to)])
    <3>1. q.address \in Int
      BY <2>5
    <3>2. \A i \in 1 .. Len(to) :
             P[i - 1] <= P[i] /\ to[i] = Run(q.address + P[i - 1], P[i] - P[i - 1])
      BY <2>4, <2>8
    <3>3. QED BY <2>1, <2>7, <3>1, <3>2, FlattenRuns
  <2>10. QED BY <2>2, <2>7, <2>9 DEF Run
<1>2. QED BY CacheCorrect, <1>1, PTL

-----------------------------------------------------------------------------
(* The abstract cache.                                                     *)

Addresses(B) == [i \in 1 .. Len(B) |-> B[i].address]

LEMMA AddressesIs ==
    ASSUME NEW B \in Seq(Block)
    PROVE  /\ Addresses(B) \in Seq(Key) /\ Len(Addresses(B)) = Len(B)
           /\ \A i \in 1 .. Len(B) : Addresses(B)[i] = B[i].address
<1>1. \A i \in 1 .. Len(B) : B[i].address \in Key
  BY BlockFields
<1>2. Len(B) \in Nat
  OBVIOUS
<1>3. QED BY <1>1, <1>2 DEF Addresses

LEMMA AddressesConsed ==
    ASSUME NEW B \in Seq(Block), NEW x \in Block
    PROVE  Addresses(Consed(B, x)) = Consed(Addresses(B), x.address)
<1> DEFINE C == Consed(B, x)
           R == Addresses(B)
           D == Consed(R, x.address)
           Q == Addresses(C)
<1>1. x.address \in Key /\ Len(B) \in Nat
  BY BlockFields
<1>2. R \in Seq(Key) /\ Len(R) = Len(B) /\ \A i \in 1 .. Len(B) : R[i] = B[i].address
  BY AddressesIs
<1>3. C \in Seq(Block) /\ Len(C) = Len(B) + 1 /\ C[1] = x
      /\ \A i \in 2 .. Len(B) + 1 : C[i] = B[i - 1]
  BY ConsedIs
<1> HIDE DEF C, R
<1>4. D \in Seq(Key) /\ Len(D) = Len(B) + 1 /\ D[1] = x.address
      /\ \A i \in 2 .. Len(B) + 1 : D[i] = R[i - 1]
  <2>1. PICK a \in Key : a = x.address
    BY <1>1
  <2>2. /\ Consed(R, a) \in Seq(Key) /\ Len(Consed(R, a)) = Len(R) + 1 /\ Consed(R, a)[1] = a
        /\ \A i \in 2 .. Len(R) + 1 : Consed(R, a)[i] = R[i - 1]
    BY <1>2, ConsedIs
  <2>3. QED BY <1>2, <2>1, <2>2
<1>5. Q \in Seq(Key) /\ Len(Q) = Len(C) /\ \A i \in 1 .. Len(C) : Q[i] = C[i].address
  BY <1>3, AddressesIs
<1> HIDE DEF Q, D
<1>6. ASSUME NEW i \in 1 .. Len(B) + 1 PROVE Q[i] = D[i]
  <2>1. CASE i = 1
    BY <1>1, <1>3, <1>4, <1>5, <2>1
  <2>2. CASE i # 1
    <3>1. i \in 2 .. Len(B) + 1 /\ i - 1 \in 1 .. Len(B)
      BY <1>1, <2>2
    <3>2. Q[i] = B[i - 1].address /\ D[i] = R[i - 1]
      BY <1>3, <1>4, <1>5, <3>1
    <3>3. QED BY <1>2, <3>1, <3>2
  <2>3. QED BY <2>1, <2>2
<1>7. Q = D
  BY <1>3, <1>4, <1>5, <1>6, SeqEqual
<1>8. QED BY <1>7 DEF Q, D, C, R

LEMMA AddressesDropped ==
    ASSUME NEW B \in Seq(Block), NEW k \in 1 .. Len(B)
    PROVE  Addresses(Dropped(B, k)) = Dropped(Addresses(B), k)
<1> DEFINE C == Dropped(B, k)
           R == Addresses(B)
           D == Dropped(R, k)
           Q == Addresses(C)
<1>1. Len(B) \in Nat
  OBVIOUS
<1>2. R \in Seq(Key) /\ Len(R) = Len(B) /\ \A i \in 1 .. Len(B) : R[i] = B[i].address
  BY AddressesIs
<1>3. C \in Seq(Block) /\ Len(C) = Len(B) - 1
      /\ \A i \in 1 .. Len(B) - 1 : C[i] = IF i < k THEN B[i] ELSE B[i + 1]
  BY DroppedIs
<1> HIDE DEF C, R
<1>4. D \in Seq(Key) /\ Len(D) = Len(B) - 1
      /\ \A i \in 1 .. Len(B) - 1 : D[i] = IF i < k THEN R[i] ELSE R[i + 1]
  BY <1>2, DroppedIs
<1>5. Q \in Seq(Key) /\ Len(Q) = Len(C) /\ \A i \in 1 .. Len(C) : Q[i] = C[i].address
  BY <1>3, AddressesIs
<1> HIDE DEF Q, D
<1>6. ASSUME NEW i \in 1 .. Len(B) - 1 PROVE Q[i] = D[i]
  <2>1. i \in 1 .. Len(B) /\ i + 1 \in 1 .. Len(B)
    BY <1>1
  <2>2. CASE i < k
    <3>1. C[i] = B[i] /\ D[i] = R[i] /\ Q[i] = C[i].address
      BY <1>3, <1>4, <1>5, <2>2
    <3>2. QED BY <1>2, <2>1, <3>1
  <2>3. CASE ~ (i < k)
    <3>1. C[i] = B[i + 1] /\ D[i] = R[i + 1] /\ Q[i] = C[i].address
      BY <1>3, <1>4, <1>5, <2>3
    <3>2. QED BY <1>2, <2>1, <3>1
  <2>4. QED BY <2>2, <2>3
<1>7. Q = D
  BY <1>3, <1>4, <1>5, <1>6, SeqEqual
<1>8. QED BY <1>7 DEF Q, D, C, R

(* The operators on sequences that LruCache uses.                          *)
LEMMA RemoveFirstIs ==
    ASSUME NEW R \in Seq(Key), \A i, j \in 1 .. Len(R) : R[i] = R[j] => i = j, NEW k \in 1 .. Len(R)
    PROVE  RemoveFirst(R, R[k]) = Dropped(R, k)
<1> DEFINE I == {i \in 1 .. Len(R) : R[i] = R[k]}
<1>1. Len(R) \in Nat /\ I = {k} /\ I \in SUBSET Nat /\ I # {}
  OBVIOUS
<1>2. Min(I) = k
  <2> HIDE DEF I
  <2>1. Min(I) \in I
    BY <1>1, MinIn
  <2>2. QED BY <1>1, <2>1
<1>3. SelectInSeq(R, LAMBDA e : e = R[k]) = k
  <2>1. SelectInSeq(R, LAMBDA e : e = R[k]) = IF I # {} THEN Min(I) ELSE 0
    BY DEF SelectInSeq
  <2> HIDE DEF I
  <2>2. QED BY <1>1, <1>2, <2>1
<1>4. RemoveFirst(R, R[k]) = RemoveAt(R, k)
  <2>1. \E i \in 1 .. Len(R) : R[i] = R[k]
    OBVIOUS
  <2>2. RemoveFirst(R, R[k]) = RemoveAt(R, SelectInSeq(R, LAMBDA e : e = R[k]))
    BY <2>1 DEF RemoveFirst
  <2>3. QED BY <1>3, <2>2
<1>5. /\ RemoveAt(R, k) \in Seq(Key) /\ Len(RemoveAt(R, k)) = Len(R) - 1
      /\ \A j \in 1 .. Len(R) - 1 : RemoveAt(R, k)[j] = IF j < k THEN R[j] ELSE R[j + 1]
  BY RemoveAtIs
<1>6. /\ Dropped(R, k) \in Seq(Key) /\ Len(Dropped(R, k)) = Len(R) - 1
      /\ \A j \in 1 .. Len(R) - 1 : Dropped(R, k)[j] = IF j < k THEN R[j] ELSE R[j + 1]
  BY DroppedIs
<1>7. RemoveAt(R, k) = Dropped(R, k)
  <2> DEFINE s == RemoveAt(R, k)
             t == Dropped(R, k)
  <2>1. s \in Seq(Key) /\ t \in Seq(Key) /\ Len(s) = Len(t) /\ \A j \in 1 .. Len(s) : s[j] = t[j]
    BY <1>5, <1>6
  <2> HIDE DEF s, t
  <2>2. s = t
    BY <2>1, SeqEqual
  <2>3. QED BY <2>2 DEF s, t
<1>8. QED BY <1>4, <1>7

LEMMA ConcatIs ==
    ASSUME NEW R \in Seq(Key), NEW a \in Key
    PROVE  <<a>> \o R = Consed(R, a)
<1> DEFINE s == <<a>> \o R
           t == Consed(R, a)
<1>1. Len(R) \in Nat /\ <<a>> \in Seq(Key) /\ Len(<<a>>) = 1 /\ <<a>>[1] = a
  OBVIOUS
<1>2. /\ s \in Seq(Key) /\ Len(s) = 1 + Len(R)
      /\ \A i \in 1 .. 1 + Len(R) : s[i] = IF i <= 1 THEN <<a>>[i] ELSE R[i - 1]
  BY <1>1, ConcatProperties
<1>3. /\ t \in Seq(Key) /\ Len(t) = Len(R) + 1 /\ t[1] = a
      /\ \A i \in 2 .. Len(R) + 1 : t[i] = R[i - 1]
  BY ConsedIs
<1> HIDE DEF s, t
<1>4. ASSUME NEW i \in 1 .. Len(s) PROVE s[i] = t[i]
  <2>1. CASE i = 1
    BY <1>1, <1>2, <1>3, <2>1
  <2>2. CASE i # 1
    <3>1. i \in 2 .. Len(R) + 1 /\ i \in 1 .. 1 + Len(R) /\ ~ (i <= 1)
      BY <1>1, <1>2, <2>2
    <3>2. QED BY <1>2, <1>3, <3>1
  <2>3. QED BY <2>1, <2>2
<1>5. s = t
  BY <1>1, <1>2, <1>3, <1>4, SeqEqual
<1>6. QED BY <1>5 DEF s, t

LEMMA FrontDropped ==
    ASSUME NEW R \in Seq(Key), Len(R) # 0
    PROVE  Front(R) = Dropped(R, Len(R))
<1> DEFINE s == Front(R)
           t == Dropped(R, Len(R))
<1>1. Len(R) \in Nat /\ Len(R) \in 1 .. Len(R)
  OBVIOUS
<1>2. s \in Seq(Key) /\ Len(s) = Len(R) - 1 /\ \A i \in 1 .. Len(R) - 1 : s[i] = R[i]
  BY FrontIs
<1>3. /\ t \in Seq(Key) /\ Len(t) = Len(R) - 1
      /\ \A i \in 1 .. Len(R) - 1 : t[i] = IF i < Len(R) THEN R[i] ELSE R[i + 1]
  BY <1>1, DroppedIs
<1> HIDE DEF s, t
<1>4. ASSUME NEW i \in 1 .. Len(s) PROVE s[i] = t[i]
  BY <1>1, <1>2, <1>3
<1>5. s = t
  BY <1>2, <1>3, <1>4, SeqEqual
<1>6. QED BY <1>5 DEF s, t

(* What Use and Forget of LruCache do to the addresses R.                  *)
Used(R, a) ==
    LET used == <<a>> \o RemoveFirst(R, a)
    IN  IF Len(used) > MaxBlocks THEN Front(used) ELSE used

Distinct(B) == \A i, j \in 1 .. Len(B) : B[i].address = B[j].address => i = j

(* A block that is brought in front is used in LruCache.                   *)
LEMMA BroughtIsUse ==
    ASSUME NEW B \in Seq(Block), Len(B) <= MaxBlocks, Distinct(B),
           NEW C, NEW a \in Key, NEW d, Brought(B, C, a, d)
    PROVE  Addresses(C) = Used(Addresses(B), a)
<1> DEFINE R == Addresses(B)
<1>0. PICK used : used = <<a>> \o RemoveFirst(Addresses(B), a)
  OBVIOUS
<1> SUFFICES Addresses(C) = IF Len(used) > MaxBlocks THEN Front(used) ELSE used
  BY <1>0 DEF Used
<1>1. /\ R \in Seq(Key) /\ Len(R) = Len(B) /\ \A i \in 1 .. Len(B) : R[i] = B[i].address
      /\ Len(B) \in Nat /\ MaxBlocks \in Nat
  BY AddressesIs, CacheAssumption
<1>2. \A i, j \in 1 .. Len(R) : R[i] = R[j] => i = j
  BY <1>1 DEF Distinct
<1>3. CASE \E i \in 1 .. Len(B) : B[i].address = a /\ B[i].data = d /\ C = ToFront(B, i)
  <2>1. PICK i \in 1 .. Len(B) : B[i].address = a /\ C = ToFront(B, i)
    BY <1>3
  <2> HIDE DEF R
  <2>2. R[i] = a /\ i \in 1 .. Len(R)
    BY <1>1, <2>1
  <2>3. RemoveFirst(R, a) = Dropped(R, i)
    BY <1>1, <1>2, <2>2, RemoveFirstIs
  <2>4. Dropped(R, i) \in Seq(Key) /\ Len(Dropped(R, i)) = Len(R) - 1
    BY <1>1, <2>2, DroppedIs
  <2>5. used = Consed(Dropped(R, i), a)
    BY <1>0, <2>3, <2>4, ConcatIs DEF R
  <2>6. Len(used) = Len(R)
    <3>1. PICK D \in Seq(Key) : D = Dropped(R, i)
      BY <2>4
    <3>2. Len(Consed(D, a)) = Len(D) + 1
      BY ConsedIs
    <3>3. QED BY <1>1, <2>4, <2>5, <3>1, <3>2
  <2>7. Dropped(B, i) \in Seq(Block) /\ B[i] \in Block
    BY <2>1, DroppedIs
  <2>8. Addresses(C) = Consed(Addresses(Dropped(B, i)), a)
    <3>1. Addresses(Consed(Dropped(B, i), B[i])) = Consed(Addresses(Dropped(B, i)), B[i].address)
      BY <2>7, AddressesConsed
    <3>2. QED BY <2>1, <3>1 DEF ToFront
  <2>9. Addresses(Dropped(B, i)) = Dropped(R, i)
    BY AddressesDropped DEF R
  <2>10. QED BY <1>1, <2>5, <2>6, <2>8, <2>9
<1>4. CASE ~ \E i \in 1 .. Len(B) : B[i].address = a /\ B[i].data = d /\ C = ToFront(B, i)
  <2> DEFINE x == [address |-> a, data |-> d]
             more == Consed(B, x)
  <2>1. /\ Missing(B, a) /\ d \in Buffer
        /\ C = (IF Len(more) <= MaxBlocks THEN more ELSE Dropped(more, Len(more)))
    BY <1>4 DEF Brought
  <2>2. x \in Block /\ x.address = a
    BY <2>1, BlockFields
  <2> HIDE DEF x
  <2>3. more \in Seq(Block) /\ Len(more) = Len(B) + 1
    BY <2>2, ConsedIs
  <2>4. Addresses(more) = Consed(R, a)
    BY <2>2, AddressesConsed
  <2>5. RemoveFirst(R, a) = R
    <3>1. ~ \E i \in 1 .. Len(R) : R[i] = a
      BY <1>1, <2>1 DEF Missing
    <3> HIDE DEF R
    <3>2. QED BY <3>1 DEF RemoveFirst
  <2> HIDE DEF R
  <2>6. used = Addresses(more)
    BY <1>0, <1>1, <2>4, <2>5, ConcatIs DEF R
  <2> HIDE DEF more
  <2>7. used \in Seq(Key) /\ Len(used) = Len(more) /\ Len(more) \in Nat
    <3>1. more \in Seq(Block)
      BY <2>3
    <3>2. Addresses(more) \in Seq(Key) /\ Len(Addresses(more)) = Len(more)
      BY ONLY <3>1, AddressesIs
    <3>3. Len(more) \in Nat
      BY <3>1
    <3>4. QED BY <2>6, <3>2, <3>3
  <2>8. CASE Len(more) <= MaxBlocks
    <3>1. C = more /\ ~ (Len(used) > MaxBlocks)
      BY <1>1, <2>1, <2>7, <2>8
    <3>2. QED BY <2>6, <3>1
  <2>9. CASE ~ (Len(more) <= MaxBlocks)
    <3>1. /\ C = Dropped(more, Len(more)) /\ Len(used) > MaxBlocks
          /\ Len(more) \in 1 .. Len(more) /\ Len(used) # 0
      BY <1>1, <2>1, <2>7, <2>9
    <3>2. Addresses(C) = Dropped(used, Len(used))
      BY <2>3, <2>6, <2>7, <3>1, AddressesDropped
    <3>3. Front(used) = Dropped(used, Len(used))
      BY <2>7, <3>1, FrontDropped
    <3>4. QED BY <3>1, <3>2, <3>3
  <2>10. QED BY <2>8, <2>9
<1>5. QED BY <1>3, <1>4

RecentOf(c) == [i \in 1 .. c.list.len |-> c.map.key[InOrder(c.list)[i]]]

LEMMA RecentIs ==
    ASSUME NEW c, NEW B, CacheIs(c, B)
    PROVE  RecentOf(c) = Addresses(B)
<1>1. B = Blocks(c) /\ c.list.len = Len(B)
  BY BlocksIs
<1>2. \A i \in 1 .. Len(B) : B[i].address = c.map.key[InOrder(c.list)[i]]
  BY <1>1 DEF Blocks
<1>3. QED BY <1>1, <1>2 DEF RecentOf, Addresses

(* LruCache has the operators on sequences as an instance of its own.      *)
LEMMA SameOperators ==
    ASSUME NEW s, NEW a
    PROVE  Lru!RemoveFirst(s, a) = RemoveFirst(s, a) /\ Lru!Front(s) = Front(s) /\ Lru!Range(s) = Range(s)
<1>1. Lru!Front(s) = Front(s)
  BY DEF Lru!Front, Front
<1>2. Lru!Range(s) = Range(s)
  BY DEF Lru!Range, Range
<1>3. ASSUME NEW i PROVE Lru!RemoveAt(s, i) = RemoveAt(s, i)
  BY DEF Lru!RemoveAt, RemoveAt
<1>4. Lru!SelectInSeq(s, LAMBDA e : e = a) = SelectInSeq(s, LAMBDA e : e = a)
  <2>1. ASSUME NEW I PROVE Lru!Min(I) = Min(I)
    BY DEF Lru!Min, Min
  <2> HIDE DEF Min, Lru!Min
  <2>2. QED BY <2>1 DEF Lru!SelectInSeq, SelectInSeq
<1>5. Lru!RemoveFirst(s, a) = RemoveFirst(s, a)
  BY <1>3, <1>4 DEF Lru!RemoveFirst, RemoveFirst
<1>6. QED BY <1>1, <1>2, <1>5

(* The block cache is a cache of the MaxBlocks blocks used last, whatever  *)
(* is read, evicted and freed.                                             *)
THEOREM CacheIsLru == Spec => ImplementsLru
<1>1. Init => Lru!Init
  <2> SUFFICES ASSUME Init PROVE Lru!Init
    OBVIOUS
  <2>1. cache = EmptyMappedList
    BY DEF Init
  <2>2. RecentOf(cache) = Addresses(<<>>)
    BY <2>1, EmptyCacheIs, RecentIs
  <2>3. Addresses(<<>>) = <<>>
    BY DEF Addresses
  <2>4. QED BY <2>2, <2>3 DEF Lru!Init, Recent, RecentOf
<1>2. CacheInv /\ CacheInv' /\ [Next]_vars => [Lru!Next]_Recent
  <2> SUFFICES ASSUME CacheInv, CacheInv', [Next]_vars PROVE [Lru!Next]_Recent
    OBVIOUS
  <2> DEFINE B == Blocks(cache)
             C == Blocks(cache')
             R == Addresses(B)
             Q == Addresses(C)
  <2>1. Follows(B, C)
    BY CacheStep DEF Kept
  <2>2. /\ CacheIs(cache, B) /\ Len(B) <= MaxBlocks /\ B \in Seq(Block)
        /\ Distinct(B)
    <3>1. CacheIs(cache, B) /\ Len(B) <= MaxBlocks /\ B \in Seq(Block)
      BY InvIs
    <3>2. QED BY <3>1, BlocksIs DEF Distinct
  <2>3. CacheIs(cache', C)
    BY DEF CacheInv, TypeInv
  <2>4. Recent = R /\ Recent' = Q
    <3>1. RecentOf(cache) = R
      BY <2>2, RecentIs
    <3>2. RecentOf(cache') = Q
      BY <2>3, RecentIs
    <3> HIDE DEF R, Q
    <3>3. QED BY <3>1, <3>2 DEF Recent, RecentOf
  <2> HIDE DEF B, C, R, Q
  <2>5. CASE C = B
    BY <2>4, <2>5 DEF R, Q
  <2>6. CASE \E a \in Key, d \in Buffer : Brought(B, C, a, d)
    <3>1. PICK a \in Key, d \in Buffer : Brought(B, C, a, d)
      BY <2>6
    <3>2. Addresses(C) = Used(Addresses(B), a)
      BY <2>2, <3>1, BroughtIsUse
    <3>3. Recent' = Used(Recent, a)
      BY <2>4, <3>2 DEF R, Q
    <3>4. Lru!Use(a)
      BY <3>3, SameOperators, Zenon DEF Lru!Use, Lru!Without, Used
    <3>5. QED BY <3>4 DEF Lru!Next
  <2>7. CASE \E i \in 1 .. Len(B) : C = Dropped(B, i)
    <3>1. PICK i \in 1 .. Len(B) : C = Dropped(B, i)
      BY <2>7
    <3>2. R \in Seq(Key) /\ Len(R) = Len(B) /\ \A j \in 1 .. Len(B) : R[j] = B[j].address
      BY <2>2, AddressesIs DEF R
    <3>3. Q = Dropped(R, i)
      BY <2>2, <3>1, AddressesDropped DEF R, Q
    <3>4. \A j, k \in 1 .. Len(R) : R[j] = R[k] => j = k
      BY <2>2, <3>2 DEF Distinct
    <3>5. Q = RemoveFirst(R, R[i])
      BY <3>2, <3>3, <3>4, RemoveFirstIs
    <3>6. PICK a \in Key : a = R[i]
      BY <3>2
    <3>7. a \in Range(R)
      BY <3>2, <3>6 DEF Range
    <3>8. a \in Range(Recent) /\ Recent' = RemoveFirst(Recent, a)
      BY <2>4, <3>5, <3>6, <3>7
    <3>9. Lru!Forget(a)
      BY <3>8, SameOperators DEF Lru!Forget, Lru!Without
    <3>10. QED BY <3>9 DEF Lru!Next
  <2>8. QED BY <2>1, <2>5, <2>6, <2>7 DEF Follows
<1>3. QED BY CacheCorrect, <1>1, <1>2, PTL DEF Spec, ImplementsLru, Lru!Spec
=============================================================================
