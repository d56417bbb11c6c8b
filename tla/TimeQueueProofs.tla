-------------------------- MODULE TimeQueueProofs --------------------------
(***************************************************************************)
(* What insert, check and the passing of time do to the list of the time   *)
(* queue, for every number of slots and whatever is inserted.              *)
(*                                                                         *)
(* Linked is reachability.  Its two halves are used as an introduction     *)
(* rule (LinkedClosed) and as an induction principle over sets             *)
(* (LinkedLeast): to show something of every linked element, give a set    *)
(* that holds the head and is closed under `next`.                         *)
(***************************************************************************)
EXTENDS TimeQueue, TLAPS, WellFoundedInduction

(* Who follows a linked element is linked, and so is the head.             *)
LEMMA LinkedClosed ==
    ASSUME NEW q \in Queue
    PROVE  /\ Linked(q) \subseteq Slot
           /\ q.head # Null => q.head \in Linked(q)
           /\ \A i \in Linked(q) : q.elements[i].next \in Linked(q) \cup {Null}
<1>1. Linked(q) \subseteq Slot
  BY DEF Linked, WalkFrom
<1>2. q.head # Null => q.head \in Linked(q)
  BY DEF Linked, WalkFrom, Queue
<1>3. ASSUME NEW i \in Linked(q), q.elements[i].next # Null
      PROVE  q.elements[i].next \in Linked(q)
  <2>1. q.head # Null /\ i \in Slot
    BY <1>1, <1>3 DEF Linked
  <2>2. q.elements[i].next \in Slot
    BY <2>1, <1>3 DEF Queue, Element
  <2>3. ASSUME NEW S \in SUBSET Slot, q.head \in S,
               \A x \in S : q.elements[x].next \in S \cup {Null}
        PROVE  q.elements[i].next \in S
    <3>1. i \in S
      BY <1>3, <2>1, <2>3 DEF Linked, WalkFrom
    <3>2. QED BY <3>1, <2>3, <1>3
  <2>4. QED BY <2>1, <2>2, <2>3 DEF Linked, WalkFrom
<1>4. QED BY <1>1, <1>2, <1>3

(* A set with the head that is closed under next holds every linked one.   *)
LEMMA LinkedLeast ==
    ASSUME NEW q \in Queue, NEW S \in SUBSET Slot,
           q.head # Null => q.head \in S,
           \A x \in S : q.elements[x].next \in S \cup {Null}
    PROVE  Linked(q) \subseteq S
BY DEF Linked, WalkFrom

-----------------------------------------------------------------------------
(* A queue whose linked elements form a list, in order, each thread once.  *)
GoodList(q) ==
    LET el == q.elements
    IN  /\ q.head = Null <=> q.tail = Null
        /\ q.head # Null => el[q.head].prev = Null
        /\ \A i \in Linked(q) :
             /\ el[i].valid
             /\ el[i].next # Null =>
                   /\ el[el[i].next].prev = i
                   /\ el[i].when <= el[el[i].next].when
        /\ \A i, j \in Linked(q) : el[i].tid = el[j].tid => i = j

(* On a good list every linked element but the head is the next of its     *)
(* own prev, which is linked too.                                          *)
LEMMA PrevIsLinked ==
    ASSUME NEW q \in Queue, GoodList(q), NEW i \in Linked(q), i # q.head
    PROVE  /\ q.elements[i].prev \in Linked(q)
           /\ q.elements[q.elements[i].prev].next = i
<1> DEFINE el == q.elements
           S == {k \in Linked(q) : k = q.head \/ \E z \in Linked(q) : el[z].next = k}
<1>1. S \in SUBSET Slot /\ (q.head # Null => q.head \in S)
  BY LinkedClosed
<1>2. \A x \in S : el[x].next \in S \cup {Null}
  BY LinkedClosed
<1>3. Linked(q) \subseteq S
  BY <1>1, <1>2, LinkedLeast
<1>4. PICK z \in Linked(q) : el[z].next = i
  BY <1>3
<1>5. i # Null
  BY LinkedClosed, SlotsAssumption DEF Slot, Null
<1>6. QED BY <1>4, <1>5 DEF GoodList

(* The search loop of insert stops at the first element due later: an      *)
(* element exists there exactly if some linked element is due later, and   *)
(* what comes before it is not due later.                                  *)
LEMMA FirstLater ==
    ASSUME NEW q \in Queue, GoodList(q), NEW when \in Nat,
           LaterThan(q, when) # {}
    PROVE  /\ DueAfter(q, when) \in LaterThan(q, when)
           /\ \A x \in LaterThan(q, when) : q.elements[x].next # DueAfter(q, when)
<1> DEFINE el == q.elements
           later == LaterThan(q, when)
<1>1. \E i \in later : \A x \in later : el[x].next # i
  <2> SUFFICES ASSUME \A i \in later : \E x \in later : el[x].next = i
               PROVE  FALSE
    OBVIOUS
  <2> DEFINE S == Linked(q) \ later
  <2>1. S \in SUBSET Slot
    BY LinkedClosed
  <2>2. q.head # Null => q.head \in S
    <3> SUFFICES ASSUME q.head # Null, q.head \in later PROVE FALSE
      BY LinkedClosed
    <3>1. PICK x \in later : el[x].next = q.head
      OBVIOUS
    <3>2. el[q.head].prev = x /\ x \in Slot
      BY <3>1, LinkedClosed DEF GoodList, LaterThan
    <3>3. QED BY <3>2, SlotsAssumption DEF GoodList, Slot, Null
  <2>3. ASSUME NEW x \in S PROVE el[x].next \in S \cup {Null}
    <3> SUFFICES ASSUME el[x].next \in later PROVE FALSE
      BY LinkedClosed
    <3>1. PICK z \in later : el[z].next = el[x].next
      OBVIOUS
    <3>2. el[x].next # Null
      BY LinkedClosed, SlotsAssumption DEF LaterThan, Slot, Null
    <3>3. el[el[x].next].prev = z /\ el[el[x].next].prev = x
      BY <3>1, <3>2 DEF GoodList, LaterThan
    <3>4. QED BY <3>3
  <2>4. Linked(q) \subseteq S
    BY <2>1, <2>2, <2>3, LinkedLeast
  <2>5. QED BY <2>4 DEF LaterThan
<1>2. QED BY <1>1 DEF DueAfter

-----------------------------------------------------------------------------
(* Replacing fields of an element of the right type.                       *)
LEMMA ElementFields ==
    ASSUME NEW e \in Element, NEW w \in Nat, NEW p \in Slot \cup {Null},
           NEW n \in Slot \cup {Null}, NEW b \in BOOLEAN
    PROVE  /\ [e EXCEPT !.when = w] \in Element
           /\ [e EXCEPT !.prev = p] \in Element
           /\ [e EXCEPT !.next = n] \in Element
           /\ [e EXCEPT !.valid = b] \in Element
BY DEF Element

LEMMA QueueFields ==
    ASSUME NEW q \in Queue
    PROVE  /\ q.elements \in [Slot -> Element]
           /\ q.head \in Slot \cup {Null} /\ q.tail \in Slot \cup {Null}
           /\ Null \notin Slot
           /\ \A i \in Slot : /\ q.elements[i] \in Element
                              /\ q.elements[i].when \in Nat
                              /\ q.elements[i].prev \in Slot \cup {Null}
                              /\ q.elements[i].next \in Slot \cup {Null}
BY SlotsAssumption DEF Queue, Element, Slot, Null

(* Removing the head leaves nothing linked that was not, and not the head. *)
LEMMA RemovedGood ==
    ASSUME NEW q \in Queue, GoodList(q), q.head # Null
    PROVE  /\ HeadRemoved(q) \in Queue
           /\ GoodList(HeadRemoved(q))
           /\ Linked(HeadRemoved(q)) \subseteq Linked(q) \ {q.head}
           /\ \A i \in Linked(HeadRemoved(q)) :
                /\ HeadRemoved(q).elements[i].tid = q.elements[i].tid
                /\ HeadRemoved(q).elements[i].when = q.elements[i].when
<1> DEFINE el == q.elements
           r == HeadRemoved(q)
           second == el[q.head].next
           S == Linked(q) \ {q.head}
<1>1. q.head \in Linked(q) /\ q.head \in Slot /\ second \in Linked(q) \cup {Null}
  BY LinkedClosed DEF Queue
<1> DEFINE freed == [el EXCEPT ![q.head] = [@ EXCEPT !.valid = FALSE]]
           cut == [freed EXCEPT ![second] = [@ EXCEPT !.prev = Null]]
<1>a. freed \in [Slot -> Element]
  BY <1>1, QueueFields, ElementFields
<1>b. cut \in [Slot -> Element]
  BY <1>a, <1>1, QueueFields, ElementFields
<1>c. r = IF second = Null
          THEN [elements |-> freed, head |-> Null, tail |-> Null]
          ELSE [q EXCEPT !.elements = cut, !.head = second]
  BY DEF HeadRemoved
<1>2. r \in Queue
  <2>1. CASE second = Null
    BY <2>1, <1>a, <1>c DEF Queue
  <2>2. CASE second \in Slot
    <3>1. r = [q EXCEPT !.elements = cut, !.head = second]
      BY <2>2, <1>c, QueueFields
    <3>2. QED BY <2>2, <3>1, <1>b DEF Queue
  <2>3. QED BY <2>1, <2>2, <1>1, LinkedClosed
<1>d. r.elements = IF second = Null THEN freed ELSE cut
  BY <1>c DEF Queue
<1>3. \A i \in Slot : /\ r.elements[i].tid = el[i].tid
                      /\ r.elements[i].when = el[i].when
                      /\ r.elements[i].next = el[i].next
                      /\ i # q.head => r.elements[i].valid = el[i].valid
                      /\ i # second => r.elements[i].prev = el[i].prev
  <2>1. \A i \in Slot : /\ freed[i].tid = el[i].tid
                        /\ freed[i].when = el[i].when
                        /\ freed[i].next = el[i].next
                        /\ freed[i].prev = el[i].prev
                        /\ i # q.head => freed[i].valid = el[i].valid
    <3>1. ASSUME NEW i \in Slot, i # q.head PROVE freed[i] = el[i]
      BY <3>1, <1>1, QueueFields
    <3>2. freed[q.head] = [el[q.head] EXCEPT !.valid = FALSE]
      BY <1>1, QueueFields
    <3>3. LET h == freed[q.head]
              e == el[q.head]
          IN  h.tid = e.tid /\ h.when = e.when /\ h.next = e.next /\ h.prev = e.prev
      BY <1>1, <3>2, QueueFields DEF Element
    <3>4. QED BY <3>1, <3>3
  <2>2. \A i \in Slot : /\ cut[i].tid = freed[i].tid
                        /\ cut[i].when = freed[i].when
                        /\ cut[i].next = freed[i].next
                        /\ cut[i].valid = freed[i].valid
                        /\ i # second => cut[i].prev = freed[i].prev
    BY <1>a DEF Element
  <2>3. CASE second = Null
    BY <2>1, <2>3, <1>d
  <2>4. CASE second # Null
    <3>1. r.elements = cut
      BY <2>4, <1>d
    <3>2. QED BY <2>1, <2>2, <3>1
  <2>5. QED BY <2>3, <2>4
<1>4. r.head = second /\ (r.head = Null <=> r.tail = Null)
  BY <1>1, <1>c DEF Queue, GoodList
<1>5. \A x \in Linked(q) : el[x].next # q.head
  <2>1. \A x \in Linked(q) : x # Null
    BY LinkedClosed, SlotsAssumption DEF Slot, Null
  <2>2. QED BY <2>1, <1>1 DEF GoodList
<1>6. Linked(r) \subseteq S
  <2>1. S \in SUBSET Slot /\ (r.head # Null => r.head \in S)
    BY <1>1, <1>4, <1>5, LinkedClosed
  <2>2. \A x \in S : r.elements[x].next \in S \cup {Null}
    BY <1>3, <1>5, LinkedClosed
  <2>3. QED BY <1>2, <2>1, <2>2, LinkedLeast
<1>7. GoodList(r)
  <2>1. r.head # Null => r.elements[r.head].prev = Null
    <3>1. second # Null => second \in Slot /\ cut[second].prev = Null
      BY <1>1, <1>a, LinkedClosed DEF Element
    <3>2. QED BY <3>1, <1>4, <1>d
  <2>2. ASSUME NEW i \in Linked(r)
        PROVE  /\ r.elements[i].valid
               /\ r.elements[i].next # Null =>
                     /\ r.elements[r.elements[i].next].prev = i
                     /\ r.elements[i].when <= r.elements[r.elements[i].next].when
    <3>1. i \in Linked(q) /\ i # q.head /\ i \in Slot
      BY <1>6, LinkedClosed
    <3>2. r.elements[i].valid /\ r.elements[i].next = el[i].next
      BY <3>1, <1>3 DEF GoodList
    <3>3. ASSUME el[i].next # Null
          PROVE  el[i].next \in Slot /\ el[i].next # second
      BY <3>1, <3>3, <1>1, LinkedClosed DEF GoodList
    <3>4. QED BY <3>1, <3>2, <3>3, <1>3 DEF GoodList
  <2>3. \A i, j \in Linked(r) : r.elements[i].tid = r.elements[j].tid => i = j
    BY <1>3, <1>6, LinkedClosed DEF GoodList
  <2>4. QED BY <1>4, <2>1, <2>2, <2>3 DEF GoodList
<1>8. QED BY <1>2, <1>3, <1>6, <1>7, LinkedClosed

(* Time passing changes no link and no order.                              *)
LEMMA AgedGood ==
    ASSUME NEW q \in Queue, GoodList(q)
    PROVE  /\ Aged(q) \in Queue
           /\ GoodList(Aged(q))
           /\ Linked(Aged(q)) = Linked(q)
           /\ \A i \in Linked(q) :
                /\ Aged(q).elements[i].tid = q.elements[i].tid
                /\ Aged(q).elements[i].when =
                     IF q.elements[i].when = 0 THEN 0 ELSE q.elements[i].when - 1
<1> DEFINE el == q.elements
           r == Aged(q)
<1> DEFINE older(i) == IF el[i].when = 0 THEN 0 ELSE el[i].when - 1
           f == [i \in Slot |-> [el[i] EXCEPT !.when = older(i)]]
<1>a. f \in [Slot -> Element]
  <2>1. \A i \in Slot : older(i) \in Nat
    BY QueueFields
  <2>2. QED BY <2>1, QueueFields, ElementFields
<1>b. r = [q EXCEPT !.elements = f]
  BY DEF Aged
<1>1. r \in Queue
  BY <1>a, <1>b, QueueFields DEF Queue
<1>2. r.head = q.head /\ r.tail = q.tail
  BY DEF Aged, Queue
<1>3. \A i \in Slot : /\ r.elements[i].tid = el[i].tid
                      /\ r.elements[i].when = IF el[i].when = 0 THEN 0 ELSE el[i].when - 1
                      /\ r.elements[i].next = el[i].next
                      /\ r.elements[i].prev = el[i].prev
                      /\ r.elements[i].valid = el[i].valid
                      /\ el[i].when \in Nat
  <2>1. r.elements = f
    BY <1>b DEF Queue
  <2>2. QED BY <2>1, QueueFields DEF Element
<1>4. Linked(r) = Linked(q)
  <2>1. Linked(r) \subseteq Linked(q)
    <3>1. /\ Linked(q) \in SUBSET Slot
          /\ r.head # Null => r.head \in Linked(q)
          /\ \A i \in Linked(q) : r.elements[i].next \in Linked(q) \cup {Null}
      BY <1>2, <1>3, LinkedClosed
    <3>2. QED BY <3>1, <1>1, LinkedLeast
  <2>2. Linked(q) \subseteq Linked(r)
    <3>1. /\ Linked(r) \in SUBSET Slot
          /\ q.head # Null => q.head \in Linked(r)
          /\ \A i \in Linked(r) : el[i].next \in Linked(r) \cup {Null}
      BY <1>1, <1>2, <1>3, LinkedClosed
    <3>2. QED BY <3>1, LinkedLeast
  <2>3. QED BY <2>1, <2>2
<1>5. GoodList(r)
  <2>1. r.head # Null => r.elements[r.head].prev = Null
    <3>1. q.head # Null => q.head \in Slot /\ el[q.head].prev = Null
      BY LinkedClosed DEF GoodList
    <3>2. QED BY <3>1, <1>2, <1>3
  <2>2. ASSUME NEW i \in Linked(r)
        PROVE  /\ r.elements[i].valid
               /\ r.elements[i].next # Null =>
                     /\ r.elements[r.elements[i].next].prev = i
                     /\ r.elements[i].when <= r.elements[r.elements[i].next].when
    <3>1. i \in Linked(q) /\ i \in Slot /\ el[i].next \in Slot \cup {Null}
      BY <1>4, LinkedClosed
    <3>2. /\ el[i].valid
          /\ el[i].next # Null => /\ el[el[i].next].prev = i
                                  /\ el[i].when <= el[el[i].next].when
      BY <3>1 DEF GoodList
    <3>3. r.elements[i].valid /\ r.elements[i].next = el[i].next
      BY <3>1, <3>2, <1>3
    <3>4. CASE el[i].next = Null
      BY <3>3, <3>4
    <3>5. CASE el[i].next \in Slot
      <4> DEFINE n == el[i].next
      <4>1. r.elements[n].prev = el[n].prev
        BY <3>5, <1>3
      <4>2. r.elements[i].when <= r.elements[n].when
        <5>1. el[i].when \in Nat /\ el[n].when \in Nat
          BY <3>1, <3>5, <1>3
        <5>2. n # Null
          BY <3>5, SlotsAssumption DEF Slot, Null
        <5>3. el[i].when <= el[n].when
          BY <3>2, <5>2
        <5>4. /\ r.elements[i].when = IF el[i].when = 0 THEN 0 ELSE el[i].when - 1
              /\ r.elements[n].when = IF el[n].when = 0 THEN 0 ELSE el[n].when - 1
          BY <3>1, <3>5, <1>3
        <5>5. QED BY <5>1, <5>3, <5>4
      <4>3. QED BY <3>2, <3>3, <3>5, <4>1, <4>2
    <3>6. QED BY <3>1, <3>4, <3>5
  <2>3. \A i, j \in Linked(r) : r.elements[i].tid = r.elements[j].tid => i = j
    BY <1>3, <1>4, LinkedClosed DEF GoodList
  <2>4. QED BY <1>2, <2>1, <2>2, <2>3 DEF GoodList
<1>6. QED BY <1>1, <1>3, <1>4, <1>5, LinkedClosed

-----------------------------------------------------------------------------
(* Every set of natural numbers that is not empty has a least member.      *)
LEMMA LeastOf ==
    ASSUME NEW T, T \subseteq Nat, T # {}
    PROVE  \E x \in T : \A y \in T : x <= y
<1> DEFINE R == OpToRel(<, Nat)
<1>1. IsWellFoundedOn(R, Nat)
  BY NatLessThanWellFounded
<1>2. PICK x \in T : \A y \in T : ~ (<<y, x>> \in R)
  <2> HIDE DEF R
  <2>1. QED BY <1>1, WFMin
<1>3. \A y \in T : <<y, x>> \in R <=> y < x
  BY DEF OpToRel
<1> HIDE DEF R
<1>4. \A y \in T : ~ (y < x)
  BY <1>2, <1>3, Zenon
<1>5. x \in Nat /\ \A y \in T : y \in Nat
  OBVIOUS
<1>6. QED BY <1>4, <1>5

(* insert links at most the new element, keeps the list in order, and      *)
(* changes no thread and no time of the elements that were linked.         *)
LEMMA InsertedGood ==
    ASSUME NEW q \in Queue, GoodList(q), ~ QueueFull(q),
           NEW t \in Sleeper, NEW w \in Nat,
           \A i \in Linked(q) : q.elements[i].tid # t
    PROVE  /\ Inserted(q, t, w) \in Queue
           /\ GoodList(Inserted(q, t, w))
           /\ \E e \in Slot :
                /\ Linked(Inserted(q, t, w)) \subseteq Linked(q) \cup {e}
                /\ Inserted(q, t, w).elements[e].tid = t
                /\ Inserted(q, t, w).elements[e].when = w
                /\ \A i \in Linked(q) :
                     /\ Inserted(q, t, w).elements[i].tid = q.elements[i].tid
                     /\ Inserted(q, t, w).elements[i].when = q.elements[i].when
<1> DEFINE el == q.elements
           r == Inserted(q, t, w)
           e == CHOOSE i \in FreeSlots(q) : \A j \in FreeSlots(q) : i <= j
           cmp == DueAfter(q, w)
           b == el[cmp].prev
           filled(p, n) == [valid |-> TRUE, tid |-> t, when |-> w,
                            prev |-> p, next |-> n]
<1>1. e \in FreeSlots(q)
  <2>1. FreeSlots(q) \subseteq Nat /\ FreeSlots(q) # {}
    BY SlotsAssumption DEF FreeSlots, QueueFull, Slot
  <2>2. QED BY <2>1, LeastOf
<1>2. e \in Slot /\ ~ el[e].valid /\ e \notin Linked(q)
  BY <1>1 DEF FreeSlots, GoodList
<1>3. \A p, n \in Slot \cup {Null} : filled(p, n) \in Element
  BY DEF Element
<1> HIDE DEF e
<1>4. CASE q.head = Null
  <2> DEFINE f == [el EXCEPT ![e] = filled(Null, Null)]
  <2>1. r = [elements |-> f, head |-> e, tail |-> e]
    BY <1>4 DEF Inserted, e
  <2>2. f \in [Slot -> Element] /\ f[e] = filled(Null, Null)
    BY <1>2, <1>3, QueueFields
  <2> HIDE DEF f
  <2>3. r \in Queue /\ r.elements = f /\ r.head = e /\ r.tail = e
    BY <2>1, <2>2, <1>2 DEF Queue
  <2>4. r.elements[e].next = Null /\ r.elements[e].prev = Null /\ r.elements[e].valid
        /\ r.elements[e].tid = t /\ r.elements[e].when = w
    BY <2>2, <2>3
  <2>5. Linked(r) \subseteq {e}
    <3>1. /\ {e} \in SUBSET Slot
          /\ r.head # Null => r.head \in {e}
          /\ \A x \in {e} : r.elements[x].next \in {e} \cup {Null}
      BY <1>2, <2>3, <2>4
    <3>2. QED BY <3>1, <2>3, LinkedLeast
  <2>6. Linked(q) = {}
    BY <1>4 DEF Linked
  <2>7. GoodList(r)
    BY <2>3, <2>4, <2>5, <1>2, SlotsAssumption DEF GoodList, Slot, Null
  <2>8. QED BY <2>3, <2>4, <2>5, <2>6, <2>7, <1>2
<1>5. CASE q.head # Null /\ cmp = Null
  <2> DEFINE f == [el EXCEPT ![e] = filled(q.tail, Null)]
  <2>1. r = [q EXCEPT !.elements[e] = filled(q.tail, Null), !.tail = e]
    BY <1>5 DEF Inserted, e
  <2>2. f \in [Slot -> Element] /\ f[e] = filled(q.tail, Null)
        /\ \A i \in Slot : i # e => f[i] = el[i]
    BY <1>2, <1>3, QueueFields
  <2>3. r \in Queue /\ r.elements = f /\ r.head = q.head /\ r.tail = e
    <3>1. r = [q EXCEPT !.elements = f, !.tail = e]
      BY <2>1 DEF Queue
    <3> HIDE DEF f
    <3>2. QED BY <3>1, <2>2, <1>2 DEF Queue
  <2> HIDE DEF f
  <2>4. \A i \in Linked(q) : i \in Slot /\ r.elements[i] = el[i]
    BY <2>2, <2>3, <1>2, LinkedClosed
  <2>5. Linked(r) \subseteq Linked(q)
    <3>1. /\ Linked(q) \in SUBSET Slot
          /\ r.head # Null => r.head \in Linked(q)
          /\ \A x \in Linked(q) : r.elements[x].next \in Linked(q) \cup {Null}
      BY <2>3, <2>4, LinkedClosed
    <3>2. QED BY <3>1, <2>3, LinkedLeast
  <2>6. r.tail # Null
    BY <2>3, <1>2, SlotsAssumption DEF Slot, Null
  <2>7. GoodList(r)
    <3>1. r.elements[r.head].prev = Null
      BY <1>5, <2>3, <2>4, LinkedClosed DEF GoodList
    <3>2. ASSUME NEW i \in Linked(r)
          PROVE  /\ r.elements[i].valid
                 /\ r.elements[i].next # Null =>
                       /\ r.elements[r.elements[i].next].prev = i
                       /\ r.elements[i].when <= r.elements[r.elements[i].next].when
      <4>1. i \in Linked(q) /\ el[i].next \in Linked(q) \cup {Null}
        BY <2>5, LinkedClosed
      <4>2. r.elements[i] = el[i]
        BY <2>4, <4>1
      <4>3. el[i].next # Null => r.elements[el[i].next] = el[el[i].next]
        BY <2>4, <4>1
      <4>4. QED BY <4>1, <4>2, <4>3 DEF GoodList
    <3>3. \A i, j \in Linked(r) : r.elements[i].tid = r.elements[j].tid => i = j
      BY <2>4, <2>5 DEF GoodList
    <3>4. QED BY <1>5, <2>3, <2>6, <3>1, <3>2, <3>3 DEF GoodList
  <2>8. QED BY <2>2, <2>3, <2>4, <2>5, <2>7, <1>2
<1>6. CASE q.head # Null /\ cmp # Null
  <2> DEFINE placed == [el EXCEPT ![e] = filled(b, cmp), ![cmp].prev = e]
             f == IF b = Null THEN placed ELSE [placed EXCEPT ![b].next = e]
  <2>1. /\ cmp \in LaterThan(q, w)
        /\ \A x \in LaterThan(q, w) : el[x].next # cmp
    <3>1. LaterThan(q, w) # {}
      BY <1>6 DEF DueAfter
    <3>2. QED BY <3>1, FirstLater
  <2>2. /\ cmp \in Linked(q) /\ cmp \in Slot /\ cmp # e /\ w < el[cmp].when
        /\ b \in Slot \cup {Null}
    BY <2>1, <1>2, LinkedClosed, QueueFields DEF LaterThan
  <2>3. r = IF b = Null THEN [q EXCEPT !.elements = f, !.head = e]
            ELSE [q EXCEPT !.elements = f]
    <3>1. CASE b = Null
      <4>1. r = [q EXCEPT !.elements = placed, !.head = e]
        BY <1>6, <3>1 DEF Inserted, e
      <4>2. QED BY <3>1, <4>1
    <3>2. CASE b # Null
      <4>1. r = [q EXCEPT !.elements = [placed EXCEPT ![b].next = e]]
        BY <1>6, <3>2 DEF Inserted, e
      <4>2. QED BY <3>2, <4>1
    <3>3. QED BY <3>1, <3>2
  <2> HIDE DEF cmp
  <2>4. placed \in [Slot -> Element]
    <3>1. [el EXCEPT ![e] = filled(b, cmp)] \in [Slot -> Element]
      BY <2>2, <1>2, <1>3, QueueFields
    <3>2. QED BY <3>1, <2>2, <1>2, QueueFields, ElementFields
  <2>5. f \in [Slot -> Element]
    BY <2>4, <2>2, <1>2, QueueFields, ElementFields
  <2>6. r \in Queue /\ r.elements = f /\ r.head = (IF b = Null THEN e ELSE q.head)
        /\ r.tail = q.tail
    <3> HIDE DEF f
    <3>1. CASE b = Null
      <4>1. r = [q EXCEPT !.elements = f, !.head = e]
        BY <2>3, <3>1
      <4>2. QED BY <4>1, <3>1, <2>5, <1>2 DEF Queue
    <3>2. CASE b # Null
      <4>1. r = [q EXCEPT !.elements = f]
        BY <2>3, <3>2
      <4>2. QED BY <4>1, <3>2, <2>5 DEF Queue
    <3>3. QED BY <3>1, <3>2
  (* Who comes before cmp on the list is exactly its prev.                 *)
  <2>7. /\ b = Null <=> cmp = q.head
        /\ b # Null => b \in Linked(q) /\ el[b].next = cmp /\ el[b].when <= w
        /\ b # e
        /\ \A x \in Linked(q) : el[x].next = cmp => x = b
    <3>1. cmp # q.head => b \in Linked(q) /\ el[b].next = cmp
      BY <2>2, PrevIsLinked
    <3>2. cmp = q.head => b = Null
      BY <1>6 DEF GoodList
    <3>3. b \in Linked(q) => b # Null /\ b # e
      BY <1>2, LinkedClosed, QueueFields
    <3>4. b # Null => el[b].when <= w
      <4>1. SUFFICES ASSUME b # Null PROVE el[b].when <= w
        OBVIOUS
      <4>2. b \in Linked(q) /\ el[b].next = cmp
        BY <3>1, <3>2, <4>1
      <4>3. b \notin LaterThan(q, w)
        BY <2>1, <4>2
      <4>4. QED BY <4>2, <4>3, LinkedClosed, QueueFields DEF LaterThan
    <3>5. \A x \in Linked(q) : el[x].next = cmp => x = b
      BY <2>2, QueueFields DEF GoodList
    <3>6. b # e
      BY <3>1, <3>2, <3>3, <1>2, QueueFields
    <3>7. QED BY <3>1, <3>2, <3>3, <3>4, <3>5, <3>6
  <2> HIDE DEF b
  <2>8. /\ f[e].tid = t /\ f[e].when = w /\ f[e].valid
        /\ f[e].prev = b /\ f[e].next = cmp
    <3>1. placed[e] = filled(b, cmp)
      BY <2>2, <1>2, QueueFields
    <3>2. f[e] = placed[e]
      BY <2>7, <2>4, <1>2, <2>2
    <3>3. QED BY <3>1, <3>2
  <2>9. ASSUME NEW i \in Slot, i # e
        PROVE  /\ f[i].tid = el[i].tid /\ f[i].when = el[i].when
               /\ f[i].valid = el[i].valid
               /\ f[i].prev = IF i = cmp THEN e ELSE el[i].prev
               /\ f[i].next = IF i = b THEN e ELSE el[i].next
    <3>1. /\ placed[i].tid = el[i].tid /\ placed[i].when = el[i].when
          /\ placed[i].valid = el[i].valid /\ placed[i].next = el[i].next
          /\ placed[i].prev = IF i = cmp THEN e ELSE el[i].prev
      <4>1. placed[i] = IF i = cmp THEN [el[i] EXCEPT !.prev = e] ELSE el[i]
        BY <2>9, <2>2, <1>2, QueueFields
      <4>2. el[i] \in Element
        BY <2>9, QueueFields
      <4> HIDE DEF placed, el
      <4>3. QED BY <4>1, <4>2 DEF Element
    <3>2. f[i] = IF i = b THEN [placed[i] EXCEPT !.next = e] ELSE placed[i]
      BY <2>4, <2>2, QueueFields
    <3>3. placed[i] \in Element
      BY <2>4
    <3> HIDE DEF placed, f
    <3>4. QED BY <3>1, <3>2, <3>3 DEF Element
  <2> HIDE DEF f
  <2>10. \A i \in Linked(q) : i \in Slot /\ i # e
    BY <1>2, LinkedClosed
  <2>11. Linked(r) \subseteq Linked(q) \cup {e}
    <3> DEFINE S == Linked(q) \cup {e}
    <3>1. S \in SUBSET Slot /\ (r.head # Null => r.head \in S)
      BY <2>6, <2>10, <1>2, LinkedClosed
    <3>2. \A x \in S : r.elements[x].next \in S \cup {Null}
      BY <2>2, <2>6, <2>8, <2>9, <2>10, LinkedClosed
    <3>3. QED BY <3>1, <3>2, <2>6, LinkedLeast
  <2>12. GoodList(r)
    <3>1. r.head = Null <=> r.tail = Null
      BY <1>6, <2>6, <1>2, QueueFields DEF GoodList
    <3>2. r.elements[r.head].prev = Null
      <4>1. CASE b = Null
        BY <4>1, <2>6, <2>8
      <4>2. CASE b # Null
        BY <4>2, <1>6, <2>6, <2>7, <2>9, <2>10, LinkedClosed DEF GoodList
      <4>3. QED BY <4>1, <4>2
    <3>3. ASSUME NEW i \in Linked(r)
          PROVE  /\ f[i].valid
                 /\ f[i].next # Null => /\ f[f[i].next].prev = i
                                        /\ f[i].when <= f[f[i].next].when
      <4>1. CASE i = e
        <5>1. f[i].next = cmp /\ f[cmp].prev = e /\ f[cmp].when = el[cmp].when
          BY <4>1, <2>2, <2>8, <2>9
        <5>2. w <= el[cmp].when
          BY <2>2, QueueFields
        <5>3. QED BY <4>1, <5>1, <5>2, <2>8
      <4>2. CASE i # e /\ i = b
        <5>1. f[i].next = e /\ f[i].when = el[i].when /\ f[i].valid
          BY <4>2, <2>7, <2>9, <2>10, QueueFields, <2>11 DEF GoodList
        <5>2. el[b].when <= w
          BY <4>2, <2>7, <2>10, <2>11, QueueFields
        <5>3. QED BY <4>2, <5>1, <5>2, <2>8
      <4>3. CASE i # e /\ i # b
        <5>1. i \in Linked(q) /\ i \in Slot
          BY <4>3, <2>10, <2>11
        <5>2. f[i].valid /\ f[i].next = el[i].next /\ f[i].when = el[i].when
          BY <4>3, <5>1, <2>9 DEF GoodList
        <5>3. ASSUME el[i].next # Null
              PROVE  f[el[i].next].prev = i /\ f[i].when <= f[el[i].next].when
          <6> DEFINE n == el[i].next
          <6>1. n \in Linked(q) /\ n \in Slot /\ n # e /\ n # cmp
            BY <5>1, <5>3, <4>3, <2>7, <2>10, LinkedClosed
          <6>2. f[n].prev = el[n].prev /\ f[n].when = el[n].when
            BY <6>1, <2>9
          <6>3. el[n].prev = i /\ el[i].when <= el[n].when
            BY <5>1, <5>3 DEF GoodList
          <6>4. QED BY <6>2, <6>3, <5>2
        <5>4. QED BY <5>2, <5>3
      <4>4. QED BY <4>1, <4>2, <4>3
    <3>4. ASSUME NEW i \in Linked(r), NEW j \in Linked(r), f[i].tid = f[j].tid
          PROVE  i = j
      <4>1. i \in Linked(q) /\ j \in Linked(q) => i = j
        BY <3>4, <2>9, <2>10 DEF GoodList
      <4>2. i = e \/ j = e => i = j
        BY <3>4, <2>8, <2>9, <2>10, <2>11
      <4>3. QED BY <4>1, <4>2, <2>11
    <3>5. QED BY <3>1, <3>2, <3>3, <3>4, <2>6 DEF GoodList
  <2>13. QED BY <2>6, <2>8, <2>9, <2>10, <2>11, <2>12, <1>2
<1>7. QED BY <1>4, <1>5, <1>6
=============================================================================
