------------------------------ MODULE TimeQueue ------------------------------
(***************************************************************************)
(* The queue of sleeping threads of kernel/threading.zig (TimeQueue): an   *)
(* array of elements, each of them free (~valid) or linked into a list     *)
(* ordered by the time its thread is due.  The module holds the pure       *)
(* operators on one queue value; Sleepers gives it clients of its own and  *)
(* Threading embeds it in the scheduler.                                   *)
(*                                                                         *)
(* A pointer to an element is its index in the array.  `when` is the time  *)
(* left until the element is due (platform.time() is subtracted from both  *)
(* sides of every comparison the code makes), so that the clock needs no   *)
(* bound: Aged lets one unit of time pass.                                 *)
(***************************************************************************)
EXTENDS Integers

CONSTANT
    Slots,      \* elements.len: 8 in TimeQueue.init
    Sleeper     \* the thread ids that may be inserted

ASSUME SlotsAssumption == Slots \in Nat \ {0}

Null == -1      \* a null ?*Element (and, in Threading, a null ?*Thread)
Slot == 0 .. Slots - 1

Element == [valid : BOOLEAN, tid : Sleeper \cup {Null}, when : Nat,
            prev : Slot \cup {Null}, next : Slot \cup {Null}]

Queue == [elements : [Slot -> Element],
          head : Slot \cup {Null}, tail : Slot \cup {Null}]

EmptyQueue ==
    [elements |-> [i \in Slot |-> [valid |-> FALSE, tid |-> Null, when |-> 0,
                                   prev |-> Null, next |-> Null]],
     head |-> Null, tail |-> Null]

(* Definitions whose names end in Slip are plausible mistakes in the       *)
(* definition that follows each of them; no specification uses them.       *)

FreeSlotsSlip(q) ==     \* the bound of the search loop is one too large
    {i \in 0 .. Slots : i = Slots \/ ~ q.elements[i].valid}

FreeSlots(q) == {i \in Slot : ~ q.elements[i].valid}
QueueFull(q) == FreeSlots(q) = {}

(* The elements that a walk along `next` from element e meets: those in    *)
(* every set that holds e and, with an element, the one after it.          *)
WalkFrom(q, e) ==
    {i \in Slot : \A S \in SUBSET Slot :
        (e \in S /\ \A x \in S : q.elements[x].next \in S \cup {Null}) => i \in S}

Linked(q) == IF q.head = Null THEN {} ELSE WalkFrom(q, q.head)

(* The linked elements that are due after `when`.                          *)
LaterThan(q, when) == {i \in Linked(q) : when < q.elements[i].when}

DueAfterSlip(q, when) ==     \* the last element due later, not the first
    IF LaterThan(q, when) = {} THEN Null
    ELSE CHOOSE i \in LaterThan(q, when) : q.elements[i].next = Null

(* insert's search loop: the linked element due after `when` that the walk *)
(* meets first, so that none of the others leads to it.                    *)
DueAfter(q, when) ==
    IF LaterThan(q, when) = {} THEN Null
    ELSE CHOOSE i \in LaterThan(q, when) :
            \A x \in LaterThan(q, when) : q.elements[x].next # i

InsertedNoHeadSlip(q, tid, when) ==     \* the head of an empty queue is not set
    LET e == CHOOSE i \in FreeSlots(q) : \A j \in FreeSlots(q) : i <= j
    IN  [q EXCEPT !.elements[e] = [valid |-> TRUE, tid |-> tid, when |-> when,
                                   prev |-> q.tail, next |-> Null],
                  !.tail = e]

(* insert, where some slot is free (otherwise the code panics).            *)
Inserted(q, tid, when) ==
    LET e == CHOOSE i \in FreeSlots(q) : \A j \in FreeSlots(q) : i <= j
        cmp == DueAfter(q, when)
        filled(prev, next) == [valid |-> TRUE, tid |-> tid, when |-> when,
                               prev |-> prev, next |-> next]
    IN  IF q.head = Null THEN           \* Nothing in Queue
            [elements |-> [q.elements EXCEPT ![e] = filled(Null, Null)],
             head |-> e, tail |-> e]
        ELSE IF cmp = Null THEN         \* Tack on end
            [q EXCEPT !.elements[e] = filled(q.tail, Null), !.tail = e]
        ELSE                            \* Comes before something else
            LET before == q.elements[cmp].prev
                placed == [q.elements EXCEPT ![e] = filled(before, cmp),
                                             ![cmp].prev = e]
            IN  IF before = Null
                THEN [q EXCEPT !.elements = placed, !.head = e]
                ELSE [q EXCEPT !.elements = [placed EXCEPT ![before].next = e]]

(* check: whether the head is due, and the queue once it has been removed. *)
HeadDueSlip(q) == q.head # Null         \* the time is not compared

HeadDue(q) == q.head # Null /\ q.elements[q.head].when = 0
DueTid(q) == q.elements[q.head].tid

HeadRemoved(q) ==
    LET second == q.elements[q.head].next
        freed == [q.elements EXCEPT ![q.head].valid = FALSE]
    IN  IF second = Null
        THEN [elements |-> freed, head |-> Null, tail |-> Null]
        ELSE [q EXCEPT !.elements = [freed EXCEPT ![second].prev = Null],
                       !.head = second]

(* One unit of time passes.  An overdue element stays at 0: every new      *)
(* element is due strictly later, so comparisons with it do not change.    *)
Aged(q) ==
    [q EXCEPT !.elements =
        [i \in Slot |-> [q.elements[i] EXCEPT
                            !.when = IF @ = 0 THEN 0 ELSE @ - 1]]]

TimeMatters(q) == \E i \in Slot : q.elements[i].valid /\ q.elements[i].when > 0
=============================================================================
