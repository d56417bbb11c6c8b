------------------------------ MODULE Sleepers ------------------------------
(***************************************************************************)
(* kernel/threading.zig's TimeQueue with clients of its own: threads that  *)
(* go to sleep for some time, and a scheduler that asks the queue who is   *)
(* due each time it looks for the next thread.                             *)
(***************************************************************************)
EXTENDS TimeQueue, FiniteSets

CONSTANTS
    Naps,        \* the lengths of sleep a thread may ask for
    MaxAsleep    \* bound: how many threads sleep at once

ASSUME NapsAssumption == Naps \subseteq Nat \ {0}
ASSUME MaxAsleepAssumption == MaxAsleep \in Nat

Awake == -1

VARIABLES
    timeQueue,       \* Manager.time_queue
    due          \* for every thread, the time left of its sleep, or Awake

sleepersVars == <<timeQueue, due>>

Asleep == {t \in Sleeper : due[t] # Awake}

SleepersInit ==
    /\ timeQueue = EmptyQueue
    /\ due = [t \in Sleeper |-> Awake]

(* sleep_milliseconds and sleep_seconds, up to their yield.  The queue is  *)
(* not full: the code panics there, and the clients stay below its size.   *)
Sleep(t, nap) ==
    /\ due[t] = Awake
    /\ Cardinality(Asleep) < MaxAsleep
    /\ ~ QueueFull(timeQueue)
    /\ timeQueue' = Inserted(timeQueue, t, nap)
    /\ due' = [due EXCEPT ![t] = nap]

(* Manager.next finds the head of the queue due and wakes its thread.      *)
Check ==
    /\ HeadDue(timeQueue)
    /\ timeQueue' = HeadRemoved(timeQueue)
    /\ due' = [due EXCEPT ![DueTid(timeQueue)] = Awake]

Advance ==
    /\ TimeMatters(timeQueue)
    /\ timeQueue' = Aged(timeQueue)
    /\ due' = [t \in Sleeper |-> IF due[t] > 0 THEN due[t] - 1 ELSE due[t]]

SleepersNext ==
    \/ \E t \in Sleeper, nap \in Naps : Sleep(t, nap)
    \/ Check
    \/ Advance

SleepersSpec == SleepersInit /\ [][SleepersNext]_sleepersVars

-----------------------------------------------------------------------------
SleepersTypeOK ==
    /\ timeQueue \in Queue
    /\ due \in [Sleeper -> Nat \cup {Awake}]

(* The list a walk from the head meets is a list: prev undoes next, no     *)
(* element on it is free, it is in order of the due times, and it holds no *)
(* thread twice.  insert and check each relink up to three elements.       *)
ListInOrder ==
    LET el == timeQueue.elements
    IN  /\ timeQueue.head = Null <=> timeQueue.tail = Null
        /\ timeQueue.head # Null => el[timeQueue.head].prev = Null
        /\ \A i \in Linked(timeQueue) :
             /\ el[i].valid
             /\ el[i].next # Null =>
                   /\ el[el[i].next].prev = i
                   /\ el[i].when <= el[el[i].next].when
        /\ \A i, j \in Linked(timeQueue) : el[i].tid = el[j].tid => i = j

(* A linked element tells the truth: its thread is asleep, and the time    *)
(* the element carries is the time left of that sleep.  So whatever order  *)
(* the elements were inserted in, check wakes nobody early.                *)
LinkedIsTrue ==
    \A i \in Linked(timeQueue) : timeQueue.elements[i].when = due[timeQueue.elements[i].tid]

(* Nobody is woken early: check compares the clock with the head's time    *)
(* alone and wakes whoever the head names.                                 *)
NobodyWokenEarly ==
    [][\A t \in Sleeper : (due[t] # Awake /\ due'[t] = Awake) => due[t] = 0]_sleepersVars

(* insert's comment on its last case, "Tack on end": the element that      *)
(* became the tail is the end of the list, so a walk from the head ends    *)
(* in it.                                                                  *)
TackedOnEnd == timeQueue.tail # Null => timeQueue.tail \in Linked(timeQueue)

=============================================================================
