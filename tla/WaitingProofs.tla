---------------------------- MODULE WaitingProofs ----------------------------
(***************************************************************************)
(* Proofs about threads that wait.                                         *)
(*                                                                         *)
(* Sleepers: the list of the time queue stays a list in order of the due   *)
(* times, whatever threads sleep for whatever times, and nobody is woken   *)
(* early, for every number of slots, threads and naps.                     *)
(*                                                                         *)
(* Sync: the semaphore's lock excludes, and wait and signal neither lose   *)
(* nor misdirect a wakeup, for any number of threads, any programs and any *)
(* interleaving the timer makes.                                           *)
(***************************************************************************)
EXTENDS Sleepers, Sync, TimeQueueProofs, FiniteSetTheorems

(* The elements a walk meets tell the truth about the sleepers.            *)
Truthful(q, d) ==
    \A i \in Linked(q) :
        q.elements[i].tid \in Sleeper /\ q.elements[i].when = d[q.elements[i].tid]

SleepersInv == SleepersTypeOK /\ GoodList(timeQueue) /\ Truthful(timeQueue, due)

-----------------------------------------------------------------------------
(* The invariant and its steps.                                            *)
LEMMA InitSleepersInv == SleepersInit => SleepersInv
<1> SUFFICES ASSUME SleepersInit PROVE SleepersInv
  OBVIOUS
<1>1. EmptyQueue.head = Null /\ EmptyQueue.tail = Null /\ Linked(EmptyQueue) = {}
  BY DEF EmptyQueue, Linked
<1>2. EmptyQueue \in Queue
  BY DEF EmptyQueue, Queue, Element
<1>3. SleepersTypeOK
  BY <1>2 DEF SleepersInit, SleepersTypeOK, Awake
<1>4. GoodList(timeQueue) /\ Truthful(timeQueue, due)
  BY <1>1 DEF SleepersInit, GoodList, Truthful
<1>5. QED BY <1>3, <1>4 DEF SleepersInv

(* A thread that goes to sleep is on no list yet, so the queue stays one   *)
(* element per thread.                                                     *)
LEMMA SleepStep ==
    ASSUME SleepersInv, NEW t \in Sleeper, NEW nap \in Naps, Sleep(t, nap)
    PROVE  SleepersInv'
<1> DEFINE r == Inserted(timeQueue, t, nap)
<1>1. /\ timeQueue \in Queue /\ due \in [Sleeper -> Nat \cup {Awake}]
      /\ GoodList(timeQueue) /\ Truthful(timeQueue, due)
      /\ ~ QueueFull(timeQueue) /\ due[t] = Awake /\ nap \in Nat
      /\ timeQueue' = r /\ due' = [due EXCEPT ![t] = nap]
  BY NapsAssumption DEF SleepersInv, SleepersTypeOK, Sleep
<1>2. \A i \in Linked(timeQueue) : timeQueue.elements[i].tid # t
  <2>1. \A i \in Linked(timeQueue) : timeQueue.elements[i].when \in Nat
    BY <1>1, LinkedClosed, QueueFields
  <2>2. Awake \notin Nat
    BY DEF Awake
  <2>3. QED BY <1>1, <2>1, <2>2 DEF Truthful
<1>3. /\ r \in Queue /\ GoodList(r)
      /\ \E e \in Slot :
           /\ Linked(r) \subseteq Linked(timeQueue) \cup {e}
           /\ r.elements[e].tid = t /\ r.elements[e].when = nap
           /\ \A i \in Linked(timeQueue) :
                /\ r.elements[i].tid = timeQueue.elements[i].tid
                /\ r.elements[i].when = timeQueue.elements[i].when
  BY <1>1, <1>2, InsertedGood
<1> HIDE DEF r
<1>4. Truthful(r, due')
  BY <1>1, <1>2, <1>3 DEF Truthful
<1>5. due' \in [Sleeper -> Nat \cup {Awake}]
  BY <1>1
<1>6. QED BY <1>1, <1>3, <1>4, <1>5 DEF SleepersInv, SleepersTypeOK, Truthful, GoodList

LEMMA CheckStep ==
    ASSUME SleepersInv, Check
    PROVE  SleepersInv'
<1> DEFINE r == HeadRemoved(timeQueue)
           h == timeQueue.head
<1>1. /\ timeQueue \in Queue /\ due \in [Sleeper -> Nat \cup {Awake}]
      /\ GoodList(timeQueue) /\ Truthful(timeQueue, due) /\ h # Null
      /\ timeQueue' = r /\ due' = [due EXCEPT ![timeQueue.elements[h].tid] = Awake]
  BY DEF SleepersInv, SleepersTypeOK, Check, HeadDue, DueTid
<1>2. /\ r \in Queue /\ GoodList(r)
      /\ Linked(r) \subseteq Linked(timeQueue) \ {h}
      /\ \A i \in Linked(r) : /\ r.elements[i].tid = timeQueue.elements[i].tid
                              /\ r.elements[i].when = timeQueue.elements[i].when
  BY <1>1, RemovedGood
<1>3. h \in Linked(timeQueue)
  BY <1>1, LinkedClosed
<1> HIDE DEF r
<1>4. ASSUME NEW i \in Linked(r)
      PROVE  /\ r.elements[i].tid \in Sleeper
             /\ r.elements[i].when = due'[r.elements[i].tid]
  <2>1. i \in Linked(timeQueue) /\ i # h
    BY <1>2
  <2>2. timeQueue.elements[i].tid # timeQueue.elements[h].tid
    BY <1>1, <1>3, <2>1 DEF GoodList
  <2>3. timeQueue.elements[i].tid \in Sleeper
        /\ timeQueue.elements[i].when = due[timeQueue.elements[i].tid]
    BY <1>1, <2>1 DEF Truthful
  <2>4. QED BY <1>1, <1>2, <2>2, <2>3
<1>5. due' \in [Sleeper -> Nat \cup {Awake}]
  BY <1>1
<1>6. QED BY <1>1, <1>2, <1>4, <1>5 DEF SleepersInv, SleepersTypeOK, Truthful, GoodList

LEMMA AdvanceStep ==
    ASSUME SleepersInv, Advance
    PROVE  SleepersInv'
<1> DEFINE r == Aged(timeQueue)
<1>1. /\ timeQueue \in Queue /\ due \in [Sleeper -> Nat \cup {Awake}]
      /\ GoodList(timeQueue) /\ Truthful(timeQueue, due)
      /\ timeQueue' = r
      /\ due' = [t \in Sleeper |-> IF due[t] > 0 THEN due[t] - 1 ELSE due[t]]
  BY DEF SleepersInv, SleepersTypeOK, Advance
<1>2. /\ r \in Queue /\ GoodList(r) /\ Linked(r) = Linked(timeQueue)
      /\ \A i \in Linked(timeQueue) :
           /\ r.elements[i].tid = timeQueue.elements[i].tid
           /\ r.elements[i].when = IF timeQueue.elements[i].when = 0 THEN 0
                                   ELSE timeQueue.elements[i].when - 1
  BY <1>1, AgedGood
<1> HIDE DEF r
<1>3. ASSUME NEW i \in Linked(r)
      PROVE  /\ r.elements[i].tid \in Sleeper
             /\ r.elements[i].when = due'[r.elements[i].tid]
  <2>1. /\ timeQueue.elements[i].tid \in Sleeper /\ timeQueue.elements[i].when \in Nat
        /\ timeQueue.elements[i].when = due[timeQueue.elements[i].tid]
    BY <1>1, <1>2, LinkedClosed, QueueFields DEF Truthful
  <2>2. QED BY <1>1, <1>2, <2>1
<1>4. due' \in [Sleeper -> Nat \cup {Awake}]
  <2>1. \A t \in Sleeper : (IF due[t] > 0 THEN due[t] - 1 ELSE due[t]) \in Nat \cup {Awake}
    BY <1>1 DEF Awake
  <2>2. QED BY <1>1, <2>1
<1>5. QED BY <1>1, <1>2, <1>3, <1>4 DEF SleepersInv, SleepersTypeOK, Truthful, GoodList

(* The inductive invariant: a good list whose elements tell the truth.     *)
(* Neither half is inductive alone: that insert adds no thread twice needs *)
(* the truth of the elements, and that check keeps them true needs that no *)
(* thread is listed twice.                                                 *)
THEOREM SleepersInvariance == SleepersSpec => []SleepersInv
<1>1. SleepersInv /\ [SleepersNext]_sleepersVars => SleepersInv'
  <2> SUFFICES ASSUME SleepersInv, [SleepersNext]_sleepersVars PROVE SleepersInv'
    OBVIOUS
  <2>1. ASSUME NEW t \in Sleeper, NEW nap \in Naps, Sleep(t, nap) PROVE SleepersInv'
    BY <2>1, SleepStep
  <2>2. CASE Check
    BY <2>2, CheckStep
  <2>3. CASE Advance
    BY <2>3, AdvanceStep
  <2>4. CASE UNCHANGED sleepersVars
    BY <2>4 DEF SleepersInv, SleepersTypeOK, GoodList, Truthful, Linked, WalkFrom, sleepersVars
  <2>5. QED BY <2>1, <2>2, <2>3, <2>4 DEF SleepersNext
<1>2. QED BY InitSleepersInv, <1>1, PTL DEF SleepersSpec

(* Types: among them, that the queue's pointers never leave its array.     *)
THEOREM SleepersTypeCorrect == SleepersSpec => []SleepersTypeOK
<1>1. SleepersInv => SleepersTypeOK
  BY DEF SleepersInv
<1>2. QED BY SleepersInvariance, <1>1, PTL

(* What insert and check relink is always one list in order of the due     *)
(* times, with each thread on it once.                                     *)
THEOREM AlwaysInOrder == SleepersSpec => []ListInOrder
<1>1. SleepersInv => ListInOrder
  BY DEF SleepersInv, GoodList, ListInOrder
<1>2. QED BY SleepersInvariance, <1>1, PTL

(* Each linked element carries the time left of its thread's sleep.        *)
THEOREM AlwaysTrue == SleepersSpec => []LinkedIsTrue
<1>1. SleepersInv => LinkedIsTrue
  BY DEF SleepersInv, Truthful, LinkedIsTrue
<1>2. QED BY SleepersInvariance, <1>1, PTL

(* No thread's sleep is cut short, however many threads sleep.             *)
THEOREM NoEarlyWake == SleepersSpec => NobodyWokenEarly
<1> DEFINE A == \A t \in Sleeper : (due[t] # Awake /\ due'[t] = Awake) => due[t] = 0
<1>1. SleepersInv /\ [SleepersNext]_sleepersVars => [A]_sleepersVars
  <2> SUFFICES ASSUME SleepersInv, SleepersNext PROVE A
    OBVIOUS
  <2>1. ASSUME NEW t \in Sleeper, NEW nap \in Naps, Sleep(t, nap) PROVE A
    BY <2>1, NapsAssumption DEF Sleep, SleepersInv, SleepersTypeOK, Awake
  <2>2. CASE Check
    <3>1. timeQueue.head \in Linked(timeQueue) /\ timeQueue.elements[timeQueue.head].when = 0
      BY <2>2, LinkedClosed DEF Check, HeadDue, SleepersInv, SleepersTypeOK
    <3>2. due[DueTid(timeQueue)] = 0 /\ DueTid(timeQueue) \in Sleeper
      BY <3>1 DEF SleepersInv, Truthful, DueTid
    <3>3. QED BY <2>2, <3>2 DEF Check, SleepersInv, SleepersTypeOK
  <2>3. CASE Advance
    BY <2>3 DEF Advance, SleepersInv, SleepersTypeOK, Awake
  <2>4. QED BY <2>1, <2>2, <2>3 DEF SleepersNext
<1>2. QED BY SleepersInvariance, <1>1, PTL DEF SleepersSpec, NobodyWokenEarly

-----------------------------------------------------------------------------
(* The semaphore.                                                          *)

InsideSteps == {"look", "push", "block", "leave", "unlock", "raise", "wake"}

(* Where a thread in state Wait can be, and that it is on the CPU only     *)
(* until it has called yield.                                              *)
WaitersPlace ==
    /\ \A t \in Thread : state[t] = "Wait" => step[t] \in {"leave", "yield", "yielded"}
    /\ \A t \in Thread : current = t /\ step[t] = "yielded" => state[t] = "Run"

(* Whoever is on the CPU or in the middle of a call has not ended.         *)
CallersAlive ==
    /\ current \in alive \cup {Idle}
    /\ \A t \in Thread : step[t] # "call" => t \in alive

IInv == TypeOK /\ OneInside /\ QueueHoldsWaiters /\ WaitersPlace /\ CallersAlive

LEMMA InitIInv == Init => IInv
<1> SUFFICES ASSUME Init PROVE IInv
    OBVIOUS
<1> USE SyncAssumption DEF Init
<1>1. TypeOK
    <2>1. DataOK
        BY DEF DataOK, Steps
    <2>2. interrupts \in BOOLEAN
        OBVIOUS
    <2> QED BY <2>1, <2>2 DEF TypeOK
<1>2. OneInside
    BY DEF OneInside, Inside
<1>3. QueueHoldsWaiters
    BY DEF QueueHoldsWaiters, InQueue
<1>4. WaitersPlace /\ CallersAlive
    BY DEF WaitersPlace, CallersAlive
<1> QED BY <1>1, <1>2, <1>3, <1>4 DEF IInv

(* The scheduler only gives the CPU to a thread that can run.              *)
LEMMA ReadyNext ==
    ASSUME NEW n \in NextThreads
    PROVE  n = Idle \/ (n \in alive /\ state[n] = "Run")
    BY DEF NextThreads, Ready

LEMMA DataStep ==
    ASSUME IInv, [Next]_vars
    PROVE  DataOK'
<1> USE SyncAssumption DEF TypeOK, DataOK, IInv, Steps
<1>1. CASE Tick
    BY <1>1, ReadyNext DEF Tick, sem
<1>2. ASSUME NEW t \in Thread, Step(t) PROVE DataOK'
    <2>1. CASE TryLock(t) \/ SpinLock(t) \/ Unlock(t)
        <3>1. AtCall(t, "lock") \/ AtCall(t, "spin_lock") \/ AtCall(t, "unlock")
            BY <2>1 DEF TryLock, SpinLock, Unlock
        <3>2. TheLock(t) \in Lock \cup {Inner}
            <4>1. at[t] + 1 \in 1 .. Len(Program[t])
                BY <3>1 DEF AtCall
            <4>2. Program[t][at[t] + 1] \in Call
                BY <4>1
            <4> QED BY <4>2 DEF Call, TheLock
        <3>3. \/ Returns(t) /\ UNCHANGED phase
              \/ phase' = "panic" /\ UNCHANGED <<at, step>>
            BY <2>1 DEF TryLock, SpinLock, Unlock
        <3>4. at' \in [Thread -> Nat] /\ step' \in [Thread -> Steps] /\ phase' \in {"run", "panic"}
            <4>1. CASE Returns(t) /\ UNCHANGED phase
                BY <4>1 DEF Returns
            <4>2. CASE phase' = "panic" /\ UNCHANGED <<at, step>>
                BY <4>2
            <4> QED BY <3>3, <4>1, <4>2
        <3>5. locked' \subseteq Lock \cup {Inner} /\ UNCHANGED <<sem, state, alive, cpu>>
            BY <2>1, <3>2 DEF TryLock, SpinLock, Unlock
        <3> QED BY <3>4, <3>5 DEF sem, cpu
    <2>2. CASE Spin(t)
        BY <2>2 DEF Spin, vars, sem, cpu
    <2>3. CASE WaitEnter(t) \/ SignalEnter(t)
        BY <2>3 DEF WaitEnter, SignalEnter, Acquire, GoesTo, sem, cpu
    <2>4. CASE Look(t)
        BY <2>4 DEF Look, GoesTo, cpu
    <2>5. CASE Push(t)
        BY <2>5 DEF Push, GoesTo, cpu
    <2>6. CASE Block(t)
        BY <2>6 DEF Block, GoesTo, sem, cpu
    <2>7. CASE Yield(t)
        BY <2>7, ReadyNext DEF Yield, GoesTo, sem
    <2>8. CASE Resume(t)
        BY <2>8 DEF Resume, Returns, sem, cpu
    <2>9. CASE Raise(t)
        <3>1. CASE value = MaxValue
            BY <2>9, <3>1 DEF Raise, cpu
        <3>2. CASE value # MaxValue
            <4>1. value + 1 \in 0 .. MaxValue
                BY <3>2
            <4>2. value' = value + 1 /\ step' = [step EXCEPT ![t] = "wake"] /\ UNCHANGED phase
                BY <2>9, <3>2 DEF Raise, GoesTo
            <4>3. UNCHANGED <<locked, queue, state, alive, cpu, at>>
                BY <2>9, <3>2 DEF Raise, GoesTo
            <4> QED BY <4>1, <4>2, <4>3 DEF cpu
        <3> QED BY <3>1, <3>2
    <2>10. CASE Wake(t)
        <3>1. CASE queue = <<>>
            BY <2>10, <3>1 DEF Wake, GoesTo, cpu
        <3>2. CASE queue # <<>>
            <4>1. Head(queue) \in Thread /\ Tail(queue) \in Seq(Thread)
                BY <3>2
            <4> QED BY <2>10, <3>2, <4>1 DEF Wake, GoesTo, cpu
        <3> QED BY <3>1, <3>2
    <2>11. CASE Release(t)
        <3>1. CASE Inner \notin locked
            BY <2>11, <3>1 DEF Release, sem, cpu
        <3>2. CASE Inner \in locked /\ step[t] = "leave"
            BY <2>11, <3>2 DEF Release, GoesTo, sem, cpu
        <3>3. CASE Inner \in locked /\ step[t] # "leave"
            <4>1. /\ locked' = locked \ {Inner} /\ step' = [step EXCEPT ![t] = "call"]
                  /\ at' = [at EXCEPT ![t] = @ + 1]
                BY <2>11, <3>3 DEF Release, Returns
            <4>2. UNCHANGED <<sem, state, alive, cpu, phase>>
                BY <2>11, <3>3 DEF Release
            <4> QED BY <4>1, <4>2 DEF sem, cpu
        <3> QED BY <3>1, <3>2, <3>3
    <2>12. CASE End(t)
        BY <2>12 DEF End, Ready, sem
    <2> QED BY <1>2, <2>1, <2>2, <2>3, <2>4, <2>5, <2>6, <2>7, <2>8, <2>9, <2>10, <2>11, <2>12 DEF Step
<1>3. CASE UNCHANGED vars
    BY <1>3 DEF vars, sem, cpu
<1> QED BY <1>1, <1>2, <1>3 DEF Next

LEMMA TypeStep ==
    ASSUME IInv, [Next]_vars
    PROVE  TypeOK'
<1>1. interrupts \in BOOLEAN /\ DataOK'
    BY DataStep DEF IInv, TypeOK
<1>2. CASE Tick
    BY <1>1, <1>2 DEF Tick, TypeOK
<1>3. ASSUME NEW t \in Thread, Step(t) PROVE TypeOK'
    BY <1>1, <1>3 DEF Step, TryLock, SpinLock, Unlock, Spin, WaitEnter, SignalEnter, Acquire,
       Look, Push, Block, Yield, Resume, Raise, Wake, Release, End, FlagOf, TypeOK, vars, cpu
<1>4. CASE UNCHANGED vars
    BY <1>1, <1>4 DEF vars, cpu, TypeOK
<1> QED BY <1>2, <1>3, <1>4 DEF Next

(* The steps that change who is in the semaphore's lock, and how.          *)
LEMMA InsideStep ==
    ASSUME IInv, [Next]_vars
    PROVE  OneInside'
<1> USE SyncAssumption DEF OneInside, Inside
<1>1. IInv /\ DataOK
    BY DEF IInv, TypeOK
<1> USE DEF DataOK, Steps
<1>2. CASE Tick \/ UNCHANGED vars
    BY <1>1, <1>2 DEF IInv, Tick, vars
<1>3. ASSUME NEW t \in Thread, Step(t) PROVE OneInside'
    <2>1. CASE TryLock(t) \/ SpinLock(t) \/ Unlock(t)
        <3>1. /\ step[t] = "call"
              /\ AtCall(t, "lock") \/ AtCall(t, "spin_lock") \/ AtCall(t, "unlock")
            BY <2>1 DEF TryLock, SpinLock, Unlock, AtCall
        <3>2. TheLock(t) # Inner
            <4>1. at[t] + 1 \in 1 .. Len(Program[t])
                BY <1>1, <3>1 DEF AtCall
            <4>2. Program[t][at[t] + 1] \in Call
                BY <4>1
            <4> QED BY <3>1, <4>2 DEF Call, TheLock, AtCall
        <3>3. UNCHANGED step
            <4>1. step' = [step EXCEPT ![t] = "call"] \/ UNCHANGED step
                BY <2>1 DEF TryLock, SpinLock, Unlock, Returns
            <4> QED BY <1>1, <3>1, <4>1
        <3>4. Inner \in locked' <=> Inner \in locked
            BY <2>1, <3>2 DEF TryLock, SpinLock, Unlock
        <3> QED BY <1>1, <3>3, <3>4 DEF IInv
    <2>2. CASE WaitEnter(t) \/ SignalEnter(t)
        <3>1. /\ Inner \notin locked /\ Inner \in locked'
              /\ \E s \in {"look", "raise"} : step' = [step EXCEPT ![t] = s]
            BY <2>2 DEF WaitEnter, SignalEnter, Acquire, GoesTo
        <3> QED BY <1>1, <3>1 DEF IInv
    <2>3. CASE Look(t) \/ Push(t) \/ Block(t) \/ Raise(t) \/ Wake(t)
        <3>1. /\ t \in Inside /\ UNCHANGED locked
              /\ \/ UNCHANGED step
                 \/ \E s \in InsideSteps : step' = [step EXCEPT ![t] = s]
            BY <2>3 DEF Look, Push, Block, Raise, Wake, GoesTo, InsideSteps
        <3>2. CASE UNCHANGED step
            BY <1>1, <3>1, <3>2 DEF IInv
        <3>3. ASSUME NEW s \in InsideSteps, step' = [step EXCEPT ![t] = s] PROVE OneInside'
            <4>1. Inside' = Inside
                BY <1>1, <3>1, <3>3 DEF InsideSteps
            <4> QED BY <1>1, <3>1, <4>1 DEF IInv
        <3> QED BY <3>1, <3>2, <3>3
    <2>4. CASE Release(t)
        <3>1. t \in Inside /\ Inner \in locked
            BY <1>1, <2>4 DEF IInv, Release
        <3>2. /\ locked' = locked \ {Inner}
              /\ \E s \in {"yield", "call"} : step' = [step EXCEPT ![t] = s]
            BY <2>4, <3>1 DEF Release, GoesTo, Returns
        <3> QED BY <1>1, <3>1, <3>2 DEF IInv
    <2>5. CASE Yield(t) \/ Resume(t)
        <3>1. /\ t \notin Inside /\ UNCHANGED locked
              /\ \E s \in {"yielded", "call"} : step' = [step EXCEPT ![t] = s]
            BY <2>5 DEF Yield, Resume, GoesTo, Returns
        <3> QED BY <1>1, <3>1 DEF IInv
    <2>6. CASE Spin(t) \/ End(t)
        BY <1>1, <2>6 DEF IInv, Spin, End, vars
    <2> QED BY <1>3, <2>1, <2>2, <2>3, <2>4, <2>5, <2>6 DEF Step
<1> QED BY <1>2, <1>3 DEF Next

(* Where waiting threads are: a thread becomes Wait in Block and leaves    *)
(* that state in Wake only, and yield gives the CPU to nobody that waits.  *)
LEMMA PlaceStep ==
    ASSUME IInv, [Next]_vars
    PROVE  WaitersPlace'
<1> USE SyncAssumption DEF WaitersPlace
<1>1. IInv /\ DataOK
    BY DEF IInv, TypeOK
<1> USE DEF DataOK, Steps
<1>2. CASE Tick
    <2>1. current' = Idle \/ state[current'] = "Run"
        BY <1>2, ReadyNext DEF Tick
    <2>2. UNCHANGED <<state, step>>
        BY <1>2 DEF Tick
    <2> QED BY <1>1, <2>1, <2>2 DEF IInv
<1>3. CASE UNCHANGED vars
    BY <1>1, <1>3 DEF IInv, vars, cpu
<1>4. ASSUME NEW t \in Thread, Step(t) PROVE WaitersPlace'
    <2>1. CASE step[t] \in {"call", "look", "push", "raise", "unlock"}
               /\ UNCHANGED <<state, current>> /\ current = t
               /\ (UNCHANGED step \/ \E s \in Steps \ {"yielded"} : step' = [step EXCEPT ![t] = s])
        <3>1. state[t] = "Run"
            BY <1>1, <2>1 DEF IInv
        <3> QED BY <1>1, <2>1, <3>1 DEF IInv
    <2>2. CASE TryLock(t) \/ SpinLock(t) \/ Unlock(t) \/ Spin(t)
        BY <2>1, <2>2 DEF TryLock, SpinLock, Unlock, Spin, AtCall, Runs, Returns, vars, cpu
    <2>3. CASE WaitEnter(t) \/ SignalEnter(t)
        BY <2>1, <2>3 DEF WaitEnter, SignalEnter, Acquire, AtCall, Runs, GoesTo, cpu
    <2>4. CASE Look(t) \/ Push(t) \/ Raise(t)
        BY <2>1, <2>4 DEF Look, Push, Raise, Runs, GoesTo, cpu
    <2>5. CASE Block(t)
        BY <1>1, <2>5 DEF IInv, Block, Runs, GoesTo, cpu
    <2>6. CASE Release(t)
        <3>1. CASE step[t] = "leave"
            <4>1. /\ UNCHANGED <<state, current>>
                  /\ UNCHANGED step \/ step' = [step EXCEPT ![t] = "yield"]
                BY <2>6, <3>1 DEF Release, GoesTo, cpu
            <4> QED BY <1>1, <3>1, <4>1 DEF IInv
        <3>2. CASE step[t] = "unlock"
            BY <2>1, <2>6, <3>2 DEF Release, Runs, Returns, cpu
        <3> QED BY <2>6, <3>1, <3>2 DEF Release
    <2>7. CASE Yield(t)
        <3>1. current' = Idle \/ state[current'] = "Run"
            BY <2>7, ReadyNext DEF Yield
        <3>2. UNCHANGED state /\ step' = [step EXCEPT ![t] = "yielded"]
            BY <2>7 DEF Yield, GoesTo
        <3> QED BY <1>1, <3>1, <3>2 DEF IInv
    <2>8. CASE Resume(t)
        <3>1. state[t] = "Run"
            BY <1>1, <2>8 DEF IInv, Resume, Runs
        <3>2. UNCHANGED <<state, current>> /\ step' = [step EXCEPT ![t] = "call"]
            BY <2>8 DEF Resume, Returns, cpu
        <3> QED BY <1>1, <3>1, <3>2 DEF IInv
    <2>9. CASE Wake(t)
        <3>1. \A u \in Thread : state'[u] = "Wait" => state[u] = "Wait"
            BY <1>1, <2>9 DEF Wake
        <3>2. \A u \in Thread : state[u] = "Run" => state'[u] = "Run"
            BY <1>1, <2>9 DEF Wake
        <3>3. /\ UNCHANGED current /\ step[t] = "wake"
              /\ UNCHANGED step \/ step' = [step EXCEPT ![t] = "unlock"]
            BY <2>9 DEF Wake, GoesTo, cpu
        <3> QED BY <1>1, <3>1, <3>2, <3>3 DEF IInv
    <2>10. CASE End(t)
        <3>1. current' = Idle \/ state[current'] = "Run"
            BY <2>10 DEF End, Ready
        <3>2. UNCHANGED <<state, step>>
            BY <2>10 DEF End
        <3> QED BY <1>1, <3>1, <3>2 DEF IInv
    <2> QED BY <1>4, <2>2, <2>3, <2>4, <2>5, <2>6, <2>7, <2>8, <2>9, <2>10 DEF Step
<1> QED BY <1>2, <1>3, <1>4 DEF Next

LEMMA AliveStep ==
    ASSUME IInv, [Next]_vars
    PROVE  CallersAlive'
<1> USE SyncAssumption DEF CallersAlive
<1>1. IInv /\ DataOK
    BY DEF IInv, TypeOK
<1> USE DEF DataOK
<1>2. CASE Tick
    BY <1>1, <1>2, ReadyNext DEF IInv, Tick
<1>3. CASE UNCHANGED vars
    BY <1>1, <1>3 DEF IInv, vars, cpu
<1>4. ASSUME NEW t \in Thread, Step(t) PROVE CallersAlive'
    <2>1. t \in alive
        BY <1>1, <1>4 DEF IInv, Step, TryLock, SpinLock, Unlock, Spin, WaitEnter, SignalEnter,
           Look, Push, Block, Yield, Resume, Raise, Wake, Release, End, AtCall, Runs
    <2>2. CASE End(t)
        BY <1>1, <2>2 DEF IInv, End, Ready
    <2>3. CASE Yield(t)
        BY <1>1, <2>1, <2>3, ReadyNext DEF IInv, Yield, GoesTo
    <2>4. CASE /\ UNCHANGED <<alive, current>>
               /\ UNCHANGED step \/ \E s \in Steps : step' = [step EXCEPT ![t] = s]
        BY <1>1, <2>1, <2>4 DEF IInv
    <2>5. CASE TryLock(t) \/ SpinLock(t) \/ Unlock(t) \/ Spin(t)
        BY <2>4, <2>5 DEF TryLock, SpinLock, Unlock, Spin, Returns, Steps, vars, cpu
    <2>6. CASE WaitEnter(t) \/ SignalEnter(t) \/ Look(t) \/ Push(t) \/ Block(t)
        BY <2>4, <2>6 DEF WaitEnter, SignalEnter, Acquire, Look, Push, Block, GoesTo, Steps, cpu
    <2>7. CASE Resume(t) \/ Raise(t) \/ Release(t)
        BY <2>4, <2>7 DEF Resume, Raise, Release, Returns, GoesTo, Steps, cpu
    <2>8. CASE Wake(t)
        BY <2>4, <2>8 DEF Wake, GoesTo, Steps, cpu
    <2> QED BY <1>4, <2>2, <2>3, <2>5, <2>6, <2>7, <2>8 DEF Step
<1> QED BY <1>2, <1>3, <1>4 DEF Next

(* Only Push and Wake touch the queue, and each keeps it in line with the  *)
(* state of the thread it is about.                                        *)
LEMMA QueueStep ==
    ASSUME IInv, [Next]_vars
    PROVE  QueueHoldsWaiters'
<1> USE SyncAssumption DEF QueueHoldsWaiters, InQueue
<1>1. IInv /\ DataOK
    BY DEF IInv, TypeOK
<1> USE DEF DataOK, Steps
<1>2. CASE Tick \/ UNCHANGED vars
    BY <1>1, <1>2 DEF IInv, Tick, vars, sem
<1>3. ASSUME NEW t \in Thread, Step(t) PROVE QueueHoldsWaiters'
    <2>1. CASE /\ UNCHANGED <<queue, state>> /\ step[t] # "block"
               /\ UNCHANGED step \/ \E s \in Steps \ {"block"} : step' = [step EXCEPT ![t] = s]
        BY <1>1, <2>1 DEF IInv
    <2>2. CASE TryLock(t) \/ SpinLock(t) \/ Unlock(t) \/ Spin(t)
        BY <2>1, <2>2 DEF TryLock, SpinLock, Unlock, Spin, AtCall, Returns, vars, sem
    <2>3. CASE WaitEnter(t) \/ SignalEnter(t) \/ Look(t)
        BY <2>1, <2>3 DEF WaitEnter, SignalEnter, Acquire, AtCall, Look, GoesTo, sem
    <2>4. CASE Raise(t) \/ Release(t)
        BY <2>1, <2>4 DEF Raise, Release, Returns, GoesTo, sem
    <2>5. CASE Yield(t) \/ Resume(t)
        BY <2>1, <2>5 DEF Yield, Resume, Returns, GoesTo, sem
    <2>6. CASE End(t)
        BY <1>1, <2>6 DEF IInv, End, sem
    <2>7. CASE Push(t)
        <3>1. ~ InQueue(t) /\ state[t] = "Run"
            BY <1>1, <2>7 DEF IInv, Push, WaitersPlace
        <3>2. queue' = Append(queue, t) /\ step' = [step EXCEPT ![t] = "block"] /\ UNCHANGED state
            BY <2>7 DEF Push, GoesTo
        <3>3. /\ Len(queue') = Len(queue) + 1 /\ Len(queue) \in Nat
              /\ queue'[Len(queue) + 1] = t
              /\ \A i \in 1 .. Len(queue) : queue'[i] = queue[i]
            BY <1>1, <3>2
        <3>6. \A i \in 1 .. Len(queue') : i \in 1 .. Len(queue) \/ i = Len(queue) + 1
            BY <3>3
        <3>7. \A i \in 1 .. Len(queue) : i \in 1 .. Len(queue') /\ i # Len(queue) + 1
            BY <3>3
        <3>4. ASSUME NEW u \in Thread PROVE InQueue(u)' <=> InQueue(u) \/ u = t
            <4>1. ASSUME InQueue(u)' PROVE InQueue(u) \/ u = t
                BY <3>3, <3>6, <4>1
            <4>2. ASSUME InQueue(u) PROVE InQueue(u)'
                BY <3>3, <3>7, <4>2
            <4>3. InQueue(t)'
                <5>1. Len(queue) + 1 \in 1 .. Len(queue')
                    BY <3>3
                <5> QED BY <3>3, <5>1
            <4> QED BY <4>1, <4>2, <4>3
        <3>5. \A i, j \in 1 .. Len(queue') : queue'[i] = queue'[j] => i = j
            <4>1. \A i \in 1 .. Len(queue) : queue[i] # t
                BY <3>1
            <4>2. \A i, j \in 1 .. Len(queue) : queue[i] = queue[j] => i = j
                BY <1>1 DEF IInv
            <4> QED BY <3>3, <3>6, <4>1, <4>2
        <3> QED BY <1>1, <3>2, <3>4, <3>5 DEF IInv
    <2>8. CASE Block(t)
        <3>1. /\ UNCHANGED queue /\ step[t] = "block"
              /\ state' = [state EXCEPT ![t] = "Wait"] /\ step' = [step EXCEPT ![t] = "leave"]
            BY <2>8 DEF Block, GoesTo, sem
        <3> QED BY <1>1, <3>1 DEF IInv
    <2>9. CASE Wake(t)
        <3>1. step[t] = "wake" /\ \A u \in Thread : step[u] # "block"
            BY <1>1, <2>9 DEF IInv, Wake, OneInside, Inside
        <3>2. \A u \in Thread : step'[u] # "block"
            BY <1>1, <2>9, <3>1 DEF Wake, GoesTo
        <3>3. CASE queue = <<>>
            BY <1>1, <2>9, <3>1, <3>2, <3>3 DEF IInv, Wake
        <3>4. CASE queue # <<>>
            <4> DEFINE h == Head(queue)
            <4>1. /\ h \in Thread /\ h = queue[1] /\ Len(queue) \in Nat /\ Len(queue) > 0
                  /\ queue' = Tail(queue)
                BY <1>1, <2>9, <3>4 DEF Wake
            <4>2. /\ Len(queue') = Len(queue) - 1
                  /\ \A i \in 1 .. Len(queue') : queue'[i] = queue[i + 1]
                BY <1>1, <4>1
            <4>3. InQueue(h) /\ state[h] = "Wait"
                BY <1>1, <3>1, <4>1 DEF IInv
            <4>4. state' = [state EXCEPT ![h] = "Run"]
                <5>1. h \in alive
                    BY <1>1, <4>1, <4>3 DEF IInv, WaitersPlace, CallersAlive
                <5> QED BY <2>9, <3>4, <5>1 DEF Wake
            <4>5. ASSUME NEW u \in Thread PROVE InQueue(u)' <=> InQueue(u) /\ u # h
                <5>1. ASSUME InQueue(u)' PROVE InQueue(u) /\ u # h
                    <6>1. PICK i \in 1 .. Len(queue') : queue'[i] = u
                        BY <5>1
                    <6>2. i + 1 \in 1 .. Len(queue) /\ queue[i + 1] = u /\ i + 1 # 1
                        BY <4>1, <4>2, <6>1
                    <6>3. \A j, k \in 1 .. Len(queue) : queue[j] = queue[k] => j = k
                        BY <1>1 DEF IInv
                    <6>4. 1 \in 1 .. Len(queue)
                        BY <4>1
                    <6>5. queue[i + 1] # queue[1]
                        BY <6>2, <6>3, <6>4
                    <6> QED BY <4>1, <6>2, <6>5
                <5>2. ASSUME InQueue(u), u # h PROVE InQueue(u)'
                    <6>1. PICK i \in 1 .. Len(queue) : queue[i] = u
                        BY <5>2
                    <6>2. i # 1
                        BY <4>1, <5>2, <6>1
                    <6>3. i - 1 \in 1 .. Len(queue') /\ i - 1 + 1 = i
                        BY <4>1, <4>2, <6>2
                    <6>4. queue'[i - 1] = u
                        BY <4>2, <6>1, <6>3
                    <6> QED BY <6>3, <6>4
                <5> QED BY <5>1, <5>2
            <4>6. \A i, j \in 1 .. Len(queue') : queue'[i] = queue'[j] => i = j
                <5> SUFFICES ASSUME NEW i \in 1 .. Len(queue'), NEW j \in 1 .. Len(queue'),
                                    queue'[i] = queue'[j]
                             PROVE  i = j
                    OBVIOUS
                <5>1. i + 1 \in 1 .. Len(queue) /\ j + 1 \in 1 .. Len(queue)
                    BY <4>1, <4>2
                <5>2. queue[i + 1] = queue[j + 1]
                    BY <4>2
                <5> QED BY <1>1, <5>1, <5>2 DEF IInv
            <4> HIDE DEF h
            <4>7. ASSUME NEW u \in Thread PROVE InQueue(u)' <=> state'[u] = "Wait"
                <5>1. InQueue(u) <=> state[u] = "Wait"
                    BY <1>1, <3>1 DEF IInv
                <5>2. CASE u = h
                    <6>1. state'[h] = "Run"
                        BY <1>1, <4>1, <4>4
                    <6> QED BY <4>5, <5>2, <6>1
                <5>3. CASE u # h
                    <6>1. state'[u] = state[u]
                        BY <1>1, <4>4, <5>3
                    <6> QED BY <4>5, <5>1, <5>3, <6>1
                <5> QED BY <5>2, <5>3
            <4> QED BY <3>2, <4>6, <4>7
        <3> QED BY <3>3, <3>4
    <2> QED BY <1>3, <2>2, <2>3, <2>4, <2>5, <2>6, <2>7, <2>8, <2>9 DEF Step
<1> QED BY <1>2, <1>3 DEF Next

THEOREM Invariance == Spec => []IInv
<1>1. IInv /\ [Next]_vars => IInv'
    BY TypeStep, InsideStep, QueueStep, PlaceStep, AliveStep DEF IInv
<1> QED BY InitIInv, <1>1, PTL DEF Spec

(* The types of the lock, the semaphore and the threads, for any programs: *)
(* the value never leaves the range of its type, since signal panics       *)
(* before it would.                                                        *)
THEOREM TypeCorrect == Spec => []TypeOK
<1>1. IInv => TypeOK
    BY DEF IInv
<1> QED BY Invariance, <1>1, PTL

(* Mutual exclusion: wait and signal touch value and queue one thread at a *)
(* time, and unlock never meets an open lock.                              *)
THEOREM AlwaysOneInside == Spec => []OneInside
<1>1. IInv => OneInside
    BY DEF IInv
<1> QED BY Invariance, <1>1, PTL

(* No wakeup is lost or misdirected: the queue always holds exactly the    *)
(* threads that wait.                                                      *)
THEOREM QueueAlwaysHoldsWaiters == Spec => []QueueHoldsWaiters
<1>1. IInv => QueueHoldsWaiters
    BY DEF IInv
<1> QED BY Invariance, <1>1, PTL

------------------------------------------------------------------------------
(* Permits.                                                                *)

(* A step inside wait or signal is one of a call of wait or signal.        *)
StepsFitCalls ==
    \A t \in Thread : step[t] # "call" =>
        /\ at[t] < Len(Program[t])
        /\ Program[t][at[t] + 1].op = "wait" => step[t] \notin {"raise", "wake"}
        /\ Program[t][at[t] + 1].op = "signal" => step[t] \in {"raise", "wake", "unlock"}
        /\ Program[t][at[t] + 1].op \in {"wait", "signal"}

LEMMA FitStep ==
    ASSUME IInv, StepsFitCalls, [Next]_vars
    PROVE  StepsFitCalls'
<1> USE SyncAssumption DEF StepsFitCalls
<1>1. IInv /\ DataOK
    BY DEF IInv, TypeOK
<1> USE DEF DataOK, Steps
<1>2. CASE Tick \/ UNCHANGED vars
    BY <1>2 DEF Tick, vars
<1>3. ASSUME NEW t \in Thread, Step(t) PROVE StepsFitCalls'
    <2>1. CASE UNCHANGED <<at, step>>
        BY <2>1
    <2>2. CASE Returns(t)
        BY <1>1, <2>2 DEF Returns
    <2>3. CASE WaitEnter(t) \/ SignalEnter(t)
        BY <1>1, <2>3 DEF WaitEnter, SignalEnter, AtCall, GoesTo
    <2>4. CASE Look(t) \/ Push(t) \/ Block(t) \/ Yield(t)
        <3>1. /\ step[t] \in {"look", "push", "block", "yield"} /\ UNCHANGED at
              /\ \E s \in {"push", "unlock", "block", "leave", "yielded"} :
                    step' = [step EXCEPT ![t] = s]
            BY <2>4 DEF Look, Push, Block, Yield, GoesTo
        <3> QED BY <1>1, <3>1
    <2>5. CASE Raise(t) \/ Wake(t)
        <3>1. /\ step[t] \in {"raise", "wake"} /\ UNCHANGED at
              /\ \/ UNCHANGED step
                 \/ \E s \in {"wake", "unlock"} : step' = [step EXCEPT ![t] = s]
            BY <2>5 DEF Raise, Wake, GoesTo
        <3> QED BY <1>1, <3>1
    <2>6. CASE Release(t)
        <3>1. CASE step[t] = "leave" /\ GoesTo(t, "yield")
            BY <1>1, <3>1 DEF GoesTo
        <3> QED BY <2>1, <2>2, <2>6, <3>1 DEF Release
    <2>7. CASE TryLock(t) \/ SpinLock(t) \/ Unlock(t) \/ Spin(t) \/ Resume(t) \/ End(t)
        BY <2>1, <2>2, <2>7 DEF TryLock, SpinLock, Unlock, Spin, Resume, End, vars
    <2> QED BY <1>3, <2>3, <2>4, <2>5, <2>6, <2>7 DEF Step
<1> QED BY <1>2, <1>3 DEF Next

(* There are finitely many calls.                                          *)
AllCalls == UNION {{t} \X (1 .. Len(Program[t])) : t \in Thread}

LEMMA FiniteCalls ==
    ASSUME NEW T \in SUBSET AllCalls
    PROVE  IsFiniteSet(T) /\ Cardinality(T) \in Nat
<1> DEFINE F == [t \in Thread |-> {t} \X (1 .. Len(Program[t]))]
           S == {F[t] : t \in Thread}
<1>1. IsFiniteSet(S)
    <2>1. F \in Surjection(Thread, S)
        BY DEF Surjection
    <2> QED BY <2>1, FS_Surjection, SyncAssumption
<1>2. \A U \in S : IsFiniteSet(U)
    <2> SUFFICES ASSUME NEW t \in Thread PROVE IsFiniteSet({t} \X (1 .. Len(Program[t])))
        OBVIOUS
    <2>1. Len(Program[t]) \in Int
        BY SyncAssumption
    <2>2. IsFiniteSet({t})
        BY FS_Singleton
    <2>3. IsFiniteSet(1 .. Len(Program[t]))
        BY <2>1, FS_Interval
    <2> QED BY <2>2, <2>3, FS_Product
<1>3. IsFiniteSet(UNION S)
    BY <1>1, <1>2, FS_UNION
<1>4. T \in SUBSET UNION S
    BY DEF AllCalls
<1>5. IsFiniteSet(T)
    BY <1>3, <1>4, FS_Subset
<1> QED BY <1>5, FS_CardinalityType

LEMMA PermitsAreCalls ==
    /\ AllPassed \in SUBSET AllCalls /\ AllRaised \in SUBSET AllCalls
    /\ AllPassed' \in SUBSET AllCalls /\ AllRaised' \in SUBSET AllCalls
BY DEF AllPassed, AllRaised, AllCalls, Passed, Raised, CallsOf

(* How the two sets may change: the first never shrinks, and the second    *)
(* only grows with the value, by one call; the value is lowered for a call *)
(* that gets through.                                                      *)
LEMMA PermitsGrow ==
    ASSUME NoPermitLost, value \in Nat, value' \in Nat, InitialValue \in Nat,
           AllPassed \subseteq AllPassed',
           \/ value' = value /\ AllRaised' \subseteq AllRaised
           \/ value' = value + 1 /\ \E c : AllRaised' \subseteq AllRaised \cup {c}
           \/ /\ value = value' + 1 /\ AllRaised' \subseteq AllRaised
              /\ \E c \in AllPassed' : c \notin AllPassed
    PROVE  NoPermitLost'
<1> DEFINE P == AllPassed  Q == AllPassed'  R == AllRaised  S == AllRaised'
<1>1. /\ IsFiniteSet(P) /\ Cardinality(P) \in Nat /\ IsFiniteSet(Q) /\ Cardinality(Q) \in Nat
      /\ IsFiniteSet(R) /\ Cardinality(R) \in Nat /\ IsFiniteSet(S) /\ Cardinality(S) \in Nat
    BY PermitsAreCalls, FiniteCalls
<1>2. P \subseteq Q
    OBVIOUS
<1> SUFFICES value' + Cardinality(Q) >= InitialValue + Cardinality(S)
    BY DEF NoPermitLost
<1>3. value + Cardinality(P) >= InitialValue + Cardinality(R)
    BY DEF NoPermitLost
<1>a. \/ value' = value /\ S \subseteq R
      \/ value' = value + 1 /\ \E c : S \subseteq R \cup {c}
      \/ value = value' + 1 /\ S \subseteq R /\ \E c \in Q : c \notin P
    OBVIOUS
<1> HIDE DEF P, Q, R, S
<1>4. Cardinality(P) <= Cardinality(Q)
    BY <1>1, <1>2, FS_Subset
<1>5. S \subseteq R => Cardinality(S) <= Cardinality(R)
    BY <1>1, FS_Subset
<1>6. ASSUME NEW c, S \subseteq R \cup {c} PROVE Cardinality(S) <= Cardinality(R) + 1
    <2>1. IsFiniteSet(R \cup {c}) /\ Cardinality(R \cup {c}) <= Cardinality(R) + 1
        <3>1. /\ IsFiniteSet(R \cup {c})
              /\ Cardinality(R \cup {c}) = IF c \in R THEN Cardinality(R) ELSE Cardinality(R) + 1
            BY <1>1, FS_AddElement
        <3> QED BY <1>1, <3>1
    <2>2. Cardinality(S) <= Cardinality(R \cup {c})
        BY <1>6, <2>1, FS_Subset
    <2>3. Cardinality(R \cup {c}) \in Nat
        BY <2>1, FS_CardinalityType
    <2> QED BY <1>1, <2>1, <2>2, <2>3
<1>7. ASSUME NEW c \in Q, c \notin P PROVE Cardinality(P) + 1 <= Cardinality(Q)
    <2>1. IsFiniteSet(P \cup {c}) /\ Cardinality(P \cup {c}) = Cardinality(P) + 1
        BY <1>1, <1>7, FS_AddElement
    <2>2. P \cup {c} \in SUBSET Q
        BY <1>2
    <2>3. Cardinality(P \cup {c}) <= Cardinality(Q)
        BY <1>1, <2>2, FS_Subset
    <2> QED BY <2>1, <2>3
<1>8. CASE value' = value /\ S \subseteq R
    <2>1. Cardinality(S) <= Cardinality(R)
        BY <1>5, <1>8
    <2> QED BY <1>1, <1>3, <1>4, <1>8, <2>1
<1>9. CASE value' = value + 1 /\ \E c : S \subseteq R \cup {c}
    <2>1. Cardinality(S) <= Cardinality(R) + 1
        BY <1>6, <1>9
    <2> QED BY <1>1, <1>3, <1>4, <1>9, <2>1
<1>10. CASE value = value' + 1 /\ S \subseteq R /\ \E c \in Q : c \notin P
    <2>1. Cardinality(S) <= Cardinality(R) /\ Cardinality(P) + 1 <= Cardinality(Q)
        BY <1>5, <1>7, <1>10
    <2> QED BY <1>1, <1>3, <1>10, <2>1
<1> QED BY <1>a, <1>8, <1>9, <1>10

(* A step that lowers no thread's at, wakes whom it will, and takes thread *)
(* t on keeps all that got through.                                        *)
LEMMA PermitStep ==
    ASSUME IInv, StepsFitCalls, NoPermitLost, [Next]_vars
    PROVE  NoPermitLost'
<1>1. IInv /\ DataOK /\ DataOK' /\ SyncAssumption
    BY DataStep, SyncAssumption DEF IInv, TypeOK
<1>2. value \in Nat /\ value' \in Nat /\ InitialValue \in Nat
    BY <1>1 DEF DataOK, SyncAssumption
<1>3. SUFFICES /\ \A u \in Thread : Passed(u) \subseteq Passed(u)'
               /\ \/ value' = value /\ \A u \in Thread : Raised(u)' \subseteq Raised(u)
                  \/ /\ value' = value + 1
                     /\ \E v \in Thread, i \in Nat :
                           /\ Raised(v)' \subseteq Raised(v) \cup {i}
                           /\ \A u \in Thread \ {v} : Raised(u)' \subseteq Raised(u)
                  \/ /\ value = value' + 1 /\ \A u \in Thread : Raised(u)' \subseteq Raised(u)
                     /\ \E v \in Thread : \E i \in Passed(v)' : i \notin Passed(v)
    <2>1. AllPassed \subseteq AllPassed'
        BY <1>3 DEF AllPassed
    <2>2. ASSUME \A u \in Thread : Raised(u)' \subseteq Raised(u)
          PROVE  AllRaised' \subseteq AllRaised
        BY <2>2 DEF AllRaised
    <2>3. ASSUME NEW v \in Thread, NEW i \in Nat, Raised(v)' \subseteq Raised(v) \cup {i},
                 \A u \in Thread \ {v} : Raised(u)' \subseteq Raised(u)
          PROVE  AllRaised' \subseteq AllRaised \cup {<<v, i>>}
        BY <2>3 DEF AllRaised
    <2>4. ASSUME NEW v \in Thread, NEW i \in Passed(v)', i \notin Passed(v)
          PROVE  <<v, i>> \in AllPassed' /\ <<v, i>> \notin AllPassed
        BY <2>4 DEF AllPassed
    <2>5. \/ value' = value /\ AllRaised' \subseteq AllRaised
          \/ value' = value + 1 /\ \E c : AllRaised' \subseteq AllRaised \cup {c}
          \/ /\ value = value' + 1 /\ AllRaised' \subseteq AllRaised
             /\ \E c \in AllPassed' : c \notin AllPassed
        BY <1>3, <2>2, <2>3, <2>4
    <2> QED BY <1>2, <2>1, <2>5, PermitsGrow
<1> USE DEF Passed, Raised, CallsOf, WokenIn
<1>4. CASE Tick \/ UNCHANGED vars
    BY <1>4 DEF Tick, vars, sem
<1>5. ASSUME NEW t \in Thread, Step(t)
      PROVE  /\ \A u \in Thread : Passed(u) \subseteq Passed(u)'
             /\ \/ value' = value /\ \A u \in Thread : Raised(u)' \subseteq Raised(u)
                \/ /\ value' = value + 1
                   /\ \E v \in Thread, i \in Nat :
                         /\ Raised(v)' \subseteq Raised(v) \cup {i}
                         /\ \A u \in Thread \ {v} : Raised(u)' \subseteq Raised(u)
                \/ /\ value = value' + 1 /\ \A u \in Thread : Raised(u)' \subseteq Raised(u)
                   /\ \E v \in Thread : \E i \in Passed(v)' : i \notin Passed(v)
    <2>1. CASE UNCHANGED <<value, state, at, step>>
        BY <2>1
    <2>2. CASE TryLock(t) \/ SpinLock(t) \/ Unlock(t) \/ Spin(t) \/ End(t)
        <3>1. UNCHANGED <<value, state>>
            BY <2>2 DEF TryLock, SpinLock, Unlock, Spin, End, sem, vars
        <3>2. \/ UNCHANGED <<at, step>>
              \/ /\ Returns(t) /\ step[t] = "call" /\ at[t] < Len(Program[t])
                 /\ Program[t][at[t] + 1].op \notin {"wait", "signal"}
            BY <2>2 DEF TryLock, SpinLock, Unlock, Spin, End, AtCall, vars
        <3>3. CASE /\ Returns(t) /\ step[t] = "call"
                   /\ Program[t][at[t] + 1].op \notin {"wait", "signal"}
            <4>1. at' = [at EXCEPT ![t] = @ + 1] /\ UNCHANGED step /\ at[t] \in Nat
                BY <1>1, <3>3 DEF Returns, DataOK
            <4>2. \A u \in Thread : Passed(u) \subseteq Passed(u)'
                BY <1>1, <3>1, <3>3, <4>1 DEF DataOK
            <4>3. \A u \in Thread : Raised(u)' \subseteq Raised(u)
                BY <1>1, <3>1, <3>3, <4>1 DEF DataOK
            <4> QED BY <3>1, <4>2, <4>3
        <3> QED BY <2>1, <3>1, <3>2, <3>3
    <2>3. CASE WaitEnter(t) \/ SignalEnter(t) \/ Push(t) \/ Block(t) \/ Yield(t)
        <3>1. /\ UNCHANGED <<value, at>>
              /\ \/ step[t] \in {"call", "push"} /\ UNCHANGED state
                    /\ \E s \in {"look", "raise", "block"} : step' = [step EXCEPT ![t] = s]
                 \/ step[t] = "block" /\ state' = [state EXCEPT ![t] = "Wait"]
                    /\ step' = [step EXCEPT ![t] = "leave"]
                 \/ step[t] = "yield" /\ UNCHANGED state
                    /\ step' = [step EXCEPT ![t] = "yielded"]
            BY <2>3 DEF WaitEnter, SignalEnter, Acquire, AtCall, Push, Block, Yield, GoesTo, sem
        <3>2. \A u \in Thread : Passed(u) \subseteq Passed(u)'
            BY <1>1, <3>1 DEF DataOK
        <3>3. \A u \in Thread : Raised(u)' \subseteq Raised(u)
            BY <1>1, <3>1 DEF DataOK
        <3> QED BY <3>1, <3>2, <3>3
    <2>4. CASE Look(t)
        <3>1. /\ step[t] = "look" /\ UNCHANGED <<at, state>>
              /\ \/ value' = value /\ step' = [step EXCEPT ![t] = "push"]
                 \/ value = value' + 1 /\ step' = [step EXCEPT ![t] = "unlock"]
            <4>1. step[t] = "look" /\ UNCHANGED <<at, state>>
                BY <2>4 DEF Look, GoesTo
            <4>2. CASE value = 0
                BY <2>4, <4>1, <4>2 DEF Look, GoesTo
            <4>3. CASE value # 0
                <5>1. value' = value - 1 /\ step' = [step EXCEPT ![t] = "unlock"]
                    BY <2>4, <4>3 DEF Look, GoesTo
                <5> QED BY <1>2, <4>1, <5>1
            <4> QED BY <4>2, <4>3
        <3>2. /\ at[t] \in Nat /\ at[t] + 1 \in 1 .. Len(Program[t])
              /\ Program[t][at[t] + 1].op = "wait"
            <4>1. at[t] < Len(Program[t]) /\ Program[t][at[t] + 1].op = "wait"
                BY <3>1 DEF StepsFitCalls
            <4>2. at[t] \in Nat /\ Len(Program[t]) \in Nat
                BY <1>1 DEF DataOK, SyncAssumption
            <4> QED BY <4>1, <4>2
        <3>3. CASE step' = [step EXCEPT ![t] = "push"]
            BY <1>1, <3>1, <3>2, <3>3 DEF DataOK
        <3>4. CASE step' = [step EXCEPT ![t] = "unlock"]
            <4>1. /\ \A u \in Thread : Passed(u) \subseteq Passed(u)'
                  /\ \A u \in Thread : Raised(u)' \subseteq Raised(u)
                BY <1>1, <3>1, <3>2, <3>4 DEF DataOK
            <4>2. at[t] + 1 \in Passed(t)' /\ at[t] + 1 \notin Passed(t)
                BY <1>1, <3>1, <3>2, <3>4 DEF DataOK
            <4>3. value' = value \/ value = value' + 1
                BY <3>1
            <4> QED BY <4>1, <4>2, <4>3
        <3> QED BY <3>1, <3>3, <3>4
    <2>5. CASE Raise(t)
        <3>1. \/ UNCHANGED <<value, state, at, step>>
              \/ /\ value' = value + 1 /\ UNCHANGED <<at, state>>
                 /\ step' = [step EXCEPT ![t] = "wake"]
            BY <2>5 DEF Raise, GoesTo
        <3>2. step[t] = "raise" /\ at[t] \in Nat
            BY <1>1, <2>5 DEF Raise, DataOK
        <3>3. CASE /\ value' = value + 1 /\ UNCHANGED <<at, state>>
                   /\ step' = [step EXCEPT ![t] = "wake"]
            <4>1. Raised(t)' \subseteq Raised(t) \cup {at[t] + 1}
                BY <1>1, <3>2, <3>3 DEF DataOK
            <4>2. \A u \in Thread \ {t} : Raised(u)' \subseteq Raised(u)
                BY <1>1, <3>2, <3>3 DEF DataOK
            <4>3. \A u \in Thread : Passed(u) \subseteq Passed(u)'
                BY <1>1, <3>2, <3>3 DEF DataOK
            <4>4. \E v \in Thread, i \in Nat :
                     /\ Raised(v)' \subseteq Raised(v) \cup {i}
                     /\ \A u \in Thread \ {v} : Raised(u)' \subseteq Raised(u)
                BY <3>2, <4>1, <4>2
            <4> HIDE DEF Raised, Passed
            <4> QED BY <3>3, <4>3, <4>4
        <3> QED BY <2>1, <3>1, <3>3
    <2>6. CASE Wake(t)
        <3>1. /\ step[t] = "wake" /\ UNCHANGED <<value, at>>
              /\ UNCHANGED step \/ step' = [step EXCEPT ![t] = "unlock"]
              /\ UNCHANGED state \/ state' = [state EXCEPT ![Head(queue)] = "Run"]
            BY <2>6 DEF Wake, GoesTo
        <3>2. \A u \in Thread : state[u] = "Run" => state'[u] = "Run"
            BY <1>1, <3>1 DEF DataOK
        <3> QED BY <1>1, <3>1, <3>2 DEF DataOK
    <2>7. CASE Release(t)
        <3>1. /\ UNCHANGED <<value, state>>
              /\ \/ UNCHANGED <<at, step>>
                 \/ step[t] = "leave" /\ GoesTo(t, "yield")
                 \/ step[t] = "unlock" /\ Returns(t)
            BY <2>7 DEF Release, sem
        <3>2. CASE step[t] = "leave" /\ GoesTo(t, "yield")
            BY <1>1, <3>1, <3>2 DEF DataOK, GoesTo
        <3>3. CASE step[t] = "unlock" /\ Returns(t)
            BY <1>1, <3>1, <3>3 DEF DataOK, Returns
        <3> QED BY <2>1, <3>1, <3>2, <3>3
    <2>8. CASE Resume(t)
        <3>1. /\ UNCHANGED <<value, state>> /\ step[t] = "yielded" /\ Returns(t)
              /\ state[t] = "Run"
            BY <1>1, <2>8 DEF IInv, WaitersPlace, Resume, Runs, sem
        <3>2. Program[t][at[t] + 1].op = "wait"
            BY <3>1 DEF StepsFitCalls
        <3> QED BY <1>1, <3>1, <3>2 DEF DataOK, Returns
    <2> QED BY <1>5, <2>2, <2>3, <2>4, <2>5, <2>6, <2>7, <2>8 DEF Step
<1> HIDE DEF Passed, Raised, CallsOf, WokenIn
<1> QED BY <1>4, <1>5 DEF Next

LEMMA InitPermits == Init => StepsFitCalls /\ NoPermitLost
<1> SUFFICES ASSUME Init PROVE StepsFitCalls /\ NoPermitLost
    OBVIOUS
<1>1. StepsFitCalls
    BY DEF Init, StepsFitCalls
<1>2. AllRaised = {}
    BY DEF Init, AllRaised, Raised, CallsOf
<1>3. Cardinality(AllRaised) = 0
    BY <1>2, FS_EmptySet
<1>4. Cardinality(AllPassed) \in Nat
    BY PermitsAreCalls, FiniteCalls
<1> QED BY <1>1, <1>3, <1>4, SyncAssumption DEF Init, NoPermitLost

(* No permit is lost, whatever the programs and wherever the timer cuts    *)
(* in: at any time as many calls of wait have got through, or still may at *)
(* once, as there were permits at the start and signals since.             *)
THEOREM PermitsNeverLost == Spec => []NoPermitLost
<1>1. IInv /\ StepsFitCalls /\ NoPermitLost /\ [Next]_vars => (StepsFitCalls /\ NoPermitLost)'
    BY FitStep, PermitStep
<1> QED BY Invariance, InitPermits, <1>1, PTL DEF Spec
=============================================================================
