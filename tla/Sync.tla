-------------------------------- MODULE Sync --------------------------------
(***************************************************************************)
(* The locks and the counting semaphore of kernel/sync.zig, used by kernel *)
(* threads that the timer preempts.  There is one CPU; every step below is *)
(* one that no interrupt can split, and between two steps the timer may    *)
(* take the CPU away if interrupts are on.                                 *)
(*                                                                         *)
(* What a thread does with the locks and the semaphore is its program, a   *)
(* sequence of calls.  The semaphore's own spin lock is the lock Inner.    *)
(* Of the scheduler (module Threading) this module keeps what matters to   *)
(* waiting: which threads are in state Run, and the interrupt flag.  It    *)
(* lets any thread in state Run be the next one.                           *)
(***************************************************************************)
EXTENDS Integers, Sequences, FiniteSets

CONSTANTS
    Thread,         \* the kernel threads
    Idle,           \* the idle thread
    Lock,           \* the locks that programs name
    Inner,          \* the lock inside the semaphore
    Program,        \* the calls each thread makes
    LockedAtStart,  \* the locks that are declared locked
    InitialValue,   \* the semaphore's value at the start
    MaxValue        \* the largest value of its type: 255 for system_tests' u8

Call == [op : {"lock", "spin_lock", "unlock"}, lock : Lock]
        \cup [op : {"wait", "signal"}, lock : {Inner}]

ASSUME SyncAssumption ==
    /\ IsFiniteSet(Thread) /\ Idle \notin Thread /\ Inner \notin Lock
    /\ Program \in [Thread -> Seq(Call)]
    /\ LockedAtStart \subseteq Lock
    /\ MaxValue \in Nat /\ InitialValue \in 0 .. MaxValue

VARIABLES
    locked,         \* the locks whose `locked` is true
    value, queue,   \* the semaphore
    state,          \* each thread's state: "Run" or "Wait"
    alive,          \* thread_list: the threads that have not ended
    at,             \* how many calls of its program each thread has finished
    step,           \* the step it is about to make in the one it is in
    current,        \* the thread on the CPU
    interrupts,     \* whether the CPU takes interrupts
    phase           \* "run", or "panic" once @panic was reached

sem == <<value, queue>>
cpu == <<current, interrupts>>
vars == <<locked, sem, state, alive, at, step, cpu, phase>>

Init ==
    /\ locked = LockedAtStart
    /\ value = InitialValue /\ queue = <<>>
    /\ state = [t \in Thread |-> "Run"]
    /\ alive = Thread
    /\ at = [t \in Thread |-> 0]
    /\ step = [t \in Thread |-> "call"]
    /\ current \in Thread /\ interrupts = TRUE
    /\ phase = "run"

------------------------------------------------------------------------------
(* The CPU.                                                                *)

Runs(t) == phase = "run" /\ current = t
AtCall(t, op) ==
    /\ Runs(t) /\ step[t] = "call" /\ at[t] < Len(Program[t])
    /\ Program[t][at[t] + 1].op = op
TheLock(t) == Program[t][at[t] + 1].lock

GoesTo(t, s) == step' = [step EXCEPT ![t] = s] /\ UNCHANGED at
Returns(t) == step' = [step EXCEPT ![t] = "call"] /\ at' = [at EXCEPT ![t] = @ + 1]

(* The threads next may choose when `current` gives up the CPU.            *)
Ready == {t \in alive : state[t] = "Run"}
NextThreads ==
    IF Ready \ {current} # {} THEN Ready \ {current}
    ELSE IF current \in Ready THEN {current} ELSE {Idle}

(* The interrupt flag once thread t runs on.  A thread that was taken off  *)
(* the CPU by the timer gets its flag back from iret; one that called      *)
(* yield finds interrupts off, unless it is a tick that switches to it.    *)
FlagOf(t) == t = Idle \/ step[t] # "yielded"

(* The timer: tick calls yield.  after_switch turns interrupts on for      *)
(* whoever a tick switches to.                                             *)
Tick ==
    /\ phase = "run" /\ interrupts
    /\ current' \in NextThreads
    /\ UNCHANGED <<locked, sem, state, alive, at, step, interrupts, phase>>

(* A thread that is back from its call of yield in wait.                   *)
Resume(t) ==
    /\ Runs(t) /\ step[t] = "yielded"
    /\ Returns(t)
    /\ UNCHANGED <<locked, sem, state, alive, cpu, phase>>

(* remove_current_thread, after the last call.                             *)
End(t) ==
    /\ Runs(t) /\ step[t] = "call" /\ at[t] = Len(Program[t])
    /\ alive' = alive \ {t}
    /\ current' \in IF Ready \ {t} # {} THEN Ready \ {t} ELSE {Idle}
    /\ interrupts' = FlagOf(current')
    /\ UNCHANGED <<locked, sem, state, at, step, phase>>

------------------------------------------------------------------------------
(* Lock.  Each of its operations is one atomic compare-and-exchange.       *)

(* lock, whose callers panic if it could not lock.                         *)
TryLock(t) ==
    /\ AtCall(t, "lock")
    /\ IF TheLock(t) \in locked
       THEN phase' = "panic" /\ UNCHANGED <<locked, at, step>>
       ELSE locked' = locked \cup {TheLock(t)} /\ Returns(t) /\ UNCHANGED phase
    /\ UNCHANGED <<sem, state, alive, cpu>>

SpinLock(t) ==
    /\ AtCall(t, "spin_lock") /\ TheLock(t) \notin locked
    /\ locked' = locked \cup {TheLock(t)}
    /\ Returns(t)
    /\ UNCHANGED <<sem, state, alive, cpu, phase>>

Unlock(t) ==
    /\ AtCall(t, "unlock")
    /\ IF TheLock(t) \in locked
       THEN locked' = locked \ {TheLock(t)} /\ Returns(t) /\ UNCHANGED phase
       ELSE phase' = "panic" /\ UNCHANGED <<locked, at, step>>
    /\ UNCHANGED <<sem, state, alive, cpu>>

(* One more turn of the loop in spin_lock, of a caller's lock or of the    *)
(* semaphore's.                                                            *)
Spin(t) ==
    /\ \/ AtCall(t, "spin_lock") /\ TheLock(t) \in locked
       \/ (AtCall(t, "wait") \/ AtCall(t, "signal")) /\ Inner \in locked
    /\ UNCHANGED vars

------------------------------------------------------------------------------
(* Semaphore.  The step names say what is to be done next.                 *)

AcquireSlip(t) ==           \* the exchange does not compare
    /\ locked' = locked \cup {Inner}
    /\ UNCHANGED <<sem, state, alive, cpu, phase>>

Acquire(t) ==
    /\ Inner \notin locked
    /\ locked' = locked \cup {Inner}
    /\ UNCHANGED <<sem, state, alive, cpu, phase>>

WaitEnter(t) == AtCall(t, "wait") /\ Acquire(t) /\ GoesTo(t, "look")

LookSlip(t) ==              \* the value is lowered without a look at it
    /\ Runs(t) /\ step[t] = "look"
    /\ value' = value - 1
    /\ GoesTo(t, "unlock")
    /\ UNCHANGED <<locked, queue, state, alive, cpu, phase>>

Look(t) ==
    /\ Runs(t) /\ step[t] = "look"
    /\ value' = IF value = 0 THEN 0 ELSE value - 1
    /\ GoesTo(t, IF value = 0 THEN "push" ELSE "unlock")
    /\ UNCHANGED <<locked, queue, state, alive, cpu, phase>>

Push(t) ==
    /\ Runs(t) /\ step[t] = "push"
    /\ queue' = Append(queue, t)
    /\ GoesTo(t, "block")
    /\ UNCHANGED <<locked, value, state, alive, cpu, phase>>

Block(t) ==
    /\ Runs(t) /\ step[t] = "block"
    /\ state' = [state EXCEPT ![t] = "Wait"]
    /\ GoesTo(t, "leave")
    /\ UNCHANGED <<locked, sem, alive, cpu, phase>>

(* Unlocking the semaphore, in the three places where that is done.        *)
Release(t) ==
    /\ Runs(t) /\ step[t] \in {"unlock", "leave"}
    /\ IF Inner \in locked
       THEN /\ locked' = locked \ {Inner}
            /\ IF step[t] = "leave" THEN GoesTo(t, "yield") ELSE Returns(t)
            /\ UNCHANGED phase
       ELSE phase' = "panic" /\ UNCHANGED <<locked, at, step>>
    /\ UNCHANGED <<sem, state, alive, cpu>>

(* wait's call of yield, which turns interrupts off.                       *)
Yield(t) ==
    /\ Runs(t) /\ step[t] = "yield"
    /\ GoesTo(t, "yielded")
    /\ current' \in NextThreads
    /\ interrupts' = (current' # t /\ FlagOf(current'))
    /\ UNCHANGED <<locked, sem, state, alive, phase>>

SignalEnter(t) == AtCall(t, "signal") /\ Acquire(t) /\ GoesTo(t, "raise")

RaiseSlip(t) ==             \* raised only if nobody is waiting
    /\ Runs(t) /\ step[t] = "raise"
    /\ value' = IF queue = <<>> THEN value ELSE value + 1
    /\ GoesTo(t, "wake") /\ UNCHANGED phase
    /\ UNCHANGED <<locked, queue, state, alive, cpu>>

Raise(t) ==
    /\ Runs(t) /\ step[t] = "raise"
    /\ IF value = MaxValue
       THEN phase' = "panic" /\ UNCHANGED <<value, at, step>>
       ELSE value' = value + 1 /\ GoesTo(t, "wake") /\ UNCHANGED phase
    /\ UNCHANGED <<locked, queue, state, alive, cpu>>

WakeSlip(t) ==              \* the first is looked at and not taken out
    /\ Runs(t) /\ step[t] = "wake"
    /\ state' = IF queue = <<>> THEN state ELSE [state EXCEPT ![Head(queue)] = "Run"]
    /\ UNCHANGED queue
    /\ GoesTo(t, "unlock")
    /\ UNCHANGED <<locked, value, alive, cpu, phase>>

(* One turn of the loop that looks for a thread that has not ended.        *)
Wake(t) ==
    /\ Runs(t) /\ step[t] = "wake"
    /\ IF queue = <<>>
       THEN GoesTo(t, "unlock") /\ UNCHANGED <<queue, state>>
       ELSE /\ queue' = Tail(queue)
            /\ IF Head(queue) \in alive
               THEN state' = [state EXCEPT ![Head(queue)] = "Run"] /\ GoesTo(t, "unlock")
               ELSE UNCHANGED <<state, at, step>>
    /\ UNCHANGED <<locked, value, alive, cpu, phase>>

------------------------------------------------------------------------------
Step(t) ==
    \/ TryLock(t) \/ SpinLock(t) \/ Unlock(t) \/ Spin(t)
    \/ WaitEnter(t) \/ Look(t) \/ Push(t) \/ Block(t) \/ Yield(t) \/ Resume(t)
    \/ SignalEnter(t) \/ Raise(t) \/ Wake(t) \/ Release(t)
    \/ End(t)

Next == Tick \/ \E t \in Thread : Step(t)

(* The timer keeps ticking, gives every thread in state Run its turn, and  *)
(* between two ticks there is time for a step.                             *)
Fairness ==
    \A t \in Thread : SF_vars(Step(t)) /\ SF_vars(Tick /\ current' = t)

Spec == Init /\ [][Next]_vars /\ Fairness

------------------------------------------------------------------------------
Steps == {"call", "look", "push", "block", "leave", "unlock", "yield", "yielded",
          "raise", "wake"}

DataOK ==
    /\ locked \subseteq Lock \cup {Inner}
    /\ value \in 0 .. MaxValue /\ queue \in Seq(Thread)
    /\ state \in [Thread -> {"Run", "Wait"}]
    /\ alive \subseteq Thread
    /\ at \in [Thread -> Nat] /\ step \in [Thread -> Steps]
    /\ current \in Thread \cup {Idle} /\ phase \in {"run", "panic"}

TypeOK == DataOK /\ interrupts \in BOOLEAN

(* The threads between spin_lock and unlock of the semaphore.              *)
Inside == {t \in Thread : step[t] \in {"look", "push", "block", "leave", "unlock",
                                       "raise", "wake"}}

(* The semaphore's value and queue are only ever touched by one thread at  *)
(* a time, and unlock never finds the lock open: whatever the timer does   *)
(* between two steps, the lock is held exactly while one thread is inside. *)
OneInside ==
    /\ \A t, u \in Inside : t = u
    /\ Inner \in locked <=> Inside # {}

(* Whether thread t is in the queue.                                       *)
InQueue(t) == \E i \in 1 .. Len(queue) : queue[i] = t

(* wait puts its thread into the queue, marks it as waiting and only then  *)
(* opens the lock and yields; signal may come before the yield.  No wakeup *)
(* is lost and none goes astray: the queue holds each thread once, and a   *)
(* thread that waits is in it, as is one about to be marked, and no other. *)
QueueHoldsWaiters ==
    /\ \A i, j \in 1 .. Len(queue) : queue[i] = queue[j] => i = j
    /\ \A t \in Thread : InQueue(t) <=> state[t] = "Wait" \/ step[t] = "block"

(* Which of its calls of wait thread t has got through, and which of its   *)
(* calls of signal have raised the value.  A thread that was woken has got *)
(* through.                                                                *)
CallsOf(t, op) == {i \in 1 .. Len(Program[t]) : Program[t][i].op = op}
WokenIn(t) == step[t] \in {"leave", "yield", "yielded"} /\ state[t] = "Run"
Passed(t) ==
    {i \in CallsOf(t, "wait") :
        i <= at[t] \/ (i = at[t] + 1 /\ (step[t] = "unlock" \/ WokenIn(t)))}
Raised(t) ==
    {i \in CallsOf(t, "signal") :
        i <= at[t] \/ (i = at[t] + 1 /\ step[t] \in {"wake", "unlock"})}

AllPassed == UNION {{t} \X Passed(t) : t \in Thread}
AllRaised == UNION {{t} \X Raised(t) : t \in Thread}

(* No permit is lost: each signal lets at least one more wait through, now *)
(* or later.  (More than one, in fact: a thread that signal wakes does not *)
(* take the permit that signal has added, so value may come out too big.)  *)
NoPermitLost == value + Cardinality(AllPassed) >= InitialValue + Cardinality(AllRaised)

(* system_tests waits for both of its threads: unless one of them panics,  *)
(* both come to an end.                                                    *)
AllEnd == <>(phase = "panic" \/ alive = {})
=============================================================================
