------------------------------ MODULE Threading ------------------------------
(***************************************************************************)
(* The scheduler of the Georgios kernel: kernel/threading.zig (Manager)    *)
(* with the context switch of kernel/platform/threading.zig, the timer     *)
(* handler of kernel/platform/interrupts.zig and the system calls of       *)
(* kernel/platform/system_calls.zig that reach it.                         *)
(*                                                                         *)
(* There is one CPU.  Code runs without interruption while interrupts are  *)
(* off, so an action is what the CPU does from one point where it may be   *)
(* interrupted, or where it changes threads, to the next.  Manager.next    *)
(* alone is cut into the iterations of its loop (phases "check" and        *)
(* "scan"), because that loop need not end.  insert_thread is one step of  *)
(* start_process, which turns interrupts off, but system_tests calls it    *)
(* with interrupts on: there every write to the list is a step of its own, *)
(* and the timer may come between any two.                                 *)
(*                                                                         *)
(* pc[t] says where thread t is, in its own code or in a kernel call that  *)
(* can be suspended:                                                       *)
(*   new       inserted, never on the CPU                                  *)
(*   body      in its own code                                             *)
(*   yielding, sleeping, joining                                           *)
(*             in the yield of the yield call, of a sleep call, of         *)
(*             wait_for_thread: the call has nothing left to do after it   *)
(*   starting  in start_process, switched away from to the new process     *)
(*   started   back from start_process, about to call wait_for_process     *)
(*   waiting   in the yield of wait_for_process                            *)
(*   waited    back from it, about to read the exit info                   *)
(*   getkey    in get_key's loop, about to look into the key buffer        *)
(*   nokey     found it empty, about to call wait_for_keyboard             *)
(*   keywait   in the yield of wait_for_keyboard                           *)
(*   inserting in insert_thread, called by system_tests                    *)
(*   done      kernel_main returned from waiting for /etc/init             *)
(*   dead      removed by remove_thread                                    *)
(***************************************************************************)
EXTENDS TimeQueue, FiniteSets

CONSTANTS
    MaxThreads,      \* bound: thread ids ever given out
    Naps,            \* lengths of sleep, in units of the clock
    MaxKeys,         \* size of the key buffer (128 in ps2.zig)
    KernelThreads,   \* whether the boot thread also starts kernel threads and
                     \* waits for them, as sync.zig's system_tests does
    InstantCalls     \* whether no clock unit ends while interrupts are off

Tid == 0 .. MaxThreads - 1
Idle == 0
Boot == 1

ASSUME ThreadsAssumption == MaxThreads \in Nat /\ MaxThreads >= 2
ASSUME SleeperAssumption == Sleeper = Tid
ASSUME NapsAssumption == Naps \subseteq Nat \ {0}
ASSUME KeysAssumption == MaxKeys \in Nat
ASSUME ClientsAssumption == KernelThreads \in BOOLEAN /\ InstantCalls \in BOOLEAN

VARIABLES
    state,           \* Thread.state
    wakeOnExit,      \* Thread.wake_on_exit
    nextInSystem,    \* Thread.next_in_system
    prevInSystem,    \* Thread.prev_in_system
    mode,            \* "kernel", or "user" for the main thread of a process
    pc,              \* see above
    child,           \* the process a thread's exec started
    headThread, tailThread,
    threadList,      \* the ids in thread_list
    newcomer,        \* the argument of the insert_thread of system_tests
    insertAt,        \* how far that call is, see Spawn; "none" if there is none
    nextThreadId,
    current,         \* current_thread
    execResult,      \* the exit info a thread's last exec answered
    exitInfo,        \* exit_info_map, by the id of the process's main thread
    waitingForKeyboard,
    timeQueue,
    keys,            \* events in the key buffer
    interrupts,      \* the interrupt flag of the CPU
    inTick,          \* interrupts.in_tick
    phase,           \* "run", "check", "scan", "off", "panic", "corrupt", "torn"
    walk             \* the local `thread` of next's loop

ring == <<nextInSystem, prevInSystem, headThread, tailThread, threadList,
          newcomer, insertAt>>
cpu == <<interrupts, inTick, phase, walk>>
vars == <<state, wakeOnExit, ring, mode, pc, child, nextThreadId, current,
          execResult, exitInfo, waitingForKeyboard, timeQueue, keys, cpu>>

Yields == {"yielding", "sleeping", "joining"}
Pcs == Yields \cup
       {"new", "body", "starting", "started", "waiting", "waited",
        "getkey", "nokey", "keywait", "inserting", "done", "dead"}

(* Manager.init: the idle thread, which has not run yet, and the boot      *)
(* thread, which is running kernel_main.                                   *)
Init ==
    /\ state = [t \in Tid |-> IF t = Idle THEN "Wait" ELSE "Run"]
    /\ wakeOnExit = [t \in Tid |-> Null]
    /\ nextInSystem = [t \in Tid |-> IF t = Idle THEN Boot ELSE Null]
    /\ prevInSystem = [t \in Tid |-> IF t = Boot THEN Idle ELSE Null]
    /\ mode = [t \in Tid |-> "kernel"]
    /\ pc = [t \in Tid |-> IF t = Boot THEN "body" ELSE "new"]
    /\ child = [t \in Tid |-> Null]
    /\ headThread = Idle
    /\ tailThread = Boot
    /\ threadList = {Idle, Boot}
    /\ newcomer = Null
    /\ insertAt = "none"
    /\ nextThreadId = 2
    /\ current = Boot
    /\ execResult = [t \in Tid |-> "none"]
    /\ exitInfo = [t \in Tid |-> "none"]
    /\ waitingForKeyboard = Null
    /\ timeQueue = EmptyQueue
    /\ keys = 0
    /\ interrupts = TRUE
    /\ inTick = FALSE
    /\ phase = "run"
    /\ walk = Null

-----------------------------------------------------------------------------
(* Parts of the calls.                                                     *)

(* The current thread is about to make a call from place p of its code.    *)
At(p) == phase = "run" /\ pc[current] = p

(* Where a suspended thread goes on once it is on the CPU again.           *)
Resumed(p) ==
    CASE p \in Yields \cup {"new"} -> "body"
      [] p = "starting"            -> "started"
      [] p = "waiting"             -> "waited"
      [] p = "keywait"             -> "getkey"
      [] OTHER                     -> p

(* The interrupt flag once t goes on.  switch_to saves and restores the    *)
(* flag as cleared by yield's disable_interrupts, and after_switch sets it *)
(* when the switch was made by the timer; a new thread, a thread that the  *)
(* timer suspended and a system call that returns set it themselves.       *)
FlagOnResume(t) ==
    \/ inTick
    \/ pc[t] \in Yields /\ mode[t] = "user"
    \/ pc[t] \notin Yields \cup {"starting", "waiting", "keywait"}

(* insert_thread as start_process calls it, of the thread with id          *)
(* nextThreadId.                                                           *)
InsertThread ==
    LET t == nextThreadId
    IN  /\ nextThreadId' = nextThreadId + 1
        /\ headThread' = IF headThread = Null THEN t ELSE headThread
        /\ nextInSystem' = IF tailThread = Null
                           THEN [nextInSystem EXCEPT ![t] = Null]
                           ELSE [nextInSystem EXCEPT ![t] = Null, ![tailThread] = t]
        /\ prevInSystem' = [prevInSystem EXCEPT ![t] = tailThread]
        /\ tailThread' = t
        /\ threadList' = threadList \cup {t}
        /\ UNCHANGED <<newcomer, insertAt>>

RemoveThreadSlip(t) ==      \* the thread before t still points at t
    LET n == nextInSystem[t]
        p == prevInSystem[t]
    IN  /\ prevInSystem' = IF n = Null THEN prevInSystem
                           ELSE [prevInSystem EXCEPT ![n] = p]
        /\ UNCHANGED <<nextInSystem, newcomer, insertAt>>
        /\ headThread' = IF headThread = t THEN n ELSE headThread
        /\ tailThread' = IF tailThread = t THEN p ELSE tailThread
        /\ threadList' = threadList \ {t}

(* The relinking of remove_thread.  The removed thread keeps its own       *)
(* pointers, which next's loop starts from.                                *)
RemoveThread(t) ==
    LET n == nextInSystem[t]
        p == prevInSystem[t]
    IN  /\ prevInSystem' = IF n = Null THEN prevInSystem
                           ELSE [prevInSystem EXCEPT ![n] = p]
        /\ nextInSystem' = IF p = Null THEN nextInSystem
                           ELSE [nextInSystem EXCEPT ![p] = n]
        /\ headThread' = IF headThread = t THEN n ELSE headThread
        /\ tailThread' = IF tailThread = t THEN p ELSE tailThread
        /\ threadList' = threadList \ {t}
        /\ UNCHANGED <<newcomer, insertAt>>

(* The call reaches yield, which turns interrupts off and calls next.      *)
CallNext ==
    /\ phase' = "check"
    /\ interrupts' = FALSE
    /\ UNCHANGED <<walk, inTick>>

StopsWith(how) ==
    /\ phase' = how
    /\ interrupts' = FALSE
    /\ UNCHANGED <<walk, inTick>>

KeepsRunning(flag) ==
    /\ interrupts' = flag
    /\ UNCHANGED <<phase, walk, inTick>>

(* A call that blocks: the current thread waits until others set it Run.   *)
Blocks(p) ==
    /\ state' = [state EXCEPT ![current] = "Wait"]
    /\ pc' = [pc EXCEPT ![current] = p]
    /\ CallNext

(* ThreadImpl.switch_to, up to the point where t is in its own code.  The  *)
(* code loads t's saved context before it saves that of the thread it      *)
(* leaves: a thread that switches to itself goes on from a stale one.      *)
SwitchTo(t) ==
    /\ walk' = Null
    /\ inTick' = FALSE
    /\ IF t = current
       THEN /\ phase' = "corrupt"
            /\ interrupts' = FALSE
            /\ UNCHANGED <<current, pc>>
       ELSE /\ phase' = "run"
            /\ current' = t
            /\ pc' = [pc EXCEPT ![t] = Resumed(@)]
            /\ interrupts' = FlagOnResume(t)


-----------------------------------------------------------------------------
(* Interrupts.                                                             *)

(* The timer interrupt: tick calls yield.                                  *)
Tick ==
    /\ phase = "run" /\ interrupts
    /\ inTick' = TRUE
    /\ phase' = "check"
    /\ interrupts' = FALSE
    /\ UNCHANGED <<state, wakeOnExit, ring, mode, pc, child, nextThreadId, current,
                   execResult, exitInfo, waitingForKeyboard, timeQueue, keys, walk>>

KeySlip ==                  \* a full buffer is not noticed
    /\ phase = "run" /\ interrupts
    /\ keys' = keys + 1
    /\ state' = IF waitingForKeyboard = Null THEN state
                ELSE [state EXCEPT ![waitingForKeyboard] = "Run"]
    /\ waitingForKeyboard' = Null
    /\ UNCHANGED <<wakeOnExit, ring, mode, pc, child, nextThreadId, current,
                   execResult, exitInfo, timeQueue, cpu>>

KeyStaleSlip ==             \* the slot is not cleared
    /\ phase = "run" /\ interrupts
    /\ keys' = IF keys = MaxKeys THEN keys ELSE keys + 1
    /\ state' = IF waitingForKeyboard = Null THEN state
                ELSE [state EXCEPT ![waitingForKeyboard] = "Run"]
    /\ UNCHANGED <<wakeOnExit, ring, mode, pc, child, nextThreadId, current,
                   execResult, exitInfo, waitingForKeyboard, timeQueue, cpu>>

(* The keyboard interrupt, once a whole key event was read: it is put in   *)
(* the buffer, or lost if that is full, and the waiting thread is woken.   *)
Key ==
    /\ phase = "run" /\ interrupts
    /\ keys' = IF keys = MaxKeys THEN keys ELSE keys + 1
    /\ state' = IF waitingForKeyboard = Null THEN state
                ELSE [state EXCEPT ![waitingForKeyboard] = "Run"]
    /\ waitingForKeyboard' = Null
    /\ UNCHANGED <<wakeOnExit, ring, mode, pc, child, nextThreadId, current,
                   execResult, exitInfo, timeQueue, cpu>>

(* The clock.  Time matters to nothing but the time queue.                 *)
Advance ==
    /\ phase \in {"run", "check", "scan"}
    /\ InstantCalls => phase = "run" /\ interrupts
    /\ TimeMatters(timeQueue)
    /\ timeQueue' = Aged(timeQueue)
    /\ UNCHANGED <<state, wakeOnExit, ring, mode, pc, child, nextThreadId, current,
                   execResult, exitInfo, waitingForKeyboard, keys, cpu>>

-----------------------------------------------------------------------------
(* Calls made by the current thread.                                       *)

IsClient(t) == t # Idle /\ (t = Boot => KernelThreads)

Yield ==
    /\ At("body") /\ IsClient(current)
    /\ pc' = [pc EXCEPT ![current] = "yielding"]
    /\ CallNext
    /\ UNCHANGED <<state, wakeOnExit, ring, mode, child, nextThreadId, current,
                   execResult, exitInfo, waitingForKeyboard, timeQueue, keys>>

(* sleep_milliseconds and sleep_seconds.                                   *)
Sleep(nap) ==
    /\ At("body") /\ IsClient(current)
    /\ IF QueueFull(timeQueue)
       THEN /\ StopsWith("panic")
            /\ UNCHANGED <<state, pc, timeQueue>>
       ELSE /\ timeQueue' = Inserted(timeQueue, current, nap)
            /\ Blocks("sleeping")
    /\ UNCHANGED <<wakeOnExit, ring, mode, child, nextThreadId, current,
                   execResult, exitInfo, waitingForKeyboard, keys>>

ExecSlip ==                 \* the id is read after the counter moved on
    /\ At("body")
    /\ mode[current] = "user" \/ (current = Boot /\ child[Boot] = Null)
    /\ nextThreadId < MaxThreads
    /\ InsertThread
    /\ mode' = [mode EXCEPT ![nextThreadId] = "user"]
    /\ child' = [child EXCEPT ![current] = nextThreadId']
    /\ pc' = [pc EXCEPT ![current] = "starting", ![nextThreadId] = "body"]
    /\ current' = nextThreadId
    /\ KeepsRunning(TRUE)
    /\ UNCHANGED <<state, wakeOnExit, execResult, exitInfo, waitingForKeyboard, timeQueue, keys>>

(* The exec system call up to start_process, which switches to the new     *)
(* process at once: its caller stays in state Run.  The boot thread execs  *)
(* /etc/init and nothing else.                                             *)
Exec ==
    /\ At("body")
    /\ mode[current] = "user" \/ (current = Boot /\ child[Boot] = Null)
    /\ nextThreadId < MaxThreads
    /\ InsertThread
    /\ mode' = [mode EXCEPT ![nextThreadId] = "user"]
    /\ child' = [child EXCEPT ![current] = nextThreadId]
    /\ pc' = [pc EXCEPT ![current] = "starting", ![nextThreadId] = "body"]
    /\ current' = nextThreadId
    /\ KeepsRunning(TRUE)
    /\ UNCHANGED <<state, wakeOnExit, execResult, exitInfo, waitingForKeyboard, timeQueue, keys>>

(* wait_for_process, up to its yield.                                      *)
WaitForProcess ==
    /\ At("started")
    /\ LET c == child[current]
       IN  IF c \notin threadList
           THEN /\ pc' = [pc EXCEPT ![current] = "waited"]
                /\ KeepsRunning(FALSE)
                /\ UNCHANGED <<state, wakeOnExit>>
           ELSE IF wakeOnExit[c] # Null
           THEN /\ StopsWith("panic")
                /\ UNCHANGED <<state, wakeOnExit, pc>>
           ELSE /\ wakeOnExit' = [wakeOnExit EXCEPT ![c] = current]
                /\ Blocks("waiting")
    /\ UNCHANGED <<ring, mode, child, nextThreadId, current,
                   execResult, exitInfo, waitingForKeyboard, timeQueue, keys>>

(* The rest of wait_for_process, and of the call that made it.  No exit    *)
(* info for the process is an error that exec and kernel_main panic on.    *)
Collect ==
    /\ At("waited")
    /\ IF exitInfo[child[current]] = "none"
       THEN StopsWith("panic") /\ UNCHANGED <<pc, execResult>>
       ELSE /\ pc' = [pc EXCEPT ![current] = IF current = Boot THEN "done" ELSE "body"]
            /\ execResult' = [execResult EXCEPT ![current] = exitInfo[child[current]]]
            /\ KeepsRunning(IF mode[current] = "user" THEN TRUE ELSE interrupts)
    /\ UNCHANGED <<state, wakeOnExit, ring, mode, child, nextThreadId, current,
                   exitInfo, waitingForKeyboard, timeQueue, keys>>

(* kernel_main has waited for /etc/init: the machine is shut down.         *)
Shutdown ==
    /\ At("done")
    /\ StopsWith("off")
    /\ UNCHANGED <<state, wakeOnExit, ring, mode, pc, child, nextThreadId, current,
                   execResult, exitInfo, waitingForKeyboard, timeQueue, keys>>

ExitUnfinishedSlip(how) ==  \* the waiting thread is not woken
    /\ At("body") /\ current \notin {Idle, Boot}
    /\ mode[current] = "kernel" => how = "exited"
    /\ exitInfo' = IF mode[current] = "user"
                   THEN [exitInfo EXCEPT ![current] = how] ELSE exitInfo
    /\ RemoveThread(current)
    /\ pc' = [pc EXCEPT ![current] = "dead"]
    /\ CallNext
    /\ UNCHANGED <<state, wakeOnExit, mode, child, nextThreadId, current,
                   execResult, waitingForKeyboard, timeQueue, keys>>

ExitCrashSlip(how) ==       \* a crash leaves no exit info
    /\ At("body") /\ current \notin {Idle, Boot}
    /\ mode[current] = "kernel" => how = "exited"
    /\ exitInfo' = IF mode[current] = "user" /\ how = "exited"
                   THEN [exitInfo EXCEPT ![current] = how] ELSE exitInfo
    /\ RemoveThread(current)
    /\ state' = IF wakeOnExit[current] = Null THEN state
                ELSE [state EXCEPT ![wakeOnExit[current]] = "Run"]
    /\ pc' = [pc EXCEPT ![current] = "dead"]
    /\ CallNext
    /\ UNCHANGED <<wakeOnExit, mode, child, nextThreadId, current,
                   execResult, waitingForKeyboard, timeQueue, keys>>

(* The removal of t would run into an insert_thread that was interrupted:  *)
(* t is the thread being inserted, which goes on the list after its end;   *)
(* or the local `tail`, or what line 327 reads, is t and becomes stale; or *)
(* find_remove meets a push_back that is half way through.                 *)
Tears(t) ==
    \/ insertAt # "none" /\ t = newcomer
    \/ insertAt \in {"linking", "linked"} /\ t = tailThread
    \/ insertAt = "listing"

(* The list is broken: what happens from here on is not modelled.          *)
Tear ==
    /\ At("body") /\ current \notin {Idle, Boot} /\ Tears(current)
    /\ StopsWith("torn")
    /\ UNCHANGED <<state, wakeOnExit, ring, mode, pc, child, nextThreadId, current,
                   execResult, exitInfo, waitingForKeyboard, timeQueue, keys>>

(* The thread ends: a process exits or crashes, a kernel thread's entry    *)
(* returns.  It is removed, the thread that waits for it is woken, and     *)
(* yield is called until it switches away.                                 *)
Exit(how) ==
    /\ At("body") /\ current \notin {Idle, Boot} /\ ~ Tears(current)
    /\ mode[current] = "kernel" => how = "exited"
    /\ exitInfo' = IF mode[current] = "user"
                   THEN [exitInfo EXCEPT ![current] = how] ELSE exitInfo
    /\ RemoveThread(current)
    /\ state' = IF wakeOnExit[current] = Null THEN state
                ELSE [state EXCEPT ![wakeOnExit[current]] = "Run"]
    /\ pc' = [pc EXCEPT ![current] = "dead"]
    /\ CallNext
    /\ UNCHANGED <<wakeOnExit, mode, child, nextThreadId, current,
                   execResult, waitingForKeyboard, timeQueue, keys>>

(* The boot thread as system_tests uses it.  It calls insert_thread, which *)
(* leaves the interrupt flag alone, on a new Thread.  Spawn is that call   *)
(* up to the read of tail_thread; then come the writes to the list:        *)
(*   linking   tail.next_in_system is next to be set                       *)
(*   linked    the new thread's own links are                              *)
(*   placed    tail_thread is                                              *)
(*   listing   in thread_list.push_back                                    *)
Spawn ==
    /\ KernelThreads /\ At("body") /\ current = Boot
    /\ nextThreadId < MaxThreads
    /\ newcomer' = nextThreadId
    /\ insertAt' = "linking"
    /\ nextThreadId' = nextThreadId + 1
    /\ headThread' = IF headThread = Null THEN nextThreadId ELSE headThread
    /\ nextInSystem' = [nextInSystem EXCEPT ![nextThreadId] = Null]
    /\ prevInSystem' = [prevInSystem EXCEPT ![nextThreadId] = Null]
    /\ pc' = [pc EXCEPT ![current] = "inserting"]
    /\ UNCHANGED <<tailThread, threadList, state, wakeOnExit, mode, child, current,
                   execResult, exitInfo, waitingForKeyboard, timeQueue, keys, cpu>>

LinkTail ==
    /\ insertAt = "linking"
    /\ insertAt' = "linked"
    /\ nextInSystem' = IF tailThread = Null THEN nextInSystem
                       ELSE [nextInSystem EXCEPT ![tailThread] = newcomer]
    /\ UNCHANGED <<prevInSystem, headThread, tailThread, threadList, newcomer, pc>>

PlaceSlip ==                \* the new thread's prev_in_system is not set
    /\ insertAt = "linked"
    /\ insertAt' = "placed"
    /\ nextInSystem' = [nextInSystem EXCEPT ![newcomer] = Null]
    /\ UNCHANGED <<prevInSystem, headThread, tailThread, threadList, newcomer, pc>>

Place ==
    /\ insertAt = "linked"
    /\ insertAt' = "placed"
    /\ prevInSystem' = [prevInSystem EXCEPT ![newcomer] = tailThread]
    /\ nextInSystem' = [nextInSystem EXCEPT ![newcomer] = Null]
    /\ UNCHANGED <<headThread, tailThread, threadList, newcomer, pc>>

MoveTail ==
    /\ insertAt = "placed"
    /\ insertAt' = "listing"
    /\ tailThread' = newcomer
    /\ UNCHANGED <<nextInSystem, prevInSystem, headThread, threadList, newcomer, pc>>

List ==
    /\ insertAt = "listing"
    /\ insertAt' = "none"
    /\ threadList' = threadList \cup {newcomer}
    /\ newcomer' = Null
    /\ pc' = [pc EXCEPT ![current] = "body"]
    /\ UNCHANGED <<nextInSystem, prevInSystem, headThread, tailThread>>

InsertStep ==
    /\ At("inserting")
    /\ LinkTail \/ Place \/ MoveTail \/ List
    /\ UNCHANGED <<state, wakeOnExit, mode, child, nextThreadId, current,
                   execResult, exitInfo, waitingForKeyboard, timeQueue, keys, cpu>>

WaitForThread(t) ==
    /\ KernelThreads /\ At("body") /\ current = Boot
    /\ t \in 2 .. nextThreadId - 1 /\ mode[t] = "kernel"
    /\ IF t \notin threadList
       THEN KeepsRunning(FALSE) /\ UNCHANGED <<state, wakeOnExit, pc>>
       ELSE IF wakeOnExit[t] # Null
       THEN StopsWith("panic") /\ UNCHANGED <<state, wakeOnExit, pc>>
       ELSE /\ wakeOnExit' = [wakeOnExit EXCEPT ![t] = current]
            /\ Blocks("joining")
    /\ UNCHANGED <<ring, mode, child, nextThreadId, current,
                   execResult, exitInfo, waitingForKeyboard, timeQueue, keys>>

(* The get_key system call: one look into the buffer, which leaves         *)
(* interrupts on.  A blocking call that finds nothing goes on to wait.     *)
GetKey(blocking) ==
    /\ mode[current] = "user"
    /\ At("body") \/ (At("getkey") /\ blocking)
    /\ IF keys > 0
       THEN keys' = keys - 1 /\ pc' = [pc EXCEPT ![current] = "body"]
       ELSE /\ pc' = [pc EXCEPT ![current] = IF blocking THEN "nokey" ELSE "body"]
            /\ UNCHANGED keys
    /\ KeepsRunning(TRUE)
    /\ UNCHANGED <<state, wakeOnExit, ring, mode, child, nextThreadId, current,
                   execResult, exitInfo, waitingForKeyboard, timeQueue>>

WaitForKeyboardSlip ==      \* the thread is not put in the slot
    /\ At("nokey")
    /\ UNCHANGED waitingForKeyboard
    /\ Blocks("keywait")
    /\ UNCHANGED <<wakeOnExit, ring, mode, child, nextThreadId, current,
                   execResult, exitInfo, timeQueue, keys>>

WaitForKeyboard ==
    /\ At("nokey")
    /\ waitingForKeyboard' = current
    /\ Blocks("keywait")
    /\ UNCHANGED <<wakeOnExit, ring, mode, child, nextThreadId, current,
                   execResult, exitInfo, timeQueue, keys>>

-----------------------------------------------------------------------------
(* Manager.next and the switch to the thread it answers.                   *)

(* The time queue is asked first: the thread it answers runs at once.      *)
CheckTimeQueue ==
    /\ phase = "check"
    /\ IF HeadDue(timeQueue)
       THEN timeQueue' = HeadRemoved(timeQueue) ELSE UNCHANGED timeQueue
    /\ IF HeadDue(timeQueue) /\ DueTid(timeQueue) \in threadList
       THEN /\ state' = [state EXCEPT ![DueTid(timeQueue)] = "Run"]
            /\ SwitchTo(DueTid(timeQueue))
       ELSE /\ phase' = "scan"
            /\ walk' = current
            /\ UNCHANGED <<state, current, pc, interrupts, inTick>>
    /\ UNCHANGED <<wakeOnExit, ring, mode, child, nextThreadId,
                   execResult, exitInfo, waitingForKeyboard, keys>>

NextFromSlip(t) ==          \* the end of the list ends the search
    IF nextInSystem[t] = Null THEN current ELSE nextInSystem[t]

NextFrom(t) == IF nextInSystem[t] = Null THEN headThread ELSE nextInSystem[t]

(* One iteration of the loop that looks for the next runnable thread.      *)
Pass ==
    /\ NextFrom(walk) # current /\ state[NextFrom(walk)] # "Run"
    /\ walk' = NextFrom(walk)
    /\ UNCHANGED <<state, current, pc, interrupts, inTick, phase>>

Choose ==
    LET t == NextFrom(walk)
    IN  /\ t # current /\ state[t] = "Run"
        /\ state' = IF t = Idle THEN state ELSE [state EXCEPT ![Idle] = "Wait"]
        /\ SwitchTo(t)

(* All the way round: nobody else can run.                                 *)
ChooseIdle ==
    /\ NextFrom(walk) = current /\ state[current] # "Run"
    /\ state' = [state EXCEPT ![Idle] = "Run"]
    /\ SwitchTo(Idle)

(* next answers null and yield returns; tick then returns from the         *)
(* interrupt, a system call to its process.                                *)
StayOnCpu ==
    /\ NextFrom(walk) = current /\ state[current] = "Run"
    /\ phase' = "run"
    /\ walk' = Null
    /\ inTick' = FALSE
    /\ interrupts' = FlagOnResume(current)
    /\ pc' = [pc EXCEPT ![current] = Resumed(@)]
    /\ UNCHANGED <<state, current>>

Scan ==
    /\ phase = "scan"
    /\ Pass \/ Choose \/ ChooseIdle \/ StayOnCpu
    /\ UNCHANGED <<wakeOnExit, ring, mode, child, nextThreadId,
                   execResult, exitInfo, waitingForKeyboard, timeQueue, keys>>

-----------------------------------------------------------------------------
Next ==
    \/ Tick \/ Key \/ Advance
    \/ Yield \/ Exec \/ WaitForProcess \/ Collect \/ Shutdown
    \/ \E nap \in Naps : Sleep(nap)
    \/ \E how \in {"exited", "crashed"} : Exit(how)
    \/ Spawn \/ InsertStep \/ Tear \/ \E t \in Tid : WaitForThread(t)
    \/ \E blocking \in BOOLEAN : GetKey(blocking)
    \/ WaitForKeyboard
    \/ CheckTimeQueue \/ Scan

(* A call that was suspended half way through, once t is on the CPU.       *)
Continues(t) ==
    /\ current = t
    /\ WaitForProcess \/ Collect \/ WaitForKeyboard \/ Shutdown \/ InsertStep
       \/ (pc[t] = "getkey" /\ GetKey(TRUE))

(* The scheduler, once it is called, runs to its end.  The clock goes on   *)
(* and the timer's interrupt stays pending until it is taken, and between  *)
(* two ticks there is time for kernel code to make a step.  A thread in    *)
(* its own code may stay there for ever.                                   *)
Fairness ==
    /\ WF_vars(CheckTimeQueue) /\ WF_vars(Scan)
    /\ SF_vars(Tick) /\ SF_vars(Advance)
    /\ \A t \in Tid \ {Idle} : SF_vars(Continues(t))

Spec == Init /\ [][Next]_vars /\ Fairness
-----------------------------------------------------------------------------
ThreadOrNull == Tid \cup {Null}

TypeOK ==
    /\ state \in [Tid -> {"Run", "Wait"}]
    /\ wakeOnExit \in [Tid -> ThreadOrNull]
    /\ nextInSystem \in [Tid -> ThreadOrNull]
    /\ prevInSystem \in [Tid -> ThreadOrNull]
    /\ mode \in [Tid -> {"kernel", "user"}]
    /\ pc \in [Tid -> Pcs]
    /\ child \in [Tid -> ThreadOrNull]
    /\ headThread \in Tid /\ tailThread \in Tid
    /\ threadList \subseteq Tid
    /\ newcomer \in ThreadOrNull
    /\ insertAt \in {"none", "linking", "linked", "placed", "listing"}
    /\ newcomer = Null <=> insertAt = "none"
    /\ nextThreadId \in 2 .. MaxThreads
    /\ current \in Tid
    /\ execResult \in [Tid -> {"none", "exited", "crashed"}]
    /\ exitInfo \in [Tid -> {"none", "exited", "crashed"}]
    /\ waitingForKeyboard \in ThreadOrNull
    /\ timeQueue \in Queue
    /\ keys \in 0 .. MaxKeys
    /\ interrupts \in BOOLEAN /\ inTick \in BOOLEAN
    /\ phase \in {"run", "check", "scan", "off", "panic", "corrupt", "torn"}
    /\ walk \in ThreadOrNull

(* The threads that next's loop can come to: those of thread_list and,     *)
(* from the moment the last of them points at it, the one being inserted.  *)
InSystem ==
    threadList \cup
        (IF insertAt \in {"linked", "placed", "listing"} THEN {newcomer} ELSE {})

After(t) == {u \in InSystem : u > t}
Before(t) == {u \in InSystem : u < t}

(* What lags behind in an unfinished insertion: tail_thread, and at first  *)
(* the new thread's own way back.                                          *)
LastInSystem == IF insertAt \in {"linked", "placed"} THEN newcomer ELSE tailThread
WayBack(t) == IF insertAt = "linked" /\ t = newcomer THEN tailThread ELSE prevInSystem[t]

(* The list that next's loop goes round holds exactly the threads of       *)
(* thread_list, in the order they were started, whichever of them have     *)
(* been removed; insert_thread and remove_thread each relink it by hand.   *)
(* An insertion that was interrupted half way leaves no gap for the        *)
(* scheduler, or for a thread that ends meanwhile.                         *)
RingIsThreadList ==
    /\ headThread \in InSystem /\ Before(headThread) = {}
    /\ LastInSystem \in InSystem /\ After(LastInSystem) = {}
    /\ insertAt \in {"linked", "placed"} => WayBack(newcomer) = tailThread
    /\ \A t \in InSystem :
         LET n == nextInSystem[t]
             p == WayBack(t)
         IN  /\ IF n = Null THEN After(t) = {}
                ELSE n \in After(t) /\ Before(n) \subseteq Before(t) \cup {t}
             /\ IF p = Null THEN Before(t) = {}
                ELSE p \in Before(t) /\ After(p) \subseteq After(t) \cup {t}

(* Whoever has the CPU outside the scheduler is a thread of the system and *)
(* is not supposed to be waiting: no switch ever goes to a thread that     *)
(* ended, and nobody runs on while it is registered as blocked.            *)
RunnerIsReady == phase = "run" => current \in InSystem /\ state[current] = "Run"

ExitWakesWaiter ==
    \A u \in InSystem : wakeOnExit[u] # Null =>
        /\ state[wakeOnExit[u]] = "Wait"
        /\ pc[wakeOnExit[u]] \in {"waiting", "joining"}
        /\ \A v \in InSystem : wakeOnExit[v] = wakeOnExit[u] => v = u

KeyWakesWaiter ==
    waitingForKeyboard # Null =>
        state[waitingForKeyboard] = "Wait" /\ pc[waitingForKeyboard] = "keywait"

TimeWakesSleeper ==
    \A i \in Linked(timeQueue) :
        LET t == timeQueue.elements[i].tid
        IN  t \in InSystem /\ state[t] = "Wait" /\ pc[t] = "sleeping"

(* Whatever is recorded as to be woken is blocked in the call that         *)
(* recorded it: the thread a process's exit wakes, the one in the keyboard *)
(* slot, the sleepers on the list.  A record that outlives its call would  *)
(* let a later exit, key or tick end a wait it has nothing to do with.     *)
WakersNameWaiters == ExitWakesWaiter /\ KeyWakesWaiter /\ TimeWakesSleeper

(* A thread waits exactly while something that will wake it is recorded:   *)
(* the running process it waits for points back at it, the keyboard slot   *)
(* holds it, or check will reach its element of the time queue.            *)
WakerRecorded(t) ==
    \/ pc[t] = "waiting" /\ child[t] \in threadList /\ wakeOnExit[child[t]] = t
    \/ pc[t] = "keywait" /\ waitingForKeyboard = t
    \/ pc[t] = "sleeping" /\ \E e \in Linked(timeQueue) : timeQueue.elements[e].tid = t
    \/ pc[t] = "joining" /\ \E u \in threadList : wakeOnExit[u] = t

WaitsHaveWakers ==
    \A t \in threadList \ {Idle} : state[t] = "Wait" <=> WakerRecorded(t)

(* No panic of these calls is reached, and no thread switches to itself,   *)
(* as long as the clock stands still while interrupts are off.             *)
NoFailure == phase \notin {"panic", "corrupt", "torn"}

(* next's loop, which runs with interrupts off, always ends.               *)
SchedulerAnswers == (phase \in {"check", "scan"}) ~> (phase \notin {"check", "scan"})

(* Round robin: whoever can run gets the CPU, unless a thread goes to      *)
(* sleep meanwhile.                                                        *)
ReadyThreadRuns ==
    \A t \in Tid \ {Idle} :
        (t \in threadList /\ state[t] = "Run")
            ~> (current = t \/ phase = "off" \/ \E u \in Tid : pc[u] = "sleeping")

(* Every sleep ends with the sleeper on the CPU.                           *)
SleeperRuns == \A t \in Tid : (pc[t] = "sleeping") ~> (pc[t] # "sleeping")

-----------------------------------------------------------------------------
(* The exec calls this scheduler carries out.                              *)
CallStatus ==
    [t \in Tid \ {Idle} |->
        CASE t >= nextThreadId -> "unborn"
          [] pc[t] = "dead" -> "ended"
          [] pc[t] \in {"starting", "started", "waiting", "waited"} -> "calling"
          [] OTHER -> "running"]

Calls == INSTANCE ExecCalls WITH
    Proc <- Tid \ {Idle},
    Root <- Boot,
    status <- CallStatus,
    callee <- [t \in Tid \ {Idle} |-> child[t]],
    outcome <- [t \in Tid \ {Idle} |-> exitInfo[t]],
    answer <- [t \in Tid \ {Idle} |-> execResult[t]]

(* exec: the caller stands still until the process it started has ended    *)
(* and then gets that process's exit info, whichever of the two runs first *)
(* after the process is started; once it has ended, the caller returns.    *)
ExecIsACall == Calls!Spec
=============================================================================
