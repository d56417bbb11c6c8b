--------------------------- MODULE ThreadingProofs ---------------------------
(***************************************************************************)
(* The scheduler for any number of threads, naps, slots and keys: what it  *)
(* links, whom it runs and whom it wakes; then, for the processes that     *)
(* exec starts, that what is blocked will be woken, when the kernel        *)
(* panics, and that exec is the call that ExecCalls describes.             *)
(***************************************************************************)
EXTENDS Threading, TimeQueueProofs

(* The list of threads, one thread at a time: who follows t is the next    *)
(* greater id of L, who comes before it the next smaller one.              *)
RingShape(L, nx, pv, h, e) ==
    /\ h \in L /\ \A u \in L : h <= u
    /\ e \in L /\ \A u \in L : u <= e
    /\ \A t \in L :
         /\ nx[t] = Null => \A u \in L : u <= t
         /\ nx[t] # Null => nx[t] \in L /\ t < nx[t] /\ \A u \in L : u < nx[t] => u <= t
         /\ pv[t] = Null => \A u \in L : t <= u
         /\ pv[t] # Null => pv[t] \in L /\ pv[t] < t /\ \A u \in L : pv[t] < u => t <= u

LEMMA NullIsNoTid == Tid \subseteq Nat /\ Null \notin Tid /\ Idle \in Tid /\ Boot \in Tid
BY ThreadsAssumption DEF Tid, Null, Idle, Boot

(* Appending a thread with an id above all the others.                     *)
LEMMA InsertShape ==
    ASSUME NEW L \in SUBSET Tid, NEW nx \in [Tid -> ThreadOrNull],
           NEW pv \in [Tid -> ThreadOrNull], NEW h, NEW e,
           RingShape(L, nx, pv, h, e),
           NEW t \in Tid, \A u \in L : u < t
    PROVE  RingShape(L \cup {t}, [nx EXCEPT ![t] = Null, ![e] = t],
                     [pv EXCEPT ![t] = e], h, t)
<1> DEFINE N == L \cup {t}
           n == [nx EXCEPT ![t] = Null, ![e] = t]
           p == [pv EXCEPT ![t] = e]
<1>1. e \in L /\ h \in L /\ L \subseteq Nat /\ t \in Nat /\ t \notin L /\ Null \notin Tid
  BY NullIsNoTid DEF RingShape
<1>2. (\A u \in N : h <= u) /\ (\A u \in N : u <= t)
  BY <1>1 DEF RingShape
<1>3. n[t] = Null /\ p[t] = e /\ e < t /\ \A u \in N : e < u => t <= u
  BY <1>1 DEF RingShape
<1>4. ASSUME NEW u \in L
      PROVE  /\ n[u] = Null => \A v \in N : v <= u
             /\ n[u] # Null => n[u] \in N /\ u < n[u] /\ \A v \in N : v < n[u] => v <= u
  <2>1. CASE u = e
    <3>1. n[u] = t
      BY <1>1, <2>1
    <3>2. QED BY <1>1, <2>1, <3>1 DEF RingShape
  <2>2. CASE u # e
    <3>1. n[u] = nx[u]
      BY <1>1, <2>2
    <3>2. nx[u] # Null
      BY <1>1, <2>2 DEF RingShape
    <3>3. nx[u] \in L /\ u < nx[u] /\ \A v \in L : v < nx[u] => v <= u
      BY <3>2 DEF RingShape
    <3>4. ~ (t < nx[u])
      <4>1. nx[u] \in Nat /\ t \in Nat /\ nx[u] < t
        BY <3>3, <1>1
      <4>2. QED BY <4>1
    <3>5. QED BY <1>1, <3>1, <3>2, <3>3, <3>4
  <2>3. QED BY <2>1, <2>2
<1>5. ASSUME NEW u \in L
      PROVE  /\ p[u] = Null => \A v \in N : u <= v
             /\ p[u] # Null => p[u] \in N /\ p[u] < u /\ \A v \in N : p[u] < v => u <= v
  <2>1. p[u] = pv[u] /\ u <= t
    BY <1>1
  <2>2. QED BY <1>1, <2>1 DEF RingShape
<1>6. QED
  <2>1. p[t] # Null
    BY <1>1, <1>3
  <2>2. \A u \in N : u = t \/ u \in L
    OBVIOUS
  <2> HIDE DEF n, p
  <2>3. h \in N /\ t \in N /\ p[t] \in N
    BY <1>1, <1>3
  <2> HIDE DEF N
  <2>4. RingShape(N, n, p, h, t)
    BY <1>2, <1>3, <1>4, <1>5, <2>1, <2>2, <2>3 DEF RingShape
  <2>5. QED BY <2>4 DEF N, n, p

(* Unlinking a thread that is not the only one.                            *)
LEMMA RemoveShape ==
    ASSUME NEW L \in SUBSET Tid, NEW nx \in [Tid -> ThreadOrNull],
           NEW pv \in [Tid -> ThreadOrNull], NEW h, NEW e,
           RingShape(L, nx, pv, h, e),
           NEW t \in L, L # {t}
    PROVE  RingShape(L \ {t},
                     IF pv[t] = Null THEN nx ELSE [nx EXCEPT ![pv[t]] = nx[t]],
                     IF nx[t] = Null THEN pv ELSE [pv EXCEPT ![nx[t]] = pv[t]],
                     IF h = t THEN nx[t] ELSE h,
                     IF e = t THEN pv[t] ELSE e)
<1> DEFINE N == L \ {t}
           n == IF pv[t] = Null THEN nx ELSE [nx EXCEPT ![pv[t]] = nx[t]]
           p == IF nx[t] = Null THEN pv ELSE [pv EXCEPT ![nx[t]] = pv[t]]
           h2 == IF h = t THEN nx[t] ELSE h
           e2 == IF e = t THEN pv[t] ELSE e
<1>1. L \subseteq Nat /\ Null \notin Tid /\ t \in Tid
  BY NullIsNoTid
<1>2. PICK o \in L : o # t
  OBVIOUS
<1>3. h2 \in N /\ \A u \in N : h2 <= u
  <2>1. CASE h = t
    <3>1. nx[t] # Null
      BY <1>1, <1>2, <2>1 DEF RingShape
    <3>2. nx[t] \in L /\ t < nx[t] /\ \A u \in L : u < nx[t] => u <= t
      BY <3>1 DEF RingShape
    <3>3. ASSUME NEW u \in N PROVE nx[t] <= u
      <4>1. u \in Nat /\ nx[t] \in Nat /\ t \in Nat /\ u # t /\ t <= u
        BY <1>1, <2>1, <3>2 DEF RingShape
      <4>2. u < nx[t] => u <= t
        BY <3>2
      <4>3. QED BY <4>1, <4>2
    <3>4. QED BY <1>1, <2>1, <3>2, <3>3
  <2>2. CASE h # t
    BY <2>2 DEF RingShape
  <2>3. QED BY <2>1, <2>2
<1>4. e2 \in N /\ \A u \in N : u <= e2
  <2>1. CASE e = t
    <3>1. pv[t] # Null
      BY <1>1, <1>2, <2>1 DEF RingShape
    <3>2. pv[t] \in L /\ pv[t] < t /\ \A u \in L : pv[t] < u => t <= u
      BY <3>1 DEF RingShape
    <3>3. ASSUME NEW u \in N PROVE u <= pv[t]
      <4>1. u \in Nat /\ pv[t] \in Nat /\ t \in Nat /\ u # t /\ u <= t
        BY <1>1, <2>1, <3>2 DEF RingShape
      <4>2. pv[t] < u => t <= u
        BY <3>2
      <4>3. QED BY <4>1, <4>2
    <3>4. QED BY <1>1, <2>1, <3>2, <3>3
  <2>2. CASE e # t
    BY <2>2 DEF RingShape
  <2>3. QED BY <2>1, <2>2
<1>5. ASSUME NEW u \in N
      PROVE  /\ n[u] = Null => \A v \in N : v <= u
             /\ n[u] # Null => n[u] \in N /\ u < n[u] /\ \A v \in N : v < n[u] => v <= u
  <2>1. CASE u = pv[t]
    <3>1. n[u] = nx[t] /\ pv[t] # Null
      BY <1>1, <2>1
    <3>2. u < t /\ \A v \in L : u < v => t <= v
      BY <2>1, <3>1 DEF RingShape
    <3>3. CASE nx[t] = Null
      BY <1>1, <3>1, <3>2, <3>3 DEF RingShape
    <3>4. CASE nx[t] # Null
      <4>1. nx[t] \in L /\ t < nx[t] /\ \A v \in L : v < nx[t] => v <= t
        BY <3>4 DEF RingShape
      <4>2. nx[t] \in N /\ u < nx[t]
        <5>1. nx[t] \in Nat /\ t \in Nat /\ u \in Nat
          BY <1>1, <4>1
        <5>2. QED BY <4>1, <3>2, <5>1
      <4>3. ASSUME NEW v \in N, v < nx[t] PROVE v <= u
        <5>1. v <= t /\ v # t
          BY <4>1, <4>3
        <5>2. QED BY <1>1, <3>2, <5>1
      <4>4. QED BY <3>1, <3>4, <4>2, <4>3
    <3>5. QED BY <3>3, <3>4
  <2>2. CASE u # pv[t]
    <3>1. n[u] = nx[u]
      BY <1>1, <2>2
    <3>2. nx[u] # t
      <4>1. SUFFICES ASSUME nx[u] = t PROVE FALSE
        OBVIOUS
      <4>2. u < t /\ \A v \in L : v < t => v <= u
        BY <1>1, <4>1 DEF RingShape
      <4>3. pv[t] # Null
        BY <1>1, <4>2 DEF RingShape
      <4>4. pv[t] \in L /\ pv[t] < t /\ \A v \in L : pv[t] < v => t <= v
        BY <4>3 DEF RingShape
      <4>5. pv[t] <= u
        BY <4>2, <4>4
      <4>6. ~ (pv[t] < u)
        BY <1>1, <4>2, <4>4
      <4>7. pv[t] \in Nat /\ u \in Nat
        BY <1>1, <4>4
      <4>8. QED BY <2>2, <4>5, <4>6, <4>7
    <3>3. QED BY <3>1, <3>2 DEF RingShape
  <2>3. QED BY <2>1, <2>2
<1>6. ASSUME NEW u \in N
      PROVE  /\ p[u] = Null => \A v \in N : u <= v
             /\ p[u] # Null => p[u] \in N /\ p[u] < u /\ \A v \in N : p[u] < v => u <= v
  <2>1. CASE u = nx[t]
    <3>1. p[u] = pv[t] /\ nx[t] # Null
      BY <1>1, <2>1
    <3>2. t < u /\ \A v \in L : v < u => v <= t
      BY <2>1, <3>1 DEF RingShape
    <3>3. CASE pv[t] = Null
      BY <1>1, <3>1, <3>2, <3>3 DEF RingShape
    <3>4. CASE pv[t] # Null
      <4>1. pv[t] \in L /\ pv[t] < t /\ \A v \in L : pv[t] < v => t <= v
        BY <3>4 DEF RingShape
      <4>2. pv[t] \in N /\ pv[t] < u
        <5>1. pv[t] \in Nat /\ t \in Nat /\ u \in Nat
          BY <1>1, <4>1
        <5>2. QED BY <4>1, <3>2, <5>1
      <4>3. ASSUME NEW v \in N, pv[t] < v PROVE u <= v
        <5>1. t <= v /\ v # t
          BY <4>1, <4>3
        <5>2. QED BY <1>1, <3>2, <5>1
      <4>4. QED BY <3>1, <3>4, <4>2, <4>3
    <3>5. QED BY <3>3, <3>4
  <2>2. CASE u # nx[t]
    <3>1. p[u] = pv[u]
      BY <1>1, <2>2
    <3>2. pv[u] # t
      <4>1. SUFFICES ASSUME pv[u] = t PROVE FALSE
        OBVIOUS
      <4>2. t < u /\ \A v \in L : t < v => u <= v
        BY <1>1, <4>1 DEF RingShape
      <4>3. nx[t] # Null
        BY <1>1, <4>2 DEF RingShape
      <4>4. nx[t] \in L /\ t < nx[t] /\ \A v \in L : v < nx[t] => v <= t
        BY <4>3 DEF RingShape
      <4>5. u <= nx[t]
        BY <4>2, <4>4
      <4>6. ~ (u < nx[t])
        BY <1>1, <4>2, <4>4
      <4>7. nx[t] \in Nat /\ u \in Nat
        BY <1>1, <4>4
      <4>8. QED BY <2>2, <4>5, <4>6, <4>7
    <3>3. QED BY <3>1, <3>2 DEF RingShape
  <2>3. QED BY <2>1, <2>2
<1> HIDE DEF N, n, p, h2, e2
<1>7. RingShape(N, n, p, h2, e2)
  BY <1>3, <1>4, <1>5, <1>6 DEF RingShape
<1>8. QED BY <1>7 DEF N, n, p, h2, e2

-----------------------------------------------------------------------------
(* The thread that leads to the last one is the one the last leads back to. *)
LEMMA BeforeLast ==
    ASSUME NEW L \in SUBSET Tid, NEW nx, NEW pv, NEW h, NEW e,
           RingShape(L, nx, pv, h, e), pv[e] # Null, NEW t \in L
    PROVE  nx[t] = e <=> t = pv[e]
<1> DEFINE p == pv[e]
<1>1. L \subseteq Nat /\ Null \notin L /\ e \in L
  BY NullIsNoTid DEF RingShape
<1>2. p \in L /\ p < e /\ \A u \in L : p < u => e <= u
  BY <1>1 DEF RingShape
<1>3. t \in Nat /\ e \in Nat /\ p \in Nat
  BY <1>1, <1>2
<1>4. ASSUME nx[t] = e PROVE t = p
  <2>1. t < e /\ \A u \in L : u < e => u <= t
    BY <1>1, <1>4 DEF RingShape
  <2>2. p <= t
    BY <1>2, <2>1
  <2>3. p < t => e <= t
    BY <1>2
  <2>4. QED BY <1>3, <2>1, <2>2, <2>3
<1>5. ASSUME t = p PROVE nx[t] = e
  <2>1. nx[t] # Null
    <3>1. ~ (e <= t)
      BY <1>2, <1>3, <1>5
    <3>2. QED BY <1>1, <3>1 DEF RingShape
  <2>2. nx[t] \in L /\ t < nx[t]
    BY <2>1 DEF RingShape
  <2>3. e <= nx[t]
    BY <1>2, <1>5, <2>2
  <2>4. nx[t] <= e
    BY <2>2 DEF RingShape
  <2>5. nx[t] \in Nat
    BY <1>1, <2>2
  <2>6. QED BY <1>3, <2>3, <2>4, <2>5
<1>6. QED BY <1>4, <1>5

-----------------------------------------------------------------------------
(* The types of what insert_thread and remove_thread change.               *)
LinksOK ==
    /\ nextInSystem \in [Tid -> ThreadOrNull] /\ prevInSystem \in [Tid -> ThreadOrNull]
    /\ headThread \in Tid /\ tailThread \in Tid
    /\ threadList \subseteq Tid
    /\ newcomer \in ThreadOrNull
    /\ insertAt \in {"none", "linking", "linked", "placed", "listing"}
    /\ newcomer = Null <=> insertAt = "none"

(* The ring, and who is on it: the idle and the boot thread for ever, and  *)
(* only threads that were started.                                         *)
RingInv ==
    /\ RingIsThreadList
    /\ {Idle, Boot} \subseteq threadList
    /\ \A t \in threadList : t < nextThreadId

(* next's loop starts from the current thread, which may have been removed *)
(* and freed, but whose own pointer still leads to a thread of the list.   *)
CpuInv ==
    /\ RunnerIsReady
    /\ phase \in {"check", "scan"} => nextInSystem[current] \in InSystem \cup {Null}
    /\ phase = "scan" => walk \in InSystem \cup {current}

(* Nothing has happened to a thread that was not started, or that nothing  *)
(* points at yet.                                                          *)
UnbornInv ==
    \A t \in Tid : t >= nextThreadId \/ (insertAt = "linking" /\ t = newcomer) =>
        state[t] = "Run" /\ pc[t] = "new" /\ wakeOnExit[t] = Null

InCall == {"starting", "started", "waiting", "waited"}

(* A thread in a call of exec knows the process it started; the idle       *)
(* thread makes no calls.                                                  *)
CallInv ==
    /\ \A t \in Tid : pc[t] \in InCall => child[t] \in Tid
    /\ mode[Idle] = "kernel" /\ pc[Idle] \in {"new", "body"}

(* The boot thread inserts its threads one after the other, each above all *)
(* those before it, and nobody can wait for one that is not inserted yet.  *)
(* It never comes back from its exec to insert another; so no process runs *)
(* while it inserts one, and exec does not insert any then.                *)
InsertInv ==
    /\ \A t \in Tid : pc[t] = "inserting" <=> t = Boot /\ insertAt # "none"
    /\ insertAt # "none" =>
          /\ KernelThreads
          /\ newcomer < nextThreadId /\ \A t \in threadList : t < newcomer
          /\ wakeOnExit[newcomer] = Null
    /\ insertAt = "linking" => nextInSystem[newcomer] = Null
    /\ child[Boot] # Null => pc[Boot] \in InCall \cup {"done"}
    /\ child[Boot] = Null => \A t \in Tid : mode[t] = "kernel"

IInv ==
    /\ TypeOK /\ RingInv /\ CpuInv /\ UnbornInv /\ CallInv /\ InsertInv
    /\ WakersNameWaiters /\ GoodList(timeQueue)

-----------------------------------------------------------------------------
(* The list as next's loop and remove_thread see it.                       *)
WayBacks == [t \in Tid |-> WayBack(t)]

(* In an unfinished insertion tail_thread is the thread before the last.   *)
TailLags == insertAt \in {"linked", "placed"} => WayBack(newcomer) = tailThread

LEMMA TypesOfLinks == TypeOK => LinksOK
BY DEF TypeOK, LinksOK

LEMMA InSystemIs ==
    LinksOK => /\ InSystem \subseteq Tid /\ threadList \subseteq InSystem
               /\ WayBacks \in [Tid -> ThreadOrNull]
               /\ \A t \in Tid : WayBacks[t] = WayBack(t)
BY DEF LinksOK, InSystem, ThreadOrNull, WayBacks, WayBack

(* No insertion is under way.                                              *)
LEMMA PlainRing ==
    LinksOK /\ insertAt = "none" =>
        /\ InSystem = threadList /\ WayBacks = prevInSystem
        /\ LastInSystem = tailThread /\ TailLags
BY DEF LinksOK, InSystem, WayBacks, WayBack, LastInSystem, TailLags

(* The two forms of the ring's invariant say the same, in every state.     *)
LEMMA RingHasShape ==
    LinksOK => (RingIsThreadList <=>
                   /\ RingShape(InSystem, nextInSystem, WayBacks, headThread, LastInSystem)
                   /\ TailLags)
<1> SUFFICES ASSUME LinksOK
             PROVE  RingIsThreadList <=>
                        /\ RingShape(InSystem, nextInSystem, WayBacks,
                                     headThread, LastInSystem)
                        /\ TailLags
  OBVIOUS
<1>0. InSystem \subseteq Nat /\ \A t \in InSystem : WayBacks[t] = WayBack(t)
  BY InSystemIs, NullIsNoTid
<1>1. \A u, v \in InSystem :
          (u <= v <=> ~ (v < u)) /\ (u > v <=> v < u) /\ (u <= v <=> u < v \/ u = v)
  <2>1. ASSUME NEW u \in Nat, NEW v \in Nat
        PROVE  (u <= v <=> ~ (v < u)) /\ (u > v <=> v < u) /\ (u <= v <=> u < v \/ u = v)
    OBVIOUS
  <2>2. QED BY <1>0, <2>1
<1>2. ASSUME RingIsThreadList
      PROVE  RingShape(InSystem, nextInSystem, WayBacks, headThread, LastInSystem) /\ TailLags
  <2>1. /\ headThread \in InSystem /\ \A u \in InSystem : headThread <= u
        /\ LastInSystem \in InSystem /\ \A u \in InSystem : u <= LastInSystem
    BY <1>1, <1>2 DEF RingIsThreadList, After, Before
  <2>2. ASSUME NEW t \in InSystem
        PROVE  LET n == nextInSystem[t]
               IN  /\ n = Null => \A u \in InSystem : u <= t
                   /\ n # Null => /\ n \in InSystem /\ t < n
                                  /\ \A u \in InSystem : u < n => u <= t
    BY <1>1, <1>2 DEF RingIsThreadList, After, Before
  <2>3. ASSUME NEW t \in InSystem
        PROVE  LET p == WayBack(t)
               IN  /\ p = Null => \A u \in InSystem : t <= u
                   /\ p # Null => /\ p \in InSystem /\ p < t
                                  /\ \A u \in InSystem : p < u => t <= u
    BY <1>1, <1>2 DEF RingIsThreadList, After, Before
  <2>4. TailLags
    BY <1>2 DEF RingIsThreadList, TailLags
  <2>5. QED BY <1>0, <2>1, <2>2, <2>3, <2>4 DEF RingShape
<1>3. ASSUME RingShape(InSystem, nextInSystem, WayBacks, headThread, LastInSystem) /\ TailLags
      PROVE  RingIsThreadList
  <2>1. /\ headThread \in InSystem /\ Before(headThread) = {}
        /\ LastInSystem \in InSystem /\ After(LastInSystem) = {}
    BY <1>1, <1>3 DEF RingShape, After, Before
  <2>2. ASSUME NEW t \in InSystem
        PROVE  LET n == nextInSystem[t]
               IN  IF n = Null THEN After(t) = {}
                   ELSE n \in After(t) /\ Before(n) \subseteq Before(t) \cup {t}
    <3>1. CASE nextInSystem[t] = Null
      BY <1>1, <1>3, <3>1 DEF RingShape, After
    <3>2. CASE nextInSystem[t] # Null
      <4> DEFINE n == nextInSystem[t]
      <4>1. n \in InSystem /\ t < n /\ \A u \in InSystem : u < n => u <= t
        BY <1>3, <3>2 DEF RingShape
      <4>2. ASSUME NEW u \in Before(n) PROVE u \in Before(t) \cup {t}
        <5>1. u \in InSystem /\ u <= t /\ u \in Nat /\ t \in Nat
          BY <1>0, <1>1, <4>1, <4>2 DEF Before
        <5>2. QED BY <5>1 DEF Before
      <4>3. QED BY <1>1, <3>2, <4>1, <4>2 DEF After
    <3>3. QED BY <3>1, <3>2
  <2>3. ASSUME NEW t \in InSystem
        PROVE  LET p == WayBack(t)
               IN  IF p = Null THEN Before(t) = {}
                   ELSE p \in Before(t) /\ After(p) \subseteq After(t) \cup {t}
    <3>1. CASE WayBack(t) = Null
      BY <1>0, <1>1, <1>3, <3>1 DEF RingShape, Before
    <3>2. CASE WayBack(t) # Null
      <4> DEFINE p == WayBack(t)
      <4>1. p \in InSystem /\ p < t /\ \A u \in InSystem : p < u => t <= u
        BY <1>0, <1>3, <3>2 DEF RingShape
      <4>2. ASSUME NEW u \in After(p) PROVE u \in After(t) \cup {t}
        <5>1. u \in InSystem /\ t <= u /\ u \in Nat /\ t \in Nat
          BY <1>0, <1>1, <4>1, <4>2 DEF After
        <5>2. QED BY <5>1 DEF After
      <4>3. QED BY <3>2, <4>1, <4>2 DEF Before
    <3>3. QED BY <3>1, <3>2
  <2>4. insertAt \in {"linked", "placed"} => WayBack(newcomer) = tailThread
    BY <1>3 DEF TailLags
  <2>5. QED BY <2>1, <2>2, <2>3, <2>4 DEF RingIsThreadList
<1>4. QED BY <1>2, <1>3

LEMMA RingHasShapeNext ==
    LinksOK' => (RingIsThreadList' <=>
                    /\ RingShape(InSystem', nextInSystem', WayBacks',
                                 headThread', LastInSystem')
                    /\ TailLags')
<1>1. (LinksOK => (RingIsThreadList <=>
           /\ RingShape(InSystem, nextInSystem, WayBacks, headThread, LastInSystem)
           /\ TailLags))'
  BY RingHasShape, PTL
<1>2. QED BY <1>1 DEF RingShape

LEMMA PlainRingNext ==
    LinksOK' /\ insertAt' = "none" =>
        /\ InSystem' = threadList' /\ WayBacks' = prevInSystem'
        /\ LastInSystem' = tailThread' /\ TailLags'
<1>1. (LinksOK /\ insertAt = "none" =>
          /\ InSystem = threadList /\ WayBacks = prevInSystem
          /\ LastInSystem = tailThread /\ TailLags)'
  BY PlainRing, PTL
<1>2. QED BY <1>1

-----------------------------------------------------------------------------
LEMMA InitIInv == Init => IInv
<1> SUFFICES ASSUME Init PROVE IInv
  OBVIOUS
<1>1. EmptyQueue.head = Null /\ EmptyQueue.tail = Null /\ Linked(EmptyQueue) = {}
  BY DEF EmptyQueue, Linked
<1>2. EmptyQueue \in Queue
  BY DEF EmptyQueue, Queue, Element
<1>3. TypeOK
  <2>1. /\ state \in [Tid -> {"Run", "Wait"}]
        /\ wakeOnExit \in [Tid -> ThreadOrNull] /\ child \in [Tid -> ThreadOrNull]
        /\ mode \in [Tid -> {"kernel", "user"}]
        /\ execResult \in [Tid -> {"none", "exited", "crashed"}]
        /\ exitInfo \in [Tid -> {"none", "exited", "crashed"}]
    BY DEF Init, ThreadOrNull
  <2>2. nextInSystem \in [Tid -> ThreadOrNull] /\ prevInSystem \in [Tid -> ThreadOrNull]
    BY NullIsNoTid DEF Init, ThreadOrNull
  <2>3. pc \in [Tid -> Pcs]
    BY DEF Init, Pcs
  <2>4. nextThreadId \in 2 .. MaxThreads /\ keys \in 0 .. MaxKeys
    BY ThreadsAssumption, KeysAssumption DEF Init
  <2>5. /\ headThread \in Tid /\ tailThread \in Tid /\ threadList \subseteq Tid
        /\ current \in Tid /\ waitingForKeyboard \in ThreadOrNull /\ walk \in ThreadOrNull
        /\ timeQueue \in Queue /\ newcomer \in ThreadOrNull
    BY <1>2, NullIsNoTid DEF Init, ThreadOrNull
  <2>6. /\ interrupts \in BOOLEAN /\ inTick \in BOOLEAN
        /\ phase \in {"run", "check", "scan", "off", "panic", "corrupt", "torn"}
        /\ insertAt \in {"none", "linking", "linked", "placed", "listing"}
        /\ newcomer = Null <=> insertAt = "none"
    BY DEF Init
  <2>7. QED BY <2>1, <2>2, <2>3, <2>4, <2>5, <2>6 DEF TypeOK
<1>4. RingInv
  <2>1. Idle # Boot /\ Idle < Boot /\ Idle <= Boot /\ Idle <= Idle /\ Boot <= Boot
        /\ ~ (Idle < Idle) /\ ~ (Boot < Boot) /\ ~ (Boot < Idle)
        /\ Idle < 2 /\ Boot < 2
    BY DEF Idle, Boot
  <2>2. RingShape(threadList, nextInSystem, prevInSystem, headThread, tailThread)
    BY <2>1, NullIsNoTid DEF Init, RingShape
  <2>3. LinksOK /\ insertAt = "none"
    BY <1>3, TypesOfLinks DEF Init
  <2>4. RingIsThreadList
    BY <2>2, <2>3, PlainRing, RingHasShape
  <2>5. QED BY <2>1, <2>4 DEF Init, RingInv
<1>5. CpuInv
  <2>1. Idle # Boot
    BY DEF Idle, Boot
  <2>2. QED BY <2>1, NullIsNoTid DEF Init, CpuInv, RunnerIsReady, InSystem
<1>6. UnbornInv /\ CallInv /\ InsertInv
  BY NullIsNoTid DEF Init, UnbornInv, CallInv, InsertInv, InCall, Idle, Boot, Tid
<1>7. WakersNameWaiters /\ GoodList(timeQueue)
  <2>1. InSystem \subseteq Tid
    BY <1>3, TypesOfLinks, InSystemIs
  <2>2. ExitWakesWaiter
    BY <2>1 DEF Init, ExitWakesWaiter
  <2>3. KeyWakesWaiter
    BY DEF Init, KeyWakesWaiter
  <2>4. TimeWakesSleeper /\ GoodList(timeQueue)
    BY <1>1 DEF Init, TimeWakesSleeper, GoodList
  <2>5. QED BY <2>2, <2>3, <2>4 DEF WakersNameWaiters
<1>8. QED BY <1>3, <1>4, <1>5, <1>6, <1>7 DEF IInv

(* insert_thread, in one step or in several, and remove_thread keep the    *)
(* ring.                                                                   *)
LEMMA InsertThreadLinks ==
    ASSUME IInv, InsertThread, nextThreadId < MaxThreads, insertAt = "none"
    PROVE  /\ LinksOK' /\ nextThreadId' \in 2 .. MaxThreads /\ RingIsThreadList'
           /\ InSystem = threadList /\ InSystem' = threadList'
           /\ threadList' = threadList \cup {nextThreadId}
           /\ nextThreadId' = nextThreadId + 1
           /\ nextThreadId \in Tid \ threadList
           /\ nextInSystem'[nextThreadId] = Null
<1> DEFINE t == nextThreadId
<1>1. TypeOK /\ RingInv /\ t \in Tid /\ Null \notin Tid /\ threadList \subseteq Tid /\ LinksOK
  BY NullIsNoTid, ThreadsAssumption, TypesOfLinks DEF IInv, TypeOK, Tid
<1>2. headThread # Null /\ tailThread # Null
  BY <1>1 DEF TypeOK
<1>3. /\ nextInSystem' = [nextInSystem EXCEPT ![t] = Null, ![tailThread] = t]
      /\ prevInSystem' = [prevInSystem EXCEPT ![t] = tailThread]
      /\ headThread' = headThread /\ tailThread' = t
      /\ threadList' = threadList \cup {t} /\ nextThreadId' = t + 1
      /\ UNCHANGED <<newcomer, insertAt>>
  BY <1>2 DEF InsertThread
<1>4. RingShape(threadList, nextInSystem, prevInSystem, headThread, tailThread)
      /\ InSystem = threadList
  BY <1>1, RingHasShape, PlainRing DEF RingInv
<1>5. \A u \in threadList : u < t
  BY <1>1 DEF RingInv
<1>6. RingShape(threadList', nextInSystem', prevInSystem', headThread', tailThread')
  BY <1>1, <1>3, <1>4, <1>5, InsertShape DEF TypeOK
<1>7. LinksOK'
  BY <1>1, <1>3 DEF LinksOK, ThreadOrNull
<1>8. nextThreadId' \in 2 .. MaxThreads
  BY <1>1, <1>3, ThreadsAssumption DEF TypeOK
<1>9. t \notin threadList /\ tailThread # t
  BY <1>1, <1>4, <1>5, NullIsNoTid DEF RingShape
<1>10. nextInSystem'[t] = Null
  BY <1>1, <1>3, <1>9 DEF TypeOK
<1>11. RingIsThreadList' /\ InSystem' = threadList'
  BY <1>3, <1>6, <1>7, PlainRingNext, RingHasShapeNext
<1>12. QED BY <1>1, <1>3, <1>4, <1>7, <1>8, <1>9, <1>10, <1>11

(* The call of system_tests, up to the read of tail_thread.                *)
LEMMA SpawnLinks ==
    ASSUME IInv, Spawn
    PROVE  /\ LinksOK' /\ nextThreadId' \in 2 .. MaxThreads /\ RingIsThreadList'
           /\ insertAt = "none" /\ InSystem = threadList /\ InSystem' = threadList
           /\ UNCHANGED threadList
           /\ nextThreadId' = nextThreadId + 1 /\ newcomer' = nextThreadId
           /\ nextThreadId \in Tid \ threadList
           /\ nextInSystem'[nextThreadId] = Null
<1> DEFINE t == nextThreadId
<1>1. /\ TypeOK /\ RingInv /\ InsertInv /\ t \in Tid /\ t \in Nat /\ Null \notin Tid
      /\ Boot \in Tid /\ threadList \subseteq Tid /\ LinksOK
  BY NullIsNoTid, ThreadsAssumption, TypesOfLinks DEF IInv, TypeOK, Tid, Spawn
<1>2. headThread # Null /\ pc[Boot] = "body"
  BY <1>1 DEF TypeOK, Spawn, At
<1>3. /\ nextInSystem' = [nextInSystem EXCEPT ![t] = Null]
      /\ prevInSystem' = [prevInSystem EXCEPT ![t] = Null]
      /\ nextThreadId' = t + 1 /\ newcomer' = t /\ insertAt' = "linking"
      /\ UNCHANGED <<headThread, tailThread, threadList>>
  BY <1>2 DEF Spawn
<1>4. insertAt = "none"
  BY <1>1, <1>2 DEF InsertInv
<1>5. RingShape(threadList, nextInSystem, prevInSystem, headThread, tailThread)
      /\ InSystem = threadList
  BY <1>1, <1>4, RingHasShape, PlainRing DEF RingInv
<1>6. t \notin threadList
  BY <1>1 DEF RingInv
<1>7. LinksOK' /\ nextInSystem'[t] = Null
  BY <1>1, <1>3 DEF LinksOK, ThreadOrNull
<1>8. nextThreadId' \in 2 .. MaxThreads
  BY <1>1, <1>3, ThreadsAssumption DEF TypeOK, Spawn
<1>9. InSystem' = threadList /\ LastInSystem' = tailThread' /\ TailLags'
  BY <1>3 DEF InSystem, LastInSystem, TailLags
<1>10. RingIsThreadList'
  <2>1. \A u \in threadList : WayBacks'[u] = prevInSystem[u]
                              /\ nextInSystem'[u] = nextInSystem[u]
    BY <1>1, <1>3, <1>6 DEF WayBacks, WayBack, TypeOK
  <2>2. RingShape(threadList, nextInSystem', WayBacks', headThread, tailThread)
    BY <1>5, <2>1 DEF RingShape
  <2>3. RingShape(InSystem', nextInSystem', WayBacks', headThread', LastInSystem')
    BY <1>3, <1>9, <2>2
  <2>4. QED BY <1>7, <1>9, <2>3, RingHasShapeNext
<1>11. QED BY <1>1, <1>3, <1>4, <1>5, <1>6, <1>7, <1>8, <1>9, <1>10

(* The four steps after that: only the first brings somebody new.          *)
LEMMA InsertStepLinks ==
    ASSUME IInv, InsertStep
    PROVE  /\ LinksOK' /\ RingIsThreadList' /\ UNCHANGED nextThreadId
           /\ insertAt # "none" /\ newcomer \in Tid \ threadList
           /\ \/ /\ insertAt = "linking" /\ UNCHANGED <<threadList, newcomer>>
                 /\ InSystem' = InSystem \cup {newcomer}
              \/ /\ insertAt \in {"linked", "placed"} /\ UNCHANGED <<threadList, newcomer>>
                 /\ InSystem' = InSystem
              \/ /\ insertAt = "listing" /\ threadList' = threadList \cup {newcomer}
                 /\ InSystem' = InSystem /\ InSystem' = threadList'
                 /\ newcomer' = Null /\ insertAt' = "none"
<1> DEFINE t == newcomer
           S == RingShape(InSystem', nextInSystem', WayBacks', headThread', LastInSystem')
<1>1. /\ LinksOK /\ InsertInv /\ Null \notin Tid /\ threadList \subseteq Tid
      /\ tailThread # Null /\ UNCHANGED <<nextThreadId, headThread>>
  BY NullIsNoTid, TypesOfLinks DEF IInv, TypeOK, LinksOK, InsertStep, LinkTail, Place,
                                   MoveTail, List
<1>2. insertAt # "none"
  BY DEF InsertStep, LinkTail, Place, MoveTail, List
<1>3. t \in Tid /\ t \in Nat /\ t \notin threadList /\ \A u \in threadList : u < t
  <2>1. t \in Tid
    BY <1>1, <1>2 DEF LinksOK, ThreadOrNull
  <2>2. QED BY <1>1, <1>2, <2>1, NullIsNoTid DEF InsertInv
<1>4. RingShape(InSystem, nextInSystem, WayBacks, headThread, LastInSystem) /\ TailLags
  BY <1>1, RingHasShape DEF IInv, RingInv
<1>5. CASE LinkTail
  <2>1. /\ insertAt = "linking" /\ insertAt' = "linked" /\ nextInSystem[t] = Null
        /\ nextInSystem' = [nextInSystem EXCEPT ![tailThread] = t]
        /\ UNCHANGED <<prevInSystem, tailThread, threadList, newcomer>>
    BY <1>1, <1>5 DEF LinkTail, InsertInv
  <2>2. InSystem = threadList /\ LastInSystem = tailThread /\ WayBacks = prevInSystem
    BY <1>1, <2>1 DEF InSystem, LastInSystem, WayBacks, WayBack, LinksOK
  <2>3. InSystem' = threadList \cup {t} /\ LastInSystem' = t /\ TailLags'
    BY <2>1 DEF InSystem, LastInSystem, TailLags, WayBack
  <2>4. WayBacks' = [prevInSystem EXCEPT ![t] = tailThread]
    BY <1>1, <1>3, <2>1 DEF WayBacks, WayBack, LinksOK
  <2>5. nextInSystem' = [nextInSystem EXCEPT ![t] = Null, ![tailThread] = t]
    BY <1>1, <1>3, <2>1 DEF LinksOK
  <2>6. S
    BY <1>1, <1>3, <1>4, <2>2, <2>3, <2>4, <2>5, InsertShape DEF LinksOK
  <2>7. LinksOK'
    BY <1>1, <1>3, <2>1 DEF LinksOK, ThreadOrNull
  <2>8. QED BY <1>1, <1>3, <2>1, <2>2, <2>3, <2>6, <2>7, RingHasShapeNext
<1>6. CASE Place
  <2>1. /\ insertAt = "linked" /\ insertAt' = "placed"
        /\ nextInSystem' = [nextInSystem EXCEPT ![t] = Null]
        /\ prevInSystem' = [prevInSystem EXCEPT ![t] = tailThread]
        /\ UNCHANGED <<tailThread, threadList, newcomer>>
    BY <1>6 DEF Place
  <2>2. InSystem = threadList \cup {t} /\ InSystem' = InSystem
        /\ LastInSystem = t /\ LastInSystem' = t
    BY <2>1 DEF InSystem, LastInSystem
  <2>3. WayBacks' = WayBacks
    BY <1>1, <1>3, <2>1 DEF WayBacks, WayBack, LinksOK
  <2>4. nextInSystem[t] = Null
    <3>1. nextInSystem[t] # Null => nextInSystem[t] \in InSystem /\ t < nextInSystem[t]
                                    /\ nextInSystem[t] <= t
      BY <1>4, <2>2 DEF RingShape
    <3>2. nextInSystem[t] \in InSystem => nextInSystem[t] \in Nat
      BY <1>1, InSystemIs, NullIsNoTid
    <3>3. QED BY <1>3, <3>1, <3>2
  <2>5. nextInSystem' = nextInSystem
    BY <1>1, <1>3, <2>1, <2>4 DEF LinksOK
  <2>6. TailLags'
    BY <1>1, <1>3, <2>1 DEF TailLags, WayBack, LinksOK
  <2>7. S
    BY <1>1, <1>4, <2>2, <2>3, <2>5
  <2>8. LinksOK'
    BY <1>1, <1>3, <2>1 DEF LinksOK, ThreadOrNull
  <2>9. QED BY <1>1, <1>3, <2>1, <2>2, <2>6, <2>7, <2>8, RingHasShapeNext
<1>7. CASE MoveTail
  <2>1. /\ insertAt = "placed" /\ insertAt' = "listing" /\ tailThread' = t
        /\ UNCHANGED <<nextInSystem, prevInSystem, threadList, newcomer>>
    BY <1>7 DEF MoveTail
  <2>2. InSystem' = InSystem /\ LastInSystem' = LastInSystem /\ WayBacks' = WayBacks
        /\ TailLags'
    BY <2>1 DEF InSystem, LastInSystem, WayBacks, WayBack, TailLags
  <2>3. S
    BY <1>1, <1>4, <2>1, <2>2
  <2>4. LinksOK'
    BY <1>1, <1>3, <2>1 DEF LinksOK, ThreadOrNull
  <2>5. QED BY <1>1, <1>3, <2>1, <2>2, <2>3, <2>4, RingHasShapeNext
<1>8. CASE List
  <2>1. /\ insertAt = "listing" /\ insertAt' = "none" /\ newcomer' = Null
        /\ threadList' = threadList \cup {t}
        /\ UNCHANGED <<nextInSystem, prevInSystem, tailThread>>
    BY <1>8 DEF List
  <2>2. InSystem' = InSystem /\ LastInSystem' = LastInSystem /\ WayBacks' = WayBacks
        /\ TailLags' /\ InSystem' = threadList'
    BY <2>1 DEF InSystem, LastInSystem, WayBacks, WayBack, TailLags
  <2>3. S
    BY <1>1, <1>4, <2>1, <2>2
  <2>4. LinksOK'
    BY <1>1, <1>3, <2>1 DEF LinksOK, ThreadOrNull
  <2>5. QED BY <1>1, <1>3, <2>1, <2>2, <2>3, <2>4, RingHasShapeNext
<1>9. QED BY <1>5, <1>6, <1>7, <1>8 DEF InsertStep

(* An exit that tears nothing; the pointer the removed thread is left with *)
(* leads back to the ring.                                                 *)
LEMMA RemoveThreadLinks ==
    ASSUME IInv, NEW t \in InSystem, t \notin {Idle, Boot}, RemoveThread(t), ~ Tears(t)
    PROVE  /\ LinksOK' /\ RingIsThreadList'
           /\ t \in threadList /\ t # newcomer /\ threadList' = threadList \ {t}
           /\ InSystem' = InSystem \ {t} /\ UNCHANGED <<newcomer, insertAt>>
           /\ nextInSystem'[t] \in InSystem' \cup {Null}
           /\ insertAt = "linking" => nextInSystem'[newcomer] = nextInSystem[newcomer]
<1> DEFINE n == nextInSystem[t]
           p == prevInSystem[t]
<1>1. /\ LinksOK /\ RingInv /\ threadList \subseteq Tid /\ t \in Tid /\ Null \notin Tid
      /\ InSystem \subseteq Tid /\ Idle \in InSystem /\ InSystem # {t}
      /\ WayBacks \in [Tid -> ThreadOrNull]
  BY NullIsNoTid, TypesOfLinks, InSystemIs DEF IInv, RingInv, LinksOK
<1>2. RingShape(InSystem, nextInSystem, WayBacks, headThread, LastInSystem) /\ TailLags
  BY <1>1, RingHasShape DEF RingInv
<1>3. /\ threadList' = threadList \ {t}
      /\ nextInSystem' = IF p = Null THEN nextInSystem ELSE [nextInSystem EXCEPT ![p] = n]
      /\ prevInSystem' = IF n = Null THEN prevInSystem ELSE [prevInSystem EXCEPT ![n] = p]
      /\ headThread' = IF headThread = t THEN n ELSE headThread
      /\ tailThread' = IF tailThread = t THEN p ELSE tailThread
      /\ UNCHANGED <<newcomer, insertAt>>
  BY DEF RemoveThread
<1>4. /\ insertAt # "listing" /\ t # newcomer
      /\ insertAt \in {"linking", "linked"} => t # tailThread
  <2>1. insertAt = "none" => t # newcomer
    BY <1>1 DEF LinksOK
  <2>2. QED BY <2>1 DEF Tears
<1>5. t \in threadList /\ InSystem' = InSystem \ {t}
  BY <1>3, <1>4 DEF InSystem
<1>6. WayBacks[t] = p
  BY <1>1, <1>4 DEF WayBacks, WayBack
(* The way back from a thread that tail_thread does not see yet.           *)
<1>7. ASSUME insertAt \in {"linked", "placed"}
      PROVE  /\ newcomer \in Tid /\ LastInSystem = newcomer
             /\ WayBacks[newcomer] = tailThread
             /\ n = newcomer <=> t = tailThread
  <2>1. newcomer \in Tid /\ LastInSystem = newcomer /\ WayBacks[newcomer] = tailThread
    BY <1>1, <1>2, <1>7 DEF LinksOK, ThreadOrNull, LastInSystem, TailLags, WayBacks
  <2>2. tailThread # Null
    BY <1>1 DEF LinksOK
  <2>3. QED BY <1>1, <1>2, <2>1, <2>2, BeforeLast
<1>8. WayBacks' = IF n = Null THEN WayBacks ELSE [WayBacks EXCEPT ![n] = p]
  <2>1. CASE insertAt # "linked"
    <3>1. WayBacks = prevInSystem
      BY <1>1, <2>1 DEF WayBacks, WayBack, LinksOK
    <3>2. WayBacks' = prevInSystem'
      BY <1>1, <1>3, <2>1 DEF WayBacks, WayBack, LinksOK
    <3>3. QED BY <1>3, <3>1, <3>2
  <2>2. CASE insertAt = "linked"
    <3>1. t # tailThread /\ n # newcomer /\ tailThread' = tailThread
      BY <1>3, <1>4, <1>7, <2>2
    <3>2. \A u \in Tid : WayBacks'[u] =
              IF u = newcomer THEN tailThread ELSE prevInSystem'[u]
      BY <1>3, <2>2, <3>1 DEF WayBacks, WayBack
    <3>3. \A u \in Tid : WayBacks[u] =
              IF u = newcomer THEN tailThread ELSE prevInSystem[u]
      BY <2>2 DEF WayBacks, WayBack
    <3>4. \A u \in Tid : WayBacks'[u] =
              IF n = Null THEN WayBacks[u] ELSE [WayBacks EXCEPT ![n] = p][u]
      BY <1>1, <1>3, <3>1, <3>2, <3>3 DEF LinksOK
    <3>5. DOMAIN WayBacks = Tid /\ DOMAIN WayBacks' = Tid
      BY DEF WayBacks
    <3>6. WayBacks' = [u \in Tid |-> WayBacks'[u]] /\ WayBacks = [u \in Tid |-> WayBacks[u]]
      BY DEF WayBacks
    <3>7. QED BY <1>1, <3>4, <3>6
  <2>3. QED BY <2>1, <2>2
<1>9. LastInSystem' = IF LastInSystem = t THEN p ELSE LastInSystem
  BY <1>3, <1>4 DEF LastInSystem
<1>10. TailLags'
  <2>1. CASE insertAt = "linked"
    BY <1>3, <2>1 DEF TailLags, WayBack
  <2>2. CASE insertAt = "placed"
    <3>1. prevInSystem[newcomer] = tailThread /\ newcomer \in Tid
      BY <1>7, <2>2 DEF WayBacks, WayBack
    <3>2. prevInSystem'[newcomer] = tailThread'
      <4>1. CASE t = tailThread
        BY <1>1, <1>3, <1>7, <2>2, <3>1, <4>1 DEF LinksOK
      <4>2. CASE t # tailThread
        BY <1>1, <1>3, <1>7, <2>2, <3>1, <4>2 DEF LinksOK
      <4>3. QED BY <4>1, <4>2
    <3>3. QED BY <1>3, <2>2, <3>2 DEF TailLags, WayBack
  <2>3. QED BY <1>3, <2>1, <2>2 DEF TailLags
<1>11. RingShape(InSystem', nextInSystem', WayBacks', headThread', LastInSystem')
  <2>1. /\ InSystem \in SUBSET Tid
        /\ nextInSystem \in [Tid -> ThreadOrNull]
    BY <1>1 DEF LinksOK
  <2>2. RingShape(InSystem \ {t},
                  IF WayBacks[t] = Null THEN nextInSystem
                  ELSE [nextInSystem EXCEPT ![WayBacks[t]] = nextInSystem[t]],
                  IF nextInSystem[t] = Null THEN WayBacks
                  ELSE [WayBacks EXCEPT ![nextInSystem[t]] = WayBacks[t]],
                  IF headThread = t THEN nextInSystem[t] ELSE headThread,
                  IF LastInSystem = t THEN WayBacks[t] ELSE LastInSystem)
    BY <1>1, <1>2, <2>1, RemoveShape
  <2>3. QED BY <1>3, <1>5, <1>6, <1>8, <1>9, <2>2
<1>12. LinksOK'
  <2>1. headThread' \in Tid
    BY <1>1, <1>5, <1>11 DEF RingShape
  <2>2. tailThread' \in Tid
    <3>1. CASE insertAt \in {"linked", "placed"}
      <4>1. tailThread' = WayBacks'[newcomer] /\ newcomer \in Tid /\ newcomer \in InSystem'
            /\ LastInSystem' = newcomer
        BY <1>3, <1>4, <1>7, <1>9, <1>10, <1>11, <3>1
           DEF TailLags, WayBacks, RingShape
      <4>2. \E u \in InSystem' : u < newcomer
        <5>1. Idle \in threadList' /\ Idle \in threadList
          BY <1>1, <1>3 DEF RingInv
        <5>2. Idle \in InSystem' /\ Idle < newcomer
          BY <1>3, <3>1, <5>1 DEF InSystem, IInv, InsertInv
        <5>3. QED BY <5>2
      <4>3. WayBacks'[newcomer] # Null
        <5>1. ASSUME NEW u \in InSystem', u < newcomer PROVE ~ (newcomer <= u)
          <6>1. u \in Nat /\ newcomer \in Nat
            BY <1>1, <1>5, <4>1, NullIsNoTid
          <6>2. QED BY <5>1, <6>1
        <5>2. QED BY <1>11, <4>1, <4>2, <5>1 DEF RingShape
      <4>4. QED BY <1>1, <1>5, <1>11, <4>1, <4>3 DEF RingShape
    <3>2. CASE insertAt \notin {"linked", "placed"}
      <4>1. LastInSystem' = tailThread'
        BY <1>3, <3>2 DEF LastInSystem
      <4>2. QED BY <1>1, <1>5, <1>11, <4>1 DEF RingShape
    <3>3. QED BY <3>1, <3>2
  <2>3. n \in ThreadOrNull /\ p \in ThreadOrNull
    BY <1>1 DEF LinksOK
  <2>4. nextInSystem' \in [Tid -> ThreadOrNull] /\ prevInSystem' \in [Tid -> ThreadOrNull]
    BY <1>1, <1>3, <2>3 DEF LinksOK
  <2>5. QED BY <1>1, <1>3, <2>1, <2>2, <2>4 DEF LinksOK
<1>13. nextInSystem'[t] \in InSystem' \cup {Null}
  <2>1. p # t /\ n # t /\ n \in InSystem \cup {Null}
    BY <1>1, <1>2, <1>6, NullIsNoTid DEF RingShape
  <2>2. nextInSystem'[t] = n
    BY <1>1, <1>3, <2>1 DEF LinksOK
  <2>3. QED BY <1>5, <2>1, <2>2
<1>14. ASSUME insertAt = "linking"
       PROVE  nextInSystem'[newcomer] = nextInSystem[newcomer]
  <2>1. newcomer \notin InSystem /\ newcomer # Null
    <3>1. InSystem = threadList /\ newcomer \in Tid
      BY <1>1, <1>14 DEF InSystem, LinksOK, ThreadOrNull
    <3>2. newcomer \notin threadList
      BY <1>14, <3>1, NullIsNoTid DEF IInv, InsertInv
    <3>3. QED BY <1>1, <3>1, <3>2
  <2>2. p \in InSystem \cup {Null}
    BY <1>2, <1>6 DEF RingShape
  <2>3. QED BY <1>1, <1>3, <2>1, <2>2 DEF LinksOK
<1>15. QED BY <1>3, <1>4, <1>5, <1>10, <1>11, <1>12, <1>13, <1>14, RingHasShapeNext

(* What the steps of an insertion and an exit do.                          *)
LEMMA InsertStepDoes ==
    ASSUME IInv, InsertStep
    PROVE  /\ current = Boot /\ phase = "run" /\ pc[Boot] = "inserting" /\ Boot \in Tid
           /\ child[Boot] = Null /\ \A t \in Tid : mode[t] = "kernel"
           /\ UNCHANGED <<state, wakeOnExit, mode, child, nextThreadId, current,
                          execResult, exitInfo, waitingForKeyboard, timeQueue, keys, cpu>>
           /\ \/ pc' = pc /\ insertAt' \in {"linked", "placed", "listing"}
              \/ pc' = [pc EXCEPT ![Boot] = "body"] /\ insertAt' = "none"
<1>1. /\ current \in Tid /\ phase = "run" /\ pc[current] = "inserting" /\ Boot \in Tid
      /\ InsertInv
  BY NullIsNoTid DEF InsertStep, At, IInv, TypeOK
<1>2. current = Boot /\ child[Boot] = Null
  BY <1>1 DEF InsertInv, InCall
<1>3. \A t \in Tid : mode[t] = "kernel"
  BY <1>1, <1>2 DEF InsertInv
<1>4. QED BY <1>1, <1>2, <1>3 DEF InsertStep, LinkTail, Place, MoveTail, List

LEMMA SpawnDoes ==
    ASSUME IInv, Spawn
    PROVE  /\ nextThreadId \in Tid \ threadList /\ nextThreadId \notin {Idle, Boot}
           /\ nextThreadId' = nextThreadId + 1 /\ nextThreadId \in Nat
           /\ current = Boot /\ phase = "run" /\ pc[Boot] = "body" /\ Boot \in Tid
           /\ child[Boot] = Null /\ \A t \in Tid : mode[t] = "kernel"
           /\ newcomer = Null /\ newcomer' = nextThreadId
           /\ insertAt = "none" /\ insertAt' = "linking" /\ KernelThreads
           /\ pc' = [pc EXCEPT ![Boot] = "inserting"]
           /\ UNCHANGED <<threadList, state, wakeOnExit, mode, child, current, execResult,
                          exitInfo, waitingForKeyboard, timeQueue, keys, cpu>>
<1>1. /\ nextThreadId \in Tid \ threadList /\ nextThreadId \in Nat
      /\ nextThreadId' = nextThreadId + 1 /\ newcomer' = nextThreadId
      /\ insertAt = "none" /\ UNCHANGED threadList
  BY SpawnLinks, NullIsNoTid
<1>2. /\ current = Boot /\ phase = "run" /\ pc[Boot] = "body" /\ Boot \in Tid
      /\ newcomer = Null /\ InsertInv /\ {Idle, Boot} \subseteq threadList
  BY <1>1, NullIsNoTid DEF Spawn, At, IInv, TypeOK, RingInv
<1>3. child[Boot] = Null
  BY <1>2 DEF InsertInv, InCall
<1>4. \A t \in Tid : mode[t] = "kernel"
  BY <1>2, <1>3 DEF InsertInv
<1>5. QED BY <1>1, <1>2, <1>3, <1>4 DEF Spawn

LEMMA ExitDoes ==
    ASSUME IInv, NEW how \in {"exited", "crashed"}, Exit(how)
    PROVE  /\ current \in threadList \ {Idle, Boot} /\ pc[current] = "body"
           /\ phase = "run" /\ current # newcomer
           /\ RemoveThread(current) /\ ~ Tears(current)
           /\ threadList' = threadList \ {current} /\ InSystem' = InSystem \ {current}
           /\ nextInSystem'[current] \in InSystem' \cup {Null}
           /\ exitInfo' = IF mode[current] = "user"
                          THEN [exitInfo EXCEPT ![current] = how] ELSE exitInfo
           /\ pc' = [pc EXCEPT ![current] = "dead"]
           /\ state' = IF wakeOnExit[current] = Null THEN state
                       ELSE [state EXCEPT ![wakeOnExit[current]] = "Run"]
           /\ UNCHANGED <<wakeOnExit, mode, child, nextThreadId, execResult, newcomer, insertAt>>
<1>1. /\ current \in InSystem \ {Idle, Boot} /\ RemoveThread(current) /\ ~ Tears(current)
      /\ pc[current] = "body" /\ phase = "run"
  BY DEF Exit, At, IInv, CpuInv, RunnerIsReady
<1>2. /\ current \in threadList /\ current # newcomer /\ UNCHANGED <<newcomer, insertAt>>
      /\ threadList' = threadList \ {current} /\ InSystem' = InSystem \ {current}
      /\ nextInSystem'[current] \in InSystem' \cup {Null}
  BY <1>1, RemoveThreadLinks
<1>3. QED BY <1>1, <1>2 DEF Exit

(* exec inserts no thread while the boot thread does.                      *)
LEMMA ExecInsertsAlone ==
    ASSUME IInv, Exec
    PROVE  /\ InsertThread /\ nextThreadId < MaxThreads /\ insertAt = "none"
           /\ newcomer = Null /\ newcomer' = Null /\ insertAt' = "none"
<1>1. /\ InsertInv /\ pc[current] = "body" /\ current \in Tid /\ Boot \in Tid
      /\ mode[current] = "user" \/ current = Boot
      /\ InsertThread /\ nextThreadId < MaxThreads
  BY NullIsNoTid DEF Exec, At, IInv, TypeOK
<1>2. insertAt = "none"
  <2>1. SUFFICES ASSUME insertAt # "none" PROVE FALSE
    OBVIOUS
  <2>2. pc[Boot] = "inserting" /\ child[Boot] = Null
    BY <1>1, <2>1 DEF InsertInv, InCall
  <2>3. QED BY <1>1, <2>2 DEF InsertInv
<1>3. newcomer = Null
  BY <1>2 DEF IInv, TypeOK
<1>4. QED BY <1>1, <1>2, <1>3 DEF InsertThread

-----------------------------------------------------------------------------
(* A blocked thread is left alone by everything but what wakes it: the CPU *)
(* only ever belongs to threads in state Run.                              *)
BlockedIn == {"waiting", "joining", "keywait", "sleeping"}

LEMMA BlockedStays ==
    ASSUME IInv, Next, NEW t \in Tid, state[t] = "Wait", pc[t] \in BlockedIn
    PROVE  \/ state'[t] = "Wait" /\ pc'[t] = pc[t]
           \/ Key /\ t = waitingForKeyboard
           \/ wakeOnExit[current] = t /\ \E how \in {"exited", "crashed"} : Exit(how)
           \/ CheckTimeQueue /\ HeadDue(timeQueue) /\ t = DueTid(timeQueue)
<1>1. /\ state \in [Tid -> {"Run", "Wait"}] /\ pc \in [Tid -> Pcs] /\ current \in Tid
      /\ phase = "run" => state[current] = "Run" /\ current # t
      /\ t # Idle /\ t # nextThreadId
  BY DEF IInv, TypeOK, CpuInv, RunnerIsReady, CallInv, UnbornInv, BlockedIn
<1> DEFINE Same == state'[t] = "Wait" /\ pc'[t] = pc[t]
<1>2. CASE Tick \/ Advance \/ Tear \/ Collect \/ Shutdown
  <2>1. CASE Tick \/ Advance \/ Tear
    BY <2>1 DEF Tick, Advance, Tear
  <2>2. CASE Collect \/ Shutdown
    BY <1>1, <2>2 DEF Collect, Shutdown, At
  <2>3. QED BY <1>2, <2>1, <2>2
<1>3. CASE Key
  <2>1. UNCHANGED pc
    BY <1>3 DEF Key
  <2>2. CASE waitingForKeyboard = t
    BY <1>3, <2>2
  <2>3. CASE waitingForKeyboard # t
    BY <1>1, <1>3, <2>1, <2>3 DEF Key
  <2>4. QED BY <2>2, <2>3
<1>4. CASE Yield \/ Exec \/ WaitForProcess \/ WaitForKeyboard
  <2>1. CASE Yield
    BY <1>1, <2>1 DEF Yield, At
  <2>2. CASE Exec
    BY <1>1, <2>2 DEF Exec, At
  <2>3. CASE WaitForProcess
    BY <1>1, <2>3 DEF WaitForProcess, At, Blocks
  <2>4. CASE WaitForKeyboard
    BY <1>1, <2>4 DEF WaitForKeyboard, At, Blocks
  <2>5. QED BY <1>4, <2>1, <2>2, <2>3, <2>4
<1>5. ASSUME NEW nap \in Naps, Sleep(nap) PROVE Same
  BY <1>1, <1>5 DEF Sleep, At, Blocks
<1>6. ASSUME NEW how \in {"exited", "crashed"}, Exit(how)
      PROVE  Same \/ wakeOnExit[current] = t
  BY <1>1, <1>6 DEF Exit, At
<1>7. CASE Spawn \/ InsertStep
  BY <1>1, <1>7, SpawnDoes, InsertStepDoes
<1>8. ASSUME NEW u \in Tid, WaitForThread(u) PROVE Same
  BY <1>1, <1>8 DEF WaitForThread, At, Blocks
<1>9. ASSUME NEW blocking \in BOOLEAN, GetKey(blocking) PROVE Same
  BY <1>1, <1>9 DEF GetKey, At
<1>10. CASE CheckTimeQueue
  <2>1. CASE HeadDue(timeQueue) /\ DueTid(timeQueue) = t
    BY <1>10, <2>1
  <2>2. CASE ~ (HeadDue(timeQueue) /\ DueTid(timeQueue) = t)
    BY <1>1, <1>10, <2>2 DEF CheckTimeQueue, SwitchTo
  <2>3. QED BY <2>1, <2>2
<1>11. CASE Scan
  <2>1. CASE Pass
    BY <2>1 DEF Pass
  <2>2. CASE Choose
    BY <1>1, <2>2 DEF Choose, SwitchTo
  <2>3. CASE ChooseIdle
    BY <1>1, <2>3 DEF ChooseIdle, SwitchTo
  <2>4. CASE StayOnCpu
    BY <1>1, <2>4 DEF StayOnCpu
  <2>5. QED BY <1>11, <2>1, <2>2, <2>3, <2>4 DEF Scan
<1>12. QED
  BY <1>2, <1>3, <1>4, <1>5, <1>6, <1>7, <1>8, <1>9, <1>10, <1>11 DEF Next

(* No other step than these starts or ends a sleep.                        *)
LEMMA QueueChangers ==
    ASSUME Next
    PROVE  \/ UNCHANGED timeQueue
           \/ \E nap \in Naps : Sleep(nap) /\ ~ QueueFull(timeQueue)
           \/ CheckTimeQueue /\ HeadDue(timeQueue)
           \/ Advance
<1>1. CASE Tick \/ Key \/ Yield \/ Exec \/ WaitForProcess \/ Collect \/ Shutdown
           \/ Spawn \/ InsertStep \/ Tear \/ WaitForKeyboard \/ Scan
  BY <1>1 DEF Tick, Key, Yield, Exec, WaitForProcess, Collect, Shutdown, Spawn,
              InsertStep, Tear, WaitForKeyboard, Scan
<1>2. ASSUME NEW nap \in Naps, Sleep(nap)
      PROVE  UNCHANGED timeQueue \/ ~ QueueFull(timeQueue)
  BY <1>2 DEF Sleep
<1>3. ASSUME NEW how \in {"exited", "crashed"}, Exit(how) PROVE UNCHANGED timeQueue
  BY <1>3 DEF Exit
<1>4. ASSUME NEW u \in Tid, WaitForThread(u) PROVE UNCHANGED timeQueue
  BY <1>4 DEF WaitForThread
<1>5. ASSUME NEW blocking \in BOOLEAN, GetKey(blocking) PROVE UNCHANGED timeQueue
  BY <1>5 DEF GetKey
<1>6. CASE CheckTimeQueue
  BY <1>6 DEF CheckTimeQueue
<1>7. QED BY <1>1, <1>2, <1>3, <1>4, <1>5, <1>6 DEF Next

(* Only an exit removes a thread, and only the current one.                *)
LEMMA ListChangers ==
    ASSUME IInv, Next
    PROVE  \/ UNCHANGED ring /\ UNCHANGED nextThreadId
           \/ Exec \/ Spawn \/ InsertStep
           \/ \E how \in {"exited", "crashed"} : Exit(how)
<1>1. CASE Tick \/ Key \/ Advance \/ Tear \/ Yield \/ WaitForProcess \/ Collect \/ Shutdown
           \/ WaitForKeyboard \/ CheckTimeQueue \/ Scan
  BY <1>1 DEF Tick, Key, Advance, Tear, Yield, WaitForProcess, Collect, Shutdown,
              WaitForKeyboard, CheckTimeQueue, Scan
<1>3. ASSUME NEW nap \in Naps, Sleep(nap) PROVE UNCHANGED ring /\ UNCHANGED nextThreadId
  BY <1>3 DEF Sleep
<1>5. ASSUME NEW u \in Tid, WaitForThread(u) PROVE UNCHANGED ring /\ UNCHANGED nextThreadId
  BY <1>5 DEF WaitForThread
<1>6. ASSUME NEW blocking \in BOOLEAN, GetKey(blocking)
      PROVE  UNCHANGED ring /\ UNCHANGED nextThreadId
  BY <1>6 DEF GetKey
<1>7. QED BY <1>1, <1>3, <1>5, <1>6 DEF Next

(* Who comes to the ring was never on the CPU and is waited for by nobody. *)
LEMMA Joiners ==
    ASSUME IInv, Next, NEW u \in InSystem', u \notin InSystem
    PROVE  u \in Tid /\ state[u] = "Run" /\ wakeOnExit[u] = Null /\ UNCHANGED wakeOnExit
<1>1. CASE UNCHANGED ring
  BY <1>1 DEF ring, InSystem
<1>2. CASE Exec
  <2>1. u = nextThreadId /\ nextThreadId \in Tid
    BY <1>2, ExecInsertsAlone, InsertThreadLinks
  <2>2. QED BY <1>2, <2>1, NullIsNoTid DEF Exec, IInv, UnbornInv
<1>3. CASE Spawn
  BY <1>3, SpawnLinks
<1>4. CASE InsertStep
  <2>1. insertAt = "linking" /\ u = newcomer /\ newcomer \in Tid
    BY <1>4, InsertStepLinks
  <2>2. QED BY <1>4, <2>1, InsertStepDoes DEF IInv, UnbornInv
<1>5. ASSUME NEW how \in {"exited", "crashed"}, Exit(how) PROVE FALSE
  BY <1>5, ExitDoes
<1>6. QED BY <1>1, <1>2, <1>3, <1>4, <1>5, ListChangers

(* Only an exit takes a thread off the ring, and only the current one.     *)
LEMMA Leavers ==
    ASSUME IInv, Next, NEW u \in InSystem, u \notin InSystem'
    PROVE  u = current /\ phase = "run" /\ \E how \in {"exited", "crashed"} : Exit(how)
<1>1. CASE UNCHANGED ring
  BY <1>1 DEF ring, InSystem
<1>2. CASE Exec
  BY <1>2, ExecInsertsAlone, InsertThreadLinks
<1>3. CASE Spawn \/ InsertStep
  BY <1>3, SpawnLinks, InsertStepLinks
<1>4. ASSUME NEW how \in {"exited", "crashed"}, Exit(how)
      PROVE  u = current /\ phase = "run"
  BY <1>4, ExitDoes
<1>5. QED BY <1>1, <1>2, <1>3, <1>4, ListChangers

(* A blocked thread stays on the ring, for only running threads exit.      *)
LEMMA BlockedStaysListed ==
    ASSUME IInv, Next, NEW t \in InSystem, state[t] = "Wait"
    PROVE  t \in InSystem'
BY Leavers DEF IInv, CpuInv, RunnerIsReady

LEMMA QueueStep ==
    ASSUME IInv, Next
    PROVE  timeQueue' \in Queue /\ GoodList(timeQueue') /\ TimeWakesSleeper'
<1> DEFINE el == timeQueue.elements
<1>1. /\ timeQueue \in Queue /\ GoodList(timeQueue) /\ TimeWakesSleeper
      /\ InSystem \subseteq Tid
      /\ state \in [Tid -> {"Run", "Wait"}] /\ pc \in [Tid -> Pcs] /\ current \in Tid
  BY TypesOfLinks, InSystemIs DEF IInv, TypeOK, WakersNameWaiters
(* What is on the list stays asleep unless check takes it off.             *)
<1>2. ASSUME NEW i \in Linked(timeQueue)
      PROVE  \/ /\ el[i].tid \in InSystem' /\ state'[el[i].tid] = "Wait"
                /\ pc'[el[i].tid] = "sleeping"
             \/ CheckTimeQueue /\ HeadDue(timeQueue) /\ el[i].tid = DueTid(timeQueue)
  <2>1. el[i].tid \in InSystem /\ state[el[i].tid] = "Wait" /\ pc[el[i].tid] = "sleeping"
    BY <1>1 DEF TimeWakesSleeper
  <2>2. el[i].tid \in InSystem'
    BY <2>1, BlockedStaysListed
  <2>3. ~ (waitingForKeyboard = el[i].tid) \/ waitingForKeyboard = Null
    BY <2>1 DEF IInv, WakersNameWaiters, KeyWakesWaiter
  <2>4. ASSUME NEW how \in {"exited", "crashed"}, Exit(how)
        PROVE  wakeOnExit[current] # el[i].tid
    <3>1. current \in InSystem
      BY <2>4 DEF Exit, At, IInv, CpuInv, RunnerIsReady
    <3>2. el[i].tid # Null
      BY <1>1, <2>1, NullIsNoTid
    <3>3. QED BY <2>1, <3>1, <3>2 DEF IInv, WakersNameWaiters, ExitWakesWaiter
  <2>5. el[i].tid # Null /\ el[i].tid \in Tid
    BY <1>1, <2>1, NullIsNoTid
  <2>6. QED BY <2>1, <2>2, <2>3, <2>4, <2>5, BlockedStays DEF BlockedIn
<1>3. CASE UNCHANGED timeQueue
  <2>1. \A i \in Linked(timeQueue) : ~ (CheckTimeQueue /\ HeadDue(timeQueue))
    <3>1. ASSUME CheckTimeQueue, HeadDue(timeQueue) PROVE FALSE
      <4>1. timeQueue' = HeadRemoved(timeQueue)
        BY <3>1 DEF CheckTimeQueue
      <4>2. timeQueue.head # Null /\ timeQueue.head \in Linked(timeQueue)
        BY <1>1, <3>1, LinkedClosed DEF HeadDue
      <4>3. Linked(timeQueue') \subseteq Linked(timeQueue) \ {timeQueue.head}
        BY <1>1, <4>1, <4>2, RemovedGood
      <4>4. QED BY <1>3, <4>2, <4>3
    <3>2. QED BY <3>1
  <2>2. QED BY <1>1, <1>2, <1>3, <2>1 DEF TimeWakesSleeper, Linked, WalkFrom
<1>4. ASSUME NEW nap \in Naps, Sleep(nap), ~ QueueFull(timeQueue)
      PROVE  timeQueue' \in Queue /\ GoodList(timeQueue') /\ TimeWakesSleeper'
  <2> DEFINE r == Inserted(timeQueue, current, nap)
  <2>1. /\ timeQueue' = r /\ UNCHANGED InSystem /\ phase = "run" /\ pc[current] = "body"
        /\ state'[current] = "Wait" /\ pc'[current] = "sleeping" /\ phase' = "check"
    BY <1>1, <1>4 DEF Sleep, At, Blocks, CallNext, ring, InSystem
  <2>2. current \in InSystem /\ current \in Sleeper /\ nap \in Nat
    BY <1>1, <2>1, SleeperAssumption, NapsAssumption DEF IInv, CpuInv, RunnerIsReady
  <2>3. \A i \in Linked(timeQueue) : el[i].tid # current
    BY <1>1, <2>1 DEF TimeWakesSleeper
  <2>4. /\ r \in Queue /\ GoodList(r)
        /\ \E e \in Slot :
             /\ Linked(r) \subseteq Linked(timeQueue) \cup {e}
             /\ r.elements[e].tid = current
             /\ \A i \in Linked(timeQueue) : r.elements[i].tid = el[i].tid
    BY <1>1, <1>4, <2>2, <2>3, InsertedGood
  <2>5. ~ CheckTimeQueue
    BY <2>1 DEF CheckTimeQueue
  <2> HIDE DEF r
  <2>6. \A i \in Linked(r) : /\ r.elements[i].tid \in InSystem'
                             /\ state'[r.elements[i].tid] = "Wait"
                             /\ pc'[r.elements[i].tid] = "sleeping"
    BY <1>2, <2>1, <2>2, <2>4, <2>5
  <2>7. QED BY <2>1, <2>4, <2>6 DEF TimeWakesSleeper, Linked, WalkFrom
<1>5. CASE CheckTimeQueue /\ HeadDue(timeQueue)
  <2> DEFINE r == HeadRemoved(timeQueue)
             h == timeQueue.head
  <2>1. timeQueue' = r /\ h # Null /\ h \in Linked(timeQueue)
    BY <1>1, <1>5, LinkedClosed DEF CheckTimeQueue, HeadDue
  <2>2. /\ r \in Queue /\ GoodList(r)
        /\ Linked(r) \subseteq Linked(timeQueue) \ {h}
        /\ \A i \in Linked(r) : r.elements[i].tid = el[i].tid
    BY <1>1, <2>1, RemovedGood
  <2> HIDE DEF r
  <2>3. \A i \in Linked(r) : el[i].tid # DueTid(timeQueue)
    BY <1>1, <2>1, <2>2 DEF DueTid, GoodList
  <2>4. \A i \in Linked(r) : /\ r.elements[i].tid \in InSystem'
                             /\ state'[r.elements[i].tid] = "Wait"
                             /\ pc'[r.elements[i].tid] = "sleeping"
    BY <1>2, <2>2, <2>3
  <2>5. QED BY <2>1, <2>2, <2>4 DEF TimeWakesSleeper, Linked, WalkFrom
<1>6. CASE Advance
  <2> DEFINE r == Aged(timeQueue)
  <2>1. timeQueue' = r
    BY <1>6 DEF Advance
  <2>2. /\ r \in Queue /\ GoodList(r) /\ Linked(r) = Linked(timeQueue)
        /\ \A i \in Linked(timeQueue) : r.elements[i].tid = el[i].tid
    BY <1>1, AgedGood
  <2> HIDE DEF r
  <2>3. UNCHANGED <<InSystem, state, pc>>
    BY <1>6 DEF Advance, ring, InSystem
  <2>4. QED BY <1>1, <2>1, <2>2, <2>3 DEF TimeWakesSleeper, Linked, WalkFrom
<1>7. QED BY <1>3, <1>4, <1>5, <1>6, QueueChangers

LEMMA LinksStay ==
    ASSUME IInv, Next
    PROVE  LinksOK' /\ nextThreadId' \in 2 .. MaxThreads
<1>1. LinksOK /\ nextThreadId \in 2 .. MaxThreads
  BY DEF IInv, TypeOK, LinksOK
<1>2. CASE UNCHANGED ring /\ UNCHANGED nextThreadId
  BY <1>1, <1>2 DEF ring, LinksOK
<1>3. CASE Exec
  BY <1>3, ExecInsertsAlone, InsertThreadLinks
<1>4. CASE Spawn \/ InsertStep
  BY <1>1, <1>4, SpawnLinks, InsertStepLinks
<1>5. ASSUME NEW how \in {"exited", "crashed"}, Exit(how)
      PROVE  LinksOK' /\ UNCHANGED nextThreadId
  BY <1>5, ExitDoes, RemoveThreadLinks, InSystemIs, TypesOfLinks DEF IInv
<1>6. QED BY <1>1, <1>2, <1>3, <1>4, <1>5, ListChangers

(* The types of the threads' own fields and of the CPU.                    *)
FieldsOK ==
    /\ state \in [Tid -> {"Run", "Wait"}] /\ wakeOnExit \in [Tid -> ThreadOrNull]
    /\ mode \in [Tid -> {"kernel", "user"}] /\ pc \in [Tid -> Pcs]
    /\ child \in [Tid -> ThreadOrNull]
    /\ execResult \in [Tid -> {"none", "exited", "crashed"}]
    /\ exitInfo \in [Tid -> {"none", "exited", "crashed"}]
    /\ current \in Tid /\ waitingForKeyboard \in ThreadOrNull /\ keys \in 0 .. MaxKeys
    /\ interrupts \in BOOLEAN /\ inTick \in BOOLEAN
    /\ phase \in {"run", "check", "scan", "off", "panic", "corrupt", "torn"}
    /\ walk \in ThreadOrNull

LEMMA ResumedIsPc == \A p \in Pcs : Resumed(p) \in Pcs
BY DEF Resumed, Pcs, Yields

LEMMA NextFromListed ==
    ASSUME IInv, phase = "scan"
    PROVE  NextFrom(walk) \in InSystem
<1>1. headThread \in InSystem
  BY DEF IInv, RingInv, RingIsThreadList
<1>2. nextInSystem[walk] \in InSystem \cup {Null}
  <2>1. RingShape(InSystem, nextInSystem, WayBacks, headThread, LastInSystem)
    BY RingHasShape, TypesOfLinks DEF IInv, RingInv
  <2>2. CASE walk \in InSystem
    BY <2>1, <2>2 DEF RingShape
  <2>3. CASE walk = current
    BY <2>3 DEF IInv, CpuInv
  <2>4. QED BY <2>2, <2>3 DEF IInv, CpuInv
<1>3. QED BY <1>1, <1>2 DEF NextFrom

LEMMA FieldsStay ==
    ASSUME IInv, Next
    PROVE  FieldsOK'
<1>1. /\ FieldsOK /\ threadList \subseteq Tid /\ Tid \subseteq ThreadOrNull
      /\ InSystem \subseteq Tid
  BY TypesOfLinks, InSystemIs DEF IInv, TypeOK, FieldsOK, ThreadOrNull
<1>2. CASE Tick \/ Advance \/ Tear \/ Spawn \/ InsertStep
  <2>1. CASE Tick \/ Advance
    BY <1>1, <2>1 DEF Tick, Advance, FieldsOK, cpu
  <2>2. CASE Tear
    BY <1>1, <2>2 DEF Tear, StopsWith, FieldsOK
  <2>3. CASE Spawn
    <3>1. pc' \in [Tid -> Pcs]
      BY <1>1, <2>3, SpawnDoes DEF FieldsOK, Pcs
    <3>2. QED BY <1>1, <2>3, <3>1 DEF Spawn, FieldsOK, cpu
  <2>4. CASE InsertStep
    <3>1. pc' \in [Tid -> Pcs]
      BY <1>1, <2>4, InsertStepDoes DEF FieldsOK, Pcs
    <3>2. QED BY <1>1, <2>4, <3>1 DEF InsertStep, FieldsOK, cpu
  <2>5. QED BY <1>2, <2>1, <2>2, <2>3, <2>4
<1>3. CASE Key
  <2>1. state' \in [Tid -> {"Run", "Wait"}]
    BY <1>1, <1>3 DEF Key, FieldsOK
  <2>2. keys' \in 0 .. MaxKeys
    BY <1>1, <1>3, KeysAssumption DEF Key, FieldsOK
  <2>3. QED BY <1>1, <1>3, <2>1, <2>2 DEF Key, FieldsOK, cpu, ThreadOrNull
<1>4. CASE Yield
  BY <1>1, <1>4 DEF Yield, CallNext, FieldsOK, Pcs, Yields
<1>5. CASE Exec
  <2>1. nextThreadId \in Tid
    BY <1>5, ExecInsertsAlone, InsertThreadLinks
  <2>2. QED BY <1>1, <1>5, <2>1 DEF Exec, KeepsRunning, FieldsOK, Pcs
<1>6. CASE WaitForProcess
  <2>1. CASE child[current] \notin threadList
    BY <1>1, <1>6, <2>1 DEF WaitForProcess, KeepsRunning, FieldsOK, Pcs
  <2>2. CASE child[current] \in threadList /\ wakeOnExit[child[current]] # Null
    BY <1>1, <1>6, <2>2 DEF WaitForProcess, StopsWith, FieldsOK
  <2>3. CASE child[current] \in threadList /\ wakeOnExit[child[current]] = Null
    <3>1. /\ wakeOnExit' = [wakeOnExit EXCEPT ![child[current]] = current]
          /\ state' = [state EXCEPT ![current] = "Wait"]
          /\ pc' = [pc EXCEPT ![current] = "waiting"]
          /\ phase' = "check" /\ interrupts' = FALSE /\ UNCHANGED <<walk, inTick>>
      BY <1>6, <2>3 DEF WaitForProcess, Blocks, CallNext
    <3>2. /\ wakeOnExit' \in [Tid -> ThreadOrNull]
          /\ state' \in [Tid -> {"Run", "Wait"}] /\ pc' \in [Tid -> Pcs]
      BY <1>1, <3>1 DEF FieldsOK, Pcs
    <3>3. QED BY <1>1, <1>6, <3>1, <3>2 DEF WaitForProcess, FieldsOK
  <2>4. QED BY <2>1, <2>2, <2>3
<1>7. CASE Collect
  <2>1. child[current] \in Tid
    BY <1>1, <1>7 DEF Collect, At, IInv, CallInv, InCall, FieldsOK
  <2>2. CASE exitInfo[child[current]] = "none"
    BY <1>1, <1>7, <2>2 DEF Collect, StopsWith, FieldsOK
  <2>3. CASE exitInfo[child[current]] # "none"
    <3>1. pc' \in [Tid -> Pcs] /\ execResult' \in [Tid -> {"none", "exited", "crashed"}]
      BY <1>1, <1>7, <2>1, <2>3 DEF Collect, FieldsOK, Pcs
    <3>2. interrupts' \in BOOLEAN /\ UNCHANGED <<phase, walk, inTick>>
      BY <1>1, <1>7, <2>3 DEF Collect, KeepsRunning, FieldsOK
    <3>3. QED BY <1>1, <1>7, <3>1, <3>2 DEF Collect, FieldsOK
  <2>4. QED BY <2>2, <2>3
<1>8. CASE Shutdown
  BY <1>1, <1>8 DEF Shutdown, StopsWith, FieldsOK
<1>9. ASSUME NEW nap \in Naps, Sleep(nap) PROVE FieldsOK'
  BY <1>1, <1>9 DEF Sleep, StopsWith, Blocks, CallNext, FieldsOK, Pcs, Yields
<1>10. ASSUME NEW how \in {"exited", "crashed"}, Exit(how) PROVE FieldsOK'
  <2>1. state' \in [Tid -> {"Run", "Wait"}]
    BY <1>1, <1>10 DEF Exit, FieldsOK
  <2>2. exitInfo' \in [Tid -> {"none", "exited", "crashed"}] /\ pc' \in [Tid -> Pcs]
    BY <1>1, <1>10 DEF Exit, FieldsOK, Pcs
  <2>3. QED BY <1>1, <1>10, <2>1, <2>2 DEF Exit, CallNext, FieldsOK
<1>11. ASSUME NEW u \in Tid, WaitForThread(u) PROVE FieldsOK'
  <2>1. CASE u \notin threadList
    BY <1>1, <1>11, <2>1 DEF WaitForThread, KeepsRunning, FieldsOK
  <2>2. CASE u \in threadList /\ wakeOnExit[u] # Null
    BY <1>1, <1>11, <2>2 DEF WaitForThread, StopsWith, FieldsOK
  <2>3. CASE u \in threadList /\ wakeOnExit[u] = Null
    <3>1. /\ wakeOnExit' = [wakeOnExit EXCEPT ![u] = current]
          /\ state' = [state EXCEPT ![current] = "Wait"]
          /\ pc' = [pc EXCEPT ![current] = "joining"]
          /\ phase' = "check" /\ interrupts' = FALSE /\ UNCHANGED <<walk, inTick>>
      BY <1>11, <2>3 DEF WaitForThread, Blocks, CallNext
    <3>2. /\ wakeOnExit' \in [Tid -> ThreadOrNull]
          /\ state' \in [Tid -> {"Run", "Wait"}] /\ pc' \in [Tid -> Pcs]
      BY <1>1, <3>1 DEF FieldsOK, Pcs, Yields
    <3>3. QED BY <1>1, <1>11, <3>1, <3>2 DEF WaitForThread, FieldsOK
  <2>4. QED BY <2>1, <2>2, <2>3
<1>12. ASSUME NEW blocking \in BOOLEAN, GetKey(blocking) PROVE FieldsOK'
  <2>1. keys' \in 0 .. MaxKeys
    BY <1>1, <1>12, KeysAssumption DEF GetKey, FieldsOK
  <2>2. pc' \in [Tid -> Pcs]
    BY <1>1, <1>12 DEF GetKey, FieldsOK, Pcs
  <2>3. QED BY <1>1, <1>12, <2>1, <2>2 DEF GetKey, KeepsRunning, FieldsOK
<1>13. CASE WaitForKeyboard
  BY <1>1, <1>13 DEF WaitForKeyboard, Blocks, CallNext, FieldsOK, Pcs
(* The scheduler's own steps, which all change threads through SwitchTo.   *)
<1>14. ASSUME NEW t \in Tid, SwitchTo(t)
       PROVE  /\ pc' \in [Tid -> Pcs] /\ current' \in Tid /\ walk' \in ThreadOrNull
              /\ interrupts' \in BOOLEAN /\ inTick' \in BOOLEAN
              /\ phase' \in {"run", "check", "scan", "off", "panic", "corrupt", "torn"}
  <2>1. FlagOnResume(t) \in BOOLEAN
    BY <1>1 DEF FlagOnResume, FieldsOK
  <2>2. CASE t = current
    BY <1>1, <1>14, <2>2 DEF SwitchTo, FieldsOK, ThreadOrNull
  <2>3. CASE t # current
    <3>1. Resumed(pc[t]) \in Pcs
      BY <1>1, ResumedIsPc DEF FieldsOK
    <3>2. pc' \in [Tid -> Pcs]
      BY <1>1, <1>14, <2>3, <3>1 DEF SwitchTo, FieldsOK
    <3>3. QED BY <1>14, <2>1, <2>3, <3>2 DEF SwitchTo, ThreadOrNull
  <2>4. QED BY <2>2, <2>3
<1>15. CASE CheckTimeQueue
  <2>1. CASE HeadDue(timeQueue) /\ DueTid(timeQueue) \in threadList
    <3>1. state' \in [Tid -> {"Run", "Wait"}]
      BY <1>1, <1>15, <2>1 DEF CheckTimeQueue, FieldsOK
    <3>2. SwitchTo(DueTid(timeQueue)) /\ DueTid(timeQueue) \in Tid
      BY <1>1, <1>15, <2>1 DEF CheckTimeQueue
    <3>3. QED BY <1>1, <1>14, <1>15, <3>1, <3>2 DEF CheckTimeQueue, FieldsOK
  <2>2. CASE ~ (HeadDue(timeQueue) /\ DueTid(timeQueue) \in threadList)
    BY <1>1, <1>15, <2>2 DEF CheckTimeQueue, FieldsOK
  <2>3. QED BY <2>1, <2>2
<1>16. CASE Scan
  <2>1. NextFrom(walk) \in Tid /\ Idle \in Tid
    BY <1>1, <1>16, NextFromListed, NullIsNoTid DEF Scan
  <2>2. CASE Pass
    BY <1>1, <1>16, <2>1, <2>2 DEF Scan, Pass, FieldsOK
  <2>3. CASE Choose
    <3>1. state' \in [Tid -> {"Run", "Wait"}] /\ SwitchTo(NextFrom(walk))
      BY <1>1, <2>3 DEF Choose, FieldsOK
    <3>2. QED BY <1>1, <1>14, <1>16, <2>1, <3>1 DEF Scan, FieldsOK
  <2>4. CASE ChooseIdle
    <3>1. state' \in [Tid -> {"Run", "Wait"}] /\ SwitchTo(Idle)
      BY <1>1, <2>4 DEF ChooseIdle, FieldsOK
    <3>2. QED BY <1>1, <1>14, <1>16, <2>1, <3>1 DEF Scan, FieldsOK
  <2>5. CASE StayOnCpu
    <3>1. FlagOnResume(current) \in BOOLEAN
      BY <1>1 DEF FlagOnResume, FieldsOK
    <3>2. pc' \in [Tid -> Pcs]
      BY <1>1, <2>5, ResumedIsPc DEF StayOnCpu, FieldsOK
    <3>3. QED BY <1>1, <1>16, <2>5, <3>1, <3>2 DEF Scan, StayOnCpu, FieldsOK, ThreadOrNull
  <2>6. QED BY <1>16, <2>2, <2>3, <2>4, <2>5 DEF Scan
<1>17. QED
  BY <1>2, <1>3, <1>4, <1>5, <1>6, <1>7, <1>8, <1>9, <1>10, <1>11, <1>12, <1>13,
     <1>15, <1>16 DEF Next

LEMMA TypeStep ==
    ASSUME IInv, Next
    PROVE  TypeOK'
BY QueueStep, LinksStay, FieldsStay DEF TypeOK, LinksOK, FieldsOK

LEMMA RingStep ==
    ASSUME IInv, Next
    PROVE  RingInv'
<1>1. RingInv /\ threadList \subseteq Nat /\ nextThreadId \in Nat
  BY NullIsNoTid DEF IInv, TypeOK
<1>2. CASE UNCHANGED ring /\ UNCHANGED nextThreadId
  BY <1>1, <1>2 DEF RingInv, RingIsThreadList, After, Before, InSystem, WayBack,
                    LastInSystem, ring
<1>3. CASE Exec
  <2>1. RingIsThreadList'
    BY <1>3, ExecInsertsAlone, InsertThreadLinks
  <2>2. /\ threadList' = threadList \cup {nextThreadId} /\ nextThreadId' = nextThreadId + 1
    BY <1>3, ExecInsertsAlone, InsertThreadLinks
  <2>3. \A t \in threadList' : t < nextThreadId'
    BY <1>1, <2>2 DEF RingInv
  <2>4. QED BY <1>1, <2>1, <2>2, <2>3 DEF RingInv
<1>4. CASE Spawn
  <2>1. RingIsThreadList' /\ UNCHANGED threadList /\ nextThreadId' = nextThreadId + 1
    BY <1>4, SpawnLinks
  <2>2. \A t \in threadList' : t < nextThreadId'
    BY <1>1, <2>1 DEF RingInv
  <2>3. QED BY <1>1, <2>1, <2>2 DEF RingInv
<1>5. CASE InsertStep
  <2>1. RingIsThreadList' /\ UNCHANGED nextThreadId /\ insertAt # "none"
        /\ (UNCHANGED threadList \/ threadList' = threadList \cup {newcomer})
    BY <1>5, InsertStepLinks
  <2>2. newcomer < nextThreadId
    BY <2>1 DEF IInv, InsertInv
  <2>3. QED BY <1>1, <2>1, <2>2 DEF RingInv
<1>6. ASSUME NEW how \in {"exited", "crashed"}, Exit(how) PROVE RingInv'
  <2>1. RingIsThreadList'
    BY <1>6, ExitDoes, RemoveThreadLinks, InSystemIs, TypesOfLinks DEF IInv
  <2>2. QED BY <1>1, <1>6, <2>1, ExitDoes DEF RingInv
<1>7. QED BY <1>2, <1>3, <1>4, <1>5, <1>6, ListChangers

(* What SwitchTo needs of the thread it switches to, for the CPU to be in  *)
(* order afterwards.                                                       *)
LEMMA SwitchKeepsCpu ==
    ASSUME NEW t \in InSystem, SwitchTo(t), state'[t] = "Run", UNCHANGED InSystem
    PROVE  CpuInv'
BY DEF SwitchTo, CpuInv, RunnerIsReady

LEMMA CpuStep ==
    ASSUME IInv, Next
    PROVE  CpuInv'
<1>1. /\ CpuInv /\ TypeOK /\ InSystem \subseteq Tid /\ threadList \subseteq InSystem
      /\ \A t \in InSystem : nextInSystem[t] \in InSystem \cup {Null}
  BY RingHasShape, TypesOfLinks, InSystemIs DEF IInv, RingInv, TypeOK, RingShape
<1>2. phase = "run" => /\ current \in InSystem /\ state[current] = "Run"
                       /\ nextInSystem[current] \in InSystem \cup {Null}
  BY <1>1 DEF CpuInv, RunnerIsReady
<1>0. UNCHANGED ring => UNCHANGED InSystem
  BY DEF ring, InSystem
<1>3. CASE Tick \/ Key \/ Advance
  <2>1. CASE Tick
    BY <1>0, <1>2, <2>1 DEF Tick, CpuInv, RunnerIsReady, ring
  <2>2. CASE Key
    BY <1>0, <1>1, <1>2, <2>2 DEF Key, CpuInv, RunnerIsReady, TypeOK, ring, cpu
  <2>3. CASE Advance
    BY <1>0, <1>1, <2>3 DEF Advance, CpuInv, RunnerIsReady, ring, cpu
  <2>4. QED BY <1>3, <2>1, <2>2, <2>3
(* Calls that do not change the list go on, stop or call the scheduler.    *)
<1>4. ASSUME phase = "run", UNCHANGED <<ring, current>>,
             (phase' = "run" /\ UNCHANGED state) \/ phase' \notin {"run", "scan"}
      PROVE  CpuInv'
  BY <1>0, <1>2, <1>4 DEF CpuInv, RunnerIsReady, ring
<1>5. CASE Yield \/ WaitForProcess \/ Collect \/ Shutdown \/ Tear \/ WaitForKeyboard
  <2>1. CASE Yield
    BY <1>4, <2>1 DEF Yield, At, CallNext
  <2>2. CASE WaitForProcess
    BY <1>4, <2>2 DEF WaitForProcess, At, KeepsRunning, StopsWith, Blocks, CallNext
  <2>3. CASE Collect
    BY <1>4, <2>3 DEF Collect, At, KeepsRunning, StopsWith
  <2>4. CASE Shutdown \/ Tear
    BY <1>4, <2>4 DEF Shutdown, Tear, At, StopsWith
  <2>5. CASE WaitForKeyboard
    BY <1>4, <2>5 DEF WaitForKeyboard, At, Blocks, CallNext
  <2>6. QED BY <1>5, <2>1, <2>2, <2>3, <2>4, <2>5
<1>6. ASSUME NEW nap \in Naps, Sleep(nap) PROVE CpuInv'
  BY <1>4, <1>6 DEF Sleep, At, StopsWith, Blocks, CallNext
<1>7. ASSUME NEW u \in Tid, WaitForThread(u) PROVE CpuInv'
  BY <1>4, <1>7 DEF WaitForThread, At, KeepsRunning, StopsWith, Blocks, CallNext
<1>8. ASSUME NEW blocking \in BOOLEAN, GetKey(blocking) PROVE CpuInv'
  BY <1>4, <1>8 DEF GetKey, At, KeepsRunning
<1>9. CASE Exec
  <2>1. nextThreadId \in InSystem' /\ nextThreadId \in Tid
    BY <1>9, ExecInsertsAlone, InsertThreadLinks
  <2>2. state[nextThreadId] = "Run"
    BY <2>1, NullIsNoTid DEF IInv, UnbornInv
  <2>3. QED BY <1>9, <2>1, <2>2 DEF Exec, At, KeepsRunning, CpuInv, RunnerIsReady
<1>10. CASE Spawn \/ InsertStep
  <2>1. UNCHANGED <<cpu, current, state>> /\ phase = "run"
    BY <1>10, SpawnDoes, InsertStepDoes
  <2>2. current \in InSystem'
    BY <1>2, <1>10, <2>1, SpawnLinks, InsertStepLinks
  <2>3. QED BY <1>2, <2>1, <2>2 DEF CpuInv, RunnerIsReady, cpu
<1>11. ASSUME NEW how \in {"exited", "crashed"}, Exit(how) PROVE CpuInv'
  BY <1>11, ExitDoes DEF Exit, CallNext, CpuInv, RunnerIsReady
<1>12. CASE CheckTimeQueue
  <2>1. CASE HeadDue(timeQueue) /\ DueTid(timeQueue) \in threadList
    <3>1. state'[DueTid(timeQueue)] = "Run" /\ SwitchTo(DueTid(timeQueue))
      BY <1>1, <1>12, <2>1 DEF CheckTimeQueue, TypeOK
    <3>2. UNCHANGED InSystem
      BY <1>0, <1>12 DEF CheckTimeQueue
    <3>3. QED BY <1>1, <2>1, <3>1, <3>2, SwitchKeepsCpu
  <2>2. CASE ~ (HeadDue(timeQueue) /\ DueTid(timeQueue) \in threadList)
    BY <1>0, <1>1, <1>12, <2>2 DEF CheckTimeQueue, CpuInv, RunnerIsReady, ring
  <2>3. QED BY <2>1, <2>2
<1>13. CASE Scan
  <2>1. /\ NextFrom(walk) \in InSystem /\ phase = "scan" /\ UNCHANGED ring
        /\ Idle \in InSystem /\ UNCHANGED InSystem
    BY <1>0, <1>1, <1>13, NextFromListed DEF Scan, IInv, RingInv
  <2>2. CASE Pass
    BY <1>1, <2>1, <2>2 DEF Pass, CpuInv, RunnerIsReady, ring
  <2>3. CASE Choose
    <3>1. state'[NextFrom(walk)] = "Run" /\ SwitchTo(NextFrom(walk))
      BY <1>1, <2>3 DEF Choose, TypeOK
    <3>2. QED BY <2>1, <3>1, SwitchKeepsCpu
  <2>4. CASE ChooseIdle
    <3>1. state'[Idle] = "Run" /\ SwitchTo(Idle)
      BY <1>1, <2>1, <2>4 DEF ChooseIdle, TypeOK
    <3>2. QED BY <2>1, <3>1, SwitchKeepsCpu
  <2>5. CASE StayOnCpu
    BY <2>1, <2>5 DEF StayOnCpu, CpuInv, RunnerIsReady, ring
  <2>6. QED BY <1>13, <2>2, <2>3, <2>4, <2>5 DEF Scan
<1>14. QED
  BY <1>3, <1>5, <1>6, <1>7, <1>8, <1>9, <1>10, <1>11, <1>12, <1>13 DEF Next

LEMMA UnbornStep ==
    ASSUME IInv, Next
    PROVE  UnbornInv'
<1>1. /\ state \in [Tid -> {"Run", "Wait"}] /\ pc \in [Tid -> Pcs]
      /\ wakeOnExit \in [Tid -> ThreadOrNull] /\ threadList \subseteq Tid
  BY DEF IInv, TypeOK
<1> SUFFICES ASSUME NEW t \in Tid,
                    t >= nextThreadId' \/ (insertAt' = "linking" /\ t = newcomer')
             PROVE  state'[t] = "Run" /\ pc'[t] = "new" /\ wakeOnExit'[t] = Null
  BY DEF UnbornInv
<1>2. /\ t >= nextThreadId \/ (insertAt = "linking" /\ t = newcomer)
      /\ Exec => t # nextThreadId
  <2>1. t \in Nat /\ nextThreadId \in Nat /\ newcomer # nextThreadId
    <3>1. t \in Nat /\ nextThreadId \in Nat
      BY NullIsNoTid DEF IInv, TypeOK
    <3>2. newcomer = Null \/ newcomer < nextThreadId
      BY DEF IInv, InsertInv, TypeOK
    <3>3. QED BY <3>1, <3>2 DEF Null
  <2>2. CASE UNCHANGED ring /\ UNCHANGED nextThreadId /\ ~ Exec
    BY <2>2 DEF ring
  <2>3. CASE Exec
    BY <2>1, <2>3, ExecInsertsAlone, InsertThreadLinks
  <2>4. CASE Spawn
    <3>1. nextThreadId' = nextThreadId + 1 /\ newcomer' = nextThreadId /\ ~ Exec
      BY <2>4, SpawnDoes, ExecInsertsAlone
    <3>2. QED BY <2>1, <3>1
  <2>5. CASE InsertStep
    BY <2>5, InsertStepLinks, InsertStepDoes, ExecInsertsAlone
  <2>6. ASSUME NEW how \in {"exited", "crashed"}, Exit(how), ~ Exec
        PROVE  UNCHANGED <<nextThreadId, insertAt, newcomer>>
    BY <2>6, ExitDoes
  <2>7. QED BY <2>2, <2>3, <2>4, <2>5, <2>6, ListChangers
<1>3. t \notin InSystem
  <2>1. CASE t >= nextThreadId
    <3>1. \A u \in InSystem : u \in Nat /\ u < nextThreadId
      BY TypesOfLinks, InSystemIs, NullIsNoTid
         DEF InSystem, IInv, RingInv, InsertInv, TypeOK
    <3>2. t \in Nat /\ nextThreadId \in Nat
      BY NullIsNoTid DEF IInv, TypeOK
    <3>3. QED BY <2>1, <3>1, <3>2
  <2>2. CASE insertAt = "linking" /\ t = newcomer
    <3>1. \A u \in threadList : u < t
      BY <2>2 DEF IInv, InsertInv
    <3>2. t \in Nat
      BY NullIsNoTid
    <3>3. QED BY <2>2, <3>1, <3>2 DEF InSystem
  <2>3. QED BY <1>2, <2>1, <2>2
<1>4. /\ state[t] = "Run" /\ pc[t] = "new" /\ wakeOnExit[t] = Null
      /\ t \notin threadList /\ t # Idle /\ t # Boot
      /\ phase = "run" => current # t
  <2>1. {Idle, Boot} \subseteq threadList /\ threadList \subseteq InSystem
    BY TypesOfLinks, InSystemIs DEF IInv, RingInv
  <2>2. QED BY <1>2, <1>3, <2>1 DEF IInv, UnbornInv, CpuInv, RunnerIsReady
<1>5. CASE Tick \/ Key \/ Advance \/ Spawn \/ InsertStep \/ Tear \/ Shutdown
  <2>1. CASE Key
    BY <1>1, <1>4, <2>1 DEF Key
  <2>2. CASE Spawn \/ InsertStep
    BY <1>1, <1>4, <2>2, SpawnDoes, InsertStepDoes
  <2>3. QED BY <1>4, <1>5, <2>1, <2>2 DEF Tick, Advance, Tear, Shutdown
<1>6. CASE Yield \/ WaitForKeyboard \/ Collect
  BY <1>1, <1>4, <1>6 DEF Yield, WaitForKeyboard, Collect, At, Blocks
<1>7. CASE Exec
  BY <1>1, <1>2, <1>4, <1>7 DEF Exec, At
<1>8. CASE WaitForProcess
  BY <1>1, <1>4, <1>8 DEF WaitForProcess, At, Blocks
<1>9. ASSUME NEW nap \in Naps, Sleep(nap)
      PROVE  state'[t] = "Run" /\ pc'[t] = "new" /\ wakeOnExit'[t] = Null
  BY <1>1, <1>4, <1>9 DEF Sleep, At, Blocks
<1>10. ASSUME NEW how \in {"exited", "crashed"}, Exit(how)
       PROVE  state'[t] = "Run" /\ pc'[t] = "new" /\ wakeOnExit'[t] = Null
  BY <1>1, <1>4, <1>10 DEF Exit, At
<1>11. ASSUME NEW u \in Tid, WaitForThread(u)
       PROVE  state'[t] = "Run" /\ pc'[t] = "new" /\ wakeOnExit'[t] = Null
  BY <1>1, <1>4, <1>11 DEF WaitForThread, At, Blocks
<1>12. ASSUME NEW blocking \in BOOLEAN, GetKey(blocking)
       PROVE  state'[t] = "Run" /\ pc'[t] = "new" /\ wakeOnExit'[t] = Null
  BY <1>1, <1>4, <1>12 DEF GetKey, At
<1>13. CASE CheckTimeQueue
  BY <1>1, <1>4, <1>13 DEF CheckTimeQueue, SwitchTo
<1>14. CASE Scan
  <2>1. NextFrom(walk) # t /\ UNCHANGED wakeOnExit
    BY <1>3, <1>14, NextFromListed DEF Scan
  <2>2. CASE Pass
    BY <1>4, <2>1, <2>2 DEF Pass
  <2>3. CASE Choose
    BY <1>1, <1>4, <2>1, <2>3 DEF Choose, SwitchTo
  <2>4. CASE ChooseIdle
    BY <1>1, <1>4, <2>1, <2>4 DEF ChooseIdle, SwitchTo
  <2>5. CASE StayOnCpu
    BY <1>1, <1>4, <2>1, <2>5 DEF StayOnCpu
  <2>6. QED BY <1>14, <2>2, <2>3, <2>4, <2>5 DEF Scan
<1>15. QED
  BY <1>5, <1>6, <1>7, <1>8, <1>9, <1>10, <1>11, <1>12, <1>13, <1>14 DEF Next

(* Calls keep their process, and the idle thread stays where it is.        *)
LEMMA CallStep ==
    ASSUME IInv, Next
    PROVE  CallInv'
<1>1. /\ pc \in [Tid -> Pcs] /\ child \in [Tid -> ThreadOrNull] /\ current \in Tid
      /\ mode \in [Tid -> {"kernel", "user"}]
      /\ mode[Idle] = "kernel" /\ pc[Idle] \in {"new", "body"} /\ Idle \in Tid
      /\ threadList \subseteq Tid /\ InSystem \subseteq Tid /\ Idle # Boot
      /\ \A t \in Tid : pc[t] \in InCall => child[t] \in Tid
  BY NullIsNoTid, TypesOfLinks, InSystemIs DEF IInv, TypeOK, CallInv, InCall, Idle, Boot
<1>2. (\A t \in Tid : Resumed(pc[t]) \in InCall => pc[t] \in InCall)
      /\ Resumed(pc[Idle]) \in {"new", "body"}
  BY <1>1 DEF Resumed, InCall, Yields, Pcs
<1> DEFINE Kept == /\ \A t \in Tid : pc'[t] \in InCall => child'[t] \in Tid
                   /\ mode'[Idle] = "kernel" /\ pc'[Idle] \in {"new", "body"}
<1> SUFFICES Kept
  BY DEF CallInv, InCall
<1>3. CASE Tick \/ Key \/ Advance \/ Spawn \/ InsertStep \/ Tear \/ Shutdown
  <2>1. CASE Spawn \/ InsertStep
    BY <1>1, <2>1, SpawnDoes, InsertStepDoes DEF InCall
  <2>2. QED BY <1>1, <1>3, <2>1 DEF Tick, Key, Advance, Tear, Shutdown
<1>4. CASE Yield
  BY <1>1, <1>4 DEF Yield, At, IsClient, InCall
<1>5. CASE WaitForKeyboard \/ Collect
  BY <1>1, <1>5 DEF WaitForKeyboard, Collect, At, Blocks, InCall
<1>6. CASE Exec
  <2>1. nextThreadId \in Tid /\ nextThreadId # Idle /\ current # Idle
    BY <1>1, <1>6, ExecInsertsAlone, InsertThreadLinks DEF Exec, IInv, RingInv
  <2>2. QED BY <1>1, <1>6, <2>1 DEF Exec, At, InCall
<1>7. CASE WaitForProcess
  <2>1. pc[current] = "started" /\ current # Idle
    BY <1>1, <1>7 DEF WaitForProcess, At
  <2>2. pc' = pc \/ \E p \in InCall : pc' = [pc EXCEPT ![current] = p]
    BY <1>7 DEF WaitForProcess, Blocks, InCall
  <2>3. child[current] \in Tid /\ UNCHANGED <<child, mode>>
    BY <1>1, <1>7, <2>1 DEF WaitForProcess, InCall
  <2>4. QED BY <1>1, <2>1, <2>2, <2>3
<1>8. ASSUME NEW nap \in Naps, Sleep(nap) PROVE Kept
  BY <1>1, <1>8 DEF Sleep, At, IsClient, Blocks, InCall
<1>9. ASSUME NEW how \in {"exited", "crashed"}, Exit(how) PROVE Kept
  BY <1>1, <1>9 DEF Exit, At, InCall
<1>10. ASSUME NEW u \in Tid, WaitForThread(u) PROVE Kept
  BY <1>1, <1>10 DEF WaitForThread, At, Blocks, InCall
<1>11. ASSUME NEW blocking \in BOOLEAN, GetKey(blocking) PROVE Kept
  BY <1>1, <1>11 DEF GetKey, InCall
<1>12. ASSUME NEW u \in Tid, pc' = [pc EXCEPT ![u] = Resumed(@)] \/ pc' = pc,
              UNCHANGED <<child, mode>>
       PROVE  Kept
  BY <1>1, <1>2, <1>12
<1>13. CASE CheckTimeQueue
  <2>1. UNCHANGED <<child, mode>>
    BY <1>13 DEF CheckTimeQueue
  <2>2. CASE HeadDue(timeQueue) /\ DueTid(timeQueue) \in threadList
    <3>1. \/ pc' = [pc EXCEPT ![DueTid(timeQueue)] = Resumed(@)] \/ pc' = pc
      BY <1>13, <2>2 DEF CheckTimeQueue, SwitchTo
    <3>2. QED BY <1>1, <1>12, <2>1, <2>2, <3>1
  <2>3. CASE ~ (HeadDue(timeQueue) /\ DueTid(timeQueue) \in threadList)
    BY <1>1, <1>12, <1>13, <2>1, <2>3 DEF CheckTimeQueue
  <2>4. QED BY <2>2, <2>3
<1>14. CASE Scan
  <2>1. NextFrom(walk) \in Tid /\ UNCHANGED <<child, mode>>
    BY <1>1, <1>14, NextFromListed DEF Scan
  <2>2. \/ pc' = pc
        \/ pc' = [pc EXCEPT ![NextFrom(walk)] = Resumed(@)]
        \/ pc' = [pc EXCEPT ![Idle] = Resumed(@)]
        \/ pc' = [pc EXCEPT ![current] = Resumed(@)]
    BY <1>14 DEF Scan, Pass, Choose, ChooseIdle, StayOnCpu, SwitchTo
  <2>3. QED BY <1>1, <1>12, <2>1, <2>2
<1>15. QED
  BY <1>3, <1>4, <1>5, <1>6, <1>7, <1>8, <1>9, <1>10, <1>11, <1>13, <1>14 DEF Next

(* Only a thread that starts to wait is recorded as to be woken.           *)
LEMMA RecordChangers ==
    ASSUME IInv, Next
    PROVE  /\ \/ UNCHANGED wakeOnExit
              \/ /\ \E c \in threadList : /\ wakeOnExit[c] = Null
                                          /\ wakeOnExit' = [wakeOnExit EXCEPT ![c] = current]
                 /\ phase = "run" /\ pc[current] \in {"started", "body"}
                 /\ state'[current] = "Wait" /\ pc'[current] \in {"waiting", "joining"}
                 /\ UNCHANGED ring
           /\ \/ UNCHANGED waitingForKeyboard
              \/ waitingForKeyboard' = Null
              \/ /\ waitingForKeyboard' = current
                 /\ state'[current] = "Wait" /\ pc'[current] = "keywait"
           /\ Key => waitingForKeyboard' = Null
<1>1. state \in [Tid -> {"Run", "Wait"}] /\ pc \in [Tid -> Pcs] /\ current \in Tid
  BY DEF IInv, TypeOK
<1>2. CASE Tick \/ Key \/ Advance \/ Yield \/ Exec \/ Collect \/ Shutdown \/ Spawn
           \/ InsertStep \/ Tear \/ CheckTimeQueue \/ Scan
  BY <1>2 DEF Tick, Key, Advance, Yield, Exec, Collect, Shutdown, Spawn,
              InsertStep, Tear, CheckTimeQueue, Scan
<1>3. CASE WaitForProcess
  <2>1. CASE child[current] \in threadList /\ wakeOnExit[child[current]] = Null
    BY <1>1, <1>3, <2>1 DEF WaitForProcess, At, Blocks, Key
  <2>2. CASE ~ (child[current] \in threadList /\ wakeOnExit[child[current]] = Null)
    BY <1>3, <2>2 DEF WaitForProcess, Key
  <2>3. QED BY <2>1, <2>2
<1>4. CASE WaitForKeyboard
  BY <1>1, <1>4 DEF WaitForKeyboard, At, Blocks, Key
<1>5. ASSUME NEW nap \in Naps, Sleep(nap)
      PROVE  UNCHANGED <<wakeOnExit, waitingForKeyboard>>
  BY <1>5 DEF Sleep
<1>6. ASSUME NEW how \in {"exited", "crashed"}, Exit(how)
      PROVE  UNCHANGED <<wakeOnExit, waitingForKeyboard>>
  BY <1>6 DEF Exit
<1>7. ASSUME NEW u \in Tid, WaitForThread(u)
      PROVE  /\ \/ UNCHANGED wakeOnExit
                \/ /\ u \in threadList /\ wakeOnExit[u] = Null
                   /\ wakeOnExit' = [wakeOnExit EXCEPT ![u] = current]
                   /\ phase = "run" /\ pc[current] = "body"
                   /\ state'[current] = "Wait" /\ pc'[current] = "joining"
                   /\ UNCHANGED ring
             /\ UNCHANGED waitingForKeyboard
  <2>1. CASE u \in threadList /\ wakeOnExit[u] = Null
    BY <1>1, <1>7, <2>1 DEF WaitForThread, At, Blocks
  <2>2. CASE ~ (u \in threadList /\ wakeOnExit[u] = Null)
    BY <1>7, <2>2 DEF WaitForThread
  <2>3. QED BY <2>1, <2>2
<1>8. ASSUME NEW blocking \in BOOLEAN, GetKey(blocking)
      PROVE  UNCHANGED <<wakeOnExit, waitingForKeyboard>>
  BY <1>8 DEF GetKey
<1>9. Key => waitingForKeyboard' = Null
  BY DEF Key
<1>10. QED BY <1>2, <1>3, <1>4, <1>5, <1>6, <1>7, <1>8, <1>9 DEF Next

(* The thread recorded by an exit that has not happened stays blocked.     *)
LEMMA RecordedStays ==
    ASSUME IInv, Next, NEW u \in InSystem, wakeOnExit[u] # Null, u \in InSystem'
    PROVE  /\ state'[wakeOnExit[u]] = "Wait"
           /\ pc'[wakeOnExit[u]] \in {"waiting", "joining"}
<1> DEFINE w == wakeOnExit[u]
<1>1. w \in Tid /\ state[w] = "Wait" /\ pc[w] \in {"waiting", "joining"}
  BY TypesOfLinks, InSystemIs
     DEF IInv, TypeOK, ThreadOrNull, WakersNameWaiters, ExitWakesWaiter
<1>2. w # waitingForKeyboard
  BY <1>1, NullIsNoTid DEF IInv, WakersNameWaiters, KeyWakesWaiter
<1>3. ASSUME NEW how \in {"exited", "crashed"}, Exit(how) PROVE wakeOnExit[current] # w
  <2>1. current \in InSystem /\ u # current
    BY <1>3, ExitDoes DEF Exit, At, IInv, CpuInv, RunnerIsReady
  <2>2. QED BY <2>1 DEF IInv, WakersNameWaiters, ExitWakesWaiter
<1>4. HeadDue(timeQueue) => w # DueTid(timeQueue)
  <2>1. HeadDue(timeQueue) => timeQueue.head \in Linked(timeQueue)
    BY LinkedClosed DEF HeadDue, IInv, TypeOK
  <2>2. QED BY <1>1, <2>1 DEF DueTid, IInv, WakersNameWaiters, TimeWakesSleeper
<1>5. QED BY <1>1, <1>2, <1>3, <1>4, BlockedStays DEF BlockedIn

LEMMA WakersStep ==
    ASSUME IInv, Next
    PROVE  WakersNameWaiters'
<1>1. /\ wakeOnExit \in [Tid -> ThreadOrNull] /\ InSystem \subseteq Tid
      /\ threadList \subseteq InSystem
      /\ current \in Tid /\ waitingForKeyboard \in ThreadOrNull /\ Null \notin Tid
      /\ ExitWakesWaiter /\ KeyWakesWaiter
  BY NullIsNoTid, TypesOfLinks, InSystemIs DEF IInv, TypeOK, WakersNameWaiters
<1>2. \A u \in InSystem' :
          u \in InSystem \/ (wakeOnExit[u] = Null /\ UNCHANGED wakeOnExit)
  BY Joiners
<1>3. ExitWakesWaiter'
  <2>1. CASE UNCHANGED wakeOnExit
    <3> SUFFICES ASSUME NEW u \in InSystem', wakeOnExit'[u] # Null
                 PROVE  /\ state'[wakeOnExit'[u]] = "Wait"
                        /\ pc'[wakeOnExit'[u]] \in {"waiting", "joining"}
                        /\ \A v \in InSystem' : wakeOnExit'[v] = wakeOnExit'[u] => v = u
      BY DEF ExitWakesWaiter
    <3>1. u \in InSystem /\ wakeOnExit[u] # Null
      BY <1>2, <2>1
    <3>2. /\ state'[wakeOnExit[u]] = "Wait"
          /\ pc'[wakeOnExit[u]] \in {"waiting", "joining"}
      BY <3>1, RecordedStays
    <3>3. ASSUME NEW v \in InSystem', wakeOnExit[v] = wakeOnExit[u] PROVE v = u
      <4>1. v \in InSystem
        BY <1>2, <3>1, <3>3
      <4>2. QED BY <1>1, <3>1, <3>3, <4>1 DEF ExitWakesWaiter
    <3>4. QED BY <2>1, <3>2, <3>3
  <2>2. ASSUME NEW c \in threadList, wakeOnExit[c] = Null,
               wakeOnExit' = [wakeOnExit EXCEPT ![c] = current],
               pc[current] \in {"started", "body"},
               state'[current] = "Wait", pc'[current] \in {"waiting", "joining"},
               UNCHANGED ring
        PROVE  ExitWakesWaiter'
    <3>0. c \in InSystem /\ UNCHANGED InSystem
      BY <1>1, <2>2 DEF ring, InSystem
    <3>1. \A v \in InSystem : wakeOnExit[v] # current
      BY <1>1, <2>2 DEF ExitWakesWaiter
    <3>2. wakeOnExit'[c] = current /\ \A v \in InSystem : v # c => wakeOnExit'[v] = wakeOnExit[v]
      BY <1>1, <2>2, <3>0
    <3>3. ASSUME NEW u \in InSystem, wakeOnExit'[u] # Null
          PROVE  /\ state'[wakeOnExit'[u]] = "Wait"
                 /\ pc'[wakeOnExit'[u]] \in {"waiting", "joining"}
                 /\ \A v \in InSystem : wakeOnExit'[v] = wakeOnExit'[u] => v = u
      <4>1. CASE u = c
        BY <2>2, <3>0, <3>1, <3>2, <4>1
      <4>2. CASE u # c
        <5>1. /\ state'[wakeOnExit[u]] = "Wait"
              /\ pc'[wakeOnExit[u]] \in {"waiting", "joining"}
          BY <2>2, <3>0, <3>2, <3>3, <4>2, RecordedStays
        <5>2. \A v \in InSystem : wakeOnExit[v] = wakeOnExit[u] => v = u
          BY <1>1, <3>0, <3>2, <3>3, <4>2 DEF ExitWakesWaiter
        <5>3. QED BY <3>0, <3>1, <3>2, <4>2, <5>1, <5>2
      <4>3. QED BY <4>1, <4>2
    <3>4. QED BY <3>0, <3>3 DEF ExitWakesWaiter
  <2>3. QED BY <2>1, <2>2, RecordChangers
<1>4. KeyWakesWaiter'
  <2>1. CASE waitingForKeyboard' = Null
    BY <2>1 DEF KeyWakesWaiter
  <2>2. CASE waitingForKeyboard' = current /\ state'[current] = "Wait"
             /\ pc'[current] = "keywait"
    BY <2>2 DEF KeyWakesWaiter
  <2>3. CASE UNCHANGED waitingForKeyboard /\ waitingForKeyboard # Null
    <3> DEFINE w == waitingForKeyboard
    <3>1. w \in Tid /\ state[w] = "Wait" /\ pc[w] = "keywait" /\ ~ Key
      BY <1>1, <2>3, RecordChangers DEF KeyWakesWaiter, ThreadOrNull
    <3>2. ASSUME NEW how \in {"exited", "crashed"}, Exit(how) PROVE wakeOnExit[current] # w
      <4>1. current \in InSystem
        BY <3>2 DEF Exit, At, IInv, CpuInv, RunnerIsReady
      <4>2. QED BY <1>1, <3>1, <4>1 DEF ExitWakesWaiter
    <3>3. HeadDue(timeQueue) => w # DueTid(timeQueue)
      <4>1. HeadDue(timeQueue) => timeQueue.head \in Linked(timeQueue)
        BY LinkedClosed DEF HeadDue, IInv, TypeOK
      <4>2. QED BY <3>1, <4>1 DEF DueTid, IInv, WakersNameWaiters, TimeWakesSleeper
    <3>4. state'[w] = "Wait" /\ pc'[w] = "keywait"
      BY <3>1, <3>2, <3>3, BlockedStays DEF BlockedIn
    <3>5. QED BY <2>3, <3>4 DEF KeyWakesWaiter
  <2>4. QED BY <2>1, <2>2, <2>3, RecordChangers
<1>5. QED BY <1>3, <1>4, QueueStep DEF WakersNameWaiters

-----------------------------------------------------------------------------
(* What the steps that are no part of a call of exec, of a thread's start  *)
(* or of its end leave alone.                                              *)
QuietFor(t) ==
    /\ pc'[t] \in InCall <=> pc[t] \in InCall
    /\ pc'[t] = "dead" <=> pc[t] = "dead"
    /\ pc'[t] = "done" <=> pc[t] = "done"
    /\ pc'[t] = "inserting" <=> pc[t] = "inserting"
    /\ pc'[t] = "waiting" => pc[t] = "waiting"
    /\ pc'[t] = "waited" => pc[t] = "waited" \/ (pc[t] = "waiting" /\ state[t] = "Run")
    /\ pc'[t] \in {"getkey", "nokey", "keywait"} =>
          pc[t] \in {"getkey", "nokey", "keywait"} \/ mode[t] = "user"
    /\ state'[t] = "Wait" =>
          state[t] = "Wait" \/ t = Idle \/ pc'[t] \in {"keywait", "sleeping", "joining"}

QuietStep ==
    /\ UNCHANGED <<ring, mode, child, nextThreadId, exitInfo, execResult>>
    /\ \A t \in Tid : QuietFor(t)
    /\ \/ UNCHANGED wakeOnExit
       \/ /\ current = Boot
          /\ \E u \in threadList : /\ mode[u] = "kernel" /\ wakeOnExit[u] = Null
                                   /\ wakeOnExit' = [wakeOnExit EXCEPT ![u] = Boot]

(* A switch to a thread that runs or slept.                                *)
LEMMA SwitchIsQuiet ==
    ASSUME IInv, NEW u \in Tid, state[u] = "Run" \/ pc[u] \notin {"waiting", "keywait"},
           pc' = [pc EXCEPT ![u] = Resumed(@)] \/ pc' = pc,
           \A t \in Tid : state'[t] = "Wait" => state[t] = "Wait" \/ t = Idle
    PROVE  \A t \in Tid : QuietFor(t)
<1>1. pc \in [Tid -> Pcs] /\ state \in [Tid -> {"Run", "Wait"}]
  BY DEF IInv, TypeOK
<1>2. ASSUME NEW t \in Tid, pc'[t] = pc[t] PROVE QuietFor(t)
  BY <1>1, <1>2 DEF QuietFor
<1>3. ASSUME pc'[u] = Resumed(pc[u]) PROVE QuietFor(u)
  <2>1. CASE pc[u] \in Yields \cup {"new"}
    BY <1>1, <1>3, <2>1 DEF QuietFor, Resumed, Yields, InCall
  <2>2. CASE pc[u] \in {"starting", "waiting", "keywait"}
    BY <1>1, <1>3, <2>2 DEF QuietFor, Resumed, Yields, InCall
  <2>3. CASE pc[u] \notin Yields \cup {"new", "starting", "waiting", "keywait"}
    <3>1. Resumed(pc[u]) = pc[u]
      BY <2>3 DEF Resumed
    <3>2. QED BY <1>2, <1>3, <3>1
  <2>4. QED BY <2>1, <2>2, <2>3
<1>4. QED BY <1>1, <1>2, <1>3

LEMMA QuietSteps ==
    ASSUME IInv, Next
    PROVE  \/ QuietStep
           \/ Exec \/ Spawn \/ InsertStep \/ WaitForProcess \/ Collect
           \/ \E how \in {"exited", "crashed"} : Exit(how)
<1>1. /\ pc \in [Tid -> Pcs] /\ state \in [Tid -> {"Run", "Wait"}] /\ current \in Tid
      /\ wakeOnExit \in [Tid -> ThreadOrNull] /\ threadList \subseteq Tid
      /\ InSystem \subseteq Tid
      /\ phase = "run" => current \in InSystem /\ state[current] = "Run"
      /\ Idle \in Tid /\ waitingForKeyboard \in ThreadOrNull
  BY NullIsNoTid, TypesOfLinks, InSystemIs DEF IInv, TypeOK, CpuInv, RunnerIsReady
<1>2. CASE Tick \/ Key \/ Advance
  <2>1. UNCHANGED <<ring, mode, child, nextThreadId, exitInfo, execResult, wakeOnExit, pc>>
    BY <1>2 DEF Tick, Key, Advance
  <2>2. \A t \in Tid : state'[t] = "Wait" => state[t] = "Wait"
    BY <1>1, <1>2 DEF Tick, Key, Advance, ThreadOrNull
  <2>3. QED BY <2>1, <2>2 DEF QuietStep, QuietFor
(* A call from own code that is none of those.                             *)
<1>3. ASSUME NEW p \in {"body", "yielding", "sleeping", "joining", "nokey", "keywait"},
             pc[current] \in {"body", "getkey", "nokey"},
             pc' = [pc EXCEPT ![current] = p] \/ pc' = pc,
             p \in {"nokey", "keywait"} => pc[current] = "nokey" \/ mode[current] = "user",
             UNCHANGED state \/ (p \in {"sleeping", "joining", "keywait"}
                                 /\ pc'[current] = p
                                 /\ state' = [state EXCEPT ![current] = "Wait"])
      PROVE  \A t \in Tid : QuietFor(t)
  <2>1. ASSUME NEW t \in Tid, t # current \/ pc' = pc PROVE QuietFor(t)
    BY <1>1, <1>3, <2>1 DEF QuietFor
  <2>2. ASSUME pc' = [pc EXCEPT ![current] = p] PROVE QuietFor(current)
    BY <1>1, <1>3, <2>2 DEF QuietFor, InCall
  <2>3. QED BY <1>3, <2>1, <2>2
<1>4. CASE Yield
  <2>1. UNCHANGED <<ring, mode, child, nextThreadId, exitInfo, execResult, wakeOnExit>>
    BY <1>4 DEF Yield
  <2>2. \A t \in Tid : QuietFor(t)
    BY <1>3, <1>4 DEF Yield, At
  <2>3. QED BY <2>1, <2>2 DEF QuietStep
<1>5. CASE Shutdown \/ Tear
  BY <1>1, <1>5 DEF Shutdown, Tear, QuietStep, QuietFor
<1>6. ASSUME NEW nap \in Naps, Sleep(nap) PROVE QuietStep
  <2>1. UNCHANGED <<ring, mode, child, nextThreadId, exitInfo, execResult, wakeOnExit>>
    BY <1>6 DEF Sleep
  <2>2. \A t \in Tid : QuietFor(t)
    <3>1. CASE QueueFull(timeQueue)
      BY <1>6, <3>1 DEF Sleep, QuietFor
    <3>2. CASE ~ QueueFull(timeQueue)
      BY <1>1, <1>3, <1>6, <3>2 DEF Sleep, At, Blocks
    <3>3. QED BY <3>1, <3>2
  <2>3. QED BY <2>1, <2>2 DEF QuietStep
<1>7. ASSUME NEW u \in Tid, WaitForThread(u) PROVE QuietStep
  <2>1. UNCHANGED <<ring, mode, child, nextThreadId, exitInfo, execResult>>
    BY <1>7 DEF WaitForThread
  <2>2. CASE u \in threadList /\ wakeOnExit[u] = Null
    <3>1. \A t \in Tid : QuietFor(t)
      BY <1>1, <1>3, <1>7, <2>2 DEF WaitForThread, At, Blocks
    <3>2. mode[u] = "kernel" /\ current = Boot
          /\ wakeOnExit' = [wakeOnExit EXCEPT ![u] = Boot]
      BY <1>7, <2>2 DEF WaitForThread
    <3>3. QED BY <2>1, <2>2, <3>1, <3>2 DEF QuietStep
  <2>3. CASE ~ (u \in threadList /\ wakeOnExit[u] = Null)
    <3>1. UNCHANGED <<pc, state, wakeOnExit>>
      BY <1>7, <2>3 DEF WaitForThread
    <3>2. QED BY <2>1, <3>1 DEF QuietStep, QuietFor
  <2>4. QED BY <2>2, <2>3
<1>8. ASSUME NEW blocking \in BOOLEAN, GetKey(blocking) PROVE QuietStep
  <2>1. UNCHANGED <<ring, mode, child, nextThreadId, exitInfo, execResult, wakeOnExit>>
    BY <1>8 DEF GetKey
  <2>2. \A t \in Tid : QuietFor(t)
    BY <1>3, <1>8 DEF GetKey, At
  <2>3. QED BY <2>1, <2>2 DEF QuietStep
<1>9. CASE WaitForKeyboard
  <2>1. UNCHANGED <<ring, mode, child, nextThreadId, exitInfo, execResult, wakeOnExit>>
    BY <1>9 DEF WaitForKeyboard
  <2>2. \A t \in Tid : QuietFor(t)
    BY <1>1, <1>3, <1>9 DEF WaitForKeyboard, At, Blocks
  <2>3. QED BY <2>1, <2>2 DEF QuietStep
<1>10. CASE CheckTimeQueue
  <2>1. UNCHANGED <<ring, mode, child, nextThreadId, exitInfo, execResult, wakeOnExit>>
    BY <1>10 DEF CheckTimeQueue
  <2>2. CASE HeadDue(timeQueue) /\ DueTid(timeQueue) \in threadList
    <3> DEFINE u == DueTid(timeQueue)
    <3>1. timeQueue.head \in Linked(timeQueue)
      BY <2>2, LinkedClosed DEF HeadDue, IInv, TypeOK
    <3>2. u \in Tid /\ pc[u] = "sleeping"
      BY <1>1, <2>2, <3>1 DEF DueTid, IInv, WakersNameWaiters, TimeWakesSleeper
    <3>3. pc' = [pc EXCEPT ![u] = Resumed(@)] \/ pc' = pc
      BY <1>10, <2>2 DEF CheckTimeQueue, SwitchTo
    <3>4. \A t \in Tid : state'[t] = "Wait" => state[t] = "Wait"
      BY <1>1, <1>10, <2>2 DEF CheckTimeQueue
    <3>5. QED BY <2>1, <3>2, <3>3, <3>4, SwitchIsQuiet DEF QuietStep
  <2>3. CASE ~ (HeadDue(timeQueue) /\ DueTid(timeQueue) \in threadList)
    BY <1>10, <2>1, <2>3 DEF CheckTimeQueue, QuietStep, QuietFor
  <2>4. QED BY <2>2, <2>3
<1>11. CASE Scan
  <2>1. UNCHANGED <<ring, mode, child, nextThreadId, exitInfo, execResult, wakeOnExit>>
    BY <1>11 DEF Scan
  <2>2. NextFrom(walk) \in Tid
    BY <1>1, <1>11, NextFromListed DEF Scan
  <2>3. CASE Pass
    BY <2>1, <2>3 DEF Pass, QuietStep, QuietFor
  <2>4. CASE Choose
    <3> DEFINE u == NextFrom(walk)
    <3>1. state[u] = "Run" /\ (pc' = [pc EXCEPT ![u] = Resumed(@)] \/ pc' = pc)
      BY <2>4 DEF Choose, SwitchTo
    <3>2. \A t \in Tid : state'[t] = "Wait" => state[t] = "Wait" \/ t = Idle
      BY <1>1, <2>4 DEF Choose
    <3>3. QED BY <2>1, <2>2, <3>1, <3>2, SwitchIsQuiet DEF QuietStep
  <2>5. CASE ChooseIdle
    <3>1. pc[Idle] \in {"new", "body"} /\ (pc' = [pc EXCEPT ![Idle] = Resumed(@)] \/ pc' = pc)
      BY <2>5 DEF ChooseIdle, SwitchTo, IInv, CallInv
    <3>2. \A t \in Tid : state'[t] = "Wait" => state[t] = "Wait" \/ t = Idle
      BY <1>1, <2>5 DEF ChooseIdle
    <3>3. QED BY <1>1, <2>1, <3>1, <3>2, SwitchIsQuiet DEF QuietStep
  <2>6. CASE StayOnCpu
    <3>1. /\ state[current] = "Run" /\ pc' = [pc EXCEPT ![current] = Resumed(@)]
          /\ UNCHANGED state
      BY <2>6 DEF StayOnCpu
    <3>2. QED BY <1>1, <2>1, <3>1, SwitchIsQuiet DEF QuietStep
  <2>7. QED BY <1>11, <2>3, <2>4, <2>5, <2>6 DEF Scan
<1>12. QED
  BY <1>2, <1>4, <1>5, <1>6, <1>7, <1>8, <1>9, <1>10, <1>11 DEF Next

LEMMA WaitDoes ==
    ASSUME IInv, WaitForProcess
    PROVE  /\ UNCHANGED <<ring, mode, child, nextThreadId, execResult, exitInfo>>
           /\ current \in InSystem /\ current # Idle
           /\ pc[current] = "started" /\ child[current] \in Tid
           /\ \/ /\ child[current] \notin threadList
                 /\ pc' = [pc EXCEPT ![current] = "waited"]
                 /\ UNCHANGED <<state, wakeOnExit>>
              \/ UNCHANGED <<state, wakeOnExit, pc>>
              \/ /\ child[current] \in threadList /\ wakeOnExit[child[current]] = Null
                 /\ wakeOnExit' = [wakeOnExit EXCEPT ![child[current]] = current]
                 /\ pc' = [pc EXCEPT ![current] = "waiting"]
                 /\ state' = [state EXCEPT ![current] = "Wait"]
<1>1. /\ current \in InSystem /\ pc[current] = "started" /\ current \in Tid
  BY DEF WaitForProcess, At, IInv, CpuInv, RunnerIsReady, TypeOK
<1>2. child[current] \in Tid /\ current # Idle
  BY <1>1 DEF IInv, CallInv, InCall
<1>3. UNCHANGED <<ring, mode, child, nextThreadId, execResult, exitInfo>>
  BY DEF WaitForProcess
<1>4. CASE child[current] \notin threadList
  BY <1>1, <1>2, <1>3, <1>4 DEF WaitForProcess
<1>5. CASE child[current] \in threadList /\ wakeOnExit[child[current]] # Null
  BY <1>1, <1>2, <1>3, <1>5 DEF WaitForProcess
<1>6. CASE child[current] \in threadList /\ wakeOnExit[child[current]] = Null
  BY <1>1, <1>2, <1>3, <1>6 DEF WaitForProcess, Blocks
<1>7. QED BY <1>4, <1>5, <1>6

LEMMA CollectDoes ==
    ASSUME IInv, Collect
    PROVE  /\ UNCHANGED <<state, wakeOnExit, ring, mode, child, nextThreadId, exitInfo>>
           /\ current \in InSystem /\ current # Idle
           /\ pc[current] = "waited" /\ child[current] \in Tid
           /\ \/ exitInfo[child[current]] = "none" /\ UNCHANGED <<pc, execResult>>
              \/ /\ exitInfo[child[current]] # "none"
                 /\ pc' = [pc EXCEPT ![current] = IF current = Boot THEN "done" ELSE "body"]
                 /\ execResult' = [execResult EXCEPT ![current] = exitInfo[child[current]]]
<1>1. /\ current \in InSystem /\ pc[current] = "waited" /\ current \in Tid
  BY DEF Collect, At, IInv, CpuInv, RunnerIsReady, TypeOK
<1>2. child[current] \in Tid /\ current # Idle
  BY <1>1 DEF IInv, CallInv, InCall
<1>3. UNCHANGED <<state, wakeOnExit, ring, mode, child, nextThreadId, exitInfo>>
  BY DEF Collect
<1>4. CASE exitInfo[child[current]] = "none"
  BY <1>1, <1>2, <1>3, <1>4 DEF Collect
<1>5. CASE exitInfo[child[current]] # "none"
  BY <1>1, <1>2, <1>3, <1>5 DEF Collect
<1>6. QED BY <1>4, <1>5

(* An insertion goes on undisturbed: nobody else starts one, and nobody    *)
(* waits for the newcomer before the boot thread can.                      *)
LEMMA InsertKept ==
    ASSUME IInv, Next
    PROVE  InsertInv'
<1>1. /\ pc \in [Tid -> Pcs] /\ child \in [Tid -> ThreadOrNull] /\ current \in Tid
      /\ mode \in [Tid -> {"kernel", "user"}] /\ wakeOnExit \in [Tid -> ThreadOrNull]
      /\ newcomer \in ThreadOrNull /\ (newcomer = Null <=> insertAt = "none")
      /\ threadList \subseteq Tid /\ Tid \subseteq Nat /\ Null \notin Tid /\ Boot \in Tid
      /\ nextThreadId \in Nat /\ Idle # Boot
      /\ \A t \in threadList : t < nextThreadId
  BY NullIsNoTid DEF IInv, TypeOK, RingInv, Idle, Boot
<1>2. InsertInv
  BY DEF IInv
<1>3. insertAt # "none" => newcomer \in Tid /\ newcomer \notin threadList
  BY <1>1, <1>2, NullIsNoTid DEF InsertInv, ThreadOrNull
(* A step that leaves the insertion as it is.                              *)
<1>4. ASSUME UNCHANGED <<newcomer, insertAt, nextThreadId, mode, child>>,
             threadList' \subseteq threadList,
             insertAt = "linking" => nextInSystem'[newcomer] = nextInSystem[newcomer],
             insertAt # "none" => wakeOnExit'[newcomer] = wakeOnExit[newcomer],
             \A t \in Tid : pc'[t] = "inserting" <=> pc[t] = "inserting",
             pc[Boot] \in InCall \cup {"done"} => pc'[Boot] \in InCall \cup {"done"}
      PROVE  InsertInv'
  <2>1. \A t \in Tid : pc'[t] = "inserting" <=> t = Boot /\ insertAt' # "none"
    BY <1>2, <1>4 DEF InsertInv
  <2>2. insertAt' # "none" =>
           /\ KernelThreads
           /\ newcomer' < nextThreadId' /\ \A t \in threadList' : t < newcomer'
           /\ wakeOnExit'[newcomer'] = Null
    BY <1>2, <1>4 DEF InsertInv
  <2>3. /\ insertAt' = "linking" => nextInSystem'[newcomer'] = Null
        /\ child'[Boot] # Null => pc'[Boot] \in InCall \cup {"done"}
        /\ child'[Boot] = Null => \A t \in Tid : mode'[t] = "kernel"
    BY <1>2, <1>4 DEF InsertInv
  <2>4. QED BY <2>1, <2>2, <2>3 DEF InsertInv
<1>5. CASE QuietStep
  <2>1. UNCHANGED <<newcomer, insertAt, nextThreadId, mode, child, threadList, nextInSystem>>
    BY <1>5 DEF QuietStep, ring
  <2>2. insertAt # "none" => wakeOnExit'[newcomer] = wakeOnExit[newcomer]
    BY <1>1, <1>3, <1>5 DEF QuietStep
  <2>3. \A t \in Tid : QuietFor(t)
    BY <1>5 DEF QuietStep
  <2>4. QED BY <1>1, <1>4, <2>1, <2>2, <2>3 DEF QuietFor
<1>6. CASE WaitForProcess \/ Collect
  <2>1. UNCHANGED <<newcomer, insertAt, nextThreadId, mode, child, threadList, nextInSystem>>
    BY <1>6, WaitDoes, CollectDoes DEF ring
  <2>2. insertAt # "none" => wakeOnExit'[newcomer] = wakeOnExit[newcomer]
    BY <1>1, <1>3, <1>6, WaitDoes, CollectDoes
  <2>3. /\ pc[current] \in {"started", "waited"}
        /\ \/ pc' = pc
           \/ pc' = [pc EXCEPT ![current] = "waited"]
           \/ pc' = [pc EXCEPT ![current] = "waiting"]
           \/ pc' = [pc EXCEPT ![current] = IF current = Boot THEN "done" ELSE "body"]
    BY <1>6, WaitDoes, CollectDoes
  <2>4. /\ \A t \in Tid : pc'[t] = "inserting" <=> pc[t] = "inserting"
        /\ pc[Boot] \in InCall \cup {"done"} => pc'[Boot] \in InCall \cup {"done"}
    BY <1>1, <2>3 DEF InCall
  <2>5. QED BY <1>4, <2>1, <2>2, <2>4
<1>7. ASSUME NEW how \in {"exited", "crashed"}, Exit(how) PROVE InsertInv'
  <2>1. /\ UNCHANGED <<newcomer, insertAt, nextThreadId, mode, child, wakeOnExit>>
        /\ threadList' \subseteq threadList /\ current # Boot /\ pc[current] = "body"
        /\ pc' = [pc EXCEPT ![current] = "dead"]
    BY <1>7, ExitDoes
  <2>2. insertAt = "linking" => nextInSystem'[newcomer] = nextInSystem[newcomer]
    BY <1>7, ExitDoes, RemoveThreadLinks, TypesOfLinks, InSystemIs DEF IInv
  <2>3. QED BY <1>1, <1>4, <2>1, <2>2
<1>8. CASE Exec
  <2>1. /\ insertAt = "none" /\ insertAt' = "none" /\ nextThreadId \in Tid
        /\ nextThreadId # Boot
    BY <1>1, <1>8, ExecInsertsAlone, InsertThreadLinks DEF IInv, RingInv
  <2>2. /\ pc' = [pc EXCEPT ![current] = "starting", ![nextThreadId] = "body"]
        /\ child' = [child EXCEPT ![current] = nextThreadId]
        /\ mode' = [mode EXCEPT ![nextThreadId] = "user"]
        /\ pc[current] = "body" /\ (mode[current] = "user" \/ current = Boot)
    BY <1>8 DEF Exec, At
  <2>3. \A t \in Tid : pc'[t] # "inserting"
    BY <1>1, <1>2, <2>1, <2>2 DEF InsertInv
  <2>4. child'[Boot] # Null => pc'[Boot] \in InCall \cup {"done"}
    BY <1>1, <1>2, <2>1, <2>2 DEF InsertInv, InCall
  <2>5. child'[Boot] # Null
    <3>1. CASE current = Boot
      BY <1>1, <2>1, <2>2, <3>1
    <3>2. CASE current # Boot
      BY <1>1, <1>2, <2>2, <3>2 DEF InsertInv
    <3>3. QED BY <3>1, <3>2
  <2>6. QED BY <2>1, <2>3, <2>4, <2>5 DEF InsertInv
<1>9. CASE Spawn
  <2>1. /\ insertAt' = "linking" /\ newcomer' = nextThreadId /\ KernelThreads
        /\ nextThreadId' = nextThreadId + 1 /\ nextThreadId \in Tid
        /\ UNCHANGED <<threadList, wakeOnExit, mode, child>>
        /\ pc' = [pc EXCEPT ![Boot] = "inserting"] /\ insertAt = "none"
        /\ child[Boot] = Null
    BY <1>9, SpawnDoes
  <2>2. wakeOnExit[nextThreadId] = Null
    BY <2>1, NullIsNoTid DEF IInv, UnbornInv
  <2>3. nextInSystem'[nextThreadId] = Null
    BY <1>9, SpawnLinks
  <2>4. \A t \in Tid : pc'[t] = "inserting" <=> t = Boot
    BY <1>1, <1>2, <2>1 DEF InsertInv
  <2>5. newcomer' < nextThreadId' /\ \A t \in threadList' : t < newcomer'
    BY <1>1, <2>1
  <2>6. QED BY <1>2, <2>1, <2>2, <2>3, <2>4, <2>5 DEF InsertInv
<1>10. CASE InsertStep
  <2>1. /\ UNCHANGED <<nextThreadId, mode, child, wakeOnExit>> /\ child[Boot] = Null
        /\ insertAt' # "linking" /\ insertAt # "none"
    BY <1>10, InsertStepDoes, InsertStepLinks
  <2>2. CASE insertAt' = "none" /\ pc' = [pc EXCEPT ![Boot] = "body"]
    BY <1>1, <1>2, <2>1, <2>2 DEF InsertInv
  <2>3. CASE insertAt' # "none" /\ pc' = pc
    <3>1. UNCHANGED <<threadList, newcomer>>
      BY <1>10, <2>3, InsertStepLinks
    <3>2. QED BY <1>2, <2>1, <2>3, <3>1 DEF InsertInv
  <2>4. QED BY <1>10, <2>2, <2>3, InsertStepDoes
<1>11. QED BY <1>5, <1>6, <1>7, <1>8, <1>9, <1>10, QuietSteps

-----------------------------------------------------------------------------
(* The inductive invariant.  RunnerIsReady needs the ring, for the thread  *)
(* next's loop answers; the ring needs to know that only listed threads    *)
(* run, for those are the ones that exit; the time queue needs the wakers, *)
(* for a thread woken by something else could go to sleep twice; and all   *)
(* of them need to know how far an interrupted insert_thread has come.     *)
THEOREM Invariance == Spec => []IInv
<1>1. IInv /\ [Next]_vars => IInv'
  <2> SUFFICES ASSUME IInv, [Next]_vars PROVE IInv'
    OBVIOUS
  <2>1. CASE Next
    <3>1. GoodList(timeQueue)'
      BY <2>1, QueueStep DEF GoodList, Linked, WalkFrom
    <3>2. QED
      BY <2>1, <3>1, TypeStep, RingStep, CpuStep, UnbornStep, CallStep, InsertKept,
         WakersStep DEF IInv
  <2>2. CASE UNCHANGED vars
    <3>1. TypeOK' /\ UnbornInv' /\ CallInv' /\ InsertInv'
      BY <2>2 DEF IInv, TypeOK, UnbornInv, CallInv, InsertInv, vars, ring, cpu
    <3>2. RingInv' /\ CpuInv'
      BY <2>2 DEF IInv, RingInv, RingIsThreadList, After, Before, InSystem, WayBack,
                  LastInSystem, CpuInv, RunnerIsReady, vars, ring, cpu
    <3>3. WakersNameWaiters' /\ GoodList(timeQueue)'
      BY <2>2 DEF IInv, WakersNameWaiters, ExitWakesWaiter, KeyWakesWaiter, InSystem,
                  TimeWakesSleeper, GoodList, Linked, WalkFrom, vars, ring, cpu
    <3>4. QED BY <3>1, <3>2, <3>3 DEF IInv
  <2>3. QED BY <2>1, <2>2
<1>2. QED BY InitIInv, <1>1, PTL DEF Spec

(* Types: among them, that the head and the tail of the list are never     *)
(* null and that the loop of next never follows a null pointer.            *)
THEOREM TypeCorrect == Spec => []TypeOK
<1>1. IInv => TypeOK
  BY DEF IInv
<1>2. QED BY Invariance, <1>1, PTL

(* insert_thread and remove_thread keep the list that next walks equal to  *)
(* the table of threads, in the order they were started: also between any  *)
(* two writes of an insert_thread that runs with interrupts on, where the  *)
(* list that can be walked has the new thread as its last or not at all.   *)
THEOREM RingAlwaysThreadList == Spec => []RingIsThreadList
<1>1. IInv => RingIsThreadList
  BY DEF IInv, RingInv
<1>2. QED BY Invariance, <1>1, PTL

(* No thread that ended or is registered as blocked ever has the CPU, even *)
(* if the timer comes while a thread is being inserted.                    *)
THEOREM RunnerAlwaysReady == Spec => []RunnerIsReady
<1>1. IInv => RunnerIsReady
  BY DEF IInv, CpuInv
<1>2. QED BY Invariance, <1>1, PTL

(* No exit, key or tick ever wakes a thread that is not waiting for it.    *)
THEOREM WakersAlwaysNameWaiters == Spec => []WakersNameWaiters
<1>1. IInv => WakersNameWaiters
  BY DEF IInv
<1>2. QED BY Invariance, <1>1, PTL

-----------------------------------------------------------------------------
(* The processes.  It was shown that what is recorded as to be woken is    *)
(* blocked; from here on it is the other way round, that what is blocked   *)
(* is recorded.                                                            *)
Started == 2 .. nextThreadId - 1

(* The boot thread and the processes.                                      *)
Callers == {t \in threadList : t = Boot \/ mode[t] = "user"}

(* Each process was started by one exec.  Only processes read keys.        *)
ChildInv ==
    /\ \A t \in Tid : child[t] # Null => child[t] \in Started /\ mode[child[t]] = "user"
    /\ \A t, u \in Tid : child[t] # Null /\ child[t] = child[u] => t = u
    /\ \A t \in Tid : t >= nextThreadId =>
          mode[t] = "kernel" /\ child[t] = Null /\ exitInfo[t] = "none"
    /\ mode[Boot] = "kernel"
    /\ \A t \in Tid : pc[t] \in {"getkey", "nokey", "keywait"} => mode[t] = "user"

(* Whoever is gone has ended, and a process that is gone left an exit info. *)
EndInv ==
    /\ \A t \in Tid : t < nextThreadId =>
          (t \in threadList \/ t = newcomer <=> pc[t] # "dead")
    /\ \A t \in Started : mode[t] = "user" /\ t \notin threadList => exitInfo[t] # "none"

(* A thread in wait_for_process is woken by the process it waits for, and  *)
(* is back from it only when that has ended.                               *)
WaitInv ==
    \A t \in Tid :
      /\ pc[t] = "waiting" /\ child[t] \in threadList => wakeOnExit[child[t]] = t
      /\ pc[t] = "waiting" /\ state[t] = "Wait" => child[t] \in threadList
      /\ pc[t] = "waited" => child[t] \notin threadList

(* Nobody but its caller waits for a process, nobody but the boot thread   *)
(* for a kernel thread.                                                    *)
WakerInv ==
    \A c \in threadList : wakeOnExit[c] # Null =>
        /\ mode[c] = "user" => child[wakeOnExit[c]] = c
        /\ mode[c] = "kernel" => wakeOnExit[c] = Boot

(* Processes that have not ended are a chain of calls: all but the one     *)
(* that was started last are in a call of exec.                            *)
ChainInv ==
    \A t, u \in Callers : t < u =>
        pc[t] \in InCall /\ child[t] \in threadList /\ child[t] <= u

CallsInv == ChildInv /\ EndInv /\ WaitInv /\ WakerInv /\ ChainInv

-----------------------------------------------------------------------------
(* What the other steps do to the calls.                                   *)
LEMMA InitCalls == Init => CallsInv
<1> SUFFICES ASSUME Init PROVE CallsInv
  OBVIOUS
<1>1. Idle # Boot /\ Null \notin Tid /\ Idle \in Tid /\ Boot \in Tid /\ Tid \subseteq Nat
  BY NullIsNoTid DEF Idle, Boot
<1>2. ChildInv
  BY <1>1 DEF Init, ChildInv
<1>3. EndInv
  <2>1. \A t \in Tid : t < 2 => t \in {Idle, Boot}
    BY <1>1 DEF Idle, Boot
  <2>2. Started = {}
    BY DEF Init, Started
  <2>3. QED BY <1>1, <2>1, <2>2 DEF Init, EndInv
<1>4. WaitInv /\ WakerInv
  BY <1>1 DEF Init, WaitInv, WakerInv
<1>5. ChainInv
  <2>1. Callers = {Boot}
    BY <1>1 DEF Init, Callers
  <2>2. ~ (Boot < Boot)
    BY <1>1
  <2>3. QED BY <2>1, <2>2 DEF ChainInv
<1>6. QED BY <1>2, <1>3, <1>4, <1>5 DEF CallsInv

LEMMA ExecDoes ==
    ASSUME IInv, CallsInv, Exec
    PROVE  /\ nextThreadId \in Tid \ threadList /\ nextThreadId \notin {Idle, Boot, current}
           /\ \A t \in threadList : t < nextThreadId
           /\ threadList' = threadList \cup {nextThreadId}
           /\ nextThreadId' = nextThreadId + 1 /\ nextThreadId \in Nat
           /\ newcomer = Null /\ newcomer' = Null
           /\ current \in Callers /\ current # Idle /\ pc[current] = "body"
           /\ current = Boot => child[Boot] = Null
           /\ mode' = [mode EXCEPT ![nextThreadId] = "user"]
           /\ child' = [child EXCEPT ![current] = nextThreadId]
           /\ pc' = [pc EXCEPT ![current] = "starting", ![nextThreadId] = "body"]
           /\ UNCHANGED <<state, wakeOnExit, execResult, exitInfo>>
<1>1. /\ nextThreadId \in Tid \ threadList /\ nextThreadId \in Nat
      /\ threadList' = threadList \cup {nextThreadId} /\ nextThreadId' = nextThreadId + 1
      /\ InSystem = threadList /\ newcomer = Null /\ newcomer' = Null
  BY ExecInsertsAlone, InsertThreadLinks, NullIsNoTid
<1>2. {Idle, Boot} \subseteq threadList /\ \A t \in threadList : t < nextThreadId
  BY DEF IInv, RingInv
<1>3. current \in threadList /\ pc[current] = "body"
  BY <1>1 DEF Exec, At, IInv, CpuInv, RunnerIsReady
<1>4. mode[current] = "user" \/ (current = Boot /\ child[Boot] = Null)
  BY DEF Exec
<1>5. mode[Boot] = "kernel" /\ mode[Idle] = "kernel" /\ Idle # Boot
  BY DEF CallsInv, ChildInv, IInv, CallInv, Idle, Boot
<1>6. /\ mode' = [mode EXCEPT ![nextThreadId] = "user"]
      /\ child' = [child EXCEPT ![current] = nextThreadId]
      /\ pc' = [pc EXCEPT ![current] = "starting", ![nextThreadId] = "body"]
      /\ UNCHANGED <<state, wakeOnExit, execResult, exitInfo>>
  BY DEF Exec
<1>7. QED BY <1>1, <1>2, <1>3, <1>4, <1>5, <1>6 DEF Callers

(* Whoever is in its own code, or in a call that has ended, is the last of *)
(* the callers.                                                            *)
LEMMA LastCaller ==
    ASSUME IInv, CallsInv, NEW t \in Callers,
           pc[t] \notin InCall \/ child[t] \notin threadList
    PROVE  \A u \in Callers : u <= t
<1>1. Callers \subseteq Nat
  BY NullIsNoTid DEF Callers, IInv, TypeOK
<1>2. \A u \in Callers : ~ (t < u)
  BY DEF CallsInv, ChainInv
<1>3. QED BY <1>1, <1>2

LEMMA StartedAreThreads ==
    ASSUME IInv
    PROVE  Started \subseteq Tid \ {Idle, Boot} /\ \A t \in Started : t < nextThreadId
<1>1. nextThreadId \in 2 .. MaxThreads
  BY DEF IInv, TypeOK
<1>2. QED BY <1>1, ThreadsAssumption DEF Started, Tid, Idle, Boot

(* Until the boot thread has made its call of exec there are no others.    *)
LEMMA NoCallsYet ==
    ASSUME IInv, ChildInv, child[Boot] = Null
    PROVE  \A t \in Tid : mode[t] = "kernel" /\ child[t] = Null /\ pc[t] \notin InCall
<1>1. /\ Null \notin Tid /\ child \in [Tid -> ThreadOrNull] /\ Started \subseteq Tid
      /\ InsertInv /\ CallInv
  BY NullIsNoTid, StartedAreThreads DEF IInv, TypeOK
<1>2. \A t \in Tid : mode[t] = "kernel"
  BY <1>1 DEF InsertInv
<1>3. \A t \in Tid : child[t] = Null
  BY <1>1, <1>2 DEF ChildInv
<1>4. QED BY <1>1, <1>2, <1>3 DEF CallInv

LEMMA ChildStep ==
    ASSUME IInv, CallsInv, Next
    PROVE  ChildInv'
<1>1. /\ pc \in [Tid -> Pcs] /\ child \in [Tid -> ThreadOrNull] /\ current \in Tid
      /\ mode \in [Tid -> {"kernel", "user"}] /\ nextThreadId \in Nat
      /\ exitInfo \in [Tid -> {"none", "exited", "crashed"}]
      /\ Null \notin Tid /\ Tid \subseteq Nat /\ Boot \in Tid /\ Idle # Boot
      /\ threadList \subseteq Tid /\ \A t \in threadList : t < nextThreadId
  BY NullIsNoTid DEF IInv, TypeOK, RingInv, Idle, Boot
<1>2. ChildInv
  BY DEF CallsInv
<1>3. Started \subseteq Tid \ {Idle, Boot} /\ \A t \in Started : t < nextThreadId
  BY StartedAreThreads
<1>4. CASE QuietStep
  <2>1. UNCHANGED <<mode, child, nextThreadId, exitInfo>>
    BY <1>4 DEF QuietStep
  <2>2. \A t \in Tid : pc'[t] \in {"getkey", "nokey", "keywait"} => mode[t] = "user"
    BY <1>2, <1>4 DEF QuietStep, QuietFor, ChildInv
  <2>3. QED BY <1>2, <2>1, <2>2 DEF ChildInv, Started
<1>5. CASE Exec
  <2> DEFINE c == nextThreadId
  <2>1. /\ c \in Tid \ threadList /\ c \notin {Idle, Boot, current} /\ nextThreadId' = c + 1
        /\ mode' = [mode EXCEPT ![c] = "user"] /\ child' = [child EXCEPT ![current] = c]
        /\ pc' = [pc EXCEPT ![current] = "starting", ![c] = "body"]
        /\ exitInfo' = exitInfo
    BY <1>5, ExecDoes
  <2>2. Started' = Started \cup {c}
    BY <1>1, <2>1 DEF Started, IInv, TypeOK
  <2>3. ASSUME NEW t \in Tid, child[t] = c PROVE FALSE
    <3>1. c \in Started
      BY <1>1, <1>2, <2>1, <2>3 DEF ChildInv
    <3>2. c < c
      BY <1>3, <3>1
    <3>3. QED BY <1>1, <3>2
  <2>4. \A t \in Tid : child'[t] # Null => child'[t] \in Started' /\ mode'[child'[t]] = "user"
    BY <1>1, <1>2, <2>1, <2>2 DEF ChildInv
  <2>5. \A t, u \in Tid : child'[t] # Null /\ child'[t] = child'[u] => t = u
    BY <1>1, <1>2, <2>1, <2>3 DEF ChildInv
  <2>6. ASSUME NEW t \in Tid, t >= nextThreadId'
        PROVE  mode'[t] = "kernel" /\ child'[t] = Null /\ exitInfo'[t] = "none"
    <3>1. t >= c /\ t # c /\ t # current
      <4>1. t >= c /\ t # c
        BY <1>1, <2>1, <2>6
      <4>2. current \in threadList /\ current < c
        BY <1>5, ExecDoes DEF Callers
      <4>3. QED BY <1>1, <4>1, <4>2
    <3>2. QED BY <1>1, <1>2, <2>1, <3>1 DEF ChildInv
  <2>7. mode'[Boot] = "kernel"
    BY <1>1, <1>2, <2>1 DEF ChildInv
  <2>8. \A t \in Tid : pc'[t] \in {"getkey", "nokey", "keywait"} => mode'[t] = "user"
    BY <1>1, <1>2, <2>1 DEF ChildInv
  <2>9. QED BY <2>4, <2>5, <2>6, <2>7, <2>8 DEF ChildInv
(* The others start no process.                                            *)
<1>6. ASSUME UNCHANGED <<mode, child>>,
             nextThreadId' = nextThreadId \/ nextThreadId' = nextThreadId + 1,
             \A t \in Tid : t >= nextThreadId => exitInfo'[t] = "none",
             \A t \in Tid : pc'[t] \in {"getkey", "nokey", "keywait"} => mode[t] = "user"
      PROVE  ChildInv'
  <2>1. Started \subseteq Started'
    BY <1>1, <1>6 DEF Started, IInv, TypeOK
  <2>2. \A t \in Tid : t >= nextThreadId' => t >= nextThreadId
    BY <1>1, <1>6
  <2>3. QED BY <1>2, <1>6, <2>1, <2>2 DEF ChildInv
<1>7. CASE Spawn \/ InsertStep
  <2>1. UNCHANGED <<mode, child, exitInfo>>
        /\ (nextThreadId' = nextThreadId \/ nextThreadId' = nextThreadId + 1)
    BY <1>7, SpawnDoes, InsertStepDoes
  <2>2. \/ pc' = pc
        \/ pc' = [pc EXCEPT ![Boot] = "inserting"]
        \/ pc' = [pc EXCEPT ![Boot] = "body"]
    BY <1>7, SpawnDoes, InsertStepDoes
  <2>3. QED BY <1>1, <1>2, <1>6, <2>1, <2>2 DEF ChildInv
<1>8. CASE WaitForProcess
  <2>1. \/ pc' = pc
        \/ pc' = [pc EXCEPT ![current] = "waited"]
        \/ pc' = [pc EXCEPT ![current] = "waiting"]
    BY <1>8, WaitDoes
  <2>2. QED BY <1>1, <1>2, <1>6, <1>8, <2>1, WaitDoes DEF ChildInv, InCall
<1>9. CASE Collect
  BY <1>1, <1>2, <1>6, <1>9, CollectDoes DEF ChildInv
<1>10. ASSUME NEW how \in {"exited", "crashed"}, Exit(how) PROVE ChildInv'
  <2>1. current \in threadList \ {Idle, Boot} /\ current < nextThreadId
    BY <1>1, <1>10, ExitDoes
  <2>2. \A t \in Tid : t >= nextThreadId => exitInfo'[t] = "none"
    <3>1. \A t \in Tid : t >= nextThreadId => t # current
      BY <1>1, <2>1
    <3>2. \A t \in Tid : t # current => exitInfo'[t] = exitInfo[t]
      BY <1>1, <1>10, ExitDoes
    <3>3. QED BY <1>2, <3>1, <3>2 DEF ChildInv
  <2>3. QED BY <1>1, <1>2, <1>6, <1>10, <2>1, <2>2, ExitDoes DEF ChildInv
<1>11. QED BY <1>4, <1>5, <1>7, <1>8, <1>9, <1>10, QuietSteps

LEMMA EndStep ==
    ASSUME IInv, CallsInv, Next
    PROVE  EndInv'
<1>1. /\ pc \in [Tid -> Pcs] /\ current \in Tid /\ nextThreadId \in Nat
      /\ mode \in [Tid -> {"kernel", "user"}]
      /\ exitInfo \in [Tid -> {"none", "exited", "crashed"}]
      /\ Tid \subseteq Nat
      /\ threadList \subseteq Tid /\ \A t \in threadList : t < nextThreadId
  BY NullIsNoTid DEF IInv, TypeOK, RingInv
<1>2. EndInv
  BY DEF CallsInv
<1>3. CASE QuietStep
  BY <1>2, <1>3 DEF QuietStep, QuietFor, EndInv, Started, ring
<1>4. ASSUME nextThreadId \in Tid, threadList \subseteq threadList',
             \A t \in Tid : t \in threadList' \/ t = newcomer' <=>
                t \in threadList \/ t = newcomer \/ t = nextThreadId,
             nextThreadId \in threadList' \/ mode'[nextThreadId] = "kernel",
             nextThreadId' = nextThreadId + 1, exitInfo' = exitInfo,
             pc'[nextThreadId] # "dead",
             \A t \in Tid : t # nextThreadId =>
                mode'[t] = mode[t] /\ (pc'[t] = "dead" <=> pc[t] = "dead")
      PROVE  EndInv'
  <2>1. \A t \in Tid : t < nextThreadId' => t < nextThreadId \/ t = nextThreadId
    BY <1>1, <1>4
  <2>2. \A t \in Tid : t < nextThreadId => t # nextThreadId
    BY <1>1
  <2>3. \A t \in Tid : t < nextThreadId' =>
           (t \in threadList' \/ t = newcomer' <=> pc'[t] # "dead")
    BY <1>2, <1>4, <2>1, <2>2 DEF EndInv
  <2>4. ASSUME NEW t \in Started', mode'[t] = "user", t \notin threadList'
        PROVE  exitInfo'[t] # "none"
    <3>1. t # nextThreadId /\ t \in Started /\ t \in Tid
      <4>1. t \in 2 .. nextThreadId /\ t # nextThreadId
        BY <1>1, <1>4, <2>4 DEF Started
      <4>2. t \in Started
        BY <1>1, <4>1 DEF Started
      <4>3. QED BY <4>1, <4>2, StartedAreThreads
    <3>2. QED BY <1>2, <1>4, <2>4, <3>1 DEF EndInv
  <2>5. QED BY <2>3, <2>4 DEF EndInv
<1>5. CASE Exec
  BY <1>1, <1>4, <1>5, ExecDoes
<1>6. CASE Spawn
  <2>1. pc[nextThreadId] = "new" /\ mode[nextThreadId] = "kernel"
    BY <1>1, <1>6, SpawnDoes DEF IInv, UnbornInv
  <2>2. \A t \in Tid : t # Null
    BY NullIsNoTid
  <2>3. QED BY <1>1, <1>4, <1>6, <2>1, <2>2, SpawnDoes
<1>7. ASSUME UNCHANGED <<nextThreadId, mode, exitInfo>>, threadList \subseteq threadList',
             \A t \in Tid : t \in threadList' \/ t = newcomer' <=>
                t \in threadList \/ t = newcomer,
             \A t \in Tid : pc'[t] = "dead" <=> pc[t] = "dead"
      PROVE  EndInv'
  BY <1>2, <1>7 DEF EndInv, Started
<1>8. CASE WaitForProcess
  <2>1. \A t \in Tid : pc'[t] = "dead" <=> pc[t] = "dead"
    BY <1>1, <1>8, WaitDoes
  <2>2. QED BY <1>7, <1>8, <2>1, WaitDoes DEF ring
<1>9. CASE Collect
  <2>1. \A t \in Tid : pc'[t] = "dead" <=> pc[t] = "dead"
    BY <1>1, <1>9, CollectDoes
  <2>2. QED BY <1>7, <1>9, <2>1, CollectDoes DEF ring
<1>10. ASSUME NEW how \in {"exited", "crashed"}, Exit(how) PROVE EndInv'
  <2>1. \A t \in Tid : t < nextThreadId =>
           (t \in threadList' \/ t = newcomer' <=> pc'[t] # "dead")
    BY <1>1, <1>2, <1>10, ExitDoes DEF EndInv
  <2>2. ASSUME NEW t \in Started, mode[t] = "user", t \notin threadList'
        PROVE  exitInfo'[t] # "none"
    <3> t \in Tid
      BY StartedAreThreads
    <3>1. CASE t = current
      BY <1>1, <1>10, <2>2, <3>1, ExitDoes
    <3>2. CASE t # current
      <4>1. t \notin threadList /\ exitInfo'[t] = exitInfo[t]
        BY <1>1, <1>10, <2>2, <3>2, ExitDoes
      <4>2. QED BY <1>2, <2>2, <4>1 DEF EndInv
    <3>3. QED BY <3>1, <3>2
  <2>3. QED BY <1>10, <2>1, <2>2, ExitDoes DEF EndInv, Started
<1>11. CASE InsertStep
  <2>1. \A t \in Tid : pc'[t] = "dead" <=> pc[t] = "dead"
    BY <1>1, <1>11, InsertStepDoes
  <2>2. UNCHANGED <<nextThreadId, mode, exitInfo>> /\ \A t \in Tid : t # Null
    BY <1>11, InsertStepDoes, NullIsNoTid
  <2>3. \/ UNCHANGED <<threadList, newcomer>>
        \/ threadList' = threadList \cup {newcomer} /\ newcomer' = Null
    BY <1>11, InsertStepLinks
  <2>4. QED BY <1>7, <2>1, <2>2, <2>3
<1>12. QED BY <1>3, <1>5, <1>6, <1>8, <1>9, <1>10, <1>11, QuietSteps

LEMMA WaitStep ==
    ASSUME IInv, CallsInv, Next
    PROVE  WaitInv'
<1>1. /\ pc \in [Tid -> Pcs] /\ child \in [Tid -> ThreadOrNull] /\ current \in Tid
      /\ state \in [Tid -> {"Run", "Wait"}] /\ wakeOnExit \in [Tid -> ThreadOrNull]
      /\ threadList \subseteq Tid /\ Null \notin Tid /\ pc[Idle] \in {"new", "body"}
      /\ threadList \subseteq InSystem
  BY NullIsNoTid, TypesOfLinks, InSystemIs DEF IInv, TypeOK, CallInv
<1>2. WaitInv /\ ExitWakesWaiter
  BY DEF CallsInv, IInv, WakersNameWaiters
<1>3. \A t \in Tid : pc[t] = "waiting" /\ state[t] = "Run" => child[t] \notin threadList
  BY <1>1, <1>2 DEF WaitInv, ExitWakesWaiter
<1>4. CASE QuietStep
  <2> SUFFICES ASSUME NEW t \in Tid
               PROVE  /\ pc'[t] = "waiting" /\ child[t] \in threadList =>
                            wakeOnExit'[child[t]] = t
                      /\ pc'[t] = "waiting" /\ state'[t] = "Wait" => child[t] \in threadList
                      /\ pc'[t] = "waited" => child[t] \notin threadList
    BY <1>4 DEF WaitInv, QuietStep, ring
  <2>1. QuietFor(t)
    BY <1>4 DEF QuietStep
  <2>2. ASSUME pc'[t] = "waiting", child[t] \in threadList PROVE wakeOnExit'[child[t]] = t
    <3>1. wakeOnExit[child[t]] = t
      BY <1>2, <2>1, <2>2 DEF WaitInv, QuietFor
    <3>2. QED BY <1>1, <1>4, <2>2, <3>1 DEF QuietStep
  <2>3. pc'[t] = "waiting" /\ state'[t] = "Wait" => child[t] \in threadList
    BY <1>1, <1>2, <2>1 DEF WaitInv, QuietFor
  <2>4. pc'[t] = "waited" => child[t] \notin threadList
    BY <1>2, <1>3, <2>1 DEF WaitInv, QuietFor
  <2>5. QED BY <2>2, <2>3, <2>4
<1>5. \A t \in Tid : pc[t] \in {"waiting", "waited"} =>
         \/ child[t] # nextThreadId /\ t \notin {current, nextThreadId}
         \/ phase # "run"
         \/ pc[current] \in {"waiting", "waited"}
  <2>1. \A t \in Tid : child[t] # Null => child[t] \in Started
    BY DEF CallsInv, ChildInv
  <2>2. nextThreadId \notin Started
    BY DEF Started, IInv, TypeOK
  <2>3. \A t \in Tid : pc[t] \in {"waiting", "waited"} => child[t] # Null
    BY <1>1 DEF IInv, CallInv, InCall
  <2>4. nextThreadId \in Tid => pc[nextThreadId] = "new"
    BY NullIsNoTid DEF IInv, UnbornInv
  <2>5. QED BY <2>1, <2>2, <2>3, <2>4
<1>6. CASE Exec
  BY <1>1, <1>2, <1>5, <1>6, ExecDoes DEF WaitInv, Exec, At
<1>7. CASE Spawn \/ InsertStep
  <2>1. \A t \in Tid : pc[t] \notin InCall
    BY <1>7, SpawnDoes, InsertStepDoes, NoCallsYet DEF CallsInv
  <2>2. \/ pc' = pc
        \/ pc' = [pc EXCEPT ![Boot] = "inserting"]
        \/ pc' = [pc EXCEPT ![Boot] = "body"]
    BY <1>7, SpawnDoes, InsertStepDoes
  <2>3. \A t \in Tid : pc'[t] \notin {"waiting", "waited"}
    BY <1>1, <2>1, <2>2 DEF InCall
  <2>4. QED BY <2>3 DEF WaitInv
<1>8. CASE WaitForProcess
  <2>1. UNCHANGED <<threadList, child>> /\ pc[current] = "started"
    BY <1>8, WaitDoes DEF ring
  <2>2. CASE child[current] \notin threadList /\ UNCHANGED <<state, wakeOnExit>>
             /\ pc' = [pc EXCEPT ![current] = "waited"]
    BY <1>1, <1>2, <2>1, <2>2 DEF WaitInv
  <2>3. CASE UNCHANGED <<state, wakeOnExit, pc>>
    BY <1>2, <2>1, <2>3 DEF WaitInv
  <2>4. CASE /\ child[current] \in threadList /\ wakeOnExit[child[current]] = Null
             /\ wakeOnExit' = [wakeOnExit EXCEPT ![child[current]] = current]
             /\ pc' = [pc EXCEPT ![current] = "waiting"]
             /\ state' = [state EXCEPT ![current] = "Wait"]
    BY <1>1, <1>2, <2>1, <2>4 DEF WaitInv
  <2>5. QED BY <1>8, <2>2, <2>3, <2>4, WaitDoes
<1>9. CASE Collect
  <2>1. UNCHANGED <<threadList, child, state, wakeOnExit>>
    BY <1>9, CollectDoes DEF ring
  <2>2. pc' = pc \/ pc' = [pc EXCEPT ![current] = IF current = Boot THEN "done" ELSE "body"]
    BY <1>9, CollectDoes
  <2>3. QED BY <1>1, <1>2, <2>1, <2>2 DEF WaitInv
<1>10. ASSUME NEW how \in {"exited", "crashed"}, Exit(how) PROVE WaitInv'
  <2> SUFFICES ASSUME NEW t \in Tid
               PROVE  /\ pc'[t] = "waiting" /\ child[t] \in threadList' =>
                            wakeOnExit[child[t]] = t
                      /\ pc'[t] = "waiting" /\ state'[t] = "Wait" => child[t] \in threadList'
                      /\ pc'[t] = "waited" => child[t] \notin threadList'
    BY <1>10, ExitDoes DEF WaitInv
  <2>1. threadList' = threadList \ {current} /\ current \in threadList
    BY <1>10, ExitDoes
  <2>2. pc'[t] \in {"waiting", "waited"} => pc'[t] = pc[t]
    BY <1>1, <1>10, ExitDoes
  <2>3. ASSUME pc[t] = "waiting", state'[t] = "Wait" PROVE child[t] \in threadList'
    <3>1. state[t] = "Wait" /\ t # wakeOnExit[current]
      BY <1>1, <1>10, <2>1, <2>3, ExitDoes
    <3>2. child[t] \in threadList /\ child[t] # current
      BY <1>2, <2>1, <2>3, <3>1 DEF WaitInv
    <3>3. QED BY <2>1, <3>2
  <2>4. QED BY <1>2, <2>1, <2>2, <2>3 DEF WaitInv
<1>11. QED BY <1>4, <1>6, <1>7, <1>8, <1>9, <1>10, QuietSteps

LEMMA WakerStep ==
    ASSUME IInv, CallsInv, Next
    PROVE  WakerInv'
<1>1. /\ child \in [Tid -> ThreadOrNull] /\ current \in Tid
      /\ mode \in [Tid -> {"kernel", "user"}] /\ wakeOnExit \in [Tid -> ThreadOrNull]
      /\ threadList \subseteq Tid /\ Null \notin Tid /\ threadList \subseteq InSystem
      /\ phase = "run" => state[current] = "Run"
  BY NullIsNoTid, TypesOfLinks, InSystemIs DEF IInv, TypeOK, CpuInv, RunnerIsReady
<1>2. WakerInv /\ ExitWakesWaiter
  BY DEF CallsInv, IInv, WakersNameWaiters
<1>3. CASE QuietStep
  <2>1. UNCHANGED <<threadList, mode, child>>
    BY <1>3 DEF QuietStep, ring
  <2>2. CASE UNCHANGED wakeOnExit
    BY <1>2, <2>1, <2>2 DEF WakerInv
  <2>3. ASSUME NEW u \in threadList, mode[u] = "kernel",
               wakeOnExit' = [wakeOnExit EXCEPT ![u] = Boot]
        PROVE  WakerInv'
    BY <1>1, <1>2, <2>1, <2>3 DEF WakerInv
  <2>4. QED BY <1>3, <2>2, <2>3 DEF QuietStep
<1>4. nextThreadId \in Tid => wakeOnExit[nextThreadId] = Null
  BY NullIsNoTid DEF IInv, UnbornInv
<1>5. CASE Exec
  <2>1. \A c \in threadList : wakeOnExit[c] # current
    BY <1>1, <1>2, <1>5, NullIsNoTid DEF ExitWakesWaiter, Exec, At
  <2>2. \A c \in threadList : wakeOnExit[c] # Null => wakeOnExit[c] \in Tid
    BY <1>1 DEF ThreadOrNull
  <2>3. QED BY <1>1, <1>2, <1>4, <1>5, <2>1, <2>2, ExecDoes DEF WakerInv
<1>6. CASE Spawn \/ InsertStep
  <2>1. CASE Spawn
    BY <1>2, <2>1, SpawnDoes DEF WakerInv
  <2>2. CASE InsertStep
    <3>1. wakeOnExit[newcomer] = Null /\ threadList' \subseteq threadList \cup {newcomer}
      BY <2>2, InsertStepLinks DEF IInv, InsertInv
    <3>2. QED BY <1>2, <2>2, <3>1, InsertStepDoes DEF WakerInv
  <2>3. QED BY <1>6, <2>1, <2>2
<1>7. CASE WaitForProcess
  <2>1. UNCHANGED <<threadList, mode, child>>
    BY <1>7, WaitDoes DEF ring
  <2>2. CASE UNCHANGED wakeOnExit
    BY <1>2, <2>1, <2>2 DEF WakerInv
  <2>3. CASE wakeOnExit' = [wakeOnExit EXCEPT ![child[current]] = current]
    <3>1. mode[child[current]] = "user" /\ child[current] \in Tid
      BY <1>1, <1>7, WaitDoes DEF CallsInv, ChildInv
    <3>2. QED BY <1>1, <1>2, <2>1, <2>3, <3>1 DEF WakerInv
  <2>4. QED BY <1>7, <2>2, <2>3, WaitDoes
<1>8. CASE Collect
  BY <1>2, <1>8, CollectDoes DEF WakerInv, ring
<1>9. ASSUME NEW how \in {"exited", "crashed"}, Exit(how) PROVE WakerInv'
  BY <1>2, <1>9, ExitDoes DEF WakerInv
<1>10. QED BY <1>3, <1>5, <1>6, <1>7, <1>8, <1>9, QuietSteps

LEMMA ChainStep ==
    ASSUME IInv, CallsInv, Next
    PROVE  ChainInv'
<1>1. /\ pc \in [Tid -> Pcs] /\ child \in [Tid -> ThreadOrNull] /\ current \in Tid
      /\ mode \in [Tid -> {"kernel", "user"}]
      /\ threadList \subseteq Tid /\ Tid \subseteq Nat /\ Callers \subseteq threadList
      /\ nextThreadId \in Nat /\ \A t \in threadList : t < nextThreadId
  BY NullIsNoTid DEF IInv, TypeOK, Callers, RingInv
<1>2. ChainInv
  BY DEF CallsInv
<1>3. ASSUME Callers' = Callers, UNCHANGED <<child, threadList>>,
             \A t \in Callers : pc[t] \in InCall =>
                 pc'[t] \in InCall \/ child[t] \notin threadList
      PROVE  ChainInv'
  BY <1>2, <1>3 DEF ChainInv
<1>4. CASE QuietStep
  <2>1. UNCHANGED <<threadList, mode, child>>
    BY <1>4 DEF QuietStep, ring
  <2>2. QED BY <1>1, <1>3, <1>4, <2>1 DEF QuietStep, QuietFor, Callers
<1>5. CASE Exec
  <2> DEFINE c == nextThreadId
  <2>1. Callers' = Callers \cup {c}
    <3>1. threadList' = threadList \cup {c} /\ c \in Tid \ threadList
      BY <1>5, ExecDoes
    <3>2. mode'[c] = "user" /\ \A t \in threadList : mode'[t] = mode[t]
      BY <1>1, <1>5, <3>1, ExecDoes
    <3>3. QED BY <3>1, <3>2 DEF Callers
  <2>2. current \in Callers /\ \A t \in Callers : t <= current
    BY <1>5, ExecDoes, LastCaller DEF InCall
  <2>3. ASSUME NEW t \in Callers', NEW u \in Callers', t < u
        PROVE  pc'[t] \in InCall /\ child'[t] \in threadList' /\ child'[t] <= u
    <3>1. t \in Callers /\ (u = c \/ u \in Callers)
      <4>1. ~ (c < u)
        BY <1>1, <2>1
      <4>2. QED BY <2>1, <2>3, <4>1
    <3>2. CASE t = current
      <4>1. u = c
        BY <1>1, <2>2, <2>3, <3>1, <3>2
      <4>2. pc'[t] = "starting" /\ child'[t] = c
        BY <1>1, <1>5, <3>2, ExecDoes
      <4>3. QED BY <1>1, <1>5, <4>1, <4>2, ExecDoes DEF InCall
    <3>3. CASE t # current
      <4>1. t < current /\ current < c
        BY <1>1, <2>2, <3>1, <3>3
      <4>2. pc[t] \in InCall /\ child[t] \in threadList /\ child[t] <= current
        BY <1>2, <2>2, <3>1, <4>1 DEF ChainInv
      <4>3. pc'[t] = pc[t] /\ child'[t] = child[t] /\ threadList \subseteq threadList'
        BY <1>1, <1>5, <3>1, <3>3, <4>1, ExecDoes
      <4>4. child[t] <= u
        <5>1. CASE u = c
          <6>1. child[t] \in Nat /\ current \in Nat /\ c \in Nat
            BY <1>1, <4>2
          <6>2. QED BY <4>1, <4>2, <5>1, <6>1
        <5>2. CASE u \in Callers
          BY <1>2, <2>3, <3>1, <5>2 DEF ChainInv
        <5>3. QED BY <3>1, <5>1, <5>2
      <4>5. QED BY <4>2, <4>3, <4>4
    <3>4. QED BY <3>2, <3>3
  <2>4. QED BY <2>3 DEF ChainInv
<1>6. CASE Spawn \/ InsertStep
  <2>1. (\A t \in Tid : mode'[t] = "kernel") /\ Boot \in Nat
    BY <1>6, SpawnDoes, InsertStepDoes DEF Boot
  <2>2. threadList' \subseteq Tid
    BY LinksStay DEF LinksOK
  <2>3. Callers' \subseteq {Boot}
    BY <2>1, <2>2 DEF Callers
  <2>4. QED BY <2>1, <2>3 DEF ChainInv
<1>7. CASE WaitForProcess
  <2>1. UNCHANGED <<threadList, mode, child>>
    BY <1>7, WaitDoes DEF ring
  <2>2. \/ pc' = pc
        \/ pc' = [pc EXCEPT ![current] = "waited"]
        \/ pc' = [pc EXCEPT ![current] = "waiting"]
    BY <1>7, WaitDoes
  <2>3. QED BY <1>1, <1>3, <2>1, <2>2 DEF InCall, Callers
<1>8. CASE Collect
  <2>1. UNCHANGED <<threadList, mode, child>> /\ child[current] \notin threadList
    BY <1>1, <1>8, CollectDoes DEF ring, CallsInv, WaitInv
  <2>2. \A t \in Tid : t # current => pc'[t] = pc[t]
    BY <1>1, <1>8, CollectDoes
  <2>3. QED BY <1>1, <1>3, <2>1, <2>2 DEF Callers
<1>9. ASSUME NEW how \in {"exited", "crashed"}, Exit(how) PROVE ChainInv'
  <2>1. /\ threadList' = threadList \ {current} /\ UNCHANGED <<child, mode>>
        /\ Callers' = Callers \ {current}
        /\ \A t \in Tid : t # current => pc'[t] = pc[t]
    BY <1>1, <1>9, ExitDoes DEF Callers
  <2>2. ASSUME NEW t \in Callers', NEW u \in Callers', t < u
        PROVE  child[t] # current
    <3>1. pc[t] \in InCall /\ child[t] \in threadList /\ child[t] <= u
      BY <1>2, <2>1, <2>2 DEF ChainInv
    <3>2. ASSUME child[t] = current PROVE FALSE
      <4>1. mode[current] = "user"
        BY <1>1, <2>1, <3>2, NullIsNoTid DEF CallsInv, ChildInv
      <4>2. current \in Callers /\ pc[current] \notin InCall
        BY <1>9, <4>1, ExitDoes DEF Callers, InCall
      <4>3. u <= current /\ u # current /\ u \in Nat /\ current \in Nat
        BY <1>1, <2>1, <4>2, LastCaller
      <4>4. QED BY <3>1, <3>2, <4>3
    <3>3. QED BY <3>2
  <2>3. QED BY <1>1, <1>2, <2>1, <2>2 DEF ChainInv
<1>10. QED BY <1>4, <1>5, <1>6, <1>7, <1>8, <1>9, QuietSteps

-----------------------------------------------------------------------------
(* What blocks is recorded.  A thread that waits is in one of the four     *)
(* calls that block; the keyboard's slot is never taken from a thread that *)
(* waits in it, for among the callers only the last one reads keys.        *)
BlockInv ==
    \A t \in InSystem \ {Idle} : state[t] = "Wait" =>
        /\ pc[t] \in BlockedIn
        /\ pc[t] = "keywait" => waitingForKeyboard = t
        /\ pc[t] = "joining" => \E u \in threadList : wakeOnExit[u] = t

(* How a thread comes to wait.                                             *)
LEMMA BlockingSteps ==
    ASSUME IInv, Next, NEW t \in Tid \ {Idle}, state[t] = "Run", state'[t] = "Wait"
    PROVE  /\ t = current /\ phase = "run"
           /\ \/ WaitForKeyboard /\ pc'[t] = "keywait" /\ waitingForKeyboard' = t
              \/ WaitForProcess /\ pc'[t] = "waiting"
              \/ /\ \E nap \in Naps : Sleep(nap) /\ ~ QueueFull(timeQueue)
                 /\ pc'[t] = "sleeping"
              \/ /\ \E u \in threadList : wakeOnExit' = [wakeOnExit EXCEPT ![u] = t]
                 /\ pc'[t] = "joining" /\ UNCHANGED threadList
<1>1. /\ pc \in [Tid -> Pcs] /\ state \in [Tid -> {"Run", "Wait"}] /\ current \in Tid
      /\ threadList \subseteq Tid /\ waitingForKeyboard \in ThreadOrNull
  BY DEF IInv, TypeOK
<1>2. CASE Tick \/ Key \/ Advance
  BY <1>1, <1>2 DEF Tick, Key, Advance, ThreadOrNull
<1>3. CASE Yield \/ Exec \/ Collect \/ Shutdown \/ Spawn \/ InsertStep \/ Tear
  BY <1>3 DEF Yield, Exec, Collect, Shutdown, Spawn, InsertStep, Tear
<1>4. CASE WaitForProcess
  BY <1>1, <1>4 DEF WaitForProcess, At, Blocks
<1>5. CASE WaitForKeyboard
  BY <1>1, <1>5 DEF WaitForKeyboard, At, Blocks
<1>6. ASSUME NEW nap \in Naps, Sleep(nap)
      PROVE  t = current /\ phase = "run" /\ ~ QueueFull(timeQueue) /\ pc'[t] = "sleeping"
  BY <1>1, <1>6 DEF Sleep, At, Blocks
<1>7. ASSUME NEW how \in {"exited", "crashed"}, Exit(how) PROVE FALSE
  BY <1>1, <1>7 DEF Exit
<1>8. ASSUME NEW u \in Tid, WaitForThread(u)
      PROVE  /\ t = current /\ phase = "run" /\ pc'[t] = "joining" /\ UNCHANGED threadList
             /\ u \in threadList /\ wakeOnExit' = [wakeOnExit EXCEPT ![u] = t]
  BY <1>1, <1>8 DEF WaitForThread, At, Blocks, ring
<1>9. ASSUME NEW blocking \in BOOLEAN, GetKey(blocking) PROVE FALSE
  BY <1>9 DEF GetKey
<1>10. CASE CheckTimeQueue
  BY <1>1, <1>10 DEF CheckTimeQueue
<1>11. CASE Scan
  BY <1>1, <1>11 DEF Scan, Pass, Choose, ChooseIdle, StayOnCpu
<1>12. QED
  BY <1>2, <1>3, <1>4, <1>5, <1>6, <1>7, <1>8, <1>9, <1>10, <1>11 DEF Next

LEMMA KeySlotChangers ==
    ASSUME Next
    PROVE  UNCHANGED waitingForKeyboard \/ Key \/ WaitForKeyboard
<1>1. CASE Tick \/ Advance \/ Yield \/ Exec \/ WaitForProcess \/ Collect \/ Shutdown
           \/ Spawn \/ InsertStep \/ Tear \/ CheckTimeQueue \/ Scan
  BY <1>1 DEF Tick, Advance, Yield, Exec, WaitForProcess, Collect, Shutdown, Spawn,
              InsertStep, Tear, CheckTimeQueue, Scan
<1>2. ASSUME NEW nap \in Naps, Sleep(nap) PROVE UNCHANGED waitingForKeyboard
  BY <1>2 DEF Sleep
<1>3. ASSUME NEW how \in {"exited", "crashed"}, Exit(how) PROVE UNCHANGED waitingForKeyboard
  BY <1>3 DEF Exit
<1>4. ASSUME NEW u \in Tid, WaitForThread(u) PROVE UNCHANGED waitingForKeyboard
  BY <1>4 DEF WaitForThread
<1>5. ASSUME NEW blocking \in BOOLEAN, GetKey(blocking) PROVE UNCHANGED waitingForKeyboard
  BY <1>5 DEF GetKey
<1>6. QED BY <1>1, <1>2, <1>3, <1>4, <1>5 DEF Next

LEMMA BlockStep ==
    ASSUME IInv, CallsInv, BlockInv, Next
    PROVE  BlockInv'
<1>1. /\ pc \in [Tid -> Pcs] /\ state \in [Tid -> {"Run", "Wait"}] /\ current \in Tid
      /\ wakeOnExit \in [Tid -> ThreadOrNull] /\ Null \notin Tid /\ Tid \subseteq Nat
      /\ threadList \subseteq Tid /\ InSystem \subseteq Tid /\ LinksOK
      /\ phase = "run" => state[current] = "Run" /\ current \in InSystem
  BY NullIsNoTid, TypesOfLinks, InSystemIs DEF IInv, TypeOK, CpuInv, RunnerIsReady
<1> SUFFICES ASSUME NEW t \in InSystem', t # Idle, state'[t] = "Wait"
             PROVE  /\ pc'[t] \in BlockedIn
                    /\ pc'[t] = "keywait" => waitingForKeyboard' = t
                    /\ pc'[t] = "joining" => \E u \in threadList' : wakeOnExit'[u] = t
  BY DEF BlockInv
<1>2. t \in Tid /\ (t \in InSystem \/ state[t] = "Run")
  BY <1>1, Joiners
<1>3. CASE state[t] = "Run"
  <2>1. /\ t = current
        /\ \/ pc'[t] = "keywait" /\ waitingForKeyboard' = t
           \/ pc'[t] \in {"waiting", "sleeping"}
           \/ /\ \E u \in threadList : wakeOnExit' = [wakeOnExit EXCEPT ![u] = t]
              /\ pc'[t] = "joining" /\ UNCHANGED threadList
    BY <1>2, <1>3, BlockingSteps
  <2>2. QED BY <1>1, <2>1 DEF BlockedIn
<1>4. CASE state[t] = "Wait" /\ t \in InSystem
  <2>1. /\ pc[t] \in BlockedIn
        /\ pc[t] = "keywait" => waitingForKeyboard = t
        /\ pc[t] = "joining" => \E u \in threadList : wakeOnExit[u] = t
    BY <1>4 DEF BlockInv
  <2>2. ~ (Key /\ t = waitingForKeyboard)
    BY <1>1, <1>2 DEF Key
  <2>3. ASSUME NEW how \in {"exited", "crashed"}, Exit(how) PROVE wakeOnExit[current] # t
    BY <1>1, <1>2, <2>3 DEF Exit
  <2>4. CheckTimeQueue /\ t = DueTid(timeQueue) /\ HeadDue(timeQueue) => pc' = pc
    BY <1>1, <1>2 DEF CheckTimeQueue
  <2>5. pc'[t] = pc[t]
    BY <1>2, <1>4, <2>1, <2>2, <2>3, <2>4, BlockedStays
  <2>6. pc[t] = "keywait" => waitingForKeyboard' = t
    <3>1. ASSUME pc[t] = "keywait", WaitForKeyboard PROVE FALSE
      <4>1. pc[current] = "nokey" /\ current \in InSystem /\ t # current
        BY <1>1, <1>4, <3>1 DEF WaitForKeyboard, At
      <4>2. mode[current] = "user" /\ mode[t] = "user"
        BY <1>1, <1>2, <3>1, <4>1 DEF CallsInv, ChildInv
      <4>3. InSystem = threadList
        <5>1. child[Boot] # Null
          BY <1>2, <4>2, NoCallsYet DEF CallsInv
        <5>2. insertAt = "none"
          BY <5>1, NullIsNoTid DEF IInv, InsertInv, InCall
        <5>3. QED BY <1>1, <5>2, PlainRing
      <4>4. t \in Callers /\ current \in Callers /\ pc[t] \notin InCall
            /\ pc[current] \notin InCall
        BY <1>4, <3>1, <4>1, <4>2, <4>3 DEF Callers, InCall
      <4>5. t <= current /\ current <= t
        BY <4>4, LastCaller
      <4>6. QED BY <1>1, <1>2, <4>1, <4>5
    <3>2. QED BY <2>1, <2>2, <3>1, KeySlotChangers
  <2>7. pc[t] = "joining" => \E u \in threadList' : wakeOnExit'[u] = t
    <3> SUFFICES ASSUME pc[t] = "joining" PROVE \E u \in threadList' : wakeOnExit'[u] = t
      OBVIOUS
    <3>1. PICK u \in threadList : wakeOnExit[u] = t
      BY <2>1
    <3>2. wakeOnExit'[u] = t
      BY <1>1, <1>2, <3>1, RecordChangers
    <3>3. u \in threadList'
      <4>1. CASE UNCHANGED ring
        BY <3>1, <4>1 DEF ring
      <4>2. CASE Exec \/ Spawn \/ InsertStep
        BY <3>1, <4>2, ExecDoes, SpawnLinks, InsertStepLinks
      <4>3. ASSUME NEW how \in {"exited", "crashed"}, Exit(how) PROVE u \in threadList'
        BY <2>3, <3>1, <4>3, ExitDoes
      <4>4. QED BY <4>1, <4>2, <4>3, ListChangers
    <3>4. QED BY <3>2, <3>3
  <2>8. QED BY <2>1, <2>5, <2>6, <2>7
<1>5. QED BY <1>1, <1>2, <1>3, <1>4

-----------------------------------------------------------------------------
(* How the kernel can fail.  The idle thread is in state Run when it has   *)
(* the CPU, so the switch to it is never one from itself; and a thread     *)
(* that goes to sleep gives up the CPU before its nap is over, as long as  *)
(* the clock stands still meanwhile.                                       *)
IdleInv == current = Idle => state[Idle] = "Run"

PanicInv == phase = "panic" => QueueFull(timeQueue)

(* Only an exit that meets an interrupted insert_thread tears the list.    *)
TornInv == phase = "torn" => insertAt # "none"

NapInv ==
    InstantCalls =>
        /\ phase # "corrupt"
        /\ phase = "check" => \A e \in Linked(timeQueue) :
              timeQueue.elements[e].tid = current => timeQueue.elements[e].when > 0

LEMMA IdleStep ==
    ASSUME IInv, CallsInv, IdleInv, Next
    PROVE  IdleInv'
<1>1. /\ state \in [Tid -> {"Run", "Wait"}] /\ current \in Tid /\ Idle \in Tid
      /\ waitingForKeyboard \in ThreadOrNull
      /\ pc[Idle] \in {"new", "body"} /\ mode[Idle] = "kernel" /\ Idle # Boot
  BY NullIsNoTid DEF IInv, TypeOK, CallInv, Idle, Boot
<1>2. CASE Tick \/ Key \/ Advance \/ Spawn \/ InsertStep \/ Tear
  BY <1>1, <1>2 DEF Tick, Key, Advance, Spawn, InsertStep, Tear, IdleInv
<1>3. CASE Yield \/ WaitForProcess \/ Collect \/ Shutdown \/ WaitForKeyboard
  BY <1>1, <1>3 DEF Yield, IsClient, WaitForProcess, Collect, Shutdown, WaitForKeyboard,
                    At, IdleInv
<1>4. CASE Exec
  BY <1>4, ExecDoes DEF Exec, IdleInv
<1>5. ASSUME NEW nap \in Naps, Sleep(nap) PROVE IdleInv'
  BY <1>5 DEF Sleep, IsClient, IdleInv
<1>6. ASSUME NEW how \in {"exited", "crashed"}, Exit(how) PROVE IdleInv'
  BY <1>6 DEF Exit, IdleInv
<1>7. ASSUME NEW u \in Tid, WaitForThread(u) PROVE IdleInv'
  BY <1>1, <1>7 DEF WaitForThread, IdleInv
<1>8. ASSUME NEW blocking \in BOOLEAN, GetKey(blocking) PROVE IdleInv'
  BY <1>1, <1>8 DEF GetKey, IdleInv
<1>9. CASE CheckTimeQueue
  <2>1. CASE HeadDue(timeQueue) /\ DueTid(timeQueue) \in threadList
    BY <1>1, <1>9, <2>1 DEF CheckTimeQueue, SwitchTo, IdleInv
  <2>2. CASE ~ (HeadDue(timeQueue) /\ DueTid(timeQueue) \in threadList)
    BY <1>9, <2>2 DEF CheckTimeQueue, IdleInv
  <2>3. QED BY <2>1, <2>2
<1>10. CASE Scan
  <2>1. CASE Pass
    BY <2>1 DEF Pass, IdleInv
  <2>2. CASE Choose
    BY <1>1, <2>2 DEF Choose, SwitchTo, IdleInv
  <2>3. CASE ChooseIdle
    BY <1>1, <2>3 DEF ChooseIdle, SwitchTo, IdleInv
  <2>4. CASE StayOnCpu
    BY <2>4 DEF StayOnCpu, IdleInv
  <2>5. QED BY <1>10, <2>1, <2>2, <2>3, <2>4 DEF Scan
<1>11. QED
  BY <1>2, <1>3, <1>4, <1>5, <1>6, <1>7, <1>8, <1>9, <1>10 DEF Next

(* Where the phase of the scheduler changes, and to what.  Of the panics   *)
(* in wait_for_process, in wait_for_thread and where an exit info is       *)
(* missing none is reached: only a full time queue stops the kernel.       *)
LEMMA PhaseChangers ==
    ASSUME IInv, CallsInv, IdleInv, Next
    PROVE  \/ phase' \in {"run", "scan", "off"}
           \/ phase' = "check" /\ phase = "run" /\ UNCHANGED <<timeQueue, current>>
           \/ /\ phase' = "panic" /\ \E nap \in Naps : Sleep(nap)
              /\ QueueFull(timeQueue) /\ UNCHANGED timeQueue
           \/ /\ phase' = "check" /\ phase = "run"
              /\ \E nap \in Naps : Sleep(nap) /\ ~ QueueFull(timeQueue)
           \/ phase' = phase /\ phase = "check" /\ Advance
           \/ phase' = "torn" /\ insertAt # "none" /\ UNCHANGED insertAt
           \/ /\ phase' = "corrupt" /\ CheckTimeQueue
              /\ HeadDue(timeQueue) /\ DueTid(timeQueue) = current
<1>1. /\ state \in [Tid -> {"Run", "Wait"}] /\ current \in Tid /\ Null \notin Tid
      /\ threadList \subseteq Tid /\ wakeOnExit \in [Tid -> ThreadOrNull]
      /\ mode \in [Tid -> {"kernel", "user"}]
      /\ phase = "run" => state[current] = "Run"
      /\ ExitWakesWaiter /\ threadList \subseteq InSystem
  BY NullIsNoTid, TypesOfLinks, InSystemIs
     DEF IInv, TypeOK, CpuInv, RunnerIsReady, WakersNameWaiters
<1>2. CASE Tick \/ Key \/ Advance
  BY <1>2 DEF Tick, Key, Advance, cpu
<1>3. CASE Yield \/ WaitForKeyboard \/ Shutdown \/ Spawn \/ InsertStep \/ Exec
  BY <1>3 DEF Yield, WaitForKeyboard, Shutdown, Spawn, InsertStep, Exec, At, Blocks,
              CallNext, StopsWith, KeepsRunning, cpu
<1>4. CASE WaitForProcess
  <2> DEFINE c == child[current]
  <2>1. ASSUME c \in threadList, wakeOnExit[c] # Null PROVE FALSE
    <3>1. c # Null /\ phase = "run"
      BY <1>1, <1>4, <2>1 DEF WaitForProcess, At
    <3>2. mode[c] = "user"
      BY <1>1, <3>1 DEF CallsInv, ChildInv
    <3>3. wakeOnExit[c] \in Tid /\ child[wakeOnExit[c]] = c
      BY <1>1, <2>1, <3>2 DEF CallsInv, WakerInv, ThreadOrNull
    <3>4. wakeOnExit[c] = current
      BY <1>1, <3>1, <3>3 DEF CallsInv, ChildInv
    <3>5. QED BY <1>1, <2>1, <3>1, <3>4 DEF ExitWakesWaiter
  <2>2. CASE c \notin threadList
    BY <1>4, <2>2 DEF WaitForProcess, At, KeepsRunning
  <2>3. CASE c \in threadList /\ wakeOnExit[c] = Null
    BY <1>4, <2>3 DEF WaitForProcess, At, Blocks, CallNext
  <2>4. QED BY <2>1, <2>2, <2>3
<1>5. CASE Collect
  <2>1. child[current] \notin threadList /\ child[current] \in Tid
    BY <1>1, <1>5, CollectDoes DEF CallsInv, WaitInv
  <2>2. child[current] \in Started /\ mode[child[current]] = "user"
    BY <1>1, <2>1 DEF CallsInv, ChildInv
  <2>3. exitInfo[child[current]] # "none"
    BY <2>1, <2>2 DEF CallsInv, EndInv
  <2>4. QED BY <1>5, <2>3 DEF Collect, At, KeepsRunning
<1>6. ASSUME NEW nap \in Naps, Sleep(nap)
      PROVE  /\ phase = "run"
             /\ \/ phase' = "panic" /\ QueueFull(timeQueue) /\ UNCHANGED timeQueue
                \/ phase' = "check" /\ ~ QueueFull(timeQueue)
  BY <1>6 DEF Sleep, At, Blocks, CallNext, StopsWith
<1>7. ASSUME NEW how \in {"exited", "crashed"}, Exit(how)
      PROVE  phase' = "check" /\ phase = "run" /\ UNCHANGED <<timeQueue, current>>
  BY <1>7 DEF Exit, At, CallNext
<1>8. ASSUME NEW u \in Tid, WaitForThread(u)
      PROVE  \/ phase' = "run"
             \/ phase' = "check" /\ phase = "run" /\ UNCHANGED <<timeQueue, current>>
  <2>1. ASSUME u \in threadList, wakeOnExit[u] # Null PROVE FALSE
    <3>1. wakeOnExit[u] = current /\ state[current] = "Run"
      BY <1>1, <1>8, <2>1 DEF WaitForThread, At, CallsInv, WakerInv
    <3>2. QED BY <1>1, <2>1, <3>1 DEF ExitWakesWaiter
  <2>2. CASE u \notin threadList
    BY <1>8, <2>2 DEF WaitForThread, At, KeepsRunning
  <2>3. CASE u \in threadList /\ wakeOnExit[u] = Null
    BY <1>8, <2>3 DEF WaitForThread, At, Blocks, CallNext
  <2>4. QED BY <2>1, <2>2, <2>3
<1>9. ASSUME NEW blocking \in BOOLEAN, GetKey(blocking) PROVE phase' = "run"
  BY <1>9 DEF GetKey, At, KeepsRunning
<1>10. CASE CheckTimeQueue
  BY <1>10 DEF CheckTimeQueue, SwitchTo
<1>11. CASE Scan
  <2>1. CASE Pass
    BY <1>11, <2>1 DEF Scan, Pass
  <2>2. CASE Choose
    BY <2>2 DEF Choose, SwitchTo
  <2>3. CASE ChooseIdle
    BY <2>3 DEF ChooseIdle, SwitchTo, IdleInv
  <2>4. CASE StayOnCpu
    BY <2>4 DEF StayOnCpu
  <2>5. QED BY <1>11, <2>1, <2>2, <2>3, <2>4 DEF Scan
<1>12. CASE Tear
  BY <1>12 DEF Tear, Tears, StopsWith, ring
<1>13. QED
  BY <1>2, <1>3, <1>4, <1>5, <1>6, <1>7, <1>8, <1>9, <1>10, <1>11, <1>12 DEF Next

LEMMA TornStep ==
    ASSUME IInv, CallsInv, IdleInv, Next
    PROVE  TornInv'
BY PhaseChangers DEF TornInv

LEMMA PanicStep ==
    ASSUME IInv, CallsInv, IdleInv, Next
    PROVE  PanicInv'
<1> SUFFICES ASSUME phase' = "panic" PROVE QueueFull(timeQueue')
  BY DEF PanicInv, QueueFull, FreeSlots
<1>1. QueueFull(timeQueue) /\ UNCHANGED timeQueue
  BY PhaseChangers
<1>2. QED BY <1>1

LEMMA NapStep ==
    ASSUME IInv, CallsInv, IdleInv, NapInv, Next
    PROVE  NapInv'
<1> SUFFICES ASSUME InstantCalls
             PROVE  /\ phase' # "corrupt"
                    /\ phase' = "check" => \A e \in Linked(timeQueue') :
                          timeQueue'.elements[e].tid = current' =>
                              timeQueue'.elements[e].when > 0
  BY DEF NapInv, Linked, WalkFrom
<1>1. /\ timeQueue \in Queue /\ GoodList(timeQueue) /\ TimeWakesSleeper /\ current \in Tid
      /\ state \in [Tid -> {"Run", "Wait"}]
      /\ phase = "run" => state[current] = "Run"
  BY DEF IInv, TypeOK, WakersNameWaiters, CpuInv, RunnerIsReady
<1>2. phase' # "corrupt"
  <2> SUFFICES ASSUME CheckTimeQueue, HeadDue(timeQueue), DueTid(timeQueue) = current
               PROVE  FALSE
    BY PhaseChangers
  <2>1. /\ phase = "check" /\ timeQueue.head \in Linked(timeQueue)
        /\ timeQueue.elements[timeQueue.head].when = 0
        /\ timeQueue.elements[timeQueue.head].tid = current
    BY <1>1, LinkedClosed DEF CheckTimeQueue, HeadDue, DueTid
  <2>2. QED BY <2>1 DEF NapInv
<1>3. phase = "run" => \A e \in Linked(timeQueue) : timeQueue.elements[e].tid # current
  BY <1>1 DEF TimeWakesSleeper
<1>4. CASE phase = "run" /\ UNCHANGED <<timeQueue, current>>
  BY <1>2, <1>3, <1>4
<1>5. ASSUME NEW nap \in Naps, Sleep(nap), ~ QueueFull(timeQueue), phase = "run"
      PROVE  \A e \in Linked(timeQueue') :
                timeQueue'.elements[e].tid = current' => timeQueue'.elements[e].when > 0
  <2> DEFINE r == Inserted(timeQueue, current, nap)
  <2>1. timeQueue' = r /\ current' = current
    BY <1>5 DEF Sleep
  <2>2. current \in Sleeper /\ nap \in Nat /\ nap > 0
    BY <1>1, SleeperAssumption, NapsAssumption
  <2>3. \E e \in Slot :
          /\ Linked(r) \subseteq Linked(timeQueue) \cup {e}
          /\ r.elements[e].when = nap
          /\ \A i \in Linked(timeQueue) : r.elements[i].tid = timeQueue.elements[i].tid
    BY <1>1, <1>3, <1>5, <2>2, InsertedGood
  <2> HIDE DEF r
  <2>4. QED BY <1>3, <1>5, <2>1, <2>2, <2>3
<1>6. ~ (phase = "check" /\ Advance)
  BY DEF Advance
<1>7. QED BY <1>2, <1>4, <1>5, <1>6, PhaseChangers

-----------------------------------------------------------------------------
(* The inductive invariant of this module, on top of that of               *)
(* ThreadingProofs.                                                        *)
EInv == CallsInv /\ BlockInv /\ IdleInv /\ PanicInv /\ NapInv /\ TornInv

LEMMA InitEInv == Init => EInv
<1> SUFFICES ASSUME Init PROVE EInv
  OBVIOUS
<1>1. CallsInv
  BY InitCalls
<1>2. BlockInv /\ IdleInv /\ PanicInv /\ NapInv /\ TornInv
  BY NullIsNoTid DEF Init, BlockInv, InSystem, IdleInv, PanicInv, NapInv, TornInv, Idle, Boot
<1>3. QED BY <1>1, <1>2 DEF EInv

LEMMA NextEInv ==
    ASSUME IInv, EInv, [Next]_vars
    PROVE  EInv'
<1>1. CASE Next
  <2>1. CallsInv'
    BY <1>1, ChildStep, EndStep, WaitStep, WakerStep, ChainStep DEF EInv, CallsInv
  <2>2. QED BY <1>1, <2>1, BlockStep, IdleStep, PanicStep, NapStep, TornStep DEF EInv
<1>2. CASE UNCHANGED vars
  <2>1. CallsInv'
    BY <1>2 DEF EInv, CallsInv, ChildInv, EndInv, WaitInv, WakerInv, ChainInv, Started,
                Callers, vars, ring
  <2>2. BlockInv' /\ IdleInv' /\ PanicInv' /\ TornInv'
    BY <1>2 DEF EInv, BlockInv, InSystem, IdleInv, PanicInv, TornInv, vars, ring, cpu
  <2>3. NapInv'
    BY <1>2 DEF EInv, NapInv, Linked, WalkFrom, vars, cpu
  <2>4. QED BY <2>1, <2>2, <2>3 DEF EInv
<1>3. QED BY <1>1, <1>2

LEMMA CallsInvariance == Spec => [](IInv /\ EInv)
<1>1. IInv /\ EInv /\ [Next]_vars => EInv'
  BY NextEInv
<1>2. QED BY InitEInv, Invariance, <1>1, PTL DEF Spec

(* Of all the panics in the calls of the scheduler, only that of a full    *)
(* time queue is ever reached, kernel threads or not; as long as the clock *)
(* stands still while interrupts are off, no thread ever switches to       *)
(* itself; and the list of threads is broken by nothing but an exit that   *)
(* meets an insert_thread which was interrupted half way.                  *)
THEOREM OnlyFullQueuePanics ==
    Spec => [](/\ phase = "panic" => QueueFull(timeQueue)
               /\ InstantCalls => phase # "corrupt"
               /\ phase = "torn" => insertAt # "none")
<1>1. EInv => /\ phase = "panic" => QueueFull(timeQueue)
              /\ InstantCalls => phase # "corrupt"
              /\ phase = "torn" => insertAt # "none"
  BY DEF EInv, PanicInv, NapInv, TornInv
<1>2. QED BY CallsInvariance, <1>1, PTL

(* With kernel threads too, a thread that is not asleep waits exactly      *)
(* while something that will wake it is recorded.  Of a sleep that is not  *)
(* so, for the insert can put it where no walk from the head ends.  For    *)
(* the keyboard it is the slot that is meant: a key that came between      *)
(* get_key's look at the buffer and the taking of the slot stays in the    *)
(* buffer, and the thread waits for the next one.                          *)
AwakeWaitsHaveWakers ==
    \A t \in InSystem \ {Idle} :
        pc[t] # "sleeping" => (state[t] = "Wait" <=> WakerRecorded(t))

LEMMA RecordedWait ==
    ASSUME IInv, NEW t \in Tid, WakerRecorded(t)
    PROVE  state[t] = "Wait"
<1>1. t # Null /\ threadList \subseteq InSystem
  BY NullIsNoTid, TypesOfLinks, InSystemIs DEF IInv
<1>2. CASE pc[t] = "waiting" /\ child[t] \in threadList /\ wakeOnExit[child[t]] = t
  BY <1>1, <1>2 DEF IInv, WakersNameWaiters, ExitWakesWaiter
<1>3. CASE pc[t] = "keywait" /\ waitingForKeyboard = t
  BY <1>1, <1>3 DEF IInv, WakersNameWaiters, KeyWakesWaiter
<1>4. CASE pc[t] = "sleeping" /\ \E e \in Linked(timeQueue) : timeQueue.elements[e].tid = t
  BY <1>4 DEF IInv, WakersNameWaiters, TimeWakesSleeper
<1>5. CASE pc[t] = "joining" /\ \E u \in threadList : wakeOnExit[u] = t
  BY <1>1, <1>5 DEF IInv, WakersNameWaiters, ExitWakesWaiter
<1>6. QED BY <1>2, <1>3, <1>4, <1>5 DEF WakerRecorded

LEMMA WaitRecorded ==
    ASSUME IInv, EInv, NEW t \in InSystem \ {Idle}, state[t] = "Wait",
           pc[t] # "sleeping"
    PROVE  WakerRecorded(t)
<1>1. t \in Tid
  BY TypesOfLinks, InSystemIs DEF IInv
<1>2. /\ pc[t] \in {"waiting", "joining", "keywait"}
      /\ pc[t] = "keywait" => waitingForKeyboard = t
      /\ pc[t] = "joining" => \E u \in threadList : wakeOnExit[u] = t
  BY DEF EInv, BlockInv, BlockedIn
<1>3. pc[t] = "waiting" => child[t] \in threadList /\ wakeOnExit[child[t]] = t
  BY <1>1 DEF EInv, CallsInv, WaitInv
<1>4. QED BY <1>2, <1>3 DEF WakerRecorded

THEOREM AwakeWaitersHaveWakers == Spec => []AwakeWaitsHaveWakers
<1>1. IInv /\ EInv => AwakeWaitsHaveWakers
  <2> SUFFICES ASSUME IInv, EInv, NEW t \in InSystem \ {Idle}, pc[t] # "sleeping"
               PROVE  state[t] = "Wait" <=> WakerRecorded(t)
    BY DEF AwakeWaitsHaveWakers
  <2>1. t \in Tid
    BY TypesOfLinks, InSystemIs DEF IInv
  <2>2. QED BY <2>1, RecordedWait, WaitRecorded
<1>2. QED BY CallsInvariance, <1>1, PTL

-----------------------------------------------------------------------------
(* Without kernel threads of its own the kernel runs the boot thread and   *)
(* processes only, all but one of which stand in a call of exec: so no     *)
(* more than one thread is ever asleep, and the time queue holds its       *)
(* element and no other.                                                   *)
LoneInv ==
    ~ KernelThreads =>
        /\ \A t \in Started : mode[t] = "user"
        /\ \A e \in Slot : timeQueue.elements[e].valid =>
              e = timeQueue.head /\ timeQueue.elements[e].next = Null
        /\ \A t \in threadList \ {Idle} : state[t] = "Wait" /\ pc[t] = "sleeping" =>
              timeQueue.head # Null /\ timeQueue.elements[timeQueue.head].tid = t

LEMMA LoneInserted ==
    ASSUME NEW q \in Queue, q.head = Null, NEW t \in Sleeper, NEW w \in Nat,
           \A e \in Slot : ~ q.elements[e].valid
    PROVE  LET r == Inserted(q, t, w)
           IN  /\ r.head # Null /\ r.elements[r.head].tid = t
               /\ \A e \in Slot : r.elements[e].valid =>
                     e = r.head /\ r.elements[e].next = Null
<1> DEFINE e == CHOOSE i \in FreeSlots(q) : \A j \in FreeSlots(q) : i <= j
           f == [valid |-> TRUE, tid |-> t, when |-> w, prev |-> Null, next |-> Null]
           r == Inserted(q, t, w)
<1>1. FreeSlots(q) = Slot /\ Slot # {} /\ Slot \subseteq Nat
  BY SlotsAssumption DEF FreeSlots, Slot
<1>2. e \in Slot
  BY <1>1, LeastOf
<1>3. r = [elements |-> [q.elements EXCEPT ![e] = f], head |-> e, tail |-> e]
  BY DEF Inserted
<1> HIDE DEF e
<1>4. r.head = e /\ r.elements = [q.elements EXCEPT ![e] = f]
  BY <1>3
<1>5. r.elements[e] = f /\ \A i \in Slot : i # e => r.elements[i] = q.elements[i]
  BY <1>2, <1>4, QueueFields
<1>6. e # Null /\ f.valid /\ f.tid = t /\ f.next = Null
  BY <1>2, QueueFields
<1> HIDE DEF r, f
<1>7. QED BY <1>4, <1>5, <1>6 DEF r

LEMMA LoneRemoved ==
    ASSUME NEW q \in Queue, q.head # Null,
           \A e \in Slot : q.elements[e].valid => e = q.head /\ q.elements[e].next = Null,
           q.elements[q.head].valid
    PROVE  \A e \in Slot : ~ HeadRemoved(q).elements[e].valid
<1> DEFINE freed == [q.elements EXCEPT ![q.head].valid = FALSE]
<1>1. q.head \in Slot /\ q.elements[q.head].next = Null
  BY QueueFields
<1>2. HeadRemoved(q) = [elements |-> freed, head |-> Null, tail |-> Null]
  BY <1>1 DEF HeadRemoved
<1>3. ~ freed[q.head].valid
  BY <1>1, QueueFields DEF Element
<1>4. \A e \in Slot : e # q.head => freed[e] = q.elements[e]
  BY <1>1, QueueFields
<1>5. HeadRemoved(q).elements = freed
  BY <1>2
<1> HIDE DEF freed
<1>6. QED BY <1>3, <1>4, <1>5

LEMMA LoneAged ==
    ASSUME NEW q \in Queue
    PROVE  /\ Aged(q).head = q.head
           /\ \A e \in Slot : /\ Aged(q).elements[e].valid = q.elements[e].valid
                              /\ Aged(q).elements[e].tid = q.elements[e].tid
                              /\ Aged(q).elements[e].next = q.elements[e].next
<1> DEFINE f == [i \in Slot |-> [q.elements[i] EXCEPT !.when = IF @ = 0 THEN 0 ELSE @ - 1]]
<1>1. Aged(q) = [q EXCEPT !.elements = f]
  BY DEF Aged
<1>2. Aged(q).head = q.head /\ Aged(q).elements = f
  BY <1>1 DEF Queue
<1>3. \A e \in Slot : /\ f[e].valid = q.elements[e].valid
                      /\ f[e].tid = q.elements[e].tid
                      /\ f[e].next = q.elements[e].next
  BY QueueFields DEF Element
<1>4. QED BY <1>2, <1>3

(* Only the boot thread of the tests inserts with interrupts on.           *)
LEMMA NobodyInserts ==
    ASSUME IInv, ~ KernelThreads
    PROVE  /\ insertAt = "none" /\ InSystem = threadList
           /\ ~ Spawn /\ ~ InsertStep
<1>1. insertAt = "none"
  BY DEF IInv, InsertInv
<1>2. QED
  BY <1>1, TypesOfLinks, PlainRing
     DEF IInv, Spawn, InsertStep, LinkTail, Place, MoveTail, List

(* Nobody is asleep when a thread goes to sleep.                           *)
LEMMA NobodyElseSleeps ==
    ASSUME IInv, CallsInv, LoneInv, ~ KernelThreads, NEW nap \in Naps, Sleep(nap)
    PROVE  timeQueue.head = Null /\ \A e \in Slot : ~ timeQueue.elements[e].valid
<1>1. /\ timeQueue \in Queue /\ GoodList(timeQueue) /\ TimeWakesSleeper /\ current \in Tid
      /\ phase = "run" /\ pc[current] = "body" /\ current \in threadList
      /\ state[current] = "Run" /\ current # Idle /\ Tid \subseteq Nat
      /\ threadList \subseteq Tid
      /\ pc[Idle] \in {"new", "body"} /\ InSystem = threadList
  BY NullIsNoTid, NobodyInserts
     DEF Sleep, At, IsClient, IInv, TypeOK, WakersNameWaiters, CpuInv, RunnerIsReady, CallInv
<1>2. \A t \in threadList \ {Idle} : t \in Callers
  <2>1. \A t \in threadList \ {Idle, Boot} : t \in Started
    <3>1. nextThreadId \in Nat /\ \A t \in threadList : t \in Nat /\ t < nextThreadId
      BY <1>1 DEF IInv, RingInv, TypeOK
    <3>2. QED BY <3>1 DEF Started, Idle, Boot
  <2>2. QED BY <2>1 DEF Callers, LoneInv
<1>3. SUFFICES ASSUME timeQueue.head # Null PROVE FALSE
  BY <1>1, QueueFields DEF LoneInv
<1> DEFINE t == timeQueue.elements[timeQueue.head].tid
<1>4. t \in threadList /\ state[t] = "Wait" /\ pc[t] = "sleeping"
  BY <1>1, <1>3, LinkedClosed DEF TimeWakesSleeper
<1>5. t \in Callers /\ current \in Callers
  BY <1>1, <1>2, <1>4
<1>6. t <= current /\ current <= t
  BY <1>1, <1>4, <1>5, LastCaller DEF InCall
<1>7. t \in Nat /\ current \in Nat /\ t # current
  BY <1>1, <1>4
<1>8. QED BY <1>6, <1>7

LEMMA LoneStep ==
    ASSUME IInv, EInv, LoneInv, Next
    PROVE  LoneInv'
<1> SUFFICES ASSUME ~ KernelThreads
             PROVE  /\ \A t \in Started' : mode'[t] = "user"
                    /\ \A e \in Slot : timeQueue'.elements[e].valid =>
                          e = timeQueue'.head /\ timeQueue'.elements[e].next = Null
                    /\ \A t \in threadList' \ {Idle} :
                          state'[t] = "Wait" /\ pc'[t] = "sleeping" =>
                             /\ timeQueue'.head # Null
                             /\ timeQueue'.elements[timeQueue'.head].tid = t
  BY DEF LoneInv
<1>1. /\ timeQueue \in Queue /\ GoodList(timeQueue) /\ current \in Tid
      /\ threadList \subseteq Tid /\ state \in [Tid -> {"Run", "Wait"}]
      /\ CallsInv /\ BlockInv /\ InSystem = threadList
      /\ ~ Spawn /\ ~ InsertStep
  BY NobodyInserts DEF IInv, TypeOK, EInv
<1>2. ASSUME NEW t \in Started' PROVE mode'[t] = "user"
  <2>1. CASE UNCHANGED <<nextThreadId, mode>>
    BY <1>2, <2>1 DEF LoneInv, Started
  <2>2. CASE Exec
    <3>1. t \in 2 .. nextThreadId /\ nextThreadId \in Nat
      BY <1>1, <1>2, <2>2, ExecDoes DEF Started
    <3>2. t = nextThreadId \/ t \in Started
      BY <3>1 DEF Started
    <3>3. t \in Tid /\ mode \in [Tid -> {"kernel", "user"}]
      BY <1>1, <2>2, <3>2, StartedAreThreads, ExecDoes DEF IInv, TypeOK
    <3>4. QED BY <1>1, <2>2, <3>2, <3>3, ExecDoes DEF LoneInv
  <2>3. QED
    BY <1>1, <2>1, <2>2, QuietSteps, WaitDoes, CollectDoes, ExitDoes DEF QuietStep
(* Whoever sleeps after the step slept before it, or has just begun.       *)
<1>3. ASSUME NEW t \in threadList' \ {Idle}, state'[t] = "Wait", pc'[t] = "sleeping"
      PROVE  \/ /\ t \in threadList /\ state[t] = "Wait" /\ pc[t] = "sleeping"
                /\ timeQueue.head # Null /\ timeQueue.elements[timeQueue.head].tid = t
                /\ ~ (CheckTimeQueue /\ HeadDue(timeQueue))
             \/ /\ t = current
                /\ \E nap \in Naps : Sleep(nap) /\ ~ QueueFull(timeQueue)
  <2>1. t \in Tid /\ (state[t] = "Wait" => t \in threadList)
    <3>1. CASE UNCHANGED ring
      BY <1>1, <1>3, <3>1 DEF ring
    <3>2. CASE Exec
      <4>1. threadList' = threadList \cup {nextThreadId} /\ nextThreadId \in Tid
        BY <1>1, <3>2, ExecDoes
      <4>2. state[nextThreadId] = "Run"
        BY <4>1, NullIsNoTid DEF IInv, UnbornInv
      <4>3. QED BY <1>1, <1>3, <4>1, <4>2
    <3>3. ASSUME NEW how \in {"exited", "crashed"}, Exit(how) PROVE t \in threadList
      BY <1>3, <3>3, ExitDoes
    <3>4. QED BY <1>1, <3>1, <3>2, <3>3, ListChangers
  <2>2. CASE state[t] = "Run"
    BY <1>3, <2>1, <2>2, BlockingSteps
  <2>3. CASE state[t] = "Wait"
    <3>1. t \in threadList /\ pc[t] \in BlockedIn /\ t # Null
      BY <1>1, <1>3, <2>1, <2>3, NullIsNoTid DEF BlockInv
    <3>2. ~ (Key /\ t = waitingForKeyboard)
      BY <1>1, <1>3, <2>1, <3>1 DEF Key
    <3>3. ~ (wakeOnExit[current] = t /\ \E how \in {"exited", "crashed"} : Exit(how))
      BY <1>1, <1>3, <2>1, <3>1 DEF Exit
    <3>4. ~ (CheckTimeQueue /\ HeadDue(timeQueue) /\ t = DueTid(timeQueue))
      BY <1>1, <1>3, <3>1 DEF CheckTimeQueue
    <3>5. pc[t] = "sleeping"
      BY <1>3, <2>1, <2>3, <3>1, <3>2, <3>3, <3>4, BlockedStays
    <3>6. timeQueue.head # Null /\ timeQueue.elements[timeQueue.head].tid = t
      BY <1>3, <2>3, <3>1, <3>5 DEF LoneInv
    <3>7. QED BY <2>3, <3>1, <3>4, <3>5, <3>6 DEF DueTid
  <2>4. QED BY <1>1, <2>1, <2>2, <2>3
<1>4. CASE UNCHANGED timeQueue
  <2>1. \A nap \in Naps : ~ (Sleep(nap) /\ ~ QueueFull(timeQueue))
    <3>1. ASSUME NEW nap \in Naps, Sleep(nap), ~ QueueFull(timeQueue) PROVE FALSE
      <4>1. timeQueue.head = Null /\ \A e \in Slot : ~ timeQueue.elements[e].valid
        BY <1>1, <3>1, NobodyElseSleeps
      <4>2. timeQueue' = Inserted(timeQueue, current, nap)
        BY <3>1 DEF Sleep
      <4>3. Inserted(timeQueue, current, nap).head # Null
        BY <1>1, <3>1, <4>1, LoneInserted, SleeperAssumption, NapsAssumption
      <4>4. QED BY <1>4, <4>1, <4>2, <4>3
    <3>2. QED BY <3>1
  <2>2. QED BY <1>2, <1>3, <1>4, <2>1 DEF LoneInv
<1>5. ASSUME NEW nap \in Naps, Sleep(nap), ~ QueueFull(timeQueue)
      PROVE  /\ \A e \in Slot : timeQueue'.elements[e].valid =>
                    e = timeQueue'.head /\ timeQueue'.elements[e].next = Null
             /\ \A t \in threadList' \ {Idle} :
                    state'[t] = "Wait" /\ pc'[t] = "sleeping" =>
                       /\ timeQueue'.head # Null
                       /\ timeQueue'.elements[timeQueue'.head].tid = t
  <2>1. timeQueue.head = Null /\ \A e \in Slot : ~ timeQueue.elements[e].valid
    BY <1>1, <1>5, NobodyElseSleeps
  <2>2. timeQueue' = Inserted(timeQueue, current, nap)
    BY <1>5 DEF Sleep
  <2>3. /\ timeQueue'.head # Null /\ timeQueue'.elements[timeQueue'.head].tid = current
        /\ \A e \in Slot : timeQueue'.elements[e].valid =>
              e = timeQueue'.head /\ timeQueue'.elements[e].next = Null
    BY <1>1, <1>5, <2>1, <2>2, LoneInserted, SleeperAssumption, NapsAssumption
  <2>4. QED BY <1>3, <2>1, <2>3
<1>6. CASE CheckTimeQueue /\ HeadDue(timeQueue)
  <2>1. timeQueue.head # Null /\ timeQueue.elements[timeQueue.head].valid
        /\ timeQueue' = HeadRemoved(timeQueue)
    BY <1>1, <1>6, LinkedClosed DEF CheckTimeQueue, HeadDue, GoodList
  <2>2. \A e \in Slot : ~ timeQueue'.elements[e].valid
    BY <1>1, <2>1, LoneRemoved DEF LoneInv
  <2>3. \A nap \in Naps : ~ Sleep(nap)
    BY <1>6 DEF Sleep, At, CheckTimeQueue
  <2>4. QED BY <1>2, <1>3, <1>6, <2>2, <2>3
<1>7. CASE Advance
  <2>1. timeQueue' = Aged(timeQueue)
    BY <1>7 DEF Advance
  <2>2. \A nap \in Naps : ~ (Sleep(nap) /\ ~ QueueFull(timeQueue))
    BY <1>7 DEF Sleep, Blocks, CallNext, Advance, cpu, At
  <2>3. timeQueue.head # Null => timeQueue.head \in Slot
    BY <1>1, QueueFields
  <2>4. QED BY <1>1, <1>2, <1>3, <2>1, <2>2, <2>3, LoneAged DEF LoneInv
<1>8. QED BY <1>2, <1>4, <1>5, <1>6, <1>7, QueueChangers

LEMMA InitLone == Init => LoneInv
<1> SUFFICES ASSUME Init PROVE LoneInv
  OBVIOUS
<1>1. Started = {}
  BY DEF Init, Started
<1>2. \A e \in Slot : ~ timeQueue.elements[e].valid
  BY DEF Init, EmptyQueue
<1>3. \A t \in threadList \ {Idle} : state[t] = "Run"
  BY NullIsNoTid DEF Init
<1>4. QED BY <1>1, <1>2, <1>3 DEF LoneInv

LEMMA LoneInvariance == Spec => [](IInv /\ EInv /\ LoneInv)
<1>1. IInv /\ EInv /\ LoneInv /\ [Next]_vars => LoneInv'
  <2>1. CASE UNCHANGED vars
    BY <2>1 DEF LoneInv, Started, vars, ring
  <2>2. QED BY <2>1, LoneStep
<1>2. QED BY InitLone, CallsInvariance, <1>1, PTL DEF Spec

(* As the system boots, without kernel threads of its own, a thread waits  *)
(* exactly while something that will wake it is recorded.                  *)
THEOREM WaitersHaveWakers ==
    ASSUME ~ KernelThreads
    PROVE  Spec => []WaitsHaveWakers
<1>1. IInv /\ EInv /\ LoneInv => WaitsHaveWakers
  <2> SUFFICES ASSUME IInv, EInv, LoneInv, NEW t \in threadList \ {Idle}
               PROVE  state[t] = "Wait" <=> WakerRecorded(t)
    BY DEF WaitsHaveWakers
  <2>1. t \in Tid
    BY DEF IInv, TypeOK
  <2>2. ASSUME state[t] = "Wait", pc[t] = "sleeping" PROVE WakerRecorded(t)
    <3>1. timeQueue.head # Null /\ timeQueue.elements[timeQueue.head].tid = t
      BY <2>2 DEF LoneInv
    <3>2. timeQueue.head \in Linked(timeQueue)
      BY <3>1, LinkedClosed DEF IInv, TypeOK
    <3>3. QED BY <2>2, <3>1, <3>2 DEF WakerRecorded
  <2>3. QED BY <2>1, <2>2, RecordedWait, WaitRecorded, NobodyInserts
<1>2. QED BY LoneInvariance, <1>1, PTL

(* Nor can the time queue fill up then: whatever processes run, exit and   *)
(* crash, the kernel does not panic and no thread switches to itself, as   *)
(* long as the clock stands still while interrupts are off.                *)
THEOREM NeverFails ==
    ASSUME ~ KernelThreads, InstantCalls
    PROVE  Spec => []NoFailure
<1> DEFINE NoPanic == phase # "panic"
<1>1. Init => NoPanic
  BY DEF Init
<1>2. IInv /\ EInv /\ LoneInv /\ NoPanic /\ [Next]_vars => NoPanic'
  <2> SUFFICES ASSUME IInv, EInv, LoneInv, phase # "panic", [Next]_vars, phase' = "panic"
               PROVE  FALSE
    OBVIOUS
  <2>1. Next
    BY DEF vars, cpu
  <2>2. PICK nap \in Naps : Sleep(nap) /\ QueueFull(timeQueue)
    BY <2>1, PhaseChangers DEF EInv
  <2>3. \A e \in Slot : ~ timeQueue.elements[e].valid
    BY <2>2, NobodyElseSleeps DEF EInv
  <2>4. 0 \in Slot
    BY SlotsAssumption DEF Slot
  <2>5. QED BY <2>2, <2>3, <2>4 DEF QueueFull, FreeSlots
<1>3. IInv /\ EInv /\ NoPanic => NoFailure
  BY NobodyInserts DEF EInv, NapInv, TornInv, NoFailure
<1>4. Spec => []NoPanic
  <2> HIDE DEF NoPanic
  <2>1. QED BY LoneInvariance, <1>1, <1>2, PTL DEF Spec
<1>5. QED
  <2> HIDE DEF NoPanic
  <2>1. QED BY CallsInvariance, <1>3, <1>4, PTL

-----------------------------------------------------------------------------
(* The scheduler implements the calls of ExecCalls.  Exec is the call, the *)
(* exit of a process its end, and the caller's look at the exit info the   *)
(* return; every other step changes nothing that the calls know of.        *)
Procs == Tid \ {Idle}

(* The status of a thread, by its place and the number of threads started. *)
StatusOf(t, p, n) ==
    IF t >= n THEN "unborn"
    ELSE IF p = "dead" THEN "ended"
    ELSE IF p \in InCall THEN "calling" ELSE "running"

LEMMA StatusIs ==
    UnbornInv => CallStatus = [t \in Procs |-> StatusOf(t, pc[t], nextThreadId)]
<1> SUFFICES ASSUME UnbornInv, NEW t \in Procs
             PROVE  CallStatus[t] = StatusOf(t, pc[t], nextThreadId)
  BY DEF CallStatus, Procs
<1>1. t \in Tid /\ (t >= nextThreadId => pc[t] = "new")
  BY DEF Procs, UnbornInv
<1>2. CallStatus[t] = CASE t >= nextThreadId -> "unborn"
                        [] pc[t] = "dead" -> "ended"
                        [] pc[t] \in InCall -> "calling"
                        [] OTHER -> "running"
  BY DEF CallStatus, Procs, InCall
<1>3. CASE t >= nextThreadId
  BY <1>1, <1>2, <1>3 DEF StatusOf, InCall
<1>4. CASE ~ (t >= nextThreadId) /\ pc[t] = "dead"
  BY <1>2, <1>4 DEF StatusOf, InCall
<1>5. CASE ~ (t >= nextThreadId) /\ pc[t] \in InCall
  BY <1>2, <1>5 DEF StatusOf, InCall
<1>6. CASE ~ (t >= nextThreadId) /\ pc[t] # "dead" /\ pc[t] \notin InCall
  BY <1>2, <1>6 DEF StatusOf
<1>7. QED BY <1>3, <1>4, <1>5, <1>6

LEMMA StatusIsNext ==
    UnbornInv' => CallStatus' = [t \in Procs |-> StatusOf(t, pc'[t], nextThreadId')]
<1>1. (UnbornInv => CallStatus = [t \in Procs |-> StatusOf(t, pc[t], nextThreadId)])'
  BY StatusIs, PTL
<1>2. QED BY <1>1 DEF StatusOf

LEMMA InitRefines == Init => Calls!Init
<1> SUFFICES ASSUME Init PROVE Calls!Init
  OBVIOUS
<1>1. CallStatus = [t \in Procs |-> IF t = Boot THEN "running" ELSE "unborn"]
  <2> SUFFICES ASSUME NEW t \in Procs
               PROVE  CallStatus[t] = IF t = Boot THEN "running" ELSE "unborn"
    BY DEF CallStatus, Procs
  <2>1. /\ t \in Nat /\ t \in Tid /\ (t # Boot => t >= nextThreadId)
        /\ ~ (Boot >= nextThreadId) /\ pc[Boot] = "body" /\ Boot \in Tid
    BY NullIsNoTid DEF Init, Procs, Idle, Boot
  <2>2. UnbornInv
    BY InitIInv DEF IInv
  <2>3. QED BY <2>1, <2>2, StatusIs DEF StatusOf, InCall
<1>2. QED
  BY <1>1 DEF Init, Calls!Init, Calls!Nobody, Null, Procs

LEMMA NextRefines ==
    ASSUME ~ KernelThreads, IInv, EInv, LoneInv, Next
    PROVE  Calls!Next \/ UNCHANGED Calls!callVars
<1>1. /\ pc \in [Tid -> Pcs] /\ child \in [Tid -> ThreadOrNull] /\ current \in Tid
      /\ exitInfo \in [Tid -> {"none", "exited", "crashed"}]
      /\ execResult \in [Tid -> {"none", "exited", "crashed"}]
      /\ mode \in [Tid -> {"kernel", "user"}]
      /\ threadList \subseteq Tid /\ nextThreadId \in Nat /\ Tid \subseteq Nat
      /\ \A t \in threadList : t < nextThreadId
      /\ Procs \subseteq Tid /\ InSystem = threadList
      /\ newcomer = Null /\ \A t \in Tid : t # Null
  BY NullIsNoTid, NobodyInserts DEF IInv, TypeOK, RingInv, Procs
<1>2. CallsInv
  BY DEF EInv
<1>3. CallStatus = [t \in Procs |-> StatusOf(t, pc[t], nextThreadId)]
  BY StatusIs DEF IInv
<1>4. CallStatus' = [t \in Procs |-> StatusOf(t, pc'[t], nextThreadId')]
  BY UnbornStep, StatusIsNext
<1>5. ASSUME UNCHANGED <<child, exitInfo, execResult, nextThreadId>>,
             \A t \in Tid : /\ pc'[t] \in InCall <=> pc[t] \in InCall
                            /\ pc'[t] = "dead" <=> pc[t] = "dead"
      PROVE  UNCHANGED Calls!callVars
  <2>1. UNCHANGED CallStatus
    BY <1>1, <1>3, <1>4, <1>5 DEF StatusOf
  <2>2. QED BY <1>5, <2>1 DEF Calls!callVars
<1>6. CASE QuietStep
  BY <1>5, <1>6 DEF QuietStep, QuietFor
<1>7. CASE WaitForProcess
  <2>1. \/ pc' = pc
        \/ pc' = [pc EXCEPT ![current] = "waited"]
        \/ pc' = [pc EXCEPT ![current] = "waiting"]
    BY <1>7, WaitDoes
  <2>2. pc[current] = "started"
    BY <1>7, WaitDoes
  <2>3. QED BY <1>1, <1>5, <1>7, <2>1, <2>2, WaitDoes DEF InCall
<1>8. ASSUME Exec PROVE Calls!Next
  <2> DEFINE c == nextThreadId
  <2>1. /\ c \in Procs /\ current \in Procs /\ c # current /\ pc[current] = "body"
        /\ c' = c + 1 /\ current < c
        /\ child' = [child EXCEPT ![current] = c]
        /\ pc' = [pc EXCEPT ![current] = "starting", ![c] = "body"]
        /\ UNCHANGED <<execResult, exitInfo>>
    BY <1>1, <1>2, <1>8, ExecDoes DEF Procs, Callers
  <2>2. CallStatus[current] = "running" /\ CallStatus[c] = "unborn"
    BY <1>1, <1>3, <2>1 DEF StatusOf, InCall
  <2>3. \A t \in Procs : CallStatus'[t] = IF t = current THEN "calling"
                                          ELSE IF t = c THEN "running" ELSE CallStatus[t]
    <3>1. \A t \in Procs : t # c => (t >= c + 1 <=> t >= c)
      BY <1>1
    <3>2. ~ (c >= c + 1) /\ ~ (current >= c + 1)
      BY <1>1, <2>1
    <3>3. QED BY <1>1, <1>3, <1>4, <2>1, <3>1, <3>2 DEF StatusOf, InCall
  <2>4. CallStatus' = [CallStatus EXCEPT ![current] = "calling", ![c] = "running"]
    BY <1>3, <1>4, <2>1, <2>3
  <2>5. [t \in Procs |-> child'[t]]
          = [[t \in Procs |-> child[t]] EXCEPT ![current] = c]
    BY <1>1, <2>1
  <2>6. ASSUME NEW p \in Procs, NEW d \in Procs, p = current, d = c
        PROVE  Calls!Call(p, d)
    BY <2>1, <2>2, <2>4, <2>5, <2>6 DEF Calls!Call, Procs
  <2>7. \E p, d \in Procs : Calls!Call(p, d)
    <3> HIDE DEF c
    <3>1. QED BY <2>1, <2>6
  <2>8. QED BY <2>7 DEF Calls!Next, Procs
<1>9. ASSUME NEW how \in {"exited", "crashed"}, Exit(how) PROVE Calls!Next
  <2>1. /\ current \in threadList \ {Idle, Boot} /\ pc[current] = "body"
        /\ pc' = [pc EXCEPT ![current] = "dead"]
        /\ UNCHANGED <<child, execResult, nextThreadId>>
        /\ current \in Procs /\ current < nextThreadId
    BY <1>1, <1>9, ExitDoes DEF Procs
  <2>2. mode[current] = "user"
    <3>1. current \in Started
      BY <1>1, <2>1 DEF Started, Idle, Boot
    <3>2. QED BY <3>1 DEF LoneInv
  <2>3. exitInfo' = [exitInfo EXCEPT ![current] = how]
    BY <1>9, <2>2, ExitDoes
  <2>4. CallStatus[current] = "running"
    BY <1>1, <1>3, <2>1 DEF StatusOf, InCall
  <2>5. CallStatus' = [CallStatus EXCEPT ![current] = "ended"]
    <3>1. \A t \in Procs : CallStatus'[t] = IF t = current THEN "ended" ELSE CallStatus[t]
      BY <1>1, <1>3, <1>4, <2>1 DEF StatusOf
    <3>2. QED BY <1>3, <1>4, <3>1
  <2>6. [t \in Procs |-> exitInfo'[t]]
          = [[t \in Procs |-> exitInfo[t]] EXCEPT ![current] = how]
    BY <1>1, <2>3
  <2>7. ASSUME NEW p \in Procs, p = current PROVE Calls!End(p, how)
    BY <2>1, <2>4, <2>5, <2>6, <2>7 DEF Calls!End, Procs
  <2>8. \E p \in Procs : Calls!End(p, how)
    BY <2>1, <2>7
  <2>9. QED BY <2>8 DEF Calls!Next, Calls!Outcomes, Procs
<1>10. ASSUME Collect PROVE Calls!Next
  <2> DEFINE c == child[current]
  <2>1. /\ current \in Procs /\ current < nextThreadId /\ pc[current] = "waited"
        /\ UNCHANGED <<child, exitInfo, nextThreadId>> /\ c \in Tid
    BY <1>1, <1>10, CollectDoes DEF Procs
  <2>2. c \notin threadList /\ c \in Started /\ mode[c] = "user" /\ c # Null
    <3>1. c \notin threadList
      BY <1>1, <1>2, <2>1 DEF CallsInv, WaitInv
    <3>2. QED BY <1>1, <1>2, <2>1, <3>1, NullIsNoTid DEF CallsInv, ChildInv
  <2>3. exitInfo[c] # "none" /\ pc[c] = "dead" /\ c < nextThreadId /\ c \in Procs
    BY <1>1, <1>2, <2>1, <2>2, StartedAreThreads DEF CallsInv, EndInv, Procs
  <2>4. /\ pc' = [pc EXCEPT ![current] = IF current = Boot THEN "done" ELSE "body"]
        /\ execResult' = [execResult EXCEPT ![current] = exitInfo[c]]
    BY <1>10, <2>3, CollectDoes
  <2>5. CallStatus[current] = "calling" /\ CallStatus[c] = "ended"
    <3>1. CallStatus[current] = "calling"
      BY <1>1, <1>3, <2>1 DEF StatusOf, InCall
    <3> HIDE DEF c
    <3>2. CallStatus[c] = "ended"
      BY <1>1, <1>3, <2>3 DEF StatusOf
    <3>3. QED BY <3>1, <3>2
  <2>6. CallStatus' = [CallStatus EXCEPT ![current] = "running"]
    <3>1. \A t \in Procs : CallStatus'[t] = IF t = current THEN "running" ELSE CallStatus[t]
      BY <1>1, <1>3, <1>4, <2>1, <2>4 DEF StatusOf, InCall
    <3>2. QED BY <1>3, <1>4, <3>1
  <2>7. [t \in Procs |-> execResult'[t]]
          = [[t \in Procs |-> execResult[t]] EXCEPT ![current] = exitInfo[c]]
    BY <1>1, <2>4
  <2>8. ASSUME NEW p \in Procs, p = current PROVE Calls!Return(p)
    BY <2>1, <2>3, <2>5, <2>6, <2>7, <2>8 DEF Calls!Return, Procs
  <2>9. \E p \in Procs : Calls!Return(p)
    BY <2>1, <2>8
  <2>10. QED BY <2>9 DEF Calls!Next, Procs
<1>11. ~ Spawn /\ ~ InsertStep
  BY NobodyInserts
<1>12. QED BY <1>6, <1>7, <1>8, <1>9, <1>10, <1>11, QuietSteps

(* exec is a call: whatever the scheduler does, each of its steps is a     *)
(* step of ExecCalls or changes nothing that ExecCalls knows of.  This is  *)
(* the safety part of ExecIsACall; that a call whose process has ended     *)
(* returns is left to the model checker.                                   *)
THEOREM ExecImplementsCall ==
    ASSUME ~ KernelThreads
    PROVE  Spec => Calls!Init /\ [][Calls!Next]_(Calls!callVars)
<1>1. IInv /\ EInv /\ LoneInv /\ [Next]_vars => [Calls!Next]_(Calls!callVars)
  <2>1. ASSUME UNCHANGED vars PROVE UNCHANGED Calls!callVars
    BY <2>1 DEF vars, Calls!callVars, CallStatus
  <2>2. QED BY <2>1, NextRefines
<1>2. QED BY InitRefines, LoneInvariance, <1>1, PTL DEF Spec

=============================================================================
