------------------------------- MODULE Induction -------------------------------
(***************************************************************************)
(* Induction and recursion over the natural numbers, stated with sets and  *)
(* functions, so that proofs about the folds of the other modules can use  *)
(* them by name.                                                           *)
(***************************************************************************)
EXTENDS Integers, SequencesExt, FiniteSetTheorems, SequenceTheorems, TLAPS

(* A set with 0 and the successor of each of its numbers has them all:     *)
(* else the intervals below those it lacks would have a smallest one.      *)
LEMMA SetInduction ==
    ASSUME NEW S, 0 \in S, \A n \in Nat : n \in S => n + 1 \in S
    PROVE  Nat \subseteq S
<1> DEFINE Below(n) == 0 .. n
           T == {Below(n) : n \in Nat \ S}
           R == StrictSubsetOrdering(Nat)
<1> SUFFICES ASSUME ~ (Nat \subseteq S) PROVE FALSE
  OBVIOUS
<1>1. \A n \in Nat : Below(n) \in FiniteSubsetsOf(Nat)
  <2>1. ASSUME NEW n \in Nat PROVE IsFiniteSet(Below(n)) /\ Below(n) \subseteq Nat
    BY FS_Interval
  <2>2. QED BY <2>1 DEF FiniteSubsetsOf
<1>2. T \subseteq FiniteSubsetsOf(Nat) /\ T # {}
  BY <1>1
<1>3. IsWellFoundedOn(R, FiniteSubsetsOf(Nat))
  BY FS_StrictSubsetOrderingWellFounded
<1>4. PICK x \in T : \A y \in T : ~ (<<y, x>> \in R)
  <2> HIDE DEF T, R
  <2>2. QED BY <1>2, <1>3, WFMin
<1>5. PICK n \in Nat \ S : x = Below(n)
  OBVIOUS
<1>6. n # 0 /\ n - 1 \in Nat /\ Below(n - 1) \subseteq Below(n) /\ Below(n - 1) # Below(n)
  <2>1. n \in Below(n) /\ n \notin Below(n - 1)
    OBVIOUS
  <2>2. QED BY <2>1
<1>7. <<Below(n - 1), Below(n)>> \in R
  <2>1. Below(n - 1) \in SUBSET Nat /\ Below(n) \in SUBSET Nat
    OBVIOUS
  <2> HIDE DEF Below
  <2>2. QED BY <1>6, <2>1 DEF StrictSubsetOrdering
<1>8. n - 1 \in S
  <2>1. Below(n - 1) \notin T
    BY <1>4, <1>5, <1>7
  <2>2. QED BY <1>6, <2>1
<1>9. (n - 1) + 1 \in S
  BY <1>6, <1>8
<1>10. QED BY <1>6, <1>9

(* A nonempty set of natural numbers has a smallest one: else the numbers  *)
(* below all of it would be all there are.                                 *)
LEMMA MinIn ==
    ASSUME NEW s \in SUBSET Nat, s # {}
    PROVE  Min(s) \in s /\ \A y \in s : Min(s) <= y
<1> DEFINE Below == {m \in Nat : \A y \in s : m <= y}
<1>1. \E x \in s : \A y \in s : x <= y
  <2> SUFFICES ASSUME \A x \in s : \E y \in s : y < x PROVE FALSE
    OBVIOUS
  <2>1. 0 \in Below
    OBVIOUS
  <2>2. ASSUME NEW m \in Nat, m \in Below PROVE m + 1 \in Below
    <3>1. m \notin s
      BY <2>2
    <3>2. ASSUME NEW y \in s PROVE m + 1 <= y
      BY <2>2, <3>1
    <3>3. QED BY <3>2
  <2>3. Nat \subseteq Below
    <3> HIDE DEF Below
    <3>1. QED BY <2>1, <2>2, SetInduction
  <2>4. PICK x \in s : TRUE
    OBVIOUS
  <2>5. x + 1 \in Below
    BY <2>3
  <2>6. QED BY <2>4, <2>5
<1>2. QED BY <1>1 DEF Min

-----------------------------------------------------------------------------
(* Folds.                                                                  *)

(* A nonempty set of positive numbers up to n has a greatest one.          *)
LEMMA MaxIn ==
    ASSUME NEW n \in Nat, NEW s \in SUBSET (1 .. n), s # {}
    PROVE  Max(s) \in s /\ \A y \in s : Max(s) >= y
<1> DEFINE HaveMax == {m \in Nat : \A t \in SUBSET (1 .. m) :
                          t # {} => \E x \in t : \A y \in t : x >= y}
<1>1. 0 \in HaveMax
  <2>1. 1 .. 0 = {}
    OBVIOUS
  <2>2. QED BY <2>1
<1>2. ASSUME NEW m \in Nat, m \in HaveMax PROVE m + 1 \in HaveMax
  <2>1. ASSUME NEW t \in SUBSET (1 .. m + 1), t # {}
        PROVE  \E x \in t : \A y \in t : x >= y
    <3>1. CASE m + 1 \in t
      BY <3>1
    <3>2. CASE m + 1 \notin t
      <4>1. t \in SUBSET (1 .. m)
        BY <3>2
      <4>2. QED BY <1>2, <2>1, <4>1
    <3>3. QED BY <3>1, <3>2
  <2>2. QED BY <2>1
<1>3. n \in HaveMax
  <2> HIDE DEF HaveMax
  <2>1. QED BY <1>1, <1>2, SetInduction
<1>4. \E x \in s : \A y \in s : x >= y
  BY <1>3
<1>5. QED BY <1>4 DEF Max

(* The first of the numbers are taken off a fold from the last one down.  *)
LEMMA MaxInterval ==
    ASSUME NEW n \in Nat, NEW k \in 1 .. n
    PROVE  Max(1 .. k) = k /\ (1 .. k) \ {k} = 1 .. k - 1 /\ (1 .. k) \in SUBSET (1 .. n) /\ 1 .. k # {}
<1>1. k \in Nat /\ (1 .. k) \in SUBSET (1 .. k) /\ k \in 1 .. k
  OBVIOUS
<1>2. Max(1 .. k) \in 1 .. k /\ Max(1 .. k) >= k
  BY <1>1, MaxIn
<1>3. QED BY <1>1, <1>2

(* f is the fold of the function step, of a value and a number, over each  *)
(* of the sets of numbers in T.                                            *)
Folds(f, T, base, step) ==
    \A s \in T : f[s] = IF s = {} THEN base ELSE step[<<f[s \ {Max(s)}], Max(s)>>]

(* There is such a function on all sets of the first n numbers, if step    *)
(* stays in some set of values; so what the definition of FoldLeft         *)
(* chooses is one.                                                         *)
LEMMA FoldExists ==
    ASSUME NEW n \in Nat, NEW V, NEW base \in V, NEW step,
           \A v \in V, i \in 1 .. n : step[<<v, i>>] \in V
    PROVE  \E f : f \in [SUBSET (1 .. n) -> V] /\ Folds(f, SUBSET (1 .. n), base, step)
<1> DEFINE S == 1 .. n
           Small(k) == {s \in SUBSET S : Cardinality(s) <= k}
           Done == {k \in Nat : \E f : f \in [Small(k) -> V] /\ Folds(f, Small(k), base, step)}
<1>0. IsFiniteSet(S)
  BY FS_Interval
<1>1. \A s \in SUBSET S : IsFiniteSet(s) /\ Cardinality(s) \in Nat /\ Cardinality(s) <= Cardinality(S)
  BY <1>0, FS_Subset, FS_CardinalityType
<1>2. ASSUME NEW k \in Nat, NEW s \in Small(k + 1), s # {}
      PROVE  Max(s) \in S /\ s \ {Max(s)} \in Small(k)
  <2>1. Max(s) \in s /\ IsFiniteSet(s)
    BY <1>1, <1>2, MaxIn
  <2>2. s \in SUBSET S /\ Cardinality(s) <= k + 1 /\ Cardinality(s) \in Nat
    BY <1>1
  <2>3. ASSUME NEW x \in s PROVE s \ {x} \in Small(k)
    <3>1. Cardinality(s \ {x}) = Cardinality(s) - 1
      BY <2>1, FS_RemoveElement
    <3>2. QED BY <2>2, <3>1
  <2> HIDE DEF Small
  <2>4. QED BY <2>1, <2>2, <2>3
<1>3. 0 \in Done
  <2> DEFINE f == [s \in Small(0) |-> base]
  <2>1. ASSUME NEW s \in Small(0) PROVE s = {}
    BY <1>1, <2>1, FS_EmptySet
  <2>2. Folds(f, Small(0), base, step)
    BY <2>1 DEF Folds
  <2>3. f \in [Small(0) -> V]
    OBVIOUS
  <2> HIDE DEF f
  <2>4. QED BY <2>2, <2>3
<1>4. ASSUME NEW k \in Nat, k \in Done PROVE k + 1 \in Done
  <2>1. PICK f : f \in [Small(k) -> V] /\ Folds(f, Small(k), base, step)
    BY <1>4
  <2> DEFINE g == [s \in Small(k + 1) |->
                      IF s = {} THEN base ELSE step[<<f[s \ {Max(s)}], Max(s)>>]]
  <2>2. g \in [Small(k + 1) -> V]
    <3>1. ASSUME NEW s \in Small(k + 1), s # {} PROVE step[<<f[s \ {Max(s)}], Max(s)>>] \in V
      <4>1. s \ {Max(s)} \in Small(k) /\ Max(s) \in S
        BY <1>2, <3>1
      <4>2. f[s \ {Max(s)}] \in V
        BY <2>1, <4>1
      <4>3. QED BY <4>1, <4>2
    <3>2. QED BY <3>1
  <2>3. ASSUME NEW s \in Small(k) PROVE s \in Small(k + 1) /\ g[s] = f[s]
    <3>1. s \in Small(k + 1)
      BY <1>1
    <3>2. f[s] = IF s = {} THEN base ELSE step[<<f[s \ {Max(s)}], Max(s)>>]
      <4> HIDE DEF Small
      <4>1. QED BY <2>1 DEF Folds
    <3>3. QED BY <3>1, <3>2
  <2>4. Folds(g, Small(k + 1), base, step)
    <3>1. ASSUME NEW s \in Small(k + 1)
          PROVE  g[s] = IF s = {} THEN base ELSE step[<<g[s \ {Max(s)}], Max(s)>>]
      <4>1. CASE s # {}
        <5>1. g[s \ {Max(s)}] = f[s \ {Max(s)}]
          BY <1>2, <2>3, <4>1
        <5>2. g[s] = step[<<f[s \ {Max(s)}], Max(s)>>]
          BY <4>1
        <5> HIDE DEF g
        <5>3. QED BY <4>1, <5>1, <5>2
      <4>2. CASE s = {}
        BY <4>2
      <4>3. QED BY <4>1, <4>2
    <3> HIDE DEF g, Small
    <3>2. QED BY <3>1 DEF Folds
  <2> HIDE DEF g, Small
  <2>5. k + 1 \in Nat
    OBVIOUS
  <2>6. QED BY <2>2, <2>4, <2>5
<1>5. Cardinality(S) \in Done
  <2>1. Nat \subseteq Done
    <3> HIDE DEF Done
    <3>1. QED BY <1>3, <1>4, SetInduction
  <2>2. QED BY <1>0, <2>1, FS_CardinalityType
<1>6. Small(Cardinality(S)) = SUBSET S
  BY <1>1
<1>7. QED BY <1>5, <1>6

(* it is such a function as long as its values are in V.                   *)
FoldsIn(it, n, V, base, step) ==
    /\ it[{}] = base
    /\ \A s \in SUBSET (1 .. n) :
          s # {} /\ it[s \ {Max(s)}] \in V => it[s] = step[<<it[s \ {Max(s)}], Max(s)>>]

(* F goes from value to value in n steps, and x is the last of them.       *)
Runs(F, n, V, base, step, x) ==
    /\ F \in [0 .. n -> V] /\ F[0] = base /\ x = F[n]
    /\ \A k \in 1 .. n : F[k] = step[<<F[k - 1], k>>]

LEMMA FoldRuns ==
    ASSUME NEW n \in Nat, NEW V, NEW base \in V, NEW step,
           \A v \in V, i \in 1 .. n : step[<<v, i>>] \in V,
           NEW it, FoldsIn(it, n, V, base, step)
    PROVE  \E F : Runs(F, n, V, base, step, it[1 .. n])
<1> DEFINE F == [k \in 0 .. n |-> it[1 .. k]]
           Have == {k \in Nat : k <= n => it[1 .. k] \in V}
<1>1. it[1 .. 0] = base
  <2>1. 1 .. 0 = {}
    OBVIOUS
  <2>2. QED BY <2>1 DEF FoldsIn
<1>2. ASSUME NEW k \in 1 .. n, it[1 .. k - 1] \in V
      PROVE  it[1 .. k] = step[<<it[1 .. k - 1], k>>]
  <2>1. /\ (1 .. k) \in SUBSET (1 .. n) /\ Max(1 .. k) = k
        /\ (1 .. k) \ {k} = 1 .. k - 1 /\ 1 .. k # {}
    BY MaxInterval
  <2>2. QED BY <1>2, <2>1 DEF FoldsIn
<1>3. 0 \in Have
  BY <1>1
<1>4. ASSUME NEW k \in Nat, k \in Have PROVE k + 1 \in Have
  <2>1. CASE k + 1 <= n
    <3>1. k + 1 \in 1 .. n /\ (k + 1) - 1 = k /\ it[1 .. k] \in V
      BY <1>4, <2>1
    <3>2. it[1 .. k + 1] = step[<<it[1 .. k], k + 1>>]
      BY <1>2, <3>1
    <3>3. QED BY <3>1, <3>2
  <2>2. QED BY <2>1
<1>5. \A k \in 0 .. n : it[1 .. k] \in V
  <2>1. Nat \subseteq Have
    <3> HIDE DEF Have
    <3>1. QED BY <1>3, <1>4, SetInduction
  <2>2. QED BY <2>1
<1>6. F \in [0 .. n -> V] /\ F[0] = base /\ it[1 .. n] = F[n]
  BY <1>1, <1>5
<1>7. ASSUME NEW k \in 1 .. n PROVE F[k] = step[<<F[k - 1], k>>]
  <2>1. k \in 0 .. n /\ k - 1 \in 0 .. n
    OBVIOUS
  <2>2. QED BY <1>2, <1>5, <2>1
<1> HIDE DEF F
<1>8. Runs(F, n, V, base, step, it[1 .. n])
  BY <1>6, <1>7 DEF Runs
<1>9. QED BY <1>8

(* f applies the function step over and over, starting with base.          *)
IsIteration(f, n, V, base, step) ==
    f \in [0 .. n -> V] /\ f[0] = base /\ \A i \in 1 .. n : f[i] = step[f[i - 1]]

LEMMA Iterates ==
    ASSUME NEW n \in Nat, NEW V, NEW base \in V, NEW step, \A v \in V : step[v] \in V
    PROVE  \E f : IsIteration(f, n, V, base, step)
<1> DEFINE Is(f, m) == f[0] = base /\ \A i \in 1 .. m : f[i] = step[f[i - 1]]
           Have == {m \in Nat : \E f \in [0 .. m -> V] : Is(f, m)}
<1>1. 0 \in Have
  <2>1. Is([i \in 0 .. 0 |-> base], 0) /\ [i \in 0 .. 0 |-> base] \in [0 .. 0 -> V]
    OBVIOUS
  <2> HIDE DEF Is
  <2>2. QED BY <2>1
<1>2. ASSUME NEW m \in Nat, m \in Have PROVE m + 1 \in Have
  <2>1. PICK f \in [0 .. m -> V] : Is(f, m)
    BY <1>2
  <2> DEFINE g == [i \in 0 .. m + 1 |-> IF i = m + 1 THEN step[f[m]] ELSE f[i]]
  <2>2. g \in [0 .. m + 1 -> V]
    <3>1. step[f[m]] \in V
      OBVIOUS
    <3>2. \A i \in 0 .. m + 1 : i # m + 1 => f[i] \in V
      OBVIOUS
    <3>3. QED BY <3>1, <3>2
  <2>3. g[0] = base
    BY <2>1
  <2>4. ASSUME NEW i \in 1 .. m + 1 PROVE g[i] = step[g[i - 1]]
    <3>1. CASE i = m + 1
      BY <3>1
    <3>2. CASE i \in 1 .. m
      BY <2>1, <3>2
    <3>3. QED BY <3>1, <3>2
  <2> HIDE DEF g
  <2>5. Is(g, m + 1)
    BY <2>3, <2>4
  <2> HIDE DEF Is
  <2>6. QED BY <2>2, <2>5
<1>3. n \in Have
  <2> HIDE DEF Have
  <2>1. QED BY <1>1, <1>2, SetInduction
<1>4. PICK f \in [0 .. n -> V] : Is(f, n)
  BY <1>3
<1>5. IsIteration(f, n, V, base, step)
  BY <1>4 DEF IsIteration
<1>6. QED BY <1>5

(* An element in front of a sequence, and a sequence without its k-th one. *)
Consed(s, n) == [i \in 1 .. Len(s) + 1 |-> IF i = 1 THEN n ELSE s[i - 1]]
Dropped(s, k) == [i \in 1 .. Len(s) - 1 |-> IF i < k THEN s[i] ELSE s[i + 1]]

LEMMA ConsedIs ==
    ASSUME NEW S, NEW s \in Seq(S), NEW n \in S
    PROVE  /\ Consed(s, n) \in Seq(S) /\ Len(Consed(s, n)) = Len(s) + 1
           /\ Consed(s, n)[1] = n
           /\ \A i \in 2 .. Len(s) + 1 : Consed(s, n)[i] = s[i - 1]
<1>1. Len(s) \in Nat /\ \A i \in 1 .. Len(s) : s[i] \in S
  OBVIOUS
<1>2. QED BY <1>1 DEF Consed

LEMMA DroppedIs ==
    ASSUME NEW S, NEW s \in Seq(S), NEW k \in 1 .. Len(s)
    PROVE  /\ Dropped(s, k) \in Seq(S) /\ Len(Dropped(s, k)) = Len(s) - 1
           /\ \A i \in 1 .. Len(s) - 1 : Dropped(s, k)[i] = IF i < k THEN s[i] ELSE s[i + 1]
<1>1. Len(s) \in Nat /\ \A i \in 1 .. Len(s) : s[i] \in S
  OBVIOUS
<1>2. QED BY <1>1 DEF Dropped

(* What is taken out of a sequence leaves the others in their order.       *)
LEMMA RemoveAtIs ==
    ASSUME NEW S, NEW s \in Seq(S), NEW i \in 1 .. Len(s)
    PROVE  /\ RemoveAt(s, i) \in Seq(S) /\ Len(RemoveAt(s, i)) = Len(s) - 1
           /\ \A j \in 1 .. Len(s) - 1 : RemoveAt(s, i)[j] = IF j < i THEN s[j] ELSE s[j + 1]
<1> DEFINE a == SubSeq(s, 1, i - 1)
           b == SubSeq(s, i + 1, Len(s))
<1>0. Len(s) \in Nat /\ i \in Nat
  OBVIOUS
<1>1. a \in Seq(S) /\ Len(a) = i - 1 /\ \A j \in 1 .. i - 1 : a[j] = s[j]
  BY <1>0, SubSeqProperties
<1>2. b \in Seq(S) /\ Len(b) = Len(s) - i /\ \A j \in 1 .. Len(s) - i : b[j] = s[j + i]
  <2>1. i + 1 \in 1 .. Len(s) + 1 /\ Len(s) \in i .. Len(s)
    BY <1>0
  <2>2. QED BY <1>0, <2>1, SubSeqProperties
<1>3. RemoveAt(s, i) = a \o b
  BY DEF RemoveAt
<1> HIDE DEF a, b
<1>4. /\ a \o b \in Seq(S) /\ Len(a \o b) = Len(a) + Len(b)
      /\ \A j \in 1 .. Len(a) + Len(b) : (a \o b)[j] = IF j <= Len(a) THEN a[j] ELSE b[j - Len(a)]
  BY <1>1, <1>2, ConcatProperties
<1>5. Len(a) + Len(b) = Len(s) - 1
  BY <1>0, <1>1, <1>2
<1>6. ASSUME NEW j \in 1 .. Len(s) - 1
      PROVE  RemoveAt(s, i)[j] = IF j < i THEN s[j] ELSE s[j + 1]
  <2>1. CASE j < i
    BY <1>0, <1>1, <1>3, <1>4, <1>5, <2>1
  <2>2. CASE ~ (j < i)
    <3>1. j - (i - 1) \in 1 .. Len(s) - i /\ (j - (i - 1)) + i = j + 1 /\ ~ (j <= i - 1)
      BY <1>0, <2>2
    <3>2. (a \o b)[j] = b[j - (i - 1)]
      BY <1>1, <1>4, <1>5, <3>1
    <3>3. QED BY <1>2, <1>3, <2>2, <3>1, <3>2
  <2>3. QED BY <2>1, <2>2
<1>7. QED BY <1>3, <1>4, <1>5, <1>6

(* What FlattenSeq makes of sequences, one after the other.                *)
LEMMA FlattenAlong ==
    ASSUME NEW S, NEW parts \in Seq(Seq(S))
    PROVE  \E f : /\ f[0] = <<>>
                  /\ \A i \in 1 .. Len(parts) : f[i] = f[i - 1] \o parts[i]
                  /\ \A i \in 0 .. Len(parts) : f[i] \in Seq(S)
                  /\ FlattenSeq(parts) = f[Len(parts)]
<1> DEFINE n == Len(parts)
           Is(f, m) == f[0] = <<>> /\ \A i \in 1 .. m : f[i] = f[i - 1] \o parts[i]
           Have == {m \in Nat : m <= n => \E f : Is(f, m) /\ \A i \in 0 .. m : f[i] \in Seq(S)}
           IsFlat(f) == f = [i \in 1 .. n |-> IF i = 1 THEN parts[i] ELSE f[i - 1] \o parts[i]]
           flat == CHOOSE f : IsFlat(f)
<1>0. n \in Nat
  OBVIOUS
<1>1. 0 \in Have
  <2>1. Is([i \in 0 .. 0 |-> <<>>], 0)
    OBVIOUS
  <2>2. \A i \in 0 .. 0 : [j \in 0 .. 0 |-> <<>>][i] \in Seq(S)
    OBVIOUS
  <2>3. QED BY <2>1, <2>2
<1>2. ASSUME NEW m \in Nat, m \in Have PROVE m + 1 \in Have
  <2> SUFFICES ASSUME m + 1 <= n
               PROVE  \E f : Is(f, m + 1) /\ \A i \in 0 .. m + 1 : f[i] \in Seq(S)
    <3> HIDE DEF Is
    <3>1. QED OBVIOUS
  <2>1. PICK f : Is(f, m) /\ \A i \in 0 .. m : f[i] \in Seq(S)
    <3>1. m <= n
      BY <1>0
    <3> HIDE DEF Is
    <3>2. QED BY <1>2, <3>1
  <2> DEFINE last == f[m] \o parts[m + 1]
             g == [i \in 0 .. m + 1 |-> IF i = m + 1 THEN last ELSE f[i]]
  <2>2. Is(g, m + 1)
    <3>1. g[0] = <<>>
      BY <2>1
    <3>2. ASSUME NEW i \in 1 .. m + 1 PROVE g[i] = g[i - 1] \o parts[i]
      <4>1. CASE i = m + 1
        <5>1. g[i] = last /\ g[i - 1] = f[m]
          <6> HIDE DEF last
          <6>1. QED BY <4>1
        <5> HIDE DEF g
        <5>2. QED BY <4>1, <5>1, Zenon
      <4>2. CASE i \in 1 .. m
        <5>1. g[i] = f[i] /\ g[i - 1] = f[i - 1]
          BY <4>2
        <5>2. f[i] = f[i - 1] \o parts[i]
          BY <2>1, <4>2
        <5>3. g[i] = f[i - 1] \o parts[i]
          BY <5>1, <5>2, Zenon
        <5>4. g[i - 1] = f[i - 1]
          BY <5>1
        <5> HIDE DEF g
        <5>5. QED BY <5>3, <5>4, Zenon
      <4>0. i \in 1 .. m \/ i = m + 1
        BY <3>2
      <4> HIDE DEF g
      <4>3. QED BY <4>0, <4>1, <4>2, Zenon
    <3>3. QED BY <3>1, <3>2
  <2>3. last \in Seq(S)
    <3>1. parts[m + 1] \in Seq(S)
      BY <1>0, ElementOfSeq
    <3>2. f[m] \in Seq(S)
      BY <2>1
    <3>3. QED BY <3>1, <3>2, ConcatProperties
  <2>4. \A i \in 0 .. m + 1 : g[i] \in Seq(S)
    <3> HIDE DEF last
    <3>1. QED BY <2>1, <2>3
  <2> HIDE DEF g, Is
  <2>5. QED BY <2>2, <2>4
<1>3. PICK f : Is(f, n) /\ \A i \in 0 .. n : f[i] \in Seq(S)
  <2>1. n \in Have
    <3> HIDE DEF Have
    <3>1. QED BY <1>0, <1>1, <1>2, SetInduction
  <2> HIDE DEF Is
  <2>2. QED BY <1>0, <2>1
<1>4. CASE n = 0
  <2>1. FlattenSeq(parts) = <<>>
    BY <1>4 DEF FlattenSeq
  <2>2. QED BY <1>3, <1>4, <2>1
<1>5. CASE n # 0
  <2>1. FlattenSeq(parts) = flat[n]
    BY <1>5 DEF FlattenSeq
  <2>2. f[1] = parts[1]
    <3>1. f[1] = <<>> \o parts[1]
      <4>1. 1 \in 1 .. n /\ 1 - 1 = 0
        BY <1>0, <1>5
      <4>2. f[1] = f[1 - 1] \o parts[1] /\ f[0] = <<>>
        BY <1>3, <4>1
      <4>3. QED BY <4>1, <4>2
    <3>2. parts[1] \in Seq(S)
      BY <1>0, <1>5, ElementOfSeq
    <3>3. QED BY <3>1, <3>2, ConcatEmptySeq
  <2>3. IsFlat([i \in 1 .. n |-> f[i]])
    <3> DEFINE g == [i \in 1 .. n |-> f[i]]
    <3>1. ASSUME NEW i \in 1 .. n PROVE g[i] = IF i = 1 THEN parts[i] ELSE g[i - 1] \o parts[i]
      <4>1. CASE i = 1
        BY <2>2, <4>1
      <4>2. CASE i # 1
        <5>1. g[i] = f[i] /\ g[i - 1] = f[i - 1]
          BY <1>0, <4>2
        <5> HIDE DEF g
        <5>2. QED BY <1>3, <4>2, <5>1
      <4>3. QED BY <4>1, <4>2
    <3>2. QED BY <3>1
  <2>4. IsFlat(flat)
    <3> HIDE DEF IsFlat
    <3>1. QED BY <2>3
  <2> HIDE DEF flat
  <2> DEFINE Same == {m \in Nat : m <= n /\ m # 0 => flat[m] = f[m]}
  <2>5. n \in Same
    <3>1. 0 \in Same
      OBVIOUS
    <3>2. ASSUME NEW m \in Nat, m \in Same PROVE m + 1 \in Same
      <4>1. CASE m + 1 <= n /\ m = 0
        BY <2>2, <2>4, <4>1
      <4>2. CASE m + 1 <= n /\ m # 0
        <5>0. m <= n
          BY <1>0, <4>2
        <5>1. m + 1 \in 1 .. n /\ m + 1 # 1 /\ (m + 1) - 1 = m /\ flat[m] = f[m]
          <6> HIDE DEF Is, IsFlat
          <6>1. QED BY <1>0, <3>2, <4>2, <5>0
        <5>2. flat[m + 1] = flat[m] \o parts[m + 1]
          BY <2>4, <5>1
        <5>3. f[m + 1] = f[m] \o parts[m + 1]
          BY <1>3, <5>1
        <5>4. flat[m + 1] = f[m + 1]
          BY <5>1, <5>2, <5>3, Zenon
        <5>5. QED BY <5>4
      <4>3. CASE ~ (m + 1 <= n)
        BY <4>3
      <4> HIDE DEF Same
      <4>4. QED BY <4>1, <4>2, <4>3
    <3> HIDE DEF Same
    <3>3. QED BY <1>0, <3>1, <3>2, SetInduction
  <2>6. flat[n] = f[n]
    BY <1>5, <2>5
  <2>7. QED BY <1>3, <2>1, <2>6
<1>6. QED BY <1>4, <1>5

(* One more sequence at the end is what FlattenSeq adds at the end.        *)
LEMMA FlattenIs ==
    ASSUME NEW S
    PROVE  /\ FlattenSeq(<<>>) = <<>>
           /\ \A parts \in Seq(Seq(S)) : FlattenSeq(parts) \in Seq(S)
           /\ \A parts \in Seq(Seq(S)), part \in Seq(S) :
                 FlattenSeq(Append(parts, part)) = FlattenSeq(parts) \o part
<1>1. FlattenSeq(<<>>) = <<>>
  BY DEF FlattenSeq
<1>2. ASSUME NEW parts \in Seq(Seq(S)) PROVE FlattenSeq(parts) \in Seq(S)
  <2>1. Len(parts) \in 0 .. Len(parts)
    OBVIOUS
  <2>2. QED BY <2>1, FlattenAlong
<1>3. ASSUME NEW parts \in Seq(Seq(S)), NEW part \in Seq(S)
      PROVE  FlattenSeq(Append(parts, part)) = FlattenSeq(parts) \o part
  <2> DEFINE n == Len(parts)
             more == Append(parts, part)
  <2>1. /\ more \in Seq(Seq(S)) /\ n \in Nat /\ Len(more) = n + 1
        /\ more[n + 1] = part /\ \A i \in 1 .. n : more[i] = parts[i]
    OBVIOUS
  <2>2. PICK f : /\ f[0] = <<>> /\ \A i \in 1 .. n : f[i] = f[i - 1] \o parts[i]
                 /\ FlattenSeq(parts) = f[n]
    BY FlattenAlong
  <2> HIDE DEF more
  <2>3. PICK g : /\ g[0] = <<>> /\ \A i \in 1 .. n + 1 : g[i] = g[i - 1] \o more[i]
                 /\ FlattenSeq(more) = g[n + 1]
    <3>1. \E h : /\ h[0] = <<>> /\ \A i \in 1 .. Len(more) : h[i] = h[i - 1] \o more[i]
                 /\ \A i \in 0 .. Len(more) : h[i] \in Seq(S)
                 /\ FlattenSeq(more) = h[Len(more)]
      BY <2>1, FlattenAlong
    <3>2. QED BY <2>1, <3>1
  <2> DEFINE Same == {m \in Nat : m <= n => f[m] = g[m]}
  <2>4. n \in Same
    <3>1. 0 \in Same
      BY <2>2, <2>3
    <3>2. ASSUME NEW m \in Nat, m \in Same PROVE m + 1 \in Same
      <4>1. CASE m + 1 <= n
        <5>1. m + 1 \in 1 .. n /\ m + 1 \in 1 .. n + 1 /\ (m + 1) - 1 = m /\ f[m] = g[m]
          BY <2>1, <3>2, <4>1
        <5>2. more[m + 1] = parts[m + 1]
          BY <2>1, <5>1
        <5>3. f[m + 1] = f[m] \o parts[m + 1]
          BY <2>2, <5>1
        <5>4. g[m + 1] = g[m] \o more[m + 1]
          BY <2>3, <5>1
        <5>5. f[m + 1] = g[m + 1]
          BY <5>1, <5>2, <5>3, <5>4, Zenon
        <5>6. QED BY <5>5
      <4>2. QED BY <4>1
    <3> HIDE DEF Same
    <3>3. QED BY <2>1, <3>1, <3>2, SetInduction
  <2>5. f[n] = g[n]
    BY <2>4
  <2>6. n + 1 \in 1 .. n + 1 /\ (n + 1) - 1 = n
    BY <2>1
  <2>7. QED BY <2>1, <2>2, <2>3, <2>5, <2>6 DEF more
<1>4. QED BY <1>1, <1>2, <1>3
================================================================================
