----------------------------- MODULE FilesProofs -----------------------------
(***************************************************************************)
(* The nodes of kernel/fs.zig and kernel/fs/RamDisk.zig are a tree, paths  *)
(* go on naming what they named, and files give back what was written to   *)
(* them: proofs for any number of nodes, processes, paths and open files,  *)
(* and for pages and files of any size.                                    *)
(***************************************************************************)
EXTENDS Files, SequenceTheorems, Induction

(* A walk goes one component at a time.                                    *)
Start == [at |-> DiskRoot, error |-> None, path |-> <<>>]

(* A walk along a path of any length goes through one stride after another:*)
(* what the fold computes, as a sequence of its intermediate results.      *)
LEMMA WalkAlong ==
    ASSUME NEW path \in Seq(Component)
    PROVE  \E W : /\ W[0] = Start
                  /\ \A i \in 1 .. Len(path) : W[i] = Stride(W[i - 1], path[i])
                  /\ Walk(path) = W[Len(path)]
<1> DEFINE n == Len(path)
           IsWalk(f, m) == f = [i \in 0 .. m |->
                                  IF i = 0 THEN Start ELSE Stride(f[i - 1], path[i])]
           HasWalk == {m \in Nat : \E f : IsWalk(f, m)}
           IsAlong(f) == f = [i \in 0 .. n |->
                                IF i = 0 THEN {Start} ELSE {Stride(w, path[i]) : w \in f[i - 1]}]
           along == CHOOSE f : IsAlong(f)
<1>0. n \in Nat
  OBVIOUS
<1>1. 0 \in HasWalk
  <2>1. IsWalk([i \in 0 .. 0 |-> Start], 0)
    OBVIOUS
  <2>2. QED BY <2>1
<1>2. ASSUME NEW m \in Nat, m \in HasWalk PROVE m + 1 \in HasWalk
  <2>1. PICK f : IsWalk(f, m)
    BY <1>2
  <2> DEFINE g == [i \in 0 .. m + 1 |-> IF i = m + 1 THEN Stride(f[m], path[m + 1]) ELSE f[i]]
  <2>2. ASSUME NEW i \in 0 .. m + 1
        PROVE  g[i] = IF i = 0 THEN Start ELSE Stride(g[i - 1], path[i])
    <3>1. CASE i = m + 1
      BY <3>1
    <3>2. CASE i \in 0 .. m
      BY <2>1, <3>2
    <3>3. QED BY <3>1, <3>2
  <2>3. IsWalk(g, m + 1)
    BY <2>2
  <2>4. \E h : IsWalk(h, m + 1)
    <3> HIDE DEF g, IsWalk
    <3>1. QED BY <2>3
  <2>5. m + 1 \in Nat
    OBVIOUS
  <2> HIDE DEF IsWalk
  <2>6. QED BY <2>4, <2>5
<1>3. PICK W : IsWalk(W, n)
  <2>1. n \in HasWalk
    <3> HIDE DEF HasWalk
    <3>1. QED BY <1>0, <1>1, <1>2, SetInduction
  <2>2. QED BY <2>1
<1>4. W[0] = Start /\ \A i \in 1 .. n : W[i] = Stride(W[i - 1], path[i])
  BY <1>0, <1>3
<1>5. IsAlong([i \in 0 .. n |-> {W[i]}])
  <2> DEFINE f == [i \in 0 .. n |-> {W[i]}]
  <2>1. ASSUME NEW i \in 0 .. n
        PROVE  f[i] = IF i = 0 THEN {Start} ELSE {Stride(w, path[i]) : w \in f[i - 1]}
    <3>1. CASE i = 0
      BY <1>4, <3>1
    <3>2. CASE i # 0
      <4>1. i \in 1 .. n /\ f[i] = {W[i]} /\ f[i - 1] = {W[i - 1]}
        BY <1>0, <3>2
      <4> HIDE DEF f
      <4>2. QED BY <1>4, <3>2, <4>1
    <3>3. QED BY <3>1, <3>2
  <2>2. QED BY <2>1
<1>6. IsAlong(along)
  <2> HIDE DEF IsAlong
  <2>1. QED BY <1>5
<1>7. along[0] = {Start} /\ \A i \in 1 .. n : along[i] = {Stride(w, path[i]) : w \in along[i - 1]}
  <2> HIDE DEF along, n
  <2>1. ASSUME NEW i \in 0 .. n
        PROVE  along[i] = IF i = 0 THEN {Start} ELSE {Stride(w, path[i]) : w \in along[i - 1]}
    BY <1>6
  <2>2. 0 \in 0 .. n /\ \A i \in 1 .. n : i \in 0 .. n /\ i # 0
    BY <1>0
  <2>3. along[0] = {Start}
    BY <2>1, <2>2
  <2>4. ASSUME NEW i \in 1 .. n
        PROVE  along[i] = {Stride(w, path[i]) : w \in along[i - 1]}
    BY <2>1, <2>2
  <2>5. QED BY <2>3, <2>4
<1>8. Walk(path) = TheOne(along[n])
  BY DEF Walk, Start
<1> HIDE DEF along, IsAlong, IsWalk
<1> DEFINE Same == {m \in Nat : m <= n => along[m] = {W[m]}}
<1>9. n \in Same
  <2>1. 0 \in Same
    BY <1>4, <1>7
  <2>2. ASSUME NEW m \in Nat, m \in Same PROVE m + 1 \in Same
    <3>1. CASE m + 1 <= n
      <4>1. m + 1 \in 1 .. n /\ (m + 1) - 1 = m /\ along[m] = {W[m]}
        BY <1>0, <2>2, <3>1
      <4>2. along[m + 1] = {Stride(w, path[m + 1]) : w \in {W[m]}}
        BY <1>7, <4>1
      <4>3. W[m + 1] = Stride(W[m], path[m + 1])
        BY <1>4, <4>1
      <4>4. QED BY <4>2, <4>3
    <3>2. QED BY <3>1
  <2> HIDE DEF Same
  <2>3. QED BY <1>0, <2>1, <2>2, SetInduction
<1>10. Walk(path) = W[n]
  BY <1>0, <1>8, <1>9 DEF TheOne
<1>11. QED BY <1>4, <1>10

WalksOn ==
    /\ Walk(<<>>) = Start
    /\ \A path \in Seq(Component), name \in Component :
          Walk(Append(path, name)) = Stride(Walk(path), name)

(* A longer path is walked by one stride more.                             *)
LEMMA Walking == WalksOn
<1>1. Walk(<<>>) = Start
  <2>1. <<>> \in Seq(Component) /\ Len(<<>>) = 0
    OBVIOUS
  <2>2. PICK W : W[0] = Start /\ Walk(<<>>) = W[0]
    BY <2>1, WalkAlong
  <2>3. QED BY <2>2
<1>2. ASSUME NEW path \in Seq(Component), NEW name \in Component
      PROVE  Walk(Append(path, name)) = Stride(Walk(path), name)
  <2> DEFINE n == Len(path)
  <2>1. /\ Append(path, name) \in Seq(Component) /\ n \in Nat /\ Len(Append(path, name)) = n + 1
        /\ Append(path, name)[n + 1] = name /\ \A i \in 1 .. n : Append(path, name)[i] = path[i]
    OBVIOUS
  <2>2. PICK V : /\ V[0] = Start /\ \A i \in 1 .. n : V[i] = Stride(V[i - 1], path[i])
                 /\ Walk(path) = V[n]
    BY WalkAlong
  <2>3. PICK W : /\ W[0] = Start
                 /\ \A i \in 1 .. n + 1 : W[i] = Stride(W[i - 1], Append(path, name)[i])
                 /\ Walk(Append(path, name)) = W[n + 1]
    BY <2>1, WalkAlong
  <2> DEFINE Same == {m \in Nat : m <= n => V[m] = W[m]}
  <2>4. n \in Same
    <3>1. 0 \in Same
      BY <2>2, <2>3
    <3>2. ASSUME NEW m \in Nat, m \in Same PROVE m + 1 \in Same
      <4>1. CASE m + 1 <= n
        <5>1. m + 1 \in 1 .. n /\ m + 1 \in 1 .. n + 1 /\ (m + 1) - 1 = m /\ V[m] = W[m]
          BY <2>1, <3>2, <4>1
        <5>2. QED BY <2>1, <2>2, <2>3, <5>1
      <4>2. QED BY <4>1
    <3> HIDE DEF Same
    <3>3. QED BY <2>1, <3>1, <3>2, SetInduction
  <2>5. V[n] = W[n]
    BY <2>4
  <2>6. n + 1 \in 1 .. n + 1 /\ (n + 1) - 1 = n
    BY <2>1
  <2>7. QED BY <2>1, <2>2, <2>3, <2>5, <2>6
<1>3. QED BY <1>1, <1>2 DEF WalksOn

-----------------------------------------------------------------------------
(* Paths are made of names and of steps up.                                *)
Steps == Name \cup {".."}

(* The iterator of a path answers names and "..": the "." are skipped.     *)
LEMMA ComponentsAre ==
    ASSUME NEW p, p.components \in Seq(Component)
    PROVE  Components(p) \in Seq(Steps)
<1> DEFINE cs == p.components
           n == Len(cs)
           Is(f, m) == f = [i \in 0 .. m |->
                              IF i = 0 THEN <<>>
                              ELSE IF cs[i] = "." THEN f[i - 1] ELSE Append(f[i - 1], cs[i])]
           Have == {m \in Nat : m <= n => \E f : Is(f, m) /\ \A i \in 0 .. m : f[i] \in Seq(Steps)}
           named == CHOOSE f : Is(f, n)
<1>0. n \in Nat
  OBVIOUS
<1>1. 0 \in Have
  <2>1. Is([i \in 0 .. 0 |-> <<>>], 0)
    OBVIOUS
  <2>2. \A i \in 0 .. 0 : [j \in 0 .. 0 |-> <<>>][i] \in Seq(Steps)
    OBVIOUS
  <2>3. QED BY <2>1, <2>2
<1>2. ASSUME NEW m \in Nat, m \in Have PROVE m + 1 \in Have
  <2> SUFFICES ASSUME m + 1 <= n
               PROVE  \E f : Is(f, m + 1) /\ \A i \in 0 .. m + 1 : f[i] \in Seq(Steps)
    BY SMTT(40)
  <2>1. PICK f : Is(f, m) /\ \A i \in 0 .. m : f[i] \in Seq(Steps)
    <3>1. m <= n
      BY <1>0
    <3> HIDE DEF Is
    <3>2. QED BY <1>2, <3>1
  <2> DEFINE last == IF cs[m + 1] = "." THEN f[m] ELSE Append(f[m], cs[m + 1])
             g == [i \in 0 .. m + 1 |-> IF i = m + 1 THEN last ELSE f[i]]
  <2>2. ASSUME NEW i \in 0 .. m + 1
        PROVE  g[i] = IF i = 0 THEN <<>>
                      ELSE IF cs[i] = "." THEN g[i - 1] ELSE Append(g[i - 1], cs[i])
    <3>1. CASE i = m + 1
      BY <3>1
    <3>2. CASE i \in 0 .. m
      <4>1. f[i] = IF i = 0 THEN <<>> ELSE IF cs[i] = "." THEN f[i - 1] ELSE Append(f[i - 1], cs[i])
        BY <2>1, <3>2
      <4>2. g[i] = f[i] /\ (i # 0 => g[i - 1] = f[i - 1])
        BY <3>2
      <4> HIDE DEF g
      <4>3. QED BY <4>1, <4>2
    <3>3. QED BY <3>1, <3>2
  <2>3. Is(g, m + 1)
    BY <2>2
  <2>4. last \in Seq(Steps)
    <3>1. cs[m + 1] \in Component
      BY <1>0, ElementOfSeq
    <3>2. f[m] \in Seq(Steps)
      BY <2>1
    <3>3. CASE cs[m + 1] # "."
      <4>1. cs[m + 1] \in Steps
        BY <3>1, <3>3 DEF Component, Steps
      <4>2. QED BY <3>2, <3>3, <4>1
    <3>4. QED BY <3>2, <3>3
  <2>5. \A i \in 0 .. m + 1 : g[i] \in Seq(Steps)
    <3> HIDE DEF last
    <3>1. QED BY <2>1, <2>4
  <2> HIDE DEF g, Is
  <2>6. QED BY <2>3, <2>5
<1>3. PICK f : Is(f, n) /\ \A i \in 0 .. n : f[i] \in Seq(Steps)
  <2>1. n \in Have
    <3> HIDE DEF Have
    <3>1. QED BY <1>0, <1>1, <1>2, SetInduction
  <2> HIDE DEF Is
  <2>2. QED BY <1>0, <2>1
<1>4. Is(named, n)
  <2> HIDE DEF Is
  <2>1. QED BY <1>3
<1>5. Components(p) = named[n]
  BY DEF Components
<1> HIDE DEF named
<1> DEFINE Same == {m \in Nat : m <= n => named[m] = f[m]}
<1>6. n \in Same
  <2>1. 0 \in Same
    BY <1>0, <1>3, <1>4
  <2>2. ASSUME NEW m \in Nat, m \in Same PROVE m + 1 \in Same
    <3>1. CASE m + 1 <= n
      <4>1. m + 1 \in 0 .. n /\ m + 1 # 0 /\ (m + 1) - 1 = m /\ named[m] = f[m]
        BY <1>0, <2>2, <3>1
      <4>2. named[m + 1] = IF cs[m + 1] = "." THEN named[m] ELSE Append(named[m], cs[m + 1])
        BY <1>4, <4>1
      <4>3. f[m + 1] = IF cs[m + 1] = "." THEN f[m] ELSE Append(f[m], cs[m + 1])
        BY <1>3, <4>1
      <4>4. QED BY <4>1, <4>2, <4>3
    <3>2. QED BY <3>1
  <2> HIDE DEF Same
  <2>3. QED BY <1>0, <2>1, <2>2, SetInduction
<1>7. named[n] = f[n]
  BY <1>6
<1>8. f[n] \in Seq(Steps)
  <2> HIDE DEF Is
  <2>1. QED BY <1>0, <1>3
<1>9. QED BY <1>5, <1>7, <1>8

(* A relative path is put behind a directory and stays a list of names and *)
(* "..".                                                                   *)
LEMMA AbsolutePathIs ==
    ASSUME NEW p \in Path, NEW dir \in Seq(Name)
    PROVE  AbsolutePath(p, dir) \in Seq(Steps)
<1> DEFINE cs == Components(p)
           up == {i \in 1 .. Len(cs) : cs[i] # ".."}
<1>1. cs \in Seq(Steps)
  BY ComponentsAre, FilesAssumption
<1> HIDE DEF cs
<1>2. up # {} => Min(up) \in 1 .. Len(cs)
  <2>1. up \in SUBSET Nat /\ up \subseteq 1 .. Len(cs)
    OBVIOUS
  <2> HIDE DEF up
  <2>2. QED BY <2>1, MinIn
<1>3. PathToList(p) \in {cs, <<>>} \cup {SubSeq(cs, i, Len(cs)) : i \in 1 .. Len(cs)}
  <2>1. SelectInSeq(cs, LAMBDA c : c # "..") = IF up # {} THEN Min(up) ELSE 0
    BY DEF SelectInSeq
  <2> HIDE DEF up
  <2>2. QED BY <1>2, <2>1 DEF PathToList, cs
<1>4. PathToList(p) \in Seq(Steps)
  <2>1. ASSUME NEW i \in 1 .. Len(cs) PROVE SubSeq(cs, i, Len(cs)) \in Seq(Steps)
    BY <1>1, SubSeqProperties
  <2>2. <<>> \in Seq(Steps)
    OBVIOUS
  <2>3. {SubSeq(cs, i, Len(cs)) : i \in 1 .. Len(cs)} \subseteq Seq(Steps)
    BY <2>1
  <2>4. QED BY <1>1, <1>3, <2>2, <2>3
<1>5. dir \in Seq(Steps)
  BY DEF Steps
<1>6. QED BY <1>4, <1>5 DEF AbsolutePath

-----------------------------------------------------------------------------
(* The invariant.                                                          *)
Roots == {DiskRoot, RamRoot}
ListingType == [dir : Node, index : Nat, len : Nat]
ContextType == [node : Node, pos : Nat, listing : ListingType \cup {None}]

NodesTyped == node \in [Node -> NodeType \cup {Free}]

ProcessesTyped ==
    /\ files = [p \in Process |-> files[p]]
    /\ \A p \in Process : files[p] \in [DOMAIN files[p] -> ContextType]
    /\ nextId \in [Process -> 0 .. MaxOpens]
    /\ \A p \in Process : DOMAIN files[p] \subseteq 0 .. nextId[p] - 1
    /\ cwd \in [Process -> Seq(Name)]

(* Entries and parents belong together, and nothing is in two places.      *)
TreeInv ==
    /\ \A n \in Roots : n \in Live /\ node[n].kind = "directory" /\ node[n].parent = n
    /\ \A d \in Live : node[d].kind = "file" => node[d].entries = <<>>
    /\ \A d \in Live : \A i, j \in 1 .. Len(node[d].entries) :
          /\ node[d].entries[i].name = node[d].entries[j].name => i = j
          /\ node[d].entries[i].node = node[d].entries[j].node => i = j
    /\ \A d \in Live : \A i \in 1 .. Len(node[d].entries) :
          LET n == node[d].entries[i].node IN n \in Live \ Roots /\ node[n].parent = d
    /\ \A n \in Live \ Roots :
          LET d == node[n].parent
          IN  d \in Live /\ \E i \in 1 .. Len(node[d].entries) : node[d].entries[i].node = n

(* The other disk has nothing on it until it is mounted.                   *)
Mounted == \E n \in Live : node[n].mounted = RamRoot
MountInv ==
    /\ node[RamRoot].mounted = None
    /\ Mounted \/ node[RamRoot].entries = <<>>

(* As many contexts as the count says have the node open, or fewer: the    *)
(* count stays raised after an open_new_context that failed.               *)
OpensOf(n) == {o \in Process \X Nat : o[2] \in DOMAIN files[o[1]] /\ files[o[1]][o[2]].node = n}
OpenInv ==
    /\ \A n \in Live : IsFiniteSet(OpensOf(n)) /\ Cardinality(OpensOf(n)) <= node[n].rc
    /\ \A p \in Process : \A id \in DOMAIN files[p] : files[p][id].node \in Live

ListingInv ==
    \A p \in Process : \A id \in DOMAIN files[p] : \A n \in Node, l \in ListingType \ {None} :
        files[p][id].node = n /\ files[p][id].listing = l =>
            l.dir = Content(n) /\ l.index <= l.len /\ l.len <= Len(EntriesOf(l.dir))

-----------------------------------------------------------------------------
(* What is found.                                                          *)
LEMMA LiveTyped ==
    ASSUME NodesTyped, NEW n \in Live
    PROVE  /\ n \in Node /\ node[n] \in NodeType
           /\ node[n].entries \in Seq(Entry) /\ node[n].parent \in Node
           /\ node[n].mounted \in {None, RamRoot}
BY DEF NodesTyped, Live, NodeType

(* What a directory shows is a node in use with nothing mounted on it, and *)
(* it is the root of the other disk only once that is mounted.             *)
LEMMA ContentLive ==
    ASSUME NodesTyped, TreeInv, MountInv, NEW n \in Live
    PROVE  /\ Content(n) \in Live /\ Content(n) \in {n, RamRoot}
           /\ node[Content(n)].mounted = None
           /\ Content(n) = RamRoot => n = RamRoot \/ Mounted
BY LiveTyped DEF TreeInv, Roots, Content, MountInv, Mounted

(* find_in_directory answers the parent for "..", the node of an entry for *)
(* its name, and an error for anything else.                               *)
LEMMA FindIs ==
    ASSUME NodesTyped, TreeInv, MountInv, NEW n \in Live, NEW d, d = Content(n)
    PROVE  /\ node[d].kind # "directory" => \A name : Find(n, name) = "NotADirectory"
           /\ node[d].kind = "directory" =>
                /\ Find(n, "..") = node[d].parent
                /\ \A i \in 1 .. Len(node[d].entries) :
                      Find(n, node[d].entries[i].name) = node[d].entries[i].node
                /\ \A name \in Name :
                      (\A i \in 1 .. Len(node[d].entries) : node[d].entries[i].name # name) =>
                          Find(n, name) = "FileNotFound"
<1> DEFINE es == node[d].entries
           all == EntriesOf(d)
<1>1. d \in Live /\ es \in Seq(Entry) /\ Len(es) \in Nat
  BY ContentLive, LiveTyped
<1>2. /\ Len(all) = Len(es) + 2 /\ DOMAIN all = 1 .. Len(es) + 2
      /\ all[1] = [name |-> ".", node |-> d] /\ all[2] = [name |-> "..", node |-> node[d].parent]
      /\ \A i \in 1 .. Len(es) : all[i + 2] = es[i]
  <2> DEFINE dots == <<[name |-> ".", node |-> d], [name |-> "..", node |-> node[d].parent]>>
             S == {dots[1], dots[2]} \cup Entry
  <2>1. dots \in Seq(S) /\ es \in Seq(S) /\ Len(dots) = 2
    BY <1>1
  <2>2. all = dots \o es
    BY DEF EntriesOf
  <2>3. dots[1] = [name |-> ".", node |-> d] /\ dots[2] = [name |-> "..", node |-> node[d].parent]
    OBVIOUS
  <2> HIDE DEF dots, S, es, all
  <2>4. /\ all \in Seq(S) /\ Len(all) = Len(es) + 2
        /\ \A i \in 1 .. Len(es) + 2 : all[i] = IF i <= 2 THEN dots[i] ELSE es[i - 2]
    <3>1. all \in Seq(S) /\ Len(all) = Len(dots) + Len(es)
      BY <2>1, <2>2, ConcatProperties
    <3>2. \A i \in 1 .. Len(dots) + Len(es) :
              all[i] = IF i <= Len(dots) THEN dots[i] ELSE es[i - Len(dots)]
      BY <2>1, <2>2, ConcatProperties
    <3>3. 2 + Len(es) = Len(es) + 2
      BY <1>1
    <3>4. QED BY <2>1, <3>1, <3>2, <3>3
  <2>5. QED BY <1>1, <2>3, <2>4
<1>3. ASSUME NEW i \in 1 .. Len(es) PROVE es[i].name \in Name
  <2>1. es[i] \in Entry
    BY <1>1, ElementOfSeq
  <2>2. QED BY <2>1 DEF Entry
<1>4. {".", ".."} \cap Name = {}
  BY FilesAssumption
<1> HIDE DEF es, all
<1>5. ASSUME NEW i \in 1 .. Len(es) + 2, node[d].kind = "directory",
             \A j \in 1 .. Len(es) + 2 : all[j].name = all[i].name => j = i
      PROVE  Find(n, all[i].name) = all[i].node
  <2>1. {e \in ToSet(EntriesOf(d)) : e.name = all[i].name} = {all[i]}
    BY <1>2, <1>5 DEF ToSet, all
  <2>2. QED BY <1>5, <2>1 DEF Find, TheOne
<1>6. ASSUME NEW i \in 1 .. Len(es) + 2
      PROVE  i \in {1, 2} \/ (i - 2 \in 1 .. Len(es) /\ all[i] = es[i - 2])
  BY <1>1, <1>2
<1>7. node[d].kind = "directory" => Find(n, "..") = node[d].parent
  <2>1. 2 \in 1 .. Len(es) + 2 /\ all[2].name = ".." /\ all[1].name = "."
    BY <1>1, <1>2
  <2>2. \A j \in 1 .. Len(es) + 2 : all[j].name = all[2].name => j = 2
    BY <1>3, <1>4, <1>6, <2>1
  <2>3. QED BY <1>2, <1>5, <2>1, <2>2
<1>8. ASSUME node[d].kind = "directory", NEW i \in 1 .. Len(es) PROVE Find(n, es[i].name) = es[i].node
  <2>1. i + 2 \in 1 .. Len(es) + 2 /\ all[i + 2] = es[i] /\ all[2].name = ".." /\ all[1].name = "."
    BY <1>1, <1>2
  <2>2. \A j \in 1 .. Len(es) : es[j].name = es[i].name => j = i
    BY <1>1 DEF TreeInv, es
  <2>3. \A j \in 1 .. Len(es) + 2 : all[j].name = all[i + 2].name => j = i + 2
    <3> SUFFICES ASSUME NEW j \in 1 .. Len(es) + 2, all[j].name = es[i].name PROVE j = i + 2
      BY <2>1
    <3>1. es[i].name \notin {".", ".."}
      BY <1>3, <1>4
    <3>2. j \notin {1, 2}
      BY <2>1, <3>1
    <3>3. j - 2 \in 1 .. Len(es) /\ es[j - 2].name = es[i].name
      BY <1>6, <3>2
    <3>4. j - 2 = i
      BY <2>2, <3>3
    <3>5. QED BY <1>1, <3>4
  <2>4. QED BY <1>5, <1>8, <2>1, <2>3
<1>9. ASSUME node[d].kind = "directory", NEW name \in Name, \A i \in 1 .. Len(es) : es[i].name # name
      PROVE  Find(n, name) = "FileNotFound"
  <2>1. all[2].name = ".." /\ all[1].name = "."
    BY <1>2
  <2>2. \A j \in 1 .. Len(es) + 2 : all[j].name # name
    BY <1>4, <1>6, <1>9, <2>1
  <2>3. {e \in ToSet(EntriesOf(d)) : e.name = name} = {}
    BY <1>2, <2>2 DEF ToSet, all
  <2>4. QED BY <1>9, <2>3 DEF Find
<1>10. node[d].kind # "directory" => \A name : Find(n, name) = "NotADirectory"
  BY DEF Find
<1>11. QED BY <1>7, <1>8, <1>9, <1>10 DEF es

-----------------------------------------------------------------------------
(* Where walks lead.                                                       *)
FindErrors == {"NotADirectory", "FileNotFound"}
TreeOk == NodesTyped /\ TreeInv /\ MountInv

IsEntryOf(n, name, d) ==
    \E i \in 1 .. Len(node[d].entries) :
        node[d].entries[i].name = name /\ node[d].entries[i].node = n

(* What is found is the parent or an entry.                                *)
LEMMA Found ==
    ASSUME TreeOk, NEW n \in Live, NEW name \in Steps, Find(n, name) \notin FindErrors
    PROVE  /\ Find(n, name) \in Live /\ node[Content(n)].kind = "directory"
           /\ name = ".." => Find(n, name) = node[Content(n)].parent
           /\ name # ".." => IsEntryOf(Find(n, name), name, Content(n))
           /\ Find(n, name) = RamRoot => n = RamRoot \/ Mounted
<1> DEFINE d == Content(n)
<1>1. d \in Live /\ node[d].kind = "directory"
  BY ContentLive, FindIs DEF TreeOk, FindErrors
<1>2. CASE name = ".."
  <2>1. Find(n, name) = node[d].parent
    BY <1>1, <1>2, FindIs DEF TreeOk
  <2>2. node[d].parent \in Live
    BY <1>1 DEF TreeOk, TreeInv
  <2>3. node[d].parent = RamRoot => d = RamRoot \/ node[RamRoot].entries # <<>>
    <3> SUFFICES ASSUME node[d].parent = RamRoot, d # RamRoot, node[RamRoot].entries = <<>>
                 PROVE  FALSE
      OBVIOUS
    <3>1. d # DiskRoot
      BY FilesAssumption DEF TreeOk, TreeInv, Roots
    <3>2. PICK i \in 1 .. Len(node[RamRoot].entries) : TRUE
      BY <1>1, <3>1 DEF TreeOk, TreeInv, Roots
    <3>3. QED BY <3>2
  <2>4. d = RamRoot => n = RamRoot \/ Mounted
    BY ContentLive DEF TreeOk
  <2>5. QED BY <1>1, <1>2, <2>1, <2>2, <2>3, <2>4 DEF TreeOk, MountInv
<1>3. CASE name # ".."
  <2>1. name \in Name
    BY <1>3 DEF Steps
  <2>2. PICK i \in 1 .. Len(node[d].entries) : node[d].entries[i].name = name
    BY <1>1, <2>1, FindIs DEF TreeOk, FindErrors
  <2>3. Find(n, name) = node[d].entries[i].node
    BY <1>1, <2>2, FindIs DEF TreeOk
  <2>4. Find(n, name) \in Live \ Roots
    BY <1>1, <2>3 DEF TreeOk, TreeInv
  <2>5. QED BY <1>1, <1>3, <2>2, <2>3, <2>4 DEF IsEntryOf, Roots
<1>4. QED BY <1>2, <1>3

IsWalk(w) == w = [at |-> w.at, error |-> w.error, path |-> w.path]

(* A walk without an error is at a node that is there; its path has names  *)
(* only.                                                                   *)
Arrived(w) ==
    w.error = None => w.at \in Live /\ w.path \in Seq(Name) /\ (w.at = RamRoot => Mounted)

(* A stride from a node in use leads to a node in use, or keeps the first  *)
(* error.                                                                  *)
LEMMA StrideArrives ==
    ASSUME TreeOk, NEW w, NEW name \in Steps, IsWalk(w), Arrived(w)
    PROVE  /\ IsWalk(Stride(w, name)) /\ Arrived(Stride(w, name))
           /\ w.error # None => Stride(w, name).error = w.error
           /\ w.error = None =>
                 IF Find(w.at, name) \in FindErrors
                 THEN Stride(w, name).error = Find(w.at, name)
                 ELSE Stride(w, name) = [at |-> Find(w.at, name), error |-> None,
                        path |-> IF name = ".." THEN Popped(w.path) ELSE Append(w.path, name)]
<1> DEFINE found == Find(w.at, name)
           v == Stride(w, name)
<1>0. FindErrors \cap (Node \cup {None}) = {}
  BY FilesAssumption DEF FindErrors
<1>1. CASE w.error # None
  <2>1. v = w
    BY <1>1 DEF Stride
  <2>2. QED BY <1>1, <2>1
<1>2. CASE w.error = None /\ found \in FindErrors
  <2>1. v = [w EXCEPT !.error = found]
    BY <1>0, <1>2 DEF Stride
  <2>2. v = [at |-> w.at, error |-> found, path |-> w.path]
    BY <2>1 DEF IsWalk
  <2> HIDE DEF found, v
  <2>3. QED BY <1>0, <1>2, <2>2 DEF IsWalk, Arrived, found, v
<1>3. CASE w.error = None /\ found \notin FindErrors
  <2>1. w.at \in Live /\ w.path \in Seq(Name) /\ (w.at = RamRoot => Mounted)
    BY <1>3 DEF Arrived
  <2>2. found \in Live /\ (found = RamRoot => Mounted)
    BY <1>3, <2>1, Found
  <2> DEFINE to == IF name = ".." THEN Popped(w.path) ELSE Append(w.path, name)
  <2>3. v = [at |-> found, error |-> None, path |-> to]
    BY <1>3, <2>2 DEF Stride, Live
  <2>4. to \in Seq(Name)
    <3>1. w.path # <<>> => Front(w.path) \in Seq(Name)
      <4>1. ASSUME w.path # <<>> PROVE Front(w.path) \in Seq(Name)
        BY <2>1, <4>1, SubSeqProperties DEF Front
      <4>2. QED BY <4>1
    <3>2. name # ".." => Append(w.path, name) \in Seq(Name)
      BY <2>1 DEF Steps
    <3>3. QED BY <2>1, <3>1, <3>2 DEF Popped
  <2> HIDE DEF found, v, to
  <2>5. QED BY <1>3, <2>2, <2>3, <2>4 DEF IsWalk, Arrived, found, v, to
<1>4. QED BY <1>1, <1>2, <1>3

(* So resolve_path ends at a node in use, or with an error.                *)
LEMMA WalkArrives ==
    ASSUME TreeOk
    PROVE  \A path \in Seq(Steps) : IsWalk(Walk(path)) /\ Arrived(Walk(path))
<1> DEFINE Good == {m \in Nat : \A path \in Seq(Steps) :
                       Len(path) = m => IsWalk(Walk(path)) /\ Arrived(Walk(path))}
<1>1. 0 \in Good
  <2>1. \A path \in Seq(Steps) : Len(path) = 0 => Walk(path) = Start
    BY Walking, EmptySeq DEF WalksOn
  <2>2. <<>> \in Seq(Name)
    OBVIOUS
  <2>3. IsWalk(Start) /\ Arrived(Start)
    BY <2>2, FilesAssumption DEF IsWalk, Arrived, Start, TreeOk, TreeInv, Roots
  <2>4. QED BY <2>1, <2>3
<1>2. ASSUME NEW m \in Nat, m \in Good PROVE m + 1 \in Good
  <2>1. ASSUME NEW path \in Seq(Steps), Len(path) = m + 1
        PROVE  IsWalk(Walk(path)) /\ Arrived(Walk(path))
    <3>1. path # <<>>
      BY <2>1
    <3>2. PICK before \in Seq(Steps), name \in Steps : path = Append(before, name)
      BY <3>1, SequenceEmptyOrAppend
    <3>3. Len(before) = m
      BY <2>1, <3>2
    <3>4. IsWalk(Walk(before)) /\ Arrived(Walk(before))
      BY <1>2, <3>3
    <3>5. before \in Seq(Component) /\ name \in Component
      BY DEF Steps, Component
    <3>6. Walk(path) = Stride(Walk(before), name)
      BY <3>2, <3>5, Walking DEF WalksOn
    <3>7. QED BY <3>4, <3>6, StrideArrives
  <2>2. QED BY <2>1
<1>3. \A path \in Seq(Steps) : Len(path) \in Good
  <2> HIDE DEF Good
  <2>1. QED BY <1>1, <1>2, SetInduction
<1>4. QED BY <1>3

(* The path to a file is the path to its directory and one stride more.    *)
LEMMA PathParts ==
    ASSUME NEW path \in Seq(Steps), path # <<>>
    PROVE  /\ Popped(path) \in Seq(Steps) /\ Filename(path) \in Steps
           /\ Filename(path) = Last(path)
           /\ Walk(path) = Stride(Walk(Popped(path)), Filename(path))
<1>1. PICK before \in Seq(Steps), name \in Steps : path = Append(before, name)
  BY SequenceEmptyOrAppend
<1>2. Popped(path) = before /\ Filename(path) = name /\ Last(path) = name
  <2>1. Front(path) = before /\ Last(path) = name
    <3>1. /\ Len(path) = Len(before) + 1 /\ Len(before) \in Nat /\ path[Len(before) + 1] = name
          /\ \A i \in 1 .. Len(before) : path[i] = before[i]
      BY <1>1
    <3>2. /\ SubSeq(path, 1, Len(before)) \in Seq(Steps)
          /\ Len(SubSeq(path, 1, Len(before))) = Len(before)
          /\ \A i \in 1 .. Len(before) : SubSeq(path, 1, Len(before))[i] = path[i]
      BY <3>1, SubSeqProperties
    <3>3. SubSeq(path, 1, Len(before)) = before
      BY <3>1, <3>2, SeqEqual
    <3>4. QED BY <3>1, <3>3 DEF Front, Last
  <2>2. QED BY <2>1 DEF Popped, Filename
<1>3. before \in Seq(Component) /\ name \in Component
  BY DEF Steps, Component
<1>4. QED BY <1>1, <1>2, <1>3, Walking DEF WalksOn

(* What is to be created has a new name in a directory that is there.      *)
LEMMA NewName ==
    ASSUME TreeOk, NEW path \in Seq(Steps), Walk(path).error = "FileNotFound", CanCreate(path),
           NEW d, d = Content(Walk(Popped(path)).at)
    PROVE  /\ d \in Live /\ node[d].kind = "directory" /\ (d = RamRoot => Mounted)
           /\ Filename(path) \in Name
           /\ \A i \in 1 .. Len(node[d].entries) : node[d].entries[i].name # Filename(path)
<1> DEFINE w == Walk(Popped(path))
           name == Filename(path)
<1>1. path # <<>>
  BY FilesAssumption, Walking DEF WalksOn, Start
<1>2. Popped(path) \in Seq(Steps) /\ name \in Steps /\ Walk(path) = Stride(w, name)
  BY <1>1, PathParts
<1>3. w.error = None /\ node[d].kind = "directory"
  BY DEF CanCreate
<1>4. IsWalk(w) /\ Arrived(w)
  BY <1>2, WalkArrives
<1>5. w.at \in Live /\ (w.at = RamRoot => Mounted)
  BY <1>3, <1>4 DEF Arrived
<1>6. d \in Live /\ (d = RamRoot => Mounted)
  BY <1>5, ContentLive DEF TreeOk
<1>7. Find(w.at, name) \in FindErrors
  <2>1. None # "FileNotFound"
    BY FilesAssumption
  <2> HIDE DEF w, name
  <2>2. QED BY <1>2, <1>3, <1>4, <2>1, StrideArrives
<1>8. FindErrors \cap Node = {}
  BY FilesAssumption DEF FindErrors
<1>9. name # ".."
  <2>1. name = ".." => Find(w.at, name) = node[d].parent
    BY <1>3, <1>5, FindIs DEF TreeOk
  <2>2. node[d].parent \in Node
    BY <1>6, LiveTyped DEF TreeOk
  <2>3. QED BY <1>7, <1>8, <2>1, <2>2
<1>10. ASSUME NEW i \in 1 .. Len(node[d].entries), node[d].entries[i].name = name PROVE FALSE
  <2>1. Find(w.at, name) = node[d].entries[i].node
    BY <1>3, <1>5, <1>10, FindIs DEF TreeOk
  <2>2. node[d].entries[i].node \in Node
    BY <1>6 DEF TreeOk, TreeInv, Live
  <2>3. QED BY <1>7, <1>8, <2>1, <2>2
<1>11. QED BY <1>2, <1>3, <1>6, <1>9, <1>10 DEF Steps

-----------------------------------------------------------------------------
(* How the tree changes.                                                   *)

SameShape ==
    /\ Live' = Live
    /\ \A n \in Live : /\ node'[n].kind = node[n].kind /\ node'[n].parent = node[n].parent
                       /\ node'[n].entries = node[n].entries

(* Counts and pages are no part of it.                                     *)
SameTree ==
    /\ NodesTyped' /\ Live' = Live
    /\ \A n \in Live : /\ node'[n].kind = node[n].kind /\ node'[n].parent = node[n].parent
                       /\ node'[n].entries = node[n].entries /\ node'[n].mounted = node[n].mounted

(* A step that leaves kinds, parents, entries and mounts alone leaves the  *)
(* tree sound.                                                             *)
LEMMA SameShapeOk ==
    ASSUME TreeInv, SameShape
    PROVE  TreeInv'
<1>1. \A n \in Roots : n \in Live' /\ node'[n].kind = "directory" /\ node'[n].parent = n
  BY DEF SameShape, TreeInv
<1>2. \A d \in Live' : node'[d].kind = "file" => node'[d].entries = <<>>
  BY DEF SameShape, TreeInv
<1>3. ASSUME NEW d \in Live', NEW i \in 1 .. Len(node'[d].entries), NEW j \in 1 .. Len(node'[d].entries)
      PROVE  /\ node'[d].entries[i].name = node'[d].entries[j].name => i = j
             /\ node'[d].entries[i].node = node'[d].entries[j].node => i = j
  <2>1. d \in Live /\ node'[d].entries = node[d].entries
    BY DEF SameShape
  <2>2. QED BY <1>3, <2>1 DEF TreeInv
<1>4. ASSUME NEW d \in Live', NEW i \in 1 .. Len(node'[d].entries)
      PROVE  /\ node'[d].entries[i].node \in Live' \ Roots
             /\ node'[node'[d].entries[i].node].parent = d
  <2>1. d \in Live /\ node'[d].entries = node[d].entries
    BY DEF SameShape
  <2>2. node[d].entries[i].node \in Live \ Roots /\ node[node[d].entries[i].node].parent = d
    BY <1>4, <2>1 DEF TreeInv
  <2>3. QED BY <2>1, <2>2 DEF SameShape
<1>5. ASSUME NEW n \in Live' \ Roots
      PROVE  /\ node'[n].parent \in Live'
             /\ \E i \in 1 .. Len(node'[node'[n].parent].entries) :
                   node'[node'[n].parent].entries[i].node = n
  <2>1. n \in Live \ Roots /\ node'[n].parent = node[n].parent
    BY DEF SameShape
  <2>2. /\ node[n].parent \in Live
        /\ \E i \in 1 .. Len(node[node[n].parent].entries) : node[node[n].parent].entries[i].node = n
    BY <2>1 DEF TreeInv
  <2>3. node'[node[n].parent].entries = node[node[n].parent].entries
    BY <2>2 DEF SameShape
  <2>4. QED BY <2>1, <2>2, <2>3 DEF SameShape
<1>6. QED BY <1>1, <1>2, <1>3, <1>4, <1>5 DEF TreeInv

(* So does one that leaves them alone in every node there is.              *)
LEMMA SameTreeOk ==
    ASSUME TreeOk, SameTree
    PROVE  TreeOk' /\ (Mounted' <=> Mounted)
<1>1. TreeInv'
  BY SameShapeOk DEF TreeOk, SameTree, SameShape
<1>2. Mounted' <=> Mounted
  BY DEF SameTree, Mounted
<1>3. MountInv'
  BY <1>2 DEF TreeOk, SameTree, MountInv, TreeInv, Roots
<1>4. QED BY <1>1, <1>2, <1>3 DEF TreeOk, SameTree

(* A node comes to be an entry with a new name.                            *)
Grows(d, name, n) ==
    /\ NodesTyped'
    /\ \A q \in Node \ {n, d} : node'[q] = node[q]
    /\ node'[d] = [node[d] EXCEPT !.entries = Append(@, [name |-> name, node |-> n])]
    /\ node'[n] # Free /\ node'[n].parent = d /\ node'[n].entries = <<>> /\ node'[n].mounted = None

(* A new node with an entry of a new name in a directory leaves the tree   *)
(* sound.                                                                  *)
LEMMA GrowsOk ==
    ASSUME TreeOk, NEW d \in Live, node[d].kind = "directory", d = RamRoot => Mounted,
           NEW n \in Node \ Live, NEW name \in Name, Grows(d, name, n),
           \A i \in 1 .. Len(node[d].entries) : node[d].entries[i].name # name
    PROVE  TreeOk' /\ Live' = Live \cup {n} /\ (Mounted => Mounted')
<1> DEFINE es == node[d].entries
           fs == node'[d].entries
           new == [name |-> name, node |-> n]
<1>1. es \in Seq(Entry) /\ Len(es) \in Nat /\ node[d] \in NodeType /\ n # d /\ d \in Node
  BY LiveTyped DEF TreeOk, Live
<1>2. /\ node'[d].kind = node[d].kind /\ node'[d].parent = node[d].parent
      /\ node'[d].mounted = node[d].mounted /\ fs = Append(es, new)
  BY <1>1 DEF Grows, NodeType
<1>3. new \in Entry
  BY DEF Entry
<1>4. /\ Len(fs) = Len(es) + 1 /\ fs[Len(es) + 1] = new
      /\ \A i \in 1 .. Len(es) : fs[i] = es[i]
  <2> HIDE DEF es, fs, new
  <2>1. QED BY <1>1, <1>2, <1>3, AppendProperties
<1>5. Live' = Live \cup {n}
  <2>1. node'[d] # Free
    <3>1. Append(es, new) \in Seq(Entry)
      BY <1>1, <1>3
    <3>2. [node[d] EXCEPT !.entries = Append(es, new)] \in NodeType
      <4> HIDE DEF es, new
      <4>1. QED BY <1>1, <3>1 DEF NodeType
    <3>3. node'[d] \in NodeType
      BY <3>2 DEF Grows
    <3>4. QED BY <3>3, FilesAssumption
  <2>2. QED BY <2>1 DEF Grows, Live
<1>6. /\ \A q \in Live \ {d} : node'[q] = node[q]
      /\ \A q \in Live : /\ node'[q].kind = node[q].kind /\ node'[q].parent = node[q].parent
                         /\ node'[q].mounted = node[q].mounted
  BY <1>2 DEF Grows, Live
<1>7. \A q \in Live : \A i \in 1 .. Len(node[q].entries) :
          i \in 1 .. Len(node'[q].entries) /\ node'[q].entries[i] = node[q].entries[i]
  <2>1. ASSUME NEW q \in Live PROVE Len(node[q].entries) \in Nat
    BY LiveTyped DEF TreeOk
  <2>2. QED BY <1>1, <1>4, <1>6
<1> HIDE DEF es, fs
<1>8. TreeInv'
  <2>1. \A q \in Roots : q \in Live' /\ node'[q].kind = "directory" /\ node'[q].parent = q
    BY <1>5, <1>6 DEF TreeOk, TreeInv
  <2>2. \A q \in Live' : node'[q].kind = "file" => node'[q].entries = <<>>
    BY <1>5, <1>6 DEF TreeOk, TreeInv, Grows
  <2>3. ASSUME NEW q \in Live', NEW i \in 1 .. Len(node'[q].entries), NEW j \in 1 .. Len(node'[q].entries)
        PROVE  /\ node'[q].entries[i].name = node'[q].entries[j].name => i = j
               /\ node'[q].entries[i].node = node'[q].entries[j].node => i = j
    <3>1. CASE q = n
      BY <2>3, <3>1 DEF Grows
    <3>2. CASE q \in Live \ {d}
      BY <1>6, <2>3, <3>2, SMTT(40) DEF TreeOk, TreeInv
    <3>3. CASE q = d
      <4>1. \A x \in 1 .. Len(es) : es[x].name # name /\ es[x].node # n
        BY DEF TreeOk, TreeInv, es
      <4>2. \A x, y \in 1 .. Len(es) : (es[x].name = es[y].name => x = y) /\ (es[x].node = es[y].node => x = y)
        BY DEF TreeOk, TreeInv, es
      <4>3. i \in 1 .. Len(es) + 1 /\ j \in 1 .. Len(es) + 1
        BY <1>4, <2>3, <3>3 DEF fs
      <4>4. \A x \in 1 .. Len(es) + 1 : x \in 1 .. Len(es) \/ x = Len(es) + 1
        BY <1>1
      <4>5. fs[Len(es) + 1].name = name /\ fs[Len(es) + 1].node = n
        BY <1>4
      <4>6. (fs[i].name = fs[j].name => i = j) /\ (fs[i].node = fs[j].node => i = j)
        BY <1>4, <4>1, <4>2, <4>3, <4>4, <4>5
      <4>7. QED BY <3>3, <4>6 DEF fs
    <3>4. QED BY <1>5, <3>1, <3>2, <3>3
  <2>4. ASSUME NEW q \in Live', NEW i \in 1 .. Len(node'[q].entries)
        PROVE  /\ node'[q].entries[i].node \in Live' \ Roots
               /\ node'[node'[q].entries[i].node].parent = q
    <3>0. n \notin Roots
      BY DEF TreeOk, TreeInv
    <3>1. CASE q = n
      BY <2>4, <3>1 DEF Grows
    <3>2. CASE q \in Live \ {d}
      <4>1. node'[q].entries = node[q].entries
        BY <1>6, <3>2
      <4>2. node[q].entries[i].node \in Live \ Roots /\ node[node[q].entries[i].node].parent = q
        BY <2>4, <3>2, <4>1 DEF TreeOk, TreeInv
      <4>3. QED BY <1>5, <1>6, <4>1, <4>2
    <3>3. CASE q = d
      <4>1. i \in 1 .. Len(es) \/ i = Len(es) + 1
        BY <1>1, <1>4, <2>4, <3>3 DEF fs
      <4>2. CASE i \in 1 .. Len(es)
        <5>1. es[i].node \in Live \ Roots /\ node[es[i].node].parent = d /\ fs[i] = es[i]
          BY <1>4, <4>2 DEF TreeOk, TreeInv, es
        <5>2. QED BY <1>5, <1>6, <3>3, <5>1 DEF fs
      <4>3. CASE i = Len(es) + 1
        <5>1. fs[i].node = n
          BY <1>4, <4>3
        <5>2. QED BY <1>5, <3>0, <3>3, <5>1 DEF fs, Grows
      <4>4. QED BY <4>1, <4>2, <4>3
    <3>4. QED BY <1>5, <3>1, <3>2, <3>3
  <2>5. ASSUME NEW q \in Live' \ Roots
        PROVE  /\ node'[q].parent \in Live'
               /\ \E i \in 1 .. Len(node'[node'[q].parent].entries) :
                     node'[node'[q].parent].entries[i].node = q
    <3>1. CASE q = n
      <4>1. node'[q].parent = d
        BY <3>1 DEF Grows
      <4>2. Len(es) + 1 \in 1 .. Len(fs) /\ fs[Len(es) + 1].node = n
        BY <1>1, <1>4
      <4>3. QED BY <1>5, <3>1, <4>1, <4>2 DEF fs
    <3>2. CASE q \in Live
      <4>1. node'[q].parent = node[q].parent /\ node[q].parent \in Live
        BY <1>6, <2>5, <3>2 DEF TreeOk, TreeInv
      <4>2. PICK i \in 1 .. Len(node[node[q].parent].entries) : node[node[q].parent].entries[i].node = q
        BY <2>5, <3>2 DEF TreeOk, TreeInv
      <4>3. QED BY <1>5, <1>7, <4>1, <4>2
    <3>3. QED BY <1>5, <2>5, <3>1, <3>2
  <2>6. QED BY <2>1, <2>2, <2>3, <2>4, <2>5 DEF TreeInv
<1>9. Mounted => Mounted'
  BY <1>5, <1>6 DEF Mounted
<1>10. MountInv'
  <2>1. RamRoot \in Live
    BY DEF TreeOk, TreeInv, Roots
  <2>2. CASE Mounted
    BY <1>6, <1>9, <2>1, <2>2 DEF TreeOk, MountInv
  <2>3. CASE ~ Mounted
    <3>1. RamRoot # d
      BY <2>3
    <3>2. QED BY <1>6, <2>1, <2>3, <3>1 DEF TreeOk, MountInv
  <2>4. QED BY <2>2, <2>3
<1>11. NodesTyped'
  BY DEF Grows
<1>12. QED BY <1>5, <1>8, <1>9, <1>10, <1>11 DEF TreeOk

(* An entry goes, and its node, which has no entries itself, with it.      *)
Shrinks(d, i, n) ==
    /\ n = node[d].entries[i].node
    /\ node' = [node EXCEPT ![d].entries = RemoveAt(@, i), ![n] = Free]

(* A node without entries of its own that is taken out of its directory and*)
(* freed leaves the tree sound.                                            *)
LEMMA ShrinksOk ==
    ASSUME TreeOk, NEW d \in Live, NEW i \in 1 .. Len(node[d].entries), NEW n, Shrinks(d, i, n),
           node[n].entries = <<>>, node[n].mounted = None
    PROVE  TreeOk' /\ Live' = Live \ {n} /\ n # d /\ n \notin Roots
<1> DEFINE es == node[d].entries
           fs == RemoveAt(es, i)
<1>1. es \in Seq(Entry) /\ Len(es) \in Nat /\ node[d] \in NodeType /\ d \in Node /\ Free \notin NodeType
  BY LiveTyped, FilesAssumption DEF TreeOk
<1>2. n \in Live /\ n \notin Roots /\ n # d /\ n \in Node
  <2>1. n \in Live \ Roots
    BY DEF TreeOk, TreeInv, Shrinks
  <2>2. QED BY <2>1, <1>1 DEF Live
<1>3. /\ fs \in Seq(Entry) /\ Len(fs) = Len(es) - 1
      /\ \A j \in 1 .. Len(es) - 1 : fs[j] = IF j < i THEN es[j] ELSE es[j + 1]
  <2> HIDE DEF es
  <2>1. i \in 1 .. Len(es)
    BY DEF es
  <2>2. QED BY <1>1, <2>1, RemoveAtIs
<1>4. /\ node'[d] = [node[d] EXCEPT !.entries = fs] /\ node'[n] = Free
      /\ \A q \in Node \ {n, d} : node'[q] = node[q]
  BY <1>1, <1>2 DEF Shrinks, TreeOk, NodesTyped
<1>5. [node[d] EXCEPT !.entries = fs] \in NodeType
  <2> HIDE DEF fs
  <2>1. QED BY <1>1, <1>3 DEF NodeType
<1>6. node' \in [Node -> NodeType \cup {Free}]
  <2>1. node' = [q \in Node |-> node'[q]]
    BY DEF Shrinks, TreeOk, NodesTyped
  <2>2. ASSUME NEW q \in Node PROVE node'[q] \in NodeType \cup {Free}
    BY <1>4, <1>5 DEF TreeOk, NodesTyped
  <2>3. QED BY <2>1, <2>2
<1>7. Live' = Live \ {n}
  BY <1>1, <1>2, <1>4, <1>5 DEF Live
<1>8. /\ node'[d].kind = node[d].kind /\ node'[d].parent = node[d].parent
      /\ node'[d].mounted = node[d].mounted /\ node'[d].entries = fs
  BY <1>1, <1>4 DEF NodeType
<1>9. /\ \A q \in Live \ {n, d} : node'[q] = node[q]
      /\ \A q \in Live \ {n} : /\ node'[q].kind = node[q].kind /\ node'[q].parent = node[q].parent
                               /\ node'[q].mounted = node[q].mounted
  BY <1>4, <1>8 DEF Live
(* Where an entry was that is still there.                                 *)
<1>10. ASSUME NEW j \in 1 .. Len(fs)
       PROVE  \E k \in 1 .. Len(es) : k # i /\ fs[j] = es[k] /\ k = IF j < i THEN j ELSE j + 1
  <2>1. i \in 1 .. Len(es)
    OBVIOUS
  <2> HIDE DEF es, fs
  <2>2. j \in 1 .. Len(es) - 1 /\ i \in Nat
    BY <1>1, <1>3, <2>1
  <2>3. CASE j < i
    BY <1>1, <1>3, <2>2, <2>3
  <2>4. CASE ~ (j < i)
    BY <1>1, <1>3, <2>2, <2>4
  <2>5. QED BY <2>3, <2>4
<1>11. ASSUME NEW k \in 1 .. Len(es), k # i PROVE \E j \in 1 .. Len(fs) : fs[j] = es[k]
  <2>1. i \in 1 .. Len(es)
    OBVIOUS
  <2> HIDE DEF es, fs
  <2>2. CASE k < i
    BY <1>1, <1>3, <1>11, <2>1, <2>2, SMTT(40)
  <2>3. CASE ~ (k < i)
    <3>1. k - 1 \in 1 .. Len(es) - 1 /\ ~ (k - 1 < i) /\ (k - 1) + 1 = k
      BY <1>1, <1>11, <2>1, <2>3
    <3>2. QED BY <1>3, <3>1
  <2>4. QED BY <2>2, <2>3
<1>12. /\ es[i].node = n
       /\ \A x, y \in 1 .. Len(es) : /\ es[x].name = es[y].name => x = y
                                     /\ es[x].node = es[y].node => x = y
       /\ \A x \in 1 .. Len(es) : es[x].node \in Live \ Roots /\ node[es[x].node].parent = d
  BY DEF Shrinks, TreeOk, TreeInv
<1>i. i \in 1 .. Len(es)
  OBVIOUS
<1> HIDE DEF fs, es
<1>13. TreeInv'
  <2>1. \A q \in Roots : q \in Live' /\ node'[q].kind = "directory" /\ node'[q].parent = q
    BY <1>2, <1>7, <1>9 DEF TreeOk, TreeInv
  <2>2. ASSUME NEW q \in Live', node'[q].kind = "file" PROVE node'[q].entries = <<>>
    <3>1. node[q].kind = "file" /\ q \in Live
      BY <1>7, <1>9, <2>2
    <3>2. node[q].entries = <<>>
      BY <3>1 DEF TreeOk, TreeInv
    <3>3. q # d
      <4>1. node[d].entries = es
        BY DEF es
      <4>2. QED BY <1>i, <3>2, <4>1
    <3>4. QED BY <1>7, <1>9, <3>2, <3>3
  <2>3. ASSUME NEW q \in Live', NEW x \in 1 .. Len(node'[q].entries), NEW y \in 1 .. Len(node'[q].entries)
        PROVE  /\ node'[q].entries[x].name = node'[q].entries[y].name => x = y
               /\ node'[q].entries[x].node = node'[q].entries[y].node => x = y
    <3>1. CASE q # d
      <4>1. node'[q] = node[q] /\ q \in Live
        BY <1>7, <1>9, <3>1
      <4>2. QED BY <2>3, <4>1 DEF TreeOk, TreeInv
    <3>2. CASE q = d
      <4>1. x \in 1 .. Len(fs) /\ y \in 1 .. Len(fs) /\ node'[q].entries = fs
        BY <1>8, <2>3, <3>2
      <4>2. PICK k \in 1 .. Len(es) : fs[x] = es[k] /\ k = IF x < i THEN x ELSE x + 1
        BY <1>10, <4>1
      <4>3. PICK l \in 1 .. Len(es) : fs[y] = es[l] /\ l = IF y < i THEN y ELSE y + 1
        BY <1>10, <4>1
      <4>4. k = l => x = y
        BY <1>1, <1>3, <1>i, <4>1, <4>2, <4>3
      <4>5. QED BY <1>12, <4>1, <4>2, <4>3, <4>4, SMTT(40)
    <3>3. QED BY <3>1, <3>2
  <2>4. ASSUME NEW q \in Live', NEW x \in 1 .. Len(node'[q].entries)
        PROVE  /\ node'[q].entries[x].node \in Live' \ Roots
               /\ node'[node'[q].entries[x].node].parent = q
    <3>1. q \in Live /\ q # n
      BY <1>7
    <3>2. PICK e : /\ e = node'[q].entries[x] /\ e.node \in Live \ Roots
                   /\ node[e.node].parent = q /\ e.node # n
      <4>1. CASE q # d
        <5>1. node'[q] = node[q]
          BY <1>9, <3>1, <4>1
        <5>2. node[q].entries[x].node \in Live \ Roots /\ node[node[q].entries[x].node].parent = q
          BY <2>4, <3>1, <5>1 DEF TreeOk, TreeInv
        <5>3. node[n].parent = d
          BY <1>12, <1>i
        <5>4. QED BY <4>1, <5>1, <5>2, <5>3
      <4>2. CASE q = d
        <5>1. x \in 1 .. Len(fs) /\ node'[q].entries = fs
          BY <1>8, <2>4, <4>2
        <5>2. PICK k \in 1 .. Len(es) : k # i /\ fs[x] = es[k]
          BY <1>10, <5>1
        <5>3. es[k].node # n
          BY <1>12, <1>i, <5>2
        <5>4. QED BY <1>12, <4>2, <5>1, <5>2, <5>3
      <4>3. QED BY <4>1, <4>2
    <3>3. QED BY <1>7, <1>9, <3>2
  <2>5. ASSUME NEW q \in Live' \ Roots
        PROVE  /\ node'[q].parent \in Live'
               /\ \E x \in 1 .. Len(node'[node'[q].parent].entries) :
                     node'[node'[q].parent].entries[x].node = q
    <3>1. q \in Live \ Roots /\ q # n /\ node'[q].parent = node[q].parent
      BY <1>7, <1>9, <2>5
    <3> DEFINE p == node[q].parent
    <3>2. p \in Live
      BY <3>1 DEF TreeOk, TreeInv
    <3>3. PICK k \in 1 .. Len(node[p].entries) : node[p].entries[k].node = q
      BY <3>1 DEF TreeOk, TreeInv
    <3>4. p # n
      BY <3>3
    <3>5. CASE p # d
      <4>1. node'[p] = node[p]
        BY <1>9, <3>2, <3>4, <3>5
      <4>2. QED BY <1>7, <3>1, <3>2, <3>3, <3>4, <4>1
    <3>6. CASE p = d
      <4>1. k \in 1 .. Len(es) /\ es[k].node = q /\ k # i
        BY <1>12, <3>1, <3>3, <3>6 DEF es
      <4>2. PICK j \in 1 .. Len(fs) : fs[j] = es[k]
        BY <1>11, <4>1
      <4>3. QED BY <1>7, <1>8, <3>1, <3>2, <3>4, <3>6, <4>1, <4>2
    <3>7. QED BY <3>5, <3>6
  <2>6. QED BY <2>1, <2>2, <2>3, <2>4, <2>5 DEF TreeInv
<1>14. MountInv'
  <2>1. RamRoot \in Live \ {n}
    BY <1>2 DEF TreeOk, TreeInv, Roots
  <2>2. node'[RamRoot].mounted = None
    BY <1>9, <2>1 DEF TreeOk, MountInv
  <2>3. CASE Mounted
    <3>1. PICK q \in Live : node[q].mounted = RamRoot
      BY <2>3 DEF Mounted
    <3>2. q # n
      BY <2>1, <3>1, FilesAssumption DEF Live
    <3>3. Mounted'
      BY <1>7, <1>9, <3>1, <3>2 DEF Mounted
    <3>4. QED BY <2>2, <3>3 DEF MountInv
  <2>4. CASE ~ Mounted
    <3>1. node[RamRoot].entries = <<>>
      BY <2>4 DEF TreeOk, MountInv
    <3>2. RamRoot # d
      <4>1. node[d].entries = es
        BY DEF es
      <4>2. QED BY <1>i, <3>1, <4>1
    <3>3. node'[RamRoot] = node[RamRoot]
      BY <1>9, <2>1, <3>2
    <3>4. QED BY <2>2, <3>1, <3>3 DEF MountInv
  <2>5. QED BY <2>3, <2>4
<1>15. QED BY <1>2, <1>6, <1>7, <1>13, <1>14 DEF TreeOk, NodesTyped

(* So does the mounting of the other disk anywhere in the first.           *)
LEMMA MountsOk ==
    ASSUME TreeOk, NEW d \in Live, d # RamRoot, node' = [node EXCEPT ![d].mounted = RamRoot]
    PROVE  TreeOk' /\ Live' = Live
<1>1. node[d] \in NodeType /\ d \in Node /\ RamRoot \in Live
  BY LiveTyped DEF TreeOk, TreeInv, Roots
<1>2. node'[d] = [node[d] EXCEPT !.mounted = RamRoot] /\ \A q \in Node \ {d} : node'[q] = node[q]
  BY <1>1 DEF TreeOk, NodesTyped
<1>3. node'[d] \in NodeType
  <2>1. [node[d] EXCEPT !.mounted = RamRoot] \in NodeType
    BY <1>1 DEF NodeType
  <2>2. QED BY <1>2, <2>1
<1>4. NodesTyped'
  BY <1>1, <1>3 DEF TreeOk, NodesTyped
<1>5. Live' = Live
  BY <1>1, <1>2, <1>3, FilesAssumption DEF Live
<1>6. /\ node'[d].kind = node[d].kind /\ node'[d].parent = node[d].parent
      /\ node'[d].entries = node[d].entries /\ node'[d].mounted = RamRoot
  BY <1>1, <1>2 DEF NodeType
<1>7. \A q \in Live : /\ node'[q].kind = node[q].kind /\ node'[q].parent = node[q].parent
                      /\ node'[q].entries = node[q].entries
  BY <1>2, <1>6 DEF Live
<1>8. TreeInv'
  BY <1>5, <1>7, SameShapeOk DEF TreeOk, SameShape
<1>9. MountInv'
  <2>1. Mounted'
    BY <1>5, <1>6 DEF Mounted
  <2>2. node'[RamRoot] = node[RamRoot]
    BY <1>1, <1>2 DEF Live
  <2>3. QED BY <2>1, <2>2 DEF TreeOk, MountInv
<1>10. QED BY <1>4, <1>5, <1>8, <1>9 DEF TreeOk

-----------------------------------------------------------------------------
(* The bytes of a file are those of its pages, one page after the other.   *)
LEMMA BytesAppend ==
    /\ Bytes(<<>>) = <<>>
    /\ \A pages \in Seq(Seq(Byte)) : Bytes(pages) \in Seq(Byte)
    /\ \A pages \in Seq(Seq(Byte)), page \in Seq(Byte) :
          Bytes(Append(pages, page)) = Bytes(pages) \o page
  BY FlattenIs DEF Bytes

(* How many bytes there are before each page.                              *)
LEMMA SeenIs ==
    ASSUME NEW pages \in Seq(Seq(Byte))
    PROVE  /\ SeenBefore(pages, 1) = 0
           /\ \A i \in 1 .. Len(pages) + 1 : SeenBefore(pages, i) \in Nat
           /\ \A i \in 1 .. Len(pages) : Len(pages[i]) \in Nat
           /\ \A i \in 1 .. Len(pages) :
                 SeenBefore(pages, i + 1) = SeenBefore(pages, i) + Len(pages[i])
           /\ Len(Bytes(pages)) = SeenBefore(pages, Len(pages) + 1)
<1> DEFINE n == Len(pages)
           upTo(i) == SubSeq(pages, 1, i)
<1>0. n \in Nat
  OBVIOUS
<1>1. ASSUME NEW i \in 0 .. n
      PROVE  upTo(i) \in Seq(Seq(Byte)) /\ Len(upTo(i)) = i /\ \A j \in 1 .. i : upTo(i)[j] = pages[j]
  BY <1>0, SubSeqProperties
<1>2. ASSUME NEW i \in 1 .. n
      PROVE  upTo(i) = Append(upTo(i - 1), pages[i]) /\ pages[i] \in Seq(Byte)
  <2>1. pages[i] \in Seq(Byte)
    BY <1>0, ElementOfSeq
  <2>2. i - 1 \in 0 .. n /\ i \in 0 .. n
    BY <1>0
  <2> DEFINE a == upTo(i - 1)
             b == upTo(i)
  <2>3. a \in Seq(Seq(Byte)) /\ Len(a) = i - 1 /\ \A j \in 1 .. i - 1 : a[j] = pages[j]
    BY <1>1, <2>2
  <2>4. b \in Seq(Seq(Byte)) /\ Len(b) = i /\ \A j \in 1 .. i : b[j] = pages[j]
    BY <1>1, <2>2
  <2> HIDE DEF a, b
  <2>5. /\ Append(a, pages[i]) \in Seq(Seq(Byte)) /\ Len(Append(a, pages[i])) = i
        /\ \A j \in 1 .. i : Append(a, pages[i])[j] = pages[j]
    BY <2>1, <2>2, <2>3, AppendProperties
  <2>6. b = Append(a, pages[i])
    BY <2>4, <2>5, SeqEqual
  <2>7. QED BY <2>1, <2>6 DEF a, b
<1>3. upTo(0) = <<>> /\ upTo(n) = pages
  BY <1>0, SubSeqEmpty, SubSeqFull
<1>4. \A i \in 1 .. n + 1 : SeenBefore(pages, i) = Len(Bytes(upTo(i - 1)))
  BY DEF SeenBefore
<1> HIDE DEF upTo
<1>5. \A i \in 0 .. n : Len(Bytes(upTo(i))) \in Nat
  <2>1. ASSUME NEW i \in 0 .. n PROVE Bytes(upTo(i)) \in Seq(Byte)
    BY <1>1, BytesAppend
  <2>2. QED BY <2>1
<1>6. ASSUME NEW i \in 1 .. n
      PROVE  Len(Bytes(upTo(i))) = Len(Bytes(upTo(i - 1))) + Len(pages[i]) /\ Len(pages[i]) \in Nat
  <2>1. upTo(i - 1) \in Seq(Seq(Byte)) /\ pages[i] \in Seq(Byte)
    BY <1>0, <1>1, <1>2
  <2>2. Bytes(upTo(i)) = Bytes(upTo(i - 1)) \o pages[i] /\ Bytes(upTo(i - 1)) \in Seq(Byte)
    BY <1>2, <2>1, BytesAppend
  <2>3. QED BY <2>1, <2>2
<1>7. SeenBefore(pages, 1) = 0
  <2>1. 1 \in 1 .. n + 1 /\ 1 - 1 = 0
    BY <1>0
  <2>2. QED BY <1>3, <1>4, <2>1, BytesAppend
<1>8. \A i \in 1 .. n + 1 : SeenBefore(pages, i) \in Nat
  BY <1>0, <1>4, <1>5
<1>9. ASSUME NEW i \in 1 .. n PROVE SeenBefore(pages, i + 1) = SeenBefore(pages, i) + Len(pages[i])
  <2>1. i \in 1 .. n + 1 /\ i + 1 \in 1 .. n + 1 /\ (i + 1) - 1 = i
    BY <1>0
  <2>2. QED BY <1>4, <1>6, <2>1
<1>10. Len(Bytes(pages)) = SeenBefore(pages, n + 1)
  <2>1. n + 1 \in 1 .. n + 1 /\ (n + 1) - 1 = n
    BY <1>0
  <2>2. QED BY <1>3, <1>4, <2>1
<1>11. QED BY <1>6, <1>7, <1>8, <1>9, <1>10

(* The page of a position starts at it or before, and reaches it.          *)
LEMMA GetPageIs ==
    ASSUME NEW pages \in Seq(Seq(Byte)), IsPages(pages), NEW pos \in Nat,
           NEW i, i = GetPage(pages, pos)
    PROVE  /\ i \in 0 .. Len(pages)
           /\ i # 0 => /\ SeenBefore(pages, i) <= pos
                       /\ pos <= SeenBefore(pages, i) + Len(pages[i])
                       /\ pos < SeenBefore(pages, i) + PageSize
           /\ \A j \in 1 .. Len(pages) :
                 pos <= SeenBefore(pages, j) + Len(pages[j]) /\ pos < SeenBefore(pages, j) + PageSize
                    => i # 0 /\ i <= j
<1> DEFINE n == Len(pages)
           S(j) == SeenBefore(pages, j)
           Has(j) == S(j) + Len(pages[j]) >= pos /\ pos < S(j) + PageSize
           having == {j \in 1 .. n : Has(j)}
<1>0. n \in Nat /\ PageSize \in Nat \ {0}
  BY PageSizeAssumption
<1>1. i = IF having # {} THEN Min(having) ELSE 0
  <2> DEFINE idx == [j \in 1 .. n |-> j]
  <2>1. Len(idx) = n /\ \A j \in 1 .. n : idx[j] = j
    BY <1>0
  <2>2. {j \in 1 .. Len(idx) : Has(idx[j])} = having
    BY <2>1
  <2>3. i = SelectInSeq(idx, LAMBDA j : Has(j))
    BY DEF GetPage
  <2> HIDE DEF idx, Has, S
  <2>4. QED BY <2>2, <2>3 DEF SelectInSeq
<1>2. having # {} => i \in having /\ \A j \in having : i <= j
  <2>1. having \in SUBSET Nat
    OBVIOUS
  <2> HIDE DEF having
  <2>2. QED BY <1>1, <2>1, MinIn
<1>3. /\ S(1) = 0 /\ \A j \in 1 .. n : S(j) \in Nat /\ Len(pages[j]) \in Nat /\ Len(pages[j]) <= PageSize
      /\ \A j \in 1 .. n : S(j + 1) = S(j) + Len(pages[j])
  <2>1. \A j \in 1 .. n : j \in 1 .. n + 1
    BY <1>0
  <2>2. QED BY <2>1, SeenIs DEF IsPages
<1> HIDE DEF S
<1>4. ASSUME i # 0 PROVE i \in 1 .. n /\ Has(i) /\ S(i) <= pos
  <2>1. i \in 1 .. n /\ Has(i) /\ \A j \in 1 .. n : Has(j) => i <= j
    BY <1>1, <1>2, <1>4
  <2>2. CASE i = 1
    BY <1>3, <2>1, <2>2
  <2>3. CASE i # 1
    <3>1. i - 1 \in 1 .. n /\ ~ (i <= i - 1) /\ (i - 1) + 1 = i
      BY <1>0, <2>1, <2>3
    <3>2. ~ Has(i - 1) /\ S(i) = S(i - 1) + Len(pages[i - 1])
      BY <1>3, <2>1, <3>1
    <3>3. /\ S(i) \in Nat /\ S(i - 1) \in Nat
          /\ Len(pages[i - 1]) \in Nat /\ Len(pages[i - 1]) <= PageSize
      BY <1>3, <2>1, <3>1
    <3> HIDE DEF n
    <3>4. S(i) <= pos
      BY <1>0, <3>2, <3>3
    <3>5. QED BY <2>1, <3>4
  <2>4. QED BY <2>1, <2>2, <2>3
<1>5. ASSUME NEW j \in 1 .. n, Has(j) PROVE i # 0 /\ i <= j
  <2>1. j \in having /\ \A x \in having : x # 0
    BY <1>0, <1>5
  <2> HIDE DEF having
  <2>2. QED BY <1>2, <2>1
<1>6. QED BY <1>0, <1>3, <1>4, <1>5 DEF S

(* What an overwritten text is at every place, and how long it is.         *)
LEMMA OverwrittenIs ==
    ASSUME NEW s \in Seq(Byte), NEW pos \in 0 .. Len(s), NEW data \in Seq(Byte),
           NEW r, r = Overwritten(s, pos, data)
    PROVE  /\ r \in Seq(Byte)
           /\ Len(r) = IF pos + Len(data) < Len(s) THEN Len(s) ELSE pos + Len(data)
           /\ \A j \in 1 .. Len(r) : r[j] = IF j <= pos \/ j > pos + Len(data) THEN s[j] ELSE data[j - pos]
<1> DEFINE a == SubSeq(s, 1, pos)
           b == SubSeq(s, pos + Len(data) + 1, Len(s))
           k == Len(data)
<1>0. Len(s) \in Nat /\ pos \in Nat /\ k \in Nat
  OBVIOUS
<1>1. a \in Seq(Byte) /\ Len(a) = pos /\ \A j \in 1 .. pos : a[j] = s[j]
  BY <1>0, SubSeqProperties
<1>2. /\ b \in Seq(Byte) /\ Len(b) = (IF pos + k < Len(s) THEN Len(s) - (pos + k) ELSE 0)
      /\ \A j \in 1 .. Len(b) : b[j] = s[j + (pos + k)]
  <2>1. CASE pos + k < Len(s)
    <3>1. pos + k + 1 \in 1 .. Len(s) + 1 /\ Len(s) \in (pos + k + 1) - 1 .. Len(s)
      BY <1>0, <2>1
    <3>2. QED BY <1>0, <2>1, <3>1, SubSeqProperties
  <2>2. CASE ~ (pos + k < Len(s))
    <3>1. b = <<>>
      <4>1. Len(s) < pos + k + 1 /\ pos + k + 1 \in Int /\ Len(s) \in Int
        BY <1>0, <2>2
      <4>2. QED BY <4>1, SubSeqEmpty
    <3>2. QED BY <2>2, <3>1
  <2>3. QED BY <2>1, <2>2
<1>3. r = (a \o data) \o b
  BY DEF Overwritten
<1> HIDE DEF a, b
<1>4. /\ a \o data \in Seq(Byte) /\ Len(a \o data) = pos + k
      /\ \A j \in 1 .. pos + k : (a \o data)[j] = IF j <= pos THEN a[j] ELSE data[j - pos]
  <2>1. /\ a \o data \in Seq(Byte) /\ Len(a \o data) = Len(a) + Len(data)
        /\ \A j \in 1 .. Len(a) + Len(data) : (a \o data)[j] = IF j <= Len(a) THEN a[j] ELSE data[j - Len(a)]
    BY <1>1, ConcatProperties
  <2>2. QED BY <1>1, <2>1
<1> DEFINE c == a \o data
<1>5. /\ r \in Seq(Byte) /\ Len(r) = (pos + k) + Len(b)
      /\ \A j \in 1 .. (pos + k) + Len(b) : r[j] = IF j <= pos + k THEN c[j] ELSE b[j - (pos + k)]
  <2>1. c \in Seq(Byte) /\ Len(c) = pos + k
    BY <1>4
  <2>5. b \in Seq(Byte)
    BY <1>2
  <2> HIDE DEF c
  <2>2. r = c \o b
    BY <1>3 DEF c
  <2>3. /\ r \in Seq(Byte) /\ Len(r) = Len(c) + Len(b)
        /\ \A j \in 1 .. Len(c) + Len(b) : r[j] = IF j <= Len(c) THEN c[j] ELSE b[j - Len(c)]
    BY ONLY <2>1, <2>5, <2>2, ConcatProperties, SMTT(40)
  <2>4. QED BY <2>1, <2>3
<1>6. ASSUME NEW j \in 1 .. Len(r)
      PROVE  r[j] = IF j <= pos \/ j > pos + k THEN s[j] ELSE data[j - pos]
  <2> HIDE DEF c
  <2>1. CASE j <= pos + k
    <3>1. r[j] = c[j] /\ j \in 1 .. pos + k
      <4>1. Len(b) \in Nat /\ Len(r) = (pos + k) + Len(b)
        BY <1>2, <1>5
      <4>2. j \in 1 .. (pos + k) + Len(b)
        BY <4>1
      <4>3. QED BY <1>0, <1>5, <2>1, <4>1, <4>2
    <3>2. c[j] = IF j <= pos THEN a[j] ELSE data[j - pos]
      BY <1>4, <3>1 DEF c
    <3>3. QED BY <1>0, <1>1, <2>1, <3>1, <3>2
  <2>2. CASE ~ (j <= pos + k)
    <3>0. Len(b) \in Nat /\ Len(r) = (pos + k) + Len(b)
      BY <1>2, <1>5
    <3>1. j \in 1 .. (pos + k) + Len(b) /\ Len(b) \in Nat
      BY <3>0
    <3>2. j - (pos + k) \in 1 .. Len(b) /\ (j - (pos + k)) + (pos + k) = j
      BY <1>0, <2>2, <3>1
    <3>3. r[j] = b[j - (pos + k)]
      BY <1>5, <2>2, <3>1
    <3>4. QED BY <1>0, <1>2, <2>2, <3>2, <3>3
  <2>3. QED BY <2>1, <2>2
<1>7. Len(r) = IF pos + k < Len(s) THEN Len(s) ELSE pos + k
  <2>1. Len(r) = (pos + k) + Len(b) /\ Len(b) = (IF pos + k < Len(s) THEN Len(s) - (pos + k) ELSE 0)
    BY <1>2, <1>5
  <2> HIDE DEF k
  <2>2. CASE pos + k < Len(s)
    BY <1>0, <2>1, <2>2
  <2>3. CASE ~ (pos + k < Len(s))
    BY <1>0, <2>1, <2>3
  <2>4. QED BY <2>2, <2>3
<1>8. r \in Seq(Byte)
  BY <1>5
<1>9. QED BY <1>6, <1>7, <1>8

IsReplaced(more, pages, i, page) ==
    /\ more \in Seq(Seq(Byte)) /\ Len(more) = Len(pages)
    /\ \A j \in 1 .. Len(pages) : more[j] = IF j = i THEN page ELSE pages[j]
    /\ Len(Bytes(more)) = Len(Bytes(pages)) - Len(pages[i]) + Len(page)

(* A page replaced changes the bytes at its places and moves those behind  *)
(* it by the difference in length.                                         *)
LEMMA PageReplaced ==
    ASSUME NEW pages \in Seq(Seq(Byte)), NEW i \in 1 .. Len(pages), NEW page \in Seq(Byte),
           NEW more, more = [pages EXCEPT ![i] = page]
    PROVE  IsReplaced(more, pages, i, page)
<1> DEFINE n == Len(pages)
           S(j) == SeenBefore(pages, j)
           T(j) == SeenBefore(more, j)
<1>0. n \in Nat /\ i \in 1 .. n /\ i \in Nat
  OBVIOUS
<1>1. /\ more \in Seq(Seq(Byte)) /\ Len(more) = n
      /\ \A j \in 1 .. n : more[j] = IF j = i THEN page ELSE pages[j]
  OBVIOUS
<1>2. /\ S(1) = 0 /\ \A j \in 1 .. n : Len(pages[j]) \in Nat
      /\ \A j \in 1 .. n + 1 : S(j) \in Nat
      /\ \A j \in 1 .. n : S(j + 1) = S(j) + Len(pages[j])
      /\ Len(Bytes(pages)) = S(n + 1)
  BY SeenIs
<1>3. /\ T(1) = 0 /\ \A j \in 1 .. n : Len(more[j]) \in Nat
      /\ \A j \in 1 .. n + 1 : T(j) \in Nat
      /\ \A j \in 1 .. n : T(j + 1) = T(j) + Len(more[j])
      /\ Len(Bytes(more)) = T(n + 1)
  BY <1>1, SeenIs
<1> DEFINE extra == Len(page) - Len(pages[i])
           Moved == {m \in Nat : m <= n => T(m + 1) = S(m + 1) + (IF m >= i THEN extra ELSE 0)}
<1>4. extra \in Int /\ Len(page) \in Nat /\ Len(pages[i]) \in Nat
  BY <1>0, <1>2
<1> HIDE DEF S, T, extra
<1>5. 0 \in Moved
  BY <1>0, <1>2, <1>3
<1>6. ASSUME NEW m \in Nat, m \in Moved PROVE m + 1 \in Moved
  <2>1. CASE m + 1 <= n
    <3>1. m + 1 \in 1 .. n /\ m + 1 \in 1 .. n + 1 /\ m <= n
      BY <1>0, <2>1
    <3>2. T(m + 1) = S(m + 1) + (IF m >= i THEN extra ELSE 0)
      BY <1>6, <3>1
    <3>3. /\ T((m + 1) + 1) = T(m + 1) + Len(more[m + 1])
          /\ S((m + 1) + 1) = S(m + 1) + Len(pages[m + 1])
          /\ S(m + 1) \in Nat /\ Len(pages[m + 1]) \in Nat
      BY <1>2, <1>3, <3>1
    <3>4. Len(more[m + 1]) = Len(pages[m + 1]) + (IF m + 1 = i THEN extra ELSE 0)
      <4>1. CASE m + 1 = i
        <5>1. more[m + 1] = page /\ pages[m + 1] = pages[i]
          BY <1>1, <3>1, <4>1
        <5>2. Len(more[m + 1]) = Len(pages[i]) + extra
          BY <1>4, <5>1 DEF extra
        <5>3. QED BY <4>1, <5>1, <5>2
      <4>2. CASE m + 1 # i
        <5>1. Len(more[m + 1]) = Len(pages[m + 1])
          BY <1>1, <3>1, <4>2
        <5>2. QED BY <3>3, <4>2, <5>1
      <4>3. QED BY <4>1, <4>2
    <3>5. T((m + 1) + 1) = S((m + 1) + 1) + (IF m + 1 >= i THEN extra ELSE 0)
      <4>1. CASE m >= i
        BY <1>0, <1>4, <3>2, <3>3, <3>4, <4>1
      <4>2. CASE m + 1 = i
        BY <1>0, <1>4, <3>2, <3>3, <3>4, <4>2
      <4>3. CASE m + 1 < i
        BY <1>0, <1>4, <3>2, <3>3, <3>4, <4>3
      <4>4. QED BY <1>0, <4>1, <4>2, <4>3
    <3>6. QED BY <3>5
  <2>2. QED BY <1>0, <2>1
<1>7. n \in Moved
  <2> HIDE DEF Moved
  <2>1. QED BY <1>0, <1>5, <1>6, SetInduction
<1>8. T(n + 1) = S(n + 1) + extra
  BY <1>0, <1>7
<1>9. S(n + 1) \in Nat
  BY <1>0, <1>2
<1>10. Len(Bytes(more)) = Len(Bytes(pages)) - Len(pages[i]) + Len(page)
  BY <1>2, <1>3, <1>4, <1>8, <1>9, SMTT(40) DEF extra
<1>11. QED BY <1>1, <1>10 DEF IsReplaced

(* The pages of a file hold total bytes, and none holds too many.          *)
FileOk(f) == f.pages \in Seq(Seq(Byte)) /\ IsPages(f.pages) /\ f.total = Len(Bytes(f.pages))

IsWriting(w) ==
    /\ w = [pages |-> w.pages, total |-> w.total, pos |-> w.pos, left |-> w.left]
    /\ FileOk(w) /\ w.pos \in Nat /\ w.left \in Seq(Byte)

(* Where a turn of the loop of write_impl writes.                          *)
TurnPages(w) == IF NeedsPage(w.pages, w.pos) THEN Append(w.pages, <<>>) ELSE w.pages
TurnPage(w) == IF NeedsPage(w.pages, w.pos) THEN Len(TurnPages(w)) ELSE GetPage(w.pages, w.pos)
TurnOffset(w) == IF NeedsPage(w.pages, w.pos) THEN 0 ELSE Offset(w.pages, w.pos)

(* A turn of the loop of write_impl writes to a page that is there, at an  *)
(* offset within it.                                                       *)
LEMMA TurnIs ==
    ASSUME NEW w, IsWriting(w)
    PROVE  /\ TurnPages(w) \in Seq(Seq(Byte)) /\ IsPages(TurnPages(w))
           /\ Bytes(TurnPages(w)) = Bytes(w.pages)
           /\ TurnPage(w) \in 1 .. Len(TurnPages(w))
           /\ TurnPages(w)[TurnPage(w)] \in Seq(Byte)
           /\ TurnOffset(w) \in 0 .. Len(TurnPages(w)[TurnPage(w)])
           /\ TurnOffset(w) < PageSize
<1> DEFINE pages == w.pages
           pos == w.pos
           i == GetPage(pages, pos)
<1>0. PageSize \in Nat \ {0}
  BY PageSizeAssumption
<1>1. pages \in Seq(Seq(Byte)) /\ IsPages(pages) /\ pos \in Nat
  BY DEF IsWriting, FileOk
<1> HIDE DEF pages, pos
<1>2. CASE NeedsPage(pages, pos)
  <2> DEFINE more == Append(pages, <<>>)
             n == Len(more)
  <2>1. TurnPages(w) = more /\ TurnPage(w) = n /\ TurnOffset(w) = 0
    BY <1>2 DEF TurnPages, TurnPage, TurnOffset, pages, pos
  <2>2. <<>> \in Seq(Byte) /\ Len(<<>>) = 0
    OBVIOUS
  <2>3. /\ more \in Seq(Seq(Byte)) /\ n = Len(pages) + 1 /\ Len(pages) \in Nat /\ more[n] = <<>>
        /\ \A j \in 1 .. Len(pages) : more[j] = pages[j]
    BY <1>1, <2>2
  <2> HIDE DEF more
  <2>4. IsPages(more)
    <3>1. ASSUME NEW j \in 1 .. n PROVE Len(more[j]) <= PageSize
      <4>1. CASE j = n
        BY <1>0, <2>2, <2>3, <4>1
      <4>2. CASE j # n
        <5>1. j \in 1 .. Len(pages)
          BY <2>3, <4>2
        <5>2. QED BY <1>1, <2>3, <5>1 DEF IsPages
      <4>3. QED BY <4>1, <4>2
    <3>2. QED BY <3>1 DEF IsPages
  <2>5. Bytes(more) = Bytes(pages)
    <3>1. Bytes(more) = Bytes(pages) \o <<>> /\ Bytes(pages) \in Seq(Byte)
      BY <1>1, <2>2, BytesAppend DEF more
    <3>2. QED BY <3>1, ConcatEmptySeq
  <2>6. 0 \in 0 .. Len(more[n]) /\ 0 < PageSize /\ n \in 1 .. n
    BY <1>0, <2>2, <2>3
  <2> HIDE DEF n
  <2>7. QED BY <2>1, <2>2, <2>3, <2>4, <2>5, <2>6 DEF n, pages
<1>3. CASE ~ NeedsPage(pages, pos)
  <2>1. TurnPages(w) = pages /\ TurnPage(w) = i /\ TurnOffset(w) = Offset(pages, pos)
    BY <1>3 DEF TurnPages, TurnPage, TurnOffset, pages, pos
  <2>2. i # 0
    BY <1>3 DEF NeedsPage
  <2>3. /\ i \in 1 .. Len(pages) /\ SeenBefore(pages, i) <= pos
        /\ pos <= SeenBefore(pages, i) + Len(pages[i]) /\ pos < SeenBefore(pages, i) + PageSize
    BY <1>1, <2>2, GetPageIs
  <2>4. SeenBefore(pages, i) \in Nat /\ Len(pages[i]) \in Nat /\ pages[i] \in Seq(Byte)
    BY <1>1, <2>3, SeenIs, ElementOfSeq
  <2>5. Offset(pages, pos) = pos - SeenBefore(pages, i)
    BY DEF Offset
  <2> HIDE DEF i
  <2>6. Offset(pages, pos) \in 0 .. Len(pages[i]) /\ Offset(pages, pos) < PageSize
    BY <1>0, <1>1, <2>3, <2>4, <2>5
  <2>7. QED BY <1>1, <2>1, <2>3, <2>4, <2>6 DEF pages
<1>4. QED BY <1>2, <1>3 DEF pages, pos

(* A turn writes one of the bytes that are left or more.                   *)
LEMMA CopiedFromIs ==
    ASSUME NEW w, IsWriting(w), w.left # <<>>, NEW v, v = CopiedFrom(w)
    PROVE  /\ IsWriting(v)
           /\ \E n \in 1 .. Len(w.left) :
                /\ n = Least(PageSize - TurnOffset(w), Len(w.left))
                /\ v.pos = w.pos + n /\ v.left = SubSeq(w.left, n + 1, Len(w.left))
                /\ v.pages = [TurnPages(w) EXCEPT ![TurnPage(w)] =
                                 Overwritten(@, TurnOffset(w), SubSeq(w.left, 1, n))]
<1> DEFINE pages == TurnPages(w)
           i == TurnPage(w)
           offset == TurnOffset(w)
           left == w.left
           n == Least(PageSize - offset, Len(left))
           data == SubSeq(left, 1, n)
           page == Overwritten(pages[i], offset, data)
           more == [pages EXCEPT ![i] = page]
           rest == SubSeq(left, n + 1, Len(left))
<1>0. PageSize \in Nat \ {0} /\ w.pos \in Nat /\ left \in Seq(Byte) /\ w.total = Len(Bytes(w.pages))
  BY PageSizeAssumption DEF IsWriting, FileOk
<1>1. v = [pages |-> more, total |-> w.total - Len(pages[i]) + Len(page),
           pos |-> w.pos + n, left |-> rest]
  BY DEF CopiedFrom, TurnPages, TurnPage, TurnOffset
<1>2. /\ pages \in Seq(Seq(Byte)) /\ IsPages(pages) /\ Bytes(pages) = Bytes(w.pages)
      /\ i \in 1 .. Len(pages) /\ pages[i] \in Seq(Byte)
      /\ offset \in 0 .. Len(pages[i]) /\ offset < PageSize
  BY TurnIs
<1>3. Len(left) \in Nat \ {0}
  BY <1>0, EmptySeq
<1> HIDE DEF pages, i, offset, left
<1>4. n \in 1 .. Len(left) /\ n <= PageSize - offset
  <2>1. offset \in Nat
    BY <1>2
  <2>2. QED BY <1>0, <1>2, <1>3, <2>1, SMTT(40) DEF Least
<1> HIDE DEF n
<1>5. data \in Seq(Byte) /\ Len(data) = n
  BY <1>0, <1>3, <1>4, SubSeqProperties
<1>6. rest \in Seq(Byte)
  <2>1. n + 1 \in 1 .. Len(left) + 1 /\ Len(left) \in (n + 1) - 1 .. Len(left)
    BY <1>3, <1>4
  <2>2. QED BY <1>0, <2>1, SubSeqProperties
<1> HIDE DEF data, rest
<1>7. page \in Seq(Byte) /\ Len(page) <= PageSize /\ Len(page) \in Nat
  <2>1. /\ page \in Seq(Byte)
        /\ Len(page) = IF offset + Len(data) < Len(pages[i]) THEN Len(pages[i]) ELSE offset + Len(data)
    BY <1>2, <1>5, OverwrittenIs
  <2>2. Len(pages[i]) <= PageSize /\ Len(pages[i]) \in Nat
    BY <1>2 DEF IsPages
  <2> HIDE DEF page
  <2>3. offset + n <= PageSize
    BY <1>0, <1>2, <1>4, <2>2
  <2>4. QED BY <1>5, <2>1, <2>2, <2>3
<1> HIDE DEF page
<1>8. /\ more \in Seq(Seq(Byte)) /\ Len(more) = Len(pages)
      /\ \A j \in 1 .. Len(pages) : more[j] = IF j = i THEN page ELSE pages[j]
      /\ Len(Bytes(more)) = Len(Bytes(pages)) - Len(pages[i]) + Len(page)
  <2>1. more = [pages EXCEPT ![i] = page]
    OBVIOUS
  <2> HIDE DEF more
  <2>2. IsReplaced(more, pages, i, page)
    BY <1>2, <1>7, <2>1, PageReplaced
  <2>3. QED BY <2>2 DEF IsReplaced
<1> HIDE DEF more
<1>9. IsPages(more)
  BY <1>2, <1>7, <1>8 DEF IsPages
<1>10. /\ v.pages = more /\ v.total = Len(Bytes(more)) /\ v.pos = w.pos + n /\ v.left = rest
       /\ v = [pages |-> v.pages, total |-> v.total, pos |-> v.pos, left |-> v.left]
  <2>1. w.total - Len(pages[i]) + Len(page) = Len(Bytes(more))
    BY <1>0, <1>2, <1>8
  <2>2. QED BY <1>1, <2>1
<1>11. w.pos + n \in Nat
  BY <1>0, <1>3, <1>4
<1>12. IsWriting(v)
  BY <1>6, <1>8, <1>9, <1>10, <1>11 DEF IsWriting, FileOk
<1>13. more = [pages EXCEPT ![i] = Overwritten(@, offset, SubSeq(left, 1, n))]
  BY DEF more, page, data
<1>14. QED BY <1>4, <1>10, <1>12, <1>13 DEF n, pages, i, offset, left, rest

-----------------------------------------------------------------------------
(* Files whose pages are full, but the last.                               *)
Packed(pages) == \A i \in 1 .. Len(pages) - 1 : Len(pages[i]) = PageSize

(* Multiples are in the order of what they are multiples of.               *)
LEMMA Times ==
    ASSUME NEW a \in Nat, NEW b \in Nat, a <= b, NEW c \in Nat
    PROVE  c * a <= c * b /\ c * (a + 1) = c * a + c /\ c * a \in Nat
OBVIOUS

(* As many whole pages as fit are at most as many as the bytes divided by  *)
(* the size of a page.                                                     *)
LEMMA Plainly ==
    ASSUME NEW t \in Nat, NEW m \in Nat, PageSize * m <= t
    PROVE  PageSize * m <= PageSize * (t \div PageSize)
<1> DEFINE q == t \div PageSize
<1>1. PageSize \in Nat \ {0}
  BY PageSizeAssumption
<1>2. q \in Nat /\ t < PageSize * (q + 1)
  BY <1>1
<1> HIDE DEF q
<1>3. m <= q
  <2> SUFFICES ASSUME q + 1 <= m PROVE FALSE
    BY <1>2
  <2>1. PageSize * (q + 1) <= PageSize * m
    BY <1>1, <1>2, Times
  <2>2. PageSize * (q + 1) \in Nat /\ PageSize * m \in Nat
    BY <1>1, <1>2
  <2>3. QED BY <1>2, <2>1, <2>2
<1>4. QED BY <1>1, <1>2, <1>3, Times DEF q

(* When all pages but the last are full, a page begins at a multiple of the*)
(* size.                                                                   *)
LEMMA PackedIs ==
    ASSUME NEW pages \in Seq(Seq(Byte)), Packed(pages)
    PROVE  /\ \A i \in 1 .. Len(pages) : SeenBefore(pages, i) = PageSize * (i - 1)
           /\ \A i \in 1 .. Len(pages) : \A j \in 1 .. i - 1 :
                 SeenBefore(pages, j) + PageSize <= SeenBefore(pages, i)
<1> DEFINE n == Len(pages)
           S(i) == SeenBefore(pages, i)
           Filled == {m \in Nat : m + 1 \in 1 .. n => S(m + 1) = PageSize * m}
<1>0. n \in Nat /\ PageSize \in Nat
  BY PageSizeAssumption
<1>1. S(1) = 0 /\ \A i \in 1 .. n : S(i + 1) = S(i) + Len(pages[i])
  BY SeenIs
<1> HIDE DEF S
<1>2. 0 \in Filled
  BY <1>0, <1>1
<1>3. ASSUME NEW m \in Nat, m \in Filled PROVE m + 1 \in Filled
  <2>1. CASE (m + 1) + 1 \in 1 .. n
    <3>1. m + 1 \in 1 .. n /\ m + 1 \in 1 .. n - 1
      BY <1>0, <2>1
    <3>2. S(m + 1) = PageSize * m /\ Len(pages[m + 1]) = PageSize
      BY <1>3, <3>1 DEF Packed
    <3>3. S((m + 1) + 1) = PageSize * m + PageSize
      BY <1>1, <3>1, <3>2
    <3>4. PageSize * (m + 1) = PageSize * m + PageSize
      BY <1>0, Times
    <3>5. QED BY <3>3, <3>4
  <2>2. QED BY <2>1
<1>4. ASSUME NEW i \in 1 .. n PROVE S(i) = PageSize * (i - 1)
  <2>1. i - 1 \in Nat /\ (i - 1) + 1 = i
    BY <1>0
  <2>2. i - 1 \in Filled
    <3> HIDE DEF Filled
    <3>1. QED BY <1>2, <1>3, <2>1, SetInduction
  <2>3. QED BY <2>1, <2>2
<1>5. ASSUME NEW i \in 1 .. n, NEW j \in 1 .. i - 1 PROVE S(j) + PageSize <= S(i)
  <2>1. j \in 1 .. n /\ j \in Nat /\ j - 1 \in Nat /\ i - 1 \in Nat /\ j <= i - 1 /\ (j - 1) + 1 = j
    BY <1>0
  <2>2. S(j) = PageSize * (j - 1) /\ S(i) = PageSize * (i - 1)
    BY <1>4, <2>1
  <2>3. PageSize * j = PageSize * (j - 1) + PageSize
    BY <1>0, <2>1, Times
  <2>4. PageSize * j <= PageSize * (i - 1)
    BY <1>0, <2>1, Times
  <2>5. QED BY <2>2, <2>3, <2>4
<1>6. QED BY <1>4, <1>5 DEF S

(* A position in the last page, or at the end when that page is full.      *)
AtLast(pages, pos) ==
    LET n == Len(pages)
    IN  /\ Packed(pages) /\ pos \in Nat /\ pos <= Len(Bytes(pages))
        /\ n # 0 => SeenBefore(pages, n) <= pos
        /\ n # 0 /\ Len(pages[n]) = PageSize => pos = Len(Bytes(pages))

(* A plain position (IsPlain) is in the last page, or at the end of the    *)
(* bytes when that page is full: so a write there changes what one would   *)
(* think.                                                                  *)
LEMMA PlainIsLast ==
    ASSUME NEW pages \in Seq(Seq(Byte)), IsPages(pages), Packed(pages),
           NEW pos, IsPlain(Bytes(pages), pos)
    PROVE  AtLast(pages, pos)
<1> DEFINE n == Len(pages)
           t == Len(Bytes(pages))
<1>0. n \in Nat /\ PageSize \in Nat \ {0} /\ t \in Nat
  <2>1. Bytes(pages) \in Seq(Byte)
    BY BytesAppend
  <2>2. QED BY <2>1, PageSizeAssumption
<1>1. pos \in PageSize * (t \div PageSize) .. t
  BY DEF IsPlain
<1> HIDE DEF t
<1>2. PageSize * (t \div PageSize) \in Nat
  <2>1. t \div PageSize \in Nat
    BY <1>0
  <2> HIDE DEF t
  <2>2. QED BY <1>0, <2>1, Times
<1>3. pos \in Nat /\ pos <= t /\ PageSize * (t \div PageSize) <= pos
  BY <1>0, <1>1, <1>2
<1>4. CASE n = 0
  BY <1>3, <1>4 DEF AtLast, t
<1>5. CASE n # 0
  <2>1. n \in 1 .. n /\ n - 1 \in Nat
    BY <1>0, <1>5
  <2>2. SeenBefore(pages, n) = PageSize * (n - 1)
    BY <2>1, PackedIs
  <2>3. t = SeenBefore(pages, n) + Len(pages[n]) /\ Len(pages[n]) \in Nat
    BY <1>0, <2>1, SeenIs DEF t
  <2>4. PageSize * (n - 1) \in Nat /\ PageSize * n = PageSize * (n - 1) + PageSize
    <3>1. PageSize * ((n - 1) + 1) = PageSize * (n - 1) + PageSize /\ PageSize * (n - 1) \in Nat
      BY <1>0, <2>1, Times, SMTT(40)
    <3>2. (n - 1) + 1 = n
      BY <1>0
    <3>3. QED BY <3>1, <3>2
  <2>5. SeenBefore(pages, n) <= pos
    <3>1. PageSize * (n - 1) <= t
      BY <2>2, <2>3, <2>4
    <3>2. PageSize * (n - 1) <= PageSize * (t \div PageSize)
      BY <1>0, <2>1, <3>1, Plainly
    <3>3. QED BY <1>2, <1>3, <2>2, <2>4, <3>2
  <2>6. ASSUME Len(pages[n]) = PageSize PROVE pos = t
    <3>1. PageSize * n = t /\ PageSize * n <= t
      BY <1>0, <2>2, <2>3, <2>4, <2>6
    <3>2. PageSize * n <= PageSize * (t \div PageSize)
      BY <1>0, <3>1, Plainly
    <3>3. QED BY <1>0, <1>2, <1>3, <3>1, <3>2
  <2>7. QED BY <1>3, <2>5, <2>6 DEF AtLast, t
<1>6. QED BY <1>4, <1>5

(* Such a position is overwritten in the last page, or a page is appended. *)
LEMMA LastTurn ==
    ASSUME NEW w, IsWriting(w), AtLast(w.pages, w.pos),
           NEW pages, pages = TurnPages(w), NEW i, i = TurnPage(w)
    PROVE  /\ Packed(pages) /\ i = Len(pages) /\ i # 0
           /\ SeenBefore(pages, i) + TurnOffset(w) = w.pos
           /\ Len(pages[i]) < PageSize
<1> DEFINE old == w.pages
           pos == w.pos
           n == Len(old)
           g == GetPage(old, pos)
           S(j) == SeenBefore(old, j)
<1>0. /\ old \in Seq(Seq(Byte)) /\ IsPages(old) /\ n \in Nat /\ pos \in Nat
      /\ PageSize \in Nat \ {0}
  BY PageSizeAssumption DEF IsWriting, FileOk
<1>1. AtLast(old, pos)
  OBVIOUS
<1>2. /\ g \in 0 .. n /\ (g # 0 => pos < S(g) + PageSize)
      /\ \A j \in 1 .. n : pos <= S(j) + Len(old[j]) /\ pos < S(j) + PageSize => g # 0 /\ g <= j
  <2> HIDE DEF old, pos
  <2>1. QED BY <1>0, GetPageIs
<1>3. /\ \A j \in 1 .. n : S(j) \in Nat /\ Len(old[j]) \in Nat /\ Len(old[j]) <= PageSize
      /\ n # 0 => Len(Bytes(old)) = S(n) + Len(old[n])
  <2>1. \A j \in 1 .. n : j \in 1 .. n + 1
    BY <1>0
  <2>2. n # 0 => n \in 1 .. n
    BY <1>0
  <2> HIDE DEF old
  <2>3. QED BY <1>0, <2>1, <2>2, SeenIs DEF IsPages
<1>4. ASSUME NEW j \in 1 .. n - 1 PROVE S(j) + PageSize <= S(n)
  <2> HIDE DEF old
  <2>1. n \in 1 .. n
    BY <1>0
  <2>2. QED BY <1>0, <1>1, <2>1, PackedIs DEF AtLast
<1>5. /\ Packed(old) /\ pos <= Len(Bytes(old)) /\ (n # 0 => S(n) <= pos)
      /\ n # 0 /\ Len(old[n]) = PageSize => pos = Len(Bytes(old))
  BY <1>1 DEF AtLast
<1> HIDE DEF old, pos, S, g
<1>6. CASE n = 0 \/ Len(old[n]) = PageSize
  <2>1. g = 0
    <3> SUFFICES ASSUME g # 0 PROVE FALSE
      OBVIOUS
    <3>1. g \in 1 .. n /\ n # 0 /\ n \in 1 .. n
      BY <1>0, <1>2
    <3>2. pos = S(n) + PageSize /\ S(n) \in Nat /\ S(g) \in Nat
      BY <1>3, <1>5, <1>6, <3>1
    <3>3. g # n
      BY <1>0, <1>2, <3>1, <3>2
    <3>4. g \in 1 .. n - 1
      BY <1>0, <3>1, <3>3
    <3>5. QED BY <1>0, <1>2, <1>4, <3>2, <3>4
  <2>2. NeedsPage(old, pos)
    BY <2>1 DEF NeedsPage, g
  <2>3. <<>> \in Seq(Byte) /\ Len(<<>>) = 0
    OBVIOUS
  <2>4. pages = Append(old, <<>>) /\ i = Len(pages) /\ TurnOffset(w) = 0
    BY <2>2 DEF TurnPages, TurnPage, TurnOffset, old, pos
  <2>5. /\ pages \in Seq(Seq(Byte)) /\ Len(pages) = n + 1 /\ pages[n + 1] = <<>>
        /\ \A j \in 1 .. n : pages[j] = old[j]
    BY <1>0, <2>3, <2>4
  <2>6. Packed(pages)
    <3>1. ASSUME NEW j \in 1 .. n PROVE Len(pages[j]) = PageSize
      <4>1. CASE j = n
        BY <1>6, <2>5, <4>1
      <4>2. CASE j # n
        <5>1. j \in 1 .. n - 1
          BY <1>0, <4>2
        <5>2. QED BY <1>5, <2>5, <5>1 DEF Packed
      <4>3. QED BY <4>1, <4>2
    <3>2. QED BY <1>0, <2>5, <3>1 DEF Packed
  <2>7. SeenBefore(pages, i) = Len(Bytes(old))
    <3>1. /\ Len(Bytes(pages)) = SeenBefore(pages, i) + Len(pages[i])
          /\ SeenBefore(pages, i) \in Nat
      <4>1. i \in 1 .. Len(pages) /\ i \in 1 .. Len(pages) + 1
        BY <1>0, <2>4, <2>5
      <4>2. QED BY <2>4, <2>5, <4>1, SeenIs
    <3>2. Bytes(pages) = Bytes(old) \o <<>> /\ Bytes(old) \in Seq(Byte)
      BY <1>0, <2>3, <2>4, BytesAppend
    <3>3. Bytes(pages) = Bytes(old)
      BY <3>2, ConcatEmptySeq
    <3>4. QED BY <2>3, <2>4, <2>5, <3>1, <3>3
  <2>8. pos = Len(Bytes(old)) /\ Len(Bytes(old)) \in Nat
    <3>1. Bytes(old) \in Seq(Byte)
      BY <1>0, BytesAppend
    <3>2. n = 0 => Bytes(old) = <<>>
      BY <1>0, BytesAppend, EmptySeq
    <3>3. Len(<<>>) = 0
      OBVIOUS
    <3>4. n = 0 => pos = Len(Bytes(old))
      BY <1>0, <1>5, <3>2, <3>3
    <3>5. QED BY <1>5, <1>6, <3>1, <3>4
  <2>9. i = n + 1 /\ i # 0 /\ Len(pages[i]) < PageSize
    BY <1>0, <2>3, <2>4, <2>5
  <2>10. QED BY <2>4, <2>6, <2>7, <2>8, <2>9 DEF pos
<1>7. CASE n # 0 /\ Len(old[n]) # PageSize
  <2>0. n \in 1 .. n
    BY <1>0, <1>7
  <2>1. Len(old[n]) < PageSize /\ S(n) \in Nat /\ Len(old[n]) \in Nat
    BY <1>0, <1>3, <1>7, <2>0
  <2>2. pos <= S(n) + Len(old[n]) /\ pos < S(n) + PageSize
    BY <1>0, <1>3, <1>5, <1>7, <2>1
  <2>3. g # 0 /\ g <= n /\ pos < S(g) + PageSize
    BY <1>2, <2>0, <2>2
  <2>4. g = n
    <3> SUFFICES ASSUME g # n PROVE FALSE
      OBVIOUS
    <3>1. g \in 1 .. n - 1 /\ g \in 1 .. n
      BY <1>0, <1>2, <2>3
    <3>2. S(g) + PageSize <= S(n) /\ S(g) \in Nat /\ S(n) <= pos
      BY <1>3, <1>4, <1>5, <1>7, <3>1
    <3>3. QED BY <1>0, <2>1, <2>3, <3>2
  <2>5. ~ NeedsPage(old, pos)
    BY <1>7, <2>3, <2>4 DEF NeedsPage, g
  <2>6. pages = old /\ i = g /\ TurnOffset(w) = Offset(old, pos)
    BY <2>5 DEF TurnPages, TurnPage, TurnOffset, old, pos, g
  <2>7. Offset(old, pos) = pos - S(n)
    BY <2>4 DEF Offset, g, S
  <2>8. SeenBefore(pages, i) + TurnOffset(w) = pos
    <3>1. SeenBefore(pages, i) = S(n)
      BY <2>4, <2>6 DEF S
    <3>2. QED BY <1>0, <2>1, <2>6, <2>7, <3>1
  <2>9. QED BY <1>5, <1>7, <2>1, <2>4, <2>6, <2>8 DEF pos
<1>8. QED BY <1>6, <1>7

(* A concatenation, place by place.                                        *)
LEMMA ConcatIs ==
    ASSUME NEW a \in Seq(Byte), NEW b \in Seq(Byte), NEW r, r = a \o b
    PROVE  /\ r \in Seq(Byte) /\ Len(r) = Len(a) + Len(b)
           /\ \A j \in 1 .. Len(r) : r[j] = IF j <= Len(a) THEN a[j] ELSE b[j - Len(a)]
<1>1. /\ a \o b \in Seq(Byte) /\ Len(a \o b) = Len(a) + Len(b)
      /\ \A j \in 1 .. Len(a) + Len(b) : (a \o b)[j] = IF j <= Len(a) THEN a[j] ELSE b[j - Len(a)]
  BY ConcatProperties
<1>2. QED BY <1>1

(* To overwrite the end of a text leaves what is in front of it alone.     *)
LEMMA OverwrittenEnd ==
    ASSUME NEW b \in Seq(Byte), NEW s \in Seq(Byte), NEW off \in 0 .. Len(s), NEW data \in Seq(Byte)
    PROVE  Overwritten(b \o s, Len(b) + off, data) = b \o Overwritten(s, off, data)
<1> DEFINE all == b \o s
           l == Overwritten(all, Len(b) + off, data)
           o == Overwritten(s, off, data)
           r == b \o o
<1>0. Len(b) \in Nat /\ Len(s) \in Nat /\ Len(data) \in Nat /\ off \in Nat /\ off <= Len(s)
  OBVIOUS
<1>1. /\ all \in Seq(Byte) /\ Len(all) = Len(b) + Len(s)
      /\ \A j \in 1 .. Len(all) : all[j] = IF j <= Len(b) THEN b[j] ELSE s[j - Len(b)]
  <2> HIDE DEF all
  <2>1. all = b \o s
    BY DEF all
  <2>2. QED BY <2>1, ConcatIs
<1>2. /\ o \in Seq(Byte) /\ Len(o) = IF off + Len(data) < Len(s) THEN Len(s) ELSE off + Len(data)
      /\ \A j \in 1 .. Len(o) : o[j] = IF j <= off \/ j > off + Len(data) THEN s[j] ELSE data[j - off]
  <2> HIDE DEF o
  <2>1. o = Overwritten(s, off, data)
    BY DEF o
  <2>2. QED BY <2>1, OverwrittenIs
<1> HIDE DEF all, o
<1>3. /\ l \in Seq(Byte)
      /\ Len(l) = IF Len(b) + off + Len(data) < Len(all) THEN Len(all) ELSE Len(b) + off + Len(data)
      /\ \A j \in 1 .. Len(l) : l[j] = IF j <= Len(b) + off \/ j > Len(b) + off + Len(data)
                                       THEN all[j] ELSE data[j - (Len(b) + off)]
  <2> DEFINE at == Len(b) + off
  <2>1. at \in 0 .. Len(all)
    BY <1>0, <1>1
  <2>2. all \in Seq(Byte) /\ l = Overwritten(all, at, data)
    BY <1>1
  <2> HIDE DEF l, at
  <2>3. /\ l \in Seq(Byte)
        /\ Len(l) = IF at + Len(data) < Len(all) THEN Len(all) ELSE at + Len(data)
        /\ \A j \in 1 .. Len(l) : l[j] = IF j <= at \/ j > at + Len(data) THEN all[j] ELSE data[j - at]
    BY <2>1, <2>2, OverwrittenIs
  <2>4. QED BY <2>3 DEF at
<1>4. /\ r \in Seq(Byte) /\ Len(r) = Len(b) + Len(o)
      /\ \A j \in 1 .. Len(r) : r[j] = IF j <= Len(b) THEN b[j] ELSE o[j - Len(b)]
  <2>1. o \in Seq(Byte) /\ r = b \o o
    BY <1>2
  <2> HIDE DEF r
  <2>2. QED BY <2>1, ConcatIs
<1> HIDE DEF l, r
<1>5. Len(l) = Len(r)
  <2>1. Len(o) = IF off + Len(data) < Len(s) THEN Len(s) ELSE off + Len(data)
    BY <1>2
  <2>2. Len(l) = IF Len(b) + off + Len(data) < Len(all) THEN Len(all) ELSE Len(b) + off + Len(data)
    BY <1>3
  <2>3. Len(r) = Len(b) + Len(o) /\ Len(all) = Len(b) + Len(s)
    BY <1>1, <1>4
  <2>4. CASE off + Len(data) < Len(s)
    BY <1>0, <2>1, <2>2, <2>3, <2>4
  <2>5. CASE ~ (off + Len(data) < Len(s))
    BY <1>0, <2>1, <2>2, <2>3, <2>5
  <2>6. QED BY <2>4, <2>5
<1>6. ASSUME NEW j \in 1 .. Len(l) PROVE l[j] = r[j]
  <2>0. j \in 1 .. Len(r) /\ j \in Nat /\ Len(r) = Len(b) + Len(o) /\ Len(all) = Len(b) + Len(s)
        /\ Len(o) \in Nat /\ j <= Len(r) /\ 1 <= j
    BY <1>1, <1>2, <1>4, <1>5
  <2>1. l[j] = IF j <= Len(b) + off \/ j > Len(b) + off + Len(data)
               THEN all[j] ELSE data[j - (Len(b) + off)]
    BY <1>3
  <2>2. r[j] = IF j <= Len(b) THEN b[j] ELSE o[j - Len(b)]
    BY <1>4, <2>0
  <2>3. CASE j <= Len(b)
    <3>1. l[j] = all[j] /\ j \in 1 .. Len(all)
      BY <1>0, <2>0, <2>1, <2>3
    <3>2. QED BY <1>1, <2>2, <2>3, <3>1
  <2>4. CASE ~ (j <= Len(b))
    <3> DEFINE k == j - Len(b)
    <3>1. k \in 1 .. Len(o) /\ k \in Nat /\ j = Len(b) + k /\ j - (Len(b) + off) = k - off
      BY <1>0, <2>0, <2>4
    <3>2. o[k] = IF k <= off \/ k > off + Len(data) THEN s[k] ELSE data[k - off]
      BY <1>2, <3>1
    <3>3. /\ j <= Len(b) + off <=> k <= off
          /\ j > Len(b) + off + Len(data) <=> k > off + Len(data)
      BY <1>0, <3>1
    <3>4. r[j] = o[k]
      BY <2>2, <2>4
    <3>5. ASSUME k <= off \/ k > off + Len(data) PROVE all[j] = s[k]
      <4>1. Len(o) = IF off + Len(data) < Len(s) THEN Len(s) ELSE off + Len(data)
        BY <1>2
      <4>2. k <= Len(s)
        BY <1>0, <3>1, <3>5, <4>1
      <4>3. j \in 1 .. Len(all)
        BY <1>0, <2>0, <3>1, <4>2
      <4>4. QED BY <1>1, <2>4, <4>3
    <3> HIDE DEF k
    <3>6. QED BY <2>1, <3>1, <3>2, <3>3, <3>4, <3>5
  <2>5. QED BY <2>3, <2>4
<1>7. l = r
  BY <1>3, <1>4, <1>5, <1>6, SeqEqual
<1>8. QED BY <1>7 DEF l, r, all, o

(* Two pieces written one behind the other are one piece.                  *)
LEMMA OverwrittenTwice ==
    ASSUME NEW s \in Seq(Byte), NEW pos \in 0 .. Len(s), NEW a \in Seq(Byte), NEW b \in Seq(Byte)
    PROVE  Overwritten(Overwritten(s, pos, a), pos + Len(a), b) = Overwritten(s, pos, a \o b)
<1> DEFINE ab == a \o b
           o == Overwritten(s, pos, a)
           l == Overwritten(o, pos + Len(a), b)
           r == Overwritten(s, pos, ab)
<1>0. Len(s) \in Nat /\ pos \in Nat /\ pos <= Len(s) /\ Len(a) \in Nat /\ Len(b) \in Nat
  OBVIOUS
<1>1. /\ ab \in Seq(Byte) /\ Len(ab) = Len(a) + Len(b)
      /\ \A j \in 1 .. Len(ab) : ab[j] = IF j <= Len(a) THEN a[j] ELSE b[j - Len(a)]
  <2>1. ab = a \o b
    OBVIOUS
  <2> HIDE DEF ab
  <2>2. QED BY <2>1, ConcatIs
<1>2. /\ o \in Seq(Byte) /\ Len(o) = IF pos + Len(a) < Len(s) THEN Len(s) ELSE pos + Len(a)
      /\ \A j \in 1 .. Len(o) : o[j] = IF j <= pos \/ j > pos + Len(a) THEN s[j] ELSE a[j - pos]
  <2>1. o = Overwritten(s, pos, a)
    OBVIOUS
  <2> HIDE DEF o
  <2>2. QED BY <2>1, OverwrittenIs
<1> HIDE DEF ab, o
<1>3. /\ l \in Seq(Byte)
      /\ Len(l) = IF pos + Len(a) + Len(b) < Len(o) THEN Len(o) ELSE pos + Len(a) + Len(b)
      /\ \A j \in 1 .. Len(l) : l[j] = IF j <= pos + Len(a) \/ j > pos + Len(a) + Len(b)
                                       THEN o[j] ELSE b[j - (pos + Len(a))]
  <2> DEFINE at == pos + Len(a)
  <2>1. at \in 0 .. Len(o)
    <3>1. Len(o) = IF pos + Len(a) < Len(s) THEN Len(s) ELSE pos + Len(a)
      BY <1>2
    <3>2. QED BY <1>0, <3>1
  <2>2. o \in Seq(Byte) /\ l = Overwritten(o, at, b)
    BY <1>2
  <2> HIDE DEF l, at
  <2>3. /\ l \in Seq(Byte)
        /\ Len(l) = IF at + Len(b) < Len(o) THEN Len(o) ELSE at + Len(b)
        /\ \A j \in 1 .. Len(l) : l[j] = IF j <= at \/ j > at + Len(b) THEN o[j] ELSE b[j - at]
    BY <2>1, <2>2, OverwrittenIs
  <2>4. QED BY <2>3 DEF at
<1>4. /\ r \in Seq(Byte) /\ Len(r) = IF pos + Len(ab) < Len(s) THEN Len(s) ELSE pos + Len(ab)
      /\ \A j \in 1 .. Len(r) : r[j] = IF j <= pos \/ j > pos + Len(ab) THEN s[j] ELSE ab[j - pos]
  <2>1. ab \in Seq(Byte) /\ r = Overwritten(s, pos, ab)
    BY <1>1
  <2> HIDE DEF r
  <2>2. QED BY <2>1, OverwrittenIs
<1> HIDE DEF l, r
<1>o. Len(o) = IF pos + Len(a) < Len(s) THEN Len(s) ELSE pos + Len(a)
  BY <1>2
<1>l. Len(l) = IF pos + Len(a) + Len(b) < Len(o) THEN Len(o) ELSE pos + Len(a) + Len(b)
  BY <1>3
<1>r. Len(r) = (IF pos + Len(ab) < Len(s) THEN Len(s) ELSE pos + Len(ab)) /\ Len(ab) = Len(a) + Len(b)
  BY <1>1, <1>4
<1>5. Len(l) = Len(r)
  <2>1. CASE pos + Len(a) + Len(b) < Len(s)
    BY <1>0, <1>o, <1>l, <1>r, <2>1
  <2>2. CASE ~ (pos + Len(a) + Len(b) < Len(s))
    BY <1>0, <1>o, <1>l, <1>r, <2>2
  <2>3. QED BY <2>1, <2>2
<1>6. ASSUME NEW j \in 1 .. Len(l) PROVE l[j] = r[j]
  <2>0. j \in 1 .. Len(r) /\ j \in Nat /\ 1 <= j /\ j <= Len(l) /\ Len(l) \in Nat
    BY <1>3, <1>5
  <2>1. l[j] = IF j <= pos + Len(a) \/ j > pos + Len(a) + Len(b) THEN o[j] ELSE b[j - (pos + Len(a))]
    BY <1>3
  <2>2. r[j] = IF j <= pos \/ j > pos + Len(ab) THEN s[j] ELSE ab[j - pos]
    BY <1>4, <2>0
  <2>3. j \in 1 .. Len(o) => o[j] = IF j <= pos \/ j > pos + Len(a) THEN s[j] ELSE a[j - pos]
    BY <1>2
  <2>4. j - pos \in 1 .. Len(ab) =>
          ab[j - pos] = IF j - pos <= Len(a) THEN a[j - pos] ELSE b[(j - pos) - Len(a)]
    BY <1>1
  <2>5. CASE j <= pos
    <3>1. j \in 1 .. Len(o)
      BY <1>0, <1>o, <2>0, <2>5
    <3>2. QED BY <1>0, <2>0, <2>1, <2>2, <2>3, <2>5, <3>1
  <2>6. CASE pos < j /\ j <= pos + Len(a)
    <3>1. j \in 1 .. Len(o) /\ j - pos \in 1 .. Len(ab) /\ j - pos <= Len(a)
      BY <1>0, <1>o, <1>r, <2>0, <2>6
    <3>2. l[j] = a[j - pos]
      BY <1>0, <2>0, <2>1, <2>3, <2>6, <3>1
    <3>3. r[j] = a[j - pos]
      BY <1>0, <1>r, <2>0, <2>2, <2>4, <2>6, <3>1
    <3>4. QED BY <3>2, <3>3
  <2>7. CASE pos + Len(a) < j /\ j <= pos + Len(a) + Len(b)
    <3>1. j - pos \in 1 .. Len(ab) /\ ~ (j - pos <= Len(a)) /\ (j - pos) - Len(a) = j - (pos + Len(a))
      BY <1>0, <1>r, <2>0, <2>7
    <3>2. l[j] = b[j - (pos + Len(a))]
      BY <1>0, <2>0, <2>1, <2>7
    <3>3. r[j] = b[j - (pos + Len(a))]
      <4>1. r[j] = ab[j - pos]
        BY <1>0, <1>r, <2>0, <2>2, <2>7
      <4>2. ab[j - pos] = b[(j - pos) - Len(a)]
        BY <2>4, <3>1
      <4>3. QED BY <3>1, <4>1, <4>2
    <3>4. QED BY <3>2, <3>3
  <2>8. CASE pos + Len(a) + Len(b) < j
    <3>1. j \in 1 .. Len(o)
      BY <1>0, <1>o, <1>l, <2>0, <2>8
    <3>2. QED BY <1>0, <1>r, <2>0, <2>1, <2>2, <2>3, <2>8, <3>1
  <2>9. QED BY <1>0, <2>0, <2>5, <2>6, <2>7, <2>8
<1>7. l = r
  BY <1>3, <1>4, <1>5, <1>6, SeqEqual
<1>8. QED BY <1>7 DEF l, r, o, ab

(* Nothing written changes nothing.                                        *)
LEMMA OverwrittenNone ==
    ASSUME NEW s \in Seq(Byte), NEW pos \in 0 .. Len(s), NEW none \in Seq(Byte)
    PROVE  Len(none) = 0 => Overwritten(s, pos, none) = s
<1> DEFINE r == Overwritten(s, pos, none)
<1>1. r = Overwritten(s, pos, none)
  OBVIOUS
<1> HIDE DEF r
<1>2. /\ r \in Seq(Byte)
      /\ Len(r) = IF pos + Len(none) < Len(s) THEN Len(s) ELSE pos + Len(none)
      /\ \A j \in 1 .. Len(r) : r[j] = IF j <= pos \/ j > pos + Len(none) THEN s[j] ELSE none[j - pos]
  BY <1>1, OverwrittenIs
<1>3. ASSUME Len(none) = 0 PROVE r = s
  <2>1. Len(r) = Len(s)
    BY <1>2, <1>3
  <2>2. \A j \in 1 .. Len(r) : r[j] = s[j]
    BY <1>2, <1>3
  <2>3. QED BY <1>2, <2>1, <2>2, SeqEqual
<1>4. QED BY <1>1, <1>3

(* What is left of a sequence, and what has been taken from it.            *)
LEMMA Taken ==
    ASSUME NEW data \in Seq(Byte), NEW m \in 0 .. Len(data),
           NEW left, left = SubSeq(data, m + 1, Len(data))
    PROVE  /\ left \in Seq(Byte) /\ Len(left) = Len(data) - m
           /\ SubSeq(data, 1, m) \in Seq(Byte) /\ Len(SubSeq(data, 1, m)) = m
           /\ \A n \in 0 .. Len(left) :
                /\ SubSeq(left, n + 1, Len(left)) = SubSeq(data, (m + n) + 1, Len(data))
                /\ SubSeq(data, 1, m) \o SubSeq(left, 1, n) = SubSeq(data, 1, m + n)
                /\ SubSeq(left, 1, n) \in Seq(Byte) /\ Len(SubSeq(left, 1, n)) = n
<1> DEFINE L == Len(data)
<1>0. L \in Nat /\ m \in Nat /\ m <= L
  OBVIOUS
<1>1. left \in Seq(Byte) /\ Len(left) = L - m /\ \A j \in 1 .. L - m : left[j] = data[j + m]
  <2>1. m + 1 \in 1 .. L + 1 /\ L \in (m + 1) - 1 .. L
    BY <1>0
  <2>2. QED BY <1>0, <2>1, SubSeqProperties
<1> DEFINE front(k) == SubSeq(data, 1, k)
<1>2. ASSUME NEW k \in 0 .. L
      PROVE  front(k) \in Seq(Byte) /\ Len(front(k)) = k /\ \A j \in 1 .. k : front(k)[j] = data[j]
  BY <1>0, SubSeqProperties
<1> HIDE DEF front
<1>3. ASSUME NEW n \in 0 .. Len(left)
      PROVE  /\ SubSeq(left, n + 1, Len(left)) = SubSeq(data, (m + n) + 1, L)
             /\ front(m) \o SubSeq(left, 1, n) = front(m + n)
             /\ SubSeq(left, 1, n) \in Seq(Byte) /\ Len(SubSeq(left, 1, n)) = n
  <2> DEFINE x == SubSeq(left, n + 1, Len(left))
             y == SubSeq(data, (m + n) + 1, L)
             z == SubSeq(left, 1, n)
             r == front(m) \o z
  <2>0. n \in Nat /\ n <= L - m /\ m + n \in 0 .. L
    BY <1>0, <1>1
  <2>1. x \in Seq(Byte) /\ Len(x) = (L - m) - n /\ \A j \in 1 .. (L - m) - n : x[j] = left[j + n]
    <3>1. n + 1 \in 1 .. Len(left) + 1 /\ Len(left) \in (n + 1) - 1 .. Len(left)
      BY <1>0, <1>1, <2>0
    <3>2. QED BY <1>0, <1>1, <2>0, <3>1, SubSeqProperties
  <2>2. y \in Seq(Byte) /\ Len(y) = L - (m + n) /\ \A j \in 1 .. L - (m + n) : y[j] = data[j + (m + n)]
    <3>1. (m + n) + 1 \in 1 .. L + 1 /\ L \in ((m + n) + 1) - 1 .. L
      BY <1>0, <2>0
    <3>2. QED BY <1>0, <2>0, <3>1, SubSeqProperties
  <2>3. z \in Seq(Byte) /\ Len(z) = n /\ \A j \in 1 .. n : z[j] = left[j]
    BY <1>1, <2>0, SubSeqProperties
  <2> HIDE DEF x, y, z, L
  <2>4. x = y
    <3>1. Len(x) = Len(y)
      BY <1>0, <2>0, <2>1, <2>2
    <3>2. ASSUME NEW j \in 1 .. Len(x) PROVE x[j] = y[j]
      <4>1. /\ j \in 1 .. (L - m) - n /\ j \in 1 .. L - (m + n) /\ j + n \in 1 .. L - m
            /\ (j + n) + m = j + (m + n)
        BY <1>0, <2>0, <2>1
      <4>2. QED BY <1>1, <2>1, <2>2, <4>1
    <3>3. QED BY <2>1, <2>2, <3>1, <3>2, SeqEqual
  <2>5. /\ front(m) \in Seq(Byte) /\ Len(front(m)) = m /\ \A j \in 1 .. m : front(m)[j] = data[j]
        /\ front(m + n) \in Seq(Byte) /\ Len(front(m + n)) = m + n
        /\ \A j \in 1 .. m + n : front(m + n)[j] = data[j]
    BY <1>0, <1>2, <2>0
  <2>6. /\ r \in Seq(Byte) /\ Len(r) = m + n
        /\ \A j \in 1 .. m + n : r[j] = IF j <= m THEN front(m)[j] ELSE z[j - m]
    <3>1. r = front(m) \o z
      OBVIOUS
    <3> HIDE DEF r
    <3>2. front(m) \in Seq(Byte) /\ z \in Seq(Byte)
      BY <2>3, <2>5
    <3>3. /\ r \in Seq(Byte) /\ Len(r) = Len(front(m)) + Len(z)
          /\ \A j \in 1 .. Len(r) : r[j] = IF j <= Len(front(m)) THEN front(m)[j] ELSE z[j - Len(front(m))]
      BY <3>1, <3>2, ConcatIs
    <3>4. QED BY <2>3, <2>5, <3>3
  <2> HIDE DEF r
  <2>7. ASSUME NEW j \in 1 .. m + n PROVE r[j] = front(m + n)[j]
    <3>1. CASE j <= m
      <4>1. j \in 1 .. m
        BY <1>0, <2>0, <3>1
      <4>2. r[j] = front(m)[j]
        BY <2>6, <3>1
      <4>3. QED BY <2>5, <4>1, <4>2
    <3>2. CASE ~ (j <= m)
      <4>1. j - m \in 1 .. n /\ j - m \in 1 .. L - m /\ (j - m) + m = j
        BY <1>0, <2>0, <3>2
      <4>2. r[j] = z[j - m]
        BY <2>6, <3>2
      <4>3. z[j - m] = data[j]
        BY <1>1, <2>3, <4>1
      <4>4. QED BY <2>5, <4>2, <4>3
    <3>3. QED BY <3>1, <3>2
  <2>8. r = front(m + n)
    BY <2>5, <2>6, <2>7, SeqEqual
  <2>9. QED BY <2>3, <2>4, <2>8 DEF x, y, z, r
<1>4. QED BY <1>0, <1>1, <1>2, <1>3 DEF front

(* The turn of the loop for such a position: it stays one, and the bytes   *)
(* are written over those of the whole file.                               *)
LEMMA LastTurnWrites ==
    ASSUME NEW w, IsWriting(w), AtLast(w.pages, w.pos), w.left # <<>>, NEW v, v = CopiedFrom(w),
           NEW n \in 1 .. Len(w.left), v.pos = w.pos + n,
           n = Least(PageSize - TurnOffset(w), Len(w.left)),
           v.pages = [TurnPages(w) EXCEPT ![TurnPage(w)] =
                         Overwritten(@, TurnOffset(w), SubSeq(w.left, 1, n))]
    PROVE  /\ AtLast(v.pages, v.pos)
           /\ Bytes(v.pages) = Overwritten(Bytes(w.pages), w.pos, SubSeq(w.left, 1, n))
<1> DEFINE pages == TurnPages(w)
           i == TurnPage(w)
           off == TurnOffset(w)
           last == pages[i]
           chunk == SubSeq(w.left, 1, n)
           page == Overwritten(last, off, chunk)
           front == SubSeq(pages, 1, i - 1)
           B == Bytes(front)
           more == v.pages
<1>0. /\ PageSize \in Nat \ {0} /\ w.pos \in Nat /\ w.left \in Seq(Byte)
      /\ n \in 1 .. Len(w.left) /\ Len(w.left) \in Nat
  BY PageSizeAssumption DEF IsWriting
<1>1. /\ pages \in Seq(Seq(Byte)) /\ IsPages(pages) /\ Bytes(pages) = Bytes(w.pages)
      /\ i \in 1 .. Len(pages) /\ last \in Seq(Byte)
      /\ off \in 0 .. Len(last) /\ off < PageSize
  BY TurnIs
<1>2. /\ Packed(pages) /\ i = Len(pages) /\ i # 0
      /\ SeenBefore(pages, i) + off = w.pos /\ Len(last) < PageSize
  BY LastTurn
<1>3. chunk \in Seq(Byte) /\ Len(chunk) = n
  BY <1>0, SubSeqProperties
<1>4. more = [pages EXCEPT ![i] = page]
  OBVIOUS
<1>5. n <= PageSize - off
  <2>1. off \in Nat
    BY <1>1
  <2> HIDE DEF off
  <2>2. QED BY <1>0, <2>1 DEF Least, off
<1> HIDE DEF pages, i, off, last, chunk
<1>6. /\ page \in Seq(Byte)
      /\ Len(page) = IF off + n < Len(last) THEN Len(last) ELSE off + n
  <2>1. page = Overwritten(last, off, chunk)
    OBVIOUS
  <2> HIDE DEF page
  <2>2. /\ page \in Seq(Byte)
        /\ Len(page) = IF off + Len(chunk) < Len(last) THEN Len(last) ELSE off + Len(chunk)
    BY <1>1, <1>3, <2>1, OverwrittenIs
  <2>3. QED BY <1>3, <2>2
<1> HIDE DEF page
<1>7. IsReplaced(more, pages, i, page)
  <2> HIDE DEF more
  <2>1. QED BY <1>1, <1>4, <1>6, PageReplaced
<1> HIDE DEF more
<1>8. /\ more \in Seq(Seq(Byte)) /\ Len(more) = i /\ more[i] = page
      /\ \A j \in 1 .. i - 1 : more[j] = pages[j]
  <2>1. i \in 1 .. Len(pages) /\ Len(pages) = i /\ i \in Nat
    BY <1>1, <1>2
  <2>2. \A j \in 1 .. i - 1 : j \in 1 .. Len(pages) /\ j # i
    BY <2>1
  <2>3. QED BY <1>7, <2>1, <2>2 DEF IsReplaced
<1>i. i \in Nat /\ i \in 1 .. i /\ i - 1 \in Nat
  BY <1>1, <1>2
<1>9. front \in Seq(Seq(Byte)) /\ Len(front) = i - 1 /\ \A j \in 1 .. i - 1 : front[j] = pages[j]
  <2>1. i - 1 \in (1 - 1) .. Len(pages) /\ 1 \in 1 .. Len(pages) + 1
    BY <1>1, <1>2, <1>i
  <2>2. QED BY <1>1, <1>i, <2>1, SubSeqProperties
<1>10. SubSeq(more, 1, i - 1) = front
  <2> DEFINE m == SubSeq(more, 1, i - 1)
  <2>1. m \in Seq(Seq(Byte)) /\ Len(m) = i - 1 /\ \A j \in 1 .. i - 1 : m[j] = more[j]
    <3>1. i - 1 \in (1 - 1) .. Len(more) /\ 1 \in 1 .. Len(more) + 1
      BY <1>8, <1>i
    <3>2. QED BY <1>8, <1>i, <3>1, SubSeqProperties
  <2> HIDE DEF m, front
  <2>2. \A j \in 1 .. i - 1 : m[j] = front[j]
    BY <1>8, <1>9, <2>1
  <2>3. m = front
    BY <1>9, <2>1, <2>2, SeqEqual
  <2>4. QED BY <2>3 DEF m
<1>11. SeenBefore(pages, i) = Len(B) /\ SeenBefore(more, i) = Len(B)
  BY <1>10 DEF SeenBefore
<1> HIDE DEF front
<1>12. pages = Append(front, last) /\ more = Append(front, page)
  <2>1. /\ Append(front, last) \in Seq(Seq(Byte)) /\ Len(Append(front, last)) = i
        /\ \A j \in 1 .. i : Append(front, last)[j] = IF j = i THEN last ELSE front[j]
    <3>1. /\ Append(front, last) \in Seq(Seq(Byte)) /\ Len(Append(front, last)) = Len(front) + 1
          /\ \A j \in 1 .. Len(front) : Append(front, last)[j] = front[j]
          /\ Append(front, last)[Len(front) + 1] = last
      BY <1>1, <1>9, AppendProperties
    <3>2. (i - 1) + 1 = i /\ \A j \in 1 .. i : j = i \/ j \in 1 .. i - 1
      BY <1>i
    <3>3. QED BY <1>9, <3>1, <3>2
  <2>2. /\ Append(front, page) \in Seq(Seq(Byte)) /\ Len(Append(front, page)) = i
        /\ \A j \in 1 .. i : Append(front, page)[j] = IF j = i THEN page ELSE front[j]
    <3>1. /\ Append(front, page) \in Seq(Seq(Byte)) /\ Len(Append(front, page)) = Len(front) + 1
          /\ \A j \in 1 .. Len(front) : Append(front, page)[j] = front[j]
          /\ Append(front, page)[Len(front) + 1] = page
      BY <1>6, <1>9, AppendProperties
    <3>2. (i - 1) + 1 = i /\ \A j \in 1 .. i : j = i \/ j \in 1 .. i - 1
      BY <1>i
    <3>3. QED BY <1>9, <3>1, <3>2
  <2>3. \A j \in 1 .. i : j = i \/ j \in 1 .. i - 1
    BY <1>i
  <2>4. \A j \in 1 .. i : pages[j] = IF j = i THEN last ELSE front[j]
    BY <1>9, <2>3 DEF last
  <2>5. \A j \in 1 .. i : more[j] = IF j = i THEN page ELSE front[j]
    BY <1>8, <1>9, <2>3
  <2>6. pages = Append(front, last)
    <3> DEFINE a == Append(front, last)
    <3>1. a \in Seq(Seq(Byte)) /\ Len(a) = i /\ \A j \in 1 .. i : a[j] = pages[j]
      BY <2>1, <2>4
    <3> HIDE DEF a
    <3>2. pages = a
      BY <1>1, <1>2, <3>1, SeqEqual
    <3>3. QED BY <3>2 DEF a
  <2>7. more = Append(front, page)
    <3> DEFINE a == Append(front, page)
    <3>1. a \in Seq(Seq(Byte)) /\ Len(a) = i /\ \A j \in 1 .. i : a[j] = more[j]
      BY <2>2, <2>5
    <3> HIDE DEF a
    <3>2. more = a
      BY <1>8, <3>1, SeqEqual
    <3>3. QED BY <3>2 DEF a
  <2>8. QED BY <2>6, <2>7
<1>13. B \in Seq(Byte) /\ Bytes(pages) = B \o last /\ Bytes(more) = B \o page
  BY <1>1, <1>6, <1>9, <1>12, BytesAppend
<1> HIDE DEF B
<1>14. Len(B) + off = w.pos
  BY <1>2, <1>11
<1>15. Bytes(more) = Overwritten(Bytes(w.pages), w.pos, chunk)
  <2>1. Overwritten(B \o last, Len(B) + off, chunk) = B \o page
    BY <1>1, <1>3, <1>13, OverwrittenEnd, ZenonT(60) DEF page
  <2>2. QED BY <1>1, <1>13, <1>14, <2>1, Zenon
<1>16. AtLast(more, v.pos)
  <2>1. Packed(more)
    <3>1. ASSUME NEW j \in 1 .. Len(more) - 1 PROVE Len(more[j]) = PageSize
      <4>1. j \in 1 .. i - 1
        BY <1>8
      <4>2. QED BY <1>2, <1>8, <4>1 DEF Packed
    <3>2. QED BY <3>1 DEF Packed
  <2>2. Len(Bytes(more)) = Len(B) + Len(page)
    BY <1>6, <1>13, ConcatIs
  <2>3. Len(B) \in Nat /\ Len(last) \in Nat /\ off \in Nat /\ n \in Nat /\ Len(page) \in Nat
    <3> HIDE DEF last, off, page
    <3>1. Len(B) \in Nat
      BY ONLY <1>13
    <3>2. Len(last) \in Nat /\ off \in Nat
      BY ONLY <1>1
    <3>3. n \in Nat
      BY ONLY <1>0
    <3>4. Len(page) \in Nat
      BY ONLY <1>6
    <3>5. QED BY <3>1, <3>2, <3>3, <3>4
  <2>4. v.pos = Len(B) + off + n /\ off + n <= Len(page)
    BY <1>0, <1>6, <1>14, <2>3
  <2>5. Len(page) = PageSize => off + n = PageSize
    BY <1>0, <1>2, <1>5, <1>6, <2>3
  <2>6. v.pos \in Nat /\ v.pos <= Len(Bytes(more)) /\ Len(B) <= v.pos
    BY <2>2, <2>3, <2>4
  <2>7. ASSUME Len(page) = PageSize PROVE v.pos = Len(Bytes(more))
    <3>1. off + n = Len(page)
      BY <2>5, <2>7
    <3>2. Len(B) + off + n = Len(B) + (off + n)
      BY <2>3
    <3>3. QED BY <2>2, <2>4, <3>1, <3>2
  <2>8. QED BY <1>8, <1>11, <2>1, <2>6, <2>7 DEF AtLast
<1>17. QED BY <1>15, <1>16 DEF more, chunk

(* What the loop has done after some turns.                                *)
HasWritten(w, f, pos, data) ==
    /\ IsWriting(w)
    /\ \E n \in 0 .. Len(data) :
         /\ w.pos = pos + n /\ w.left = SubSeq(data, n + 1, Len(data))
         /\ n = 0 => w.pages = f.pages
         /\ AtLast(f.pages, pos) =>
              /\ AtLast(w.pages, w.pos)
              /\ Bytes(w.pages) = Overwritten(Bytes(f.pages), pos, SubSeq(data, 1, n))

Turned(w) == IF w.left = <<>> THEN w ELSE CopiedFrom(w)

(* The invariant of the loop of write_impl: what is written so far is the  *)
(* front of the data, at its place, when the position is plain.            *)
LEMMA TurnKeeps ==
    ASSUME NEW f, FileOk(f), NEW pos \in Nat, NEW data \in Seq(Byte),
           NEW w, HasWritten(w, f, pos, data)
    PROVE  HasWritten(Turned(w), f, pos, data)
<1> SUFFICES ASSUME w.left # <<>> PROVE HasWritten(CopiedFrom(w), f, pos, data)
  BY DEF Turned
<1> DEFINE v == CopiedFrom(w)
           B == Bytes(f.pages)
<1>1. IsWriting(w)
  BY DEF HasWritten
<1>2. PICK m \in 0 .. Len(data) :
         /\ w.pos = pos + m /\ w.left = SubSeq(data, m + 1, Len(data))
         /\ AtLast(f.pages, pos) =>
              /\ AtLast(w.pages, w.pos)
              /\ Bytes(w.pages) = Overwritten(B, pos, SubSeq(data, 1, m))
  BY DEF HasWritten
<1> DEFINE left == w.left
           a == SubSeq(data, 1, m)
<1>3. /\ left \in Seq(Byte) /\ Len(left) = Len(data) - m /\ a \in Seq(Byte) /\ Len(a) = m
      /\ \A n \in 0 .. Len(left) :
           /\ SubSeq(left, n + 1, Len(left)) = SubSeq(data, (m + n) + 1, Len(data))
           /\ a \o SubSeq(left, 1, n) = SubSeq(data, 1, m + n)
           /\ SubSeq(left, 1, n) \in Seq(Byte) /\ Len(SubSeq(left, 1, n)) = n
  BY <1>2, Taken, SMTT(40)
<1>4. IsWriting(v)
  BY <1>1, CopiedFromIs
<1>5. PICK n \in 1 .. Len(left) :
         /\ n = Least(PageSize - TurnOffset(w), Len(left))
         /\ v.pos = w.pos + n /\ v.left = SubSeq(left, n + 1, Len(left))
         /\ v.pages = [TurnPages(w) EXCEPT ![TurnPage(w)] =
                          Overwritten(@, TurnOffset(w), SubSeq(left, 1, n))]
  BY <1>1, CopiedFromIs
<1> DEFINE b == SubSeq(left, 1, n)
<1>6. AtLast(w.pages, w.pos) =>
         AtLast(v.pages, v.pos) /\ Bytes(v.pages) = Overwritten(Bytes(w.pages), w.pos, b)
  BY <1>1, <1>5, LastTurnWrites
<1> HIDE DEF v, left, a, B
<1>7. /\ Len(data) \in Nat /\ m \in Nat /\ n \in 0 .. Len(left) /\ m + n \in 0 .. Len(data)
      /\ w.pos + n = pos + (m + n) /\ n \in Nat /\ m + n # 0
  <2>1. Len(data) \in Nat /\ m \in Nat /\ Len(left) \in Nat /\ n \in Nat /\ n <= Len(left) /\ 1 <= n
    BY <1>2, <1>3, <1>5, SMTT(40)
  <2>2. w.pos = pos + m /\ Len(left) = Len(data) - m
    BY <1>2, <1>3
  <2>3. QED BY <2>1, <2>2
<1>8. /\ SubSeq(left, n + 1, Len(left)) = SubSeq(data, (m + n) + 1, Len(data))
      /\ a \o b = SubSeq(data, 1, m + n) /\ b \in Seq(Byte)
  BY <1>3, <1>7
<1> HIDE DEF b
<1>9. ASSUME AtLast(f.pages, pos)
      PROVE  /\ AtLast(v.pages, v.pos)
             /\ Bytes(v.pages) = Overwritten(B, pos, SubSeq(data, 1, m + n))
  <2>1. B \in Seq(Byte) /\ pos \in 0 .. Len(B)
    <3>1. B \in Seq(Byte)
      BY BytesAppend DEF FileOk, B
    <3>2. pos <= Len(B)
      BY <1>9 DEF AtLast, B
    <3>3. QED BY <3>1, <3>2
  <2>2. Overwritten(Overwritten(B, pos, a), pos + Len(a), b) = Overwritten(B, pos, a \o b)
    <3>1. a \in Seq(Byte) /\ b \in Seq(Byte)
      BY <1>3, <1>8
    <3>2. QED BY <2>1, <3>1, OverwrittenTwice
  <2>3. /\ AtLast(w.pages, w.pos) /\ w.pos = pos + Len(a)
        /\ Bytes(w.pages) = Overwritten(B, pos, a)
    BY <1>2, <1>3, <1>9 DEF a
  <2>4. AtLast(v.pages, v.pos) /\ Bytes(v.pages) = Overwritten(Bytes(w.pages), w.pos, b)
    BY <1>6, <2>3 DEF b
  <2>5. QED BY <1>8, <2>2, <2>3, <2>4, Zenon
<1>10. v.pos = pos + (m + n) /\ v.left = SubSeq(data, (m + n) + 1, Len(data))
  BY <1>5, <1>7, <1>8
<1>11. HasWritten(v, f, pos, data)
  BY <1>4, <1>7, <1>9, <1>10 DEF HasWritten, B
<1>12. QED BY <1>11 DEF v

(* So any number of turns has written the front of the data.               *)
LEMMA WrittenIs ==
    ASSUME NEW f, FileOk(f), NEW pos \in Nat, NEW data \in Seq(Byte), NEW k \in Nat
    PROVE  HasWritten(Written(f, pos, data, k), f, pos, data)
<1> DEFINE base == [pages |-> f.pages, total |-> f.total, pos |-> pos, left |-> data]
           V == {w \in [pages : Seq(Seq(Byte)), total : Nat, pos : Nat, left : Seq(Byte)] :
                    HasWritten(w, f, pos, data)}
           step == [w \in V |-> Turned(w)]
           Is(g) == g = [j \in 0 .. k |->
              IF j = 0 THEN {base}
              ELSE {IF w.left = <<>> THEN w ELSE CopiedFrom(w) : w \in g[j - 1]}]
           after == CHOOSE g : Is(g)
<1>1. ASSUME NEW w, HasWritten(w, f, pos, data) PROVE w \in V
  <2>1. IsWriting(w)
    BY <1>1 DEF HasWritten
  <2>2. /\ w = [pages |-> w.pages, total |-> w.total, pos |-> w.pos, left |-> w.left]
        /\ w.pages \in Seq(Seq(Byte)) /\ w.pos \in Nat /\ w.left \in Seq(Byte)
    BY <2>1 DEF IsWriting, FileOk
  <2>3. w.total \in Nat
    <3>1. w.total = Len(Bytes(w.pages)) /\ Bytes(w.pages) \in Seq(Byte)
      BY <2>1, <2>2, BytesAppend DEF IsWriting, FileOk
    <3>2. QED BY <3>1
  <2>4. w \in [pages : Seq(Seq(Byte)), total : Nat, pos : Nat, left : Seq(Byte)]
    BY <2>2, <2>3
  <2>5. QED BY <1>1, <2>4
<1>2. HasWritten(base, f, pos, data)
  <2> DEFINE B == Bytes(f.pages)
             none == SubSeq(data, 1, 0)
  <2>1. IsWriting(base)
    BY DEF IsWriting, FileOk
  <2>2. 0 \in 0 .. Len(data) /\ pos + 0 = pos /\ SubSeq(data, 0 + 1, Len(data)) = data
    BY SubSeqFull
  <2>3. none \in Seq(Byte) /\ Len(none) = 0
    BY <2>2, Taken
  <2>4. B \in Seq(Byte)
    BY BytesAppend DEF FileOk
  <2>5. AtLast(f.pages, pos) => pos \in 0 .. Len(B)
    BY <2>4 DEF AtLast
  <2>6. base.pages = f.pages /\ base.pos = pos /\ base.left = data
    OBVIOUS
  <2> HIDE DEF B, none, base
  <2>7. AtLast(f.pages, pos) => Overwritten(B, pos, none) = B
    BY <2>3, <2>4, <2>5, OverwrittenNone
  <2>8. AtLast(f.pages, pos) =>
          AtLast(base.pages, base.pos) /\ Bytes(base.pages) = Overwritten(B, pos, none)
    BY <2>6, <2>7 DEF B
  <2>9. QED BY <2>1, <2>2, <2>6, <2>8 DEF HasWritten, B, none
<1>3. \A w \in V : step[w] \in V
  BY <1>1, TurnKeeps
<1>4. base \in V
  BY <1>1, <1>2
<1> HIDE DEF base
<1>5. PICK W : /\ W \in [0 .. k -> V] /\ W[0] = base
               /\ \A j \in 1 .. k : W[j] = step[W[j - 1]]
  <2> HIDE DEF V, step
  <2>1. \E W : IsIteration(W, k, V, base, step)
    BY <1>3, <1>4, Iterates
  <2>2. QED BY <2>1 DEF IsIteration
<1>6. /\ \A j \in 0 .. k : W[j] \in V
      /\ \A j \in 1 .. k : W[j] = Turned(W[j - 1])
  <2>1. \A j \in 0 .. k : W[j] \in V
    BY <1>5
  <2>2. ASSUME NEW j \in 1 .. k PROVE W[j] = Turned(W[j - 1])
    <3>1. j - 1 \in 0 .. k
      OBVIOUS
    <3>2. W[j - 1] \in V
      BY <2>1, <3>1
    <3> HIDE DEF V
    <3>3. step[W[j - 1]] = Turned(W[j - 1])
      BY <3>2
    <3>4. QED BY <1>5, <3>3
  <2>3. QED BY <2>1, <2>2
<1> HIDE DEF V, step
<1>7. Is([j \in 0 .. k |-> {W[j]}])
  <2> DEFINE g == [j \in 0 .. k |-> {W[j]}]
  <2>1. ASSUME NEW j \in 0 .. k
        PROVE  g[j] = IF j = 0 THEN {base}
                      ELSE {IF w.left = <<>> THEN w ELSE CopiedFrom(w) : w \in g[j - 1]}
    <3>1. CASE j = 0
      BY <1>5, <3>1
    <3>2. CASE j # 0
      <4>1. j \in 1 .. k /\ g[j] = {W[j]} /\ g[j - 1] = {W[j - 1]}
        BY <3>2
      <4>2. W[j] = IF W[j - 1].left = <<>> THEN W[j - 1] ELSE CopiedFrom(W[j - 1])
        BY <1>6, <4>1 DEF Turned
      <4> HIDE DEF g
      <4>3. QED BY <3>2, <4>1, <4>2
    <3>3. QED BY <3>1, <3>2
  <2>2. QED BY <2>1
<1>8. Is(after)
  <2> HIDE DEF Is
  <2>1. QED BY <1>7
<1>9. Written(f, pos, data, k) = TheOne(after[k])
  BY DEF Written, base
<1> HIDE DEF after
<1>10. /\ after[0] = {base}
       /\ \A j \in 1 .. k : after[j] = {IF w.left = <<>> THEN w ELSE CopiedFrom(w) : w \in after[j - 1]}
  <2>1. ASSUME NEW j \in 0 .. k
        PROVE  after[j] = IF j = 0 THEN {base}
                          ELSE {IF w.left = <<>> THEN w ELSE CopiedFrom(w) : w \in after[j - 1]}
    BY <1>8
  <2>2. 0 \in 0 .. k /\ \A j \in 1 .. k : j \in 0 .. k /\ j # 0
    OBVIOUS
  <2>3. after[0] = {base}
    BY <2>1, <2>2
  <2>4. ASSUME NEW j \in 1 .. k
        PROVE  after[j] = {IF w.left = <<>> THEN w ELSE CopiedFrom(w) : w \in after[j - 1]}
    BY <2>1, <2>2
  <2>5. QED BY <2>3, <2>4
<1> HIDE DEF Is
<1> DEFINE Same == {m \in Nat : m <= k => after[m] = {W[m]}}
<1>11. k \in Same
  <2>1. 0 \in Same
    BY <1>5, <1>10
  <2>2. ASSUME NEW m \in Nat, m \in Same PROVE m + 1 \in Same
    <3>1. CASE m + 1 <= k
      <4>1. m + 1 \in 1 .. k /\ (m + 1) - 1 = m /\ after[m] = {W[m]}
        BY <2>2, <3>1
      <4>2. after[m + 1] = {IF w.left = <<>> THEN w ELSE CopiedFrom(w) : w \in {W[m]}}
        BY <1>10, <4>1
      <4>3. W[m + 1] = IF W[m].left = <<>> THEN W[m] ELSE CopiedFrom(W[m])
        BY <1>6, <4>1 DEF Turned
      <4>4. QED BY <4>2, <4>3
    <3>2. QED BY <3>1
  <2> HIDE DEF Same
  <2>3. QED BY <2>1, <2>2, SetInduction
<1>12. Written(f, pos, data, k) = W[k]
  BY <1>9, <1>11 DEF TheOne
<1>13. QED BY <1>6, <1>12 DEF V

-----------------------------------------------------------------------------
(* Reading.                                                                *)

(* The bytes of a page are where those before it end.                      *)
LEMMA PageInBytes ==
    ASSUME NEW pages \in Seq(Seq(Byte))
    PROVE  \A i \in 1 .. Len(pages) :
              /\ SeenBefore(pages, i) + Len(pages[i]) <= Len(Bytes(pages))
              /\ \A x \in 1 .. Len(pages[i]) : Bytes(pages)[SeenBefore(pages, i) + x] = pages[i][x]
<1> DEFINE Holds(ps) == \A i \in 1 .. Len(ps) :
              /\ SeenBefore(ps, i) + Len(ps[i]) <= Len(Bytes(ps))
              /\ \A x \in 1 .. Len(ps[i]) : Bytes(ps)[SeenBefore(ps, i) + x] = ps[i][x]
           Have == {m \in Nat : \A ps \in Seq(Seq(Byte)) : Len(ps) = m => Holds(ps)}
<1>1. 0 \in Have
  OBVIOUS
<1>2. ASSUME NEW m \in Nat, m \in Have PROVE m + 1 \in Have
  <2>1. ASSUME NEW ps \in Seq(Seq(Byte)), Len(ps) = m + 1 PROVE Holds(ps)
    <3>1. ps # <<>>
      BY <2>1
    <3>2. PICK front \in Seq(Seq(Byte)), last \in Seq(Byte) : ps = Append(front, last)
      BY <3>1, SequenceEmptyOrAppend
    <3>3. /\ Len(front) = m /\ ps[m + 1] = last
          /\ \A i \in 1 .. m : ps[i] = front[i]
      BY <2>1, <3>2
    <3>4. Holds(front)
      BY <1>2, <3>3
    <3> DEFINE B == Bytes(front)
               C == Bytes(ps)
    <3>5. B \in Seq(Byte) /\ C = B \o last
      BY <3>2, BytesAppend
    <3>6. /\ C \in Seq(Byte) /\ Len(C) = Len(B) + Len(last)
          /\ \A j \in 1 .. Len(C) : C[j] = IF j <= Len(B) THEN B[j] ELSE last[j - Len(B)]
      <4> HIDE DEF B, C
      <4>1. QED BY <3>5, ConcatIs
    <3>7. ASSUME NEW i \in 1 .. m + 1 PROVE SeenBefore(ps, i) = SeenBefore(front, i)
      <4> DEFINE a == SubSeq(ps, 1, i - 1)
                 b == SubSeq(front, 1, i - 1)
      <4>1. a \in Seq(Seq(Byte)) /\ Len(a) = i - 1 /\ \A j \in 1 .. i - 1 : a[j] = ps[j]
        <5>1. i - 1 \in (1 - 1) .. Len(ps) /\ 1 \in 1 .. Len(ps) + 1 /\ (i - 1) - 1 + 1 = i - 1
          BY <2>1
        <5>2. QED BY <2>1, <5>1, SubSeqProperties
      <4>2. b \in Seq(Seq(Byte)) /\ Len(b) = i - 1 /\ \A j \in 1 .. i - 1 : b[j] = front[j]
        <5>1. i - 1 \in (1 - 1) .. Len(front) /\ 1 \in 1 .. Len(front) + 1 /\ (i - 1) - 1 + 1 = i - 1
          BY <3>3
        <5>2. QED BY <3>3, <5>1, SubSeqProperties
      <4> HIDE DEF a, b
      <4>3. \A j \in 1 .. i - 1 : j \in 1 .. m
        OBVIOUS
      <4>4. \A j \in 1 .. i - 1 : a[j] = b[j]
        BY <3>3, <4>1, <4>2, <4>3
      <4>5. a = b
        BY <4>1, <4>2, <4>4, SeqEqual
      <4>6. QED BY <4>5 DEF SeenBefore, a, b
    <3>8. SeenBefore(front, m + 1) = Len(B) /\ Len(B) \in Nat /\ Len(last) \in Nat
      BY <3>3, <3>5, SeenIs, SMTT(40)
    <3>9. ASSUME NEW i \in 1 .. m + 1
          PROVE  /\ SeenBefore(ps, i) + Len(ps[i]) <= Len(C)
                 /\ \A x \in 1 .. Len(ps[i]) : C[SeenBefore(ps, i) + x] = ps[i][x]
      <4> DEFINE S == SeenBefore(ps, i)
      <4>1. CASE i = m + 1
        <5>1. S = Len(B) /\ ps[i] = last
          BY <3>3, <3>7, <3>8, <4>1
        <5> HIDE DEF S, B, C
        <5>2. ASSUME NEW x \in 1 .. Len(last) PROVE C[S + x] = last[x]
          <6>1. S + x \in 1 .. Len(C) /\ ~ (S + x <= Len(B)) /\ (S + x) - Len(B) = x
            BY <3>6, <3>8, <5>1, SMTT(40)
          <6>2. QED BY <3>6, <6>1
        <5>3. S + Len(last) <= Len(C)
          BY <3>6, <3>8, <5>1
        <5>4. QED BY <5>1, <5>2, <5>3 DEF S
      <4>2. CASE i # m + 1
        <5>0. i \in 1 .. m
          BY <4>2
        <5>1. S = SeenBefore(front, i) /\ ps[i] = front[i] /\ S \in Nat /\ Len(ps[i]) \in Nat
          <6>1. i \in 1 .. Len(front) + 1
            BY <3>3, <5>0
          <6>2. QED BY <3>3, <3>7, <5>0, <6>1, SeenIs
        <5>2. S + Len(ps[i]) <= Len(B) /\ \A x \in 1 .. Len(ps[i]) : B[S + x] = ps[i][x]
          BY <3>3, <3>4, <5>0, <5>1
        <5> HIDE DEF S, B, C
        <5>3. ASSUME NEW x \in 1 .. Len(ps[i]) PROVE C[S + x] = ps[i][x]
          <6>1. Len(C) = Len(B) + Len(last) /\ S + Len(ps[i]) <= Len(B)
            BY <3>6, <5>2
          <6>2. S \in Nat /\ x \in Nat /\ 1 <= x /\ x <= Len(ps[i])
            BY <5>1
          <6>3. S + x \in 1 .. Len(C) /\ S + x <= Len(B)
            <7>1. Len(B) \in Nat /\ Len(last) \in Nat /\ Len(ps[i]) \in Nat
              BY <3>8, <5>1
            <7>2. QED BY <6>1, <6>2, <7>1
          <6>4. QED BY <3>6, <5>2, <6>3
        <5>4. S + Len(ps[i]) <= Len(C)
          BY <3>6, <3>8, <5>1, <5>2, SMTT(40)
        <5>5. QED BY <5>3, <5>4 DEF S
      <4>3. QED BY <4>1, <4>2
    <3>10. QED BY <2>1, <3>9
  <2>2. QED BY <2>1
<1>3. Len(pages) \in Have
  <2> HIDE DEF Have
  <2>1. QED BY <1>1, <1>2, SetInduction, SMTT(40)
<1>4. QED BY <1>3

(* What the loop of read_impl has done: it has what is in the file between *)
(* the position it started at and its own.                                 *)
HasRead(r, pages, pos, n) ==
    /\ r = [pos |-> r.pos, got |-> r.got, left |-> r.left]
    /\ \E m \in 0 .. n :
         /\ r.pos = pos + m /\ r.left = n - m
         /\ r.got = SubSeq(Bytes(pages), pos + 1, pos + m)
         /\ m # 0 => pos + m <= Len(Bytes(pages))

(* The invariant of the loop of read_impl, and that each turn makes        *)
(* progress.                                                               *)
LEMMA ReadTurn ==
    ASSUME NEW pages \in Seq(Seq(Byte)), IsPages(pages), NEW pos \in Nat, NEW n \in Nat,
           NEW r, HasRead(r, pages, pos, n), r.left # 0, ~ AtEnd(pages, r.pos),
           NEW v, v = CopiedTo(pages, r)
    PROVE  HasRead(v, pages, pos, n) /\ v.left < r.left
<1> DEFINE B == Bytes(pages)
           i == GetPage(pages, r.pos)
           page == pages[i]
           off == Offset(pages, r.pos)
           k == Least(Len(page) - off, r.left)
           S == SeenBefore(pages, i)
<1>1. PICK m \in 0 .. n :
         /\ r.pos = pos + m /\ r.left = n - m
         /\ r.got = SubSeq(B, pos + 1, pos + m)
         /\ m # 0 => pos + m <= Len(B)
  BY DEF HasRead
<1>2. r.pos \in Nat /\ r.left \in Nat \ {0} /\ m \in Nat
  BY <1>1
<1>3. i # 0 /\ off < Len(page)
  <2>1. i # 0 /\ ~ (off >= Len(page))
    BY DEF AtEnd
  <2>2. i \in 1 .. Len(pages)
    BY <1>2, <2>1, GetPageIs
  <2>3. off \in Int /\ Len(page) \in Int
    <3>1. S \in Nat /\ Len(page) \in Nat
      BY <2>2, SeenIs
    <3>2. off = r.pos - S
      BY DEF Offset
    <3> HIDE DEF S, off, page
    <3>3. QED BY <1>2, <3>1, <3>2
  <2> HIDE DEF off, page, i
  <2>4. QED BY <2>1, <2>3
<1>4. /\ i \in 1 .. Len(pages) /\ S <= r.pos /\ r.pos < S + PageSize
  BY <1>2, <1>3, GetPageIs
<1>5. S \in Nat /\ Len(page) \in Nat /\ page \in Seq(Byte)
  BY <1>4, SeenIs, ElementOfSeq
<1>6. off = r.pos - S
  BY DEF Offset
<1>7. /\ S + Len(page) <= Len(B)
      /\ \A x \in 1 .. Len(page) : B[S + x] = page[x]
  <2> HIDE DEF i
  <2>1. QED BY <1>4, PageInBytes
<1>8. B \in Seq(Byte) /\ Len(B) \in Nat
  BY BytesAppend
<1>9. v = [pos |-> r.pos + k, got |-> r.got \o SubSeq(page, off + 1, off + k), left |-> r.left - k]
  BY DEF CopiedTo
<1> HIDE DEF B, i, page, off, S
<1>10. off \in Nat /\ k \in 1 .. r.left /\ k <= Len(page) - off
  <2>1. off \in Nat
    BY <1>2, <1>4, <1>5, <1>6, SMTT(40)
  <2>2. QED BY <1>2, <1>3, <1>5, <2>1, SMTT(40) DEF Least
<1> HIDE DEF k
<1>11. /\ k \in Nat /\ k # 0 /\ m + k \in 0 .. n /\ r.left - k = n - (m + k) /\ r.pos + k = pos + (m + k)
       /\ pos + m = S + off /\ pos + (m + k) <= Len(B) /\ r.left - k < r.left /\ m + k # 0
       /\ pos + m <= Len(B)
  <2>1. /\ r.pos = pos + m /\ r.left = n - m /\ m <= n
        /\ S + Len(page) <= Len(B) /\ k \in Nat /\ 1 <= k /\ k <= r.left
    BY <1>1, <1>2, <1>7, <1>10
  <2>2. r.left - k = n - (m + k) /\ r.pos + k = pos + (m + k) /\ m + k \in 0 .. n
    BY <1>2, <2>1
  <2>3. pos + m = S + off
    BY <1>2, <1>5, <1>6, <1>10, <2>1
  <2>4. off + k <= Len(page)
    BY <1>5, <1>10, <2>1
  <2>5. pos + (m + k) <= Len(B)
    BY <1>2, <1>5, <1>8, <1>10, <2>1, <2>3, <2>4
  <2>6. pos + m <= Len(B) /\ m + k # 0 /\ r.left - k < r.left
    BY <1>2, <1>8, <2>1, <2>5
  <2>7. QED BY <2>1, <2>2, <2>3, <2>5, <2>6
<1> DEFINE a == SubSeq(B, pos + 1, pos + m)
           c == SubSeq(page, off + 1, off + k)
           l == a \o c
           w == SubSeq(B, pos + 1, pos + (m + k))
<1>12. a \in Seq(Byte) /\ Len(a) = m /\ \A x \in 1 .. m : a[x] = B[x + pos]
  <2>1. pos + 1 \in 1 .. Len(B) + 1 /\ pos + m \in (pos + 1) - 1 .. Len(B) /\ (pos + m) - (pos + 1) + 1 = m
    BY <1>2, <1>8, <1>11
  <2>2. \A x \in 1 .. m : x + (pos + 1) - 1 = x + pos
    BY <1>2
  <2>3. QED BY <1>8, <2>1, <2>2, SubSeqProperties
<1>13. c \in Seq(Byte) /\ Len(c) = k /\ \A x \in 1 .. k : c[x] = page[x + off]
  <2>1. off + 1 \in 1 .. Len(page) + 1 /\ off + k \in (off + 1) - 1 .. Len(page) /\ (off + k) - (off + 1) + 1 = k
    BY <1>3, <1>5, <1>10, <1>11
  <2>2. \A x \in 1 .. k : x + (off + 1) - 1 = x + off
    BY <1>10, <1>11
  <2>3. page \in Seq(Byte)
    BY <1>5
  <2>4. /\ c \in Seq(Byte) /\ Len(c) = (off + k) - (off + 1) + 1
        /\ \A x \in 1 .. (off + k) - (off + 1) + 1 : c[x] = page[x + (off + 1) - 1]
    BY <2>1, <2>3, SubSeqProperties, SMTT(40)
  <2> HIDE DEF c
  <2>5. QED BY <2>1, <2>2, <2>4
<1>14. w \in Seq(Byte) /\ Len(w) = m + k /\ \A x \in 1 .. m + k : w[x] = B[x + pos]
  <2>1. /\ pos + 1 \in 1 .. Len(B) + 1 /\ pos + (m + k) \in (pos + 1) - 1 .. Len(B)
        /\ (pos + (m + k)) - (pos + 1) + 1 = m + k
    BY <1>2, <1>8, <1>11
  <2>2. \A x \in 1 .. m + k : x + (pos + 1) - 1 = x + pos
    BY <1>2, <1>11
  <2>3. QED BY <1>8, <2>1, <2>2, SubSeqProperties, SMTT(40)
<1> HIDE DEF a, c, w
<1>15. /\ l \in Seq(Byte) /\ Len(l) = m + k
       /\ \A x \in 1 .. m + k : l[x] = IF x <= m THEN a[x] ELSE c[x - m]
  <2>1. a \in Seq(Byte) /\ c \in Seq(Byte) /\ l = a \o c
    BY <1>12, <1>13
  <2> HIDE DEF l
  <2>2. /\ l \in Seq(Byte) /\ Len(l) = Len(a) + Len(c)
        /\ \A x \in 1 .. Len(l) : l[x] = IF x <= Len(a) THEN a[x] ELSE c[x - Len(a)]
    BY <2>1, ConcatIs
  <2>3. QED BY <1>12, <1>13, <2>2
<1> HIDE DEF l
<1>16. ASSUME NEW x \in 1 .. m + k PROVE l[x] = w[x]
  <2>1. CASE x <= m
    <3>1. x \in 1 .. m
      BY <1>2, <2>1
    <3>2. QED BY <1>12, <1>14, <1>15, <2>1, <3>1
  <2>2. CASE ~ (x <= m)
    <3> DEFINE y == (x - m) + off
    <3>1. /\ x - m \in 1 .. k /\ y \in 1 .. Len(page) /\ S + y = x + pos
      BY <1>2, <1>5, <1>10, <1>11, <2>2, SMTT(40)
    <3>2. l[x] = c[x - m]
      BY <1>15, <2>2
    <3>3. c[x - m] = page[y]
      BY <1>13, <3>1
    <3> HIDE DEF y
    <3>4. page[y] = B[x + pos]
      BY <1>7, <3>1
    <3>5. QED BY <1>14, <3>2, <3>3, <3>4
  <2>3. QED BY <2>1, <2>2
<1>17. l = w
  BY <1>14, <1>15, <1>16, SeqEqual
<1>18. v.pos = pos + (m + k) /\ v.got = w /\ v.left = n - (m + k) /\ v.left < r.left
  <2>1. /\ v.pos = r.pos + k /\ v.left = r.left - k
        /\ v.got = r.got \o SubSeq(page, off + 1, off + k)
    <3> DEFINE g == r.got \o SubSeq(page, off + 1, off + k)
    <3>1. v = [pos |-> r.pos + k, got |-> g, left |-> r.left - k]
      BY <1>9
    <3> HIDE DEF g
    <3>2. v.pos = r.pos + k /\ v.got = g /\ v.left = r.left - k
      BY <3>1
    <3>3. QED BY <3>2 DEF g
  <2>2. r.got = a
    BY <1>1 DEF a
  <2>3. v.got = a \o c
    BY <2>1, <2>2, Zenon DEF c
  <2>4. v.got = w
    BY <1>17, <2>3 DEF l
  <2>5. QED BY <1>11, <2>1, <2>4
<1>19. v = [pos |-> v.pos, got |-> v.got, left |-> v.left]
  BY <1>9
<1>20. QED BY <1>11, <1>18, <1>19 DEF HasRead, w, B

(* Before the end of a file whose pages are full there is more to read.    *)
LEMMA NotAtEnd ==
    ASSUME NEW pages \in Seq(Seq(Byte)), IsPages(pages), Packed(pages),
           NEW pos \in Nat, pos < Len(Bytes(pages))
    PROVE  ~ AtEnd(pages, pos)
<1> DEFINE n == Len(pages)
           S(j) == SeenBefore(pages, j)
           i == GetPage(pages, pos)
           Before == {m \in Nat : m <= n => S(m + 1) <= pos}
<1>0. n \in Nat /\ PageSize \in Nat \ {0}
  BY PageSizeAssumption
<1>1. /\ S(1) = 0 /\ Len(Bytes(pages)) = S(n + 1)
      /\ \A j \in 1 .. n : S(j + 1) = S(j) + Len(pages[j])
      /\ \A j \in 1 .. n + 1 : S(j) \in Nat
      /\ \A j \in 1 .. n : Len(pages[j]) \in Nat
  BY SeenIs
<1> HIDE DEF S
<1>2. \E j \in 1 .. n : S(j) <= pos /\ pos < S(j + 1)
  <2> SUFFICES ASSUME \A j \in 1 .. n : S(j) <= pos => ~ (pos < S(j + 1)) PROVE FALSE
    OBVIOUS
  <2>1. 0 \in Before
    BY <1>1
  <2>2. ASSUME NEW m \in Nat, m \in Before PROVE m + 1 \in Before
    <3>1. CASE m + 1 <= n
      <4>1. m + 1 \in 1 .. n /\ (m + 1) + 1 \in 1 .. n + 1 /\ m <= n
        BY <1>0, <3>1
      <4>2. S(m + 1) <= pos
        BY <2>2, <4>1
      <4>3. ~ (pos < S((m + 1) + 1)) /\ S((m + 1) + 1) \in Nat
        BY <1>1, <4>1, <4>2
      <4>4. QED BY <4>3
    <3>2. QED BY <3>1
  <2>3. n \in Before
    <3> HIDE DEF Before
    <3>1. QED BY <1>0, <2>1, <2>2, SetInduction
  <2>4. S(n + 1) \in Nat /\ S(n + 1) <= pos
    BY <1>0, <1>1, <2>3
  <2>5. QED BY <1>1, <2>4
<1>3. PICK j \in 1 .. n : S(j) <= pos /\ pos < S(j + 1)
  BY <1>2
<1>4. /\ S(j + 1) = S(j) + Len(pages[j]) /\ Len(pages[j]) <= PageSize
      /\ S(j) \in Nat /\ Len(pages[j]) \in Nat
  <2>1. j \in 1 .. n + 1
    BY <1>0
  <2>2. QED BY <1>1, <2>1 DEF IsPages
<1>5. pos <= S(j) + Len(pages[j]) /\ pos < S(j) + PageSize /\ pos < S(j) + Len(pages[j])
  BY <1>0, <1>3, <1>4
<1>6. i \in 0 .. n /\ i # 0 /\ i <= j /\ pos < S(i) + PageSize
  BY <1>5, GetPageIs DEF S
<1> HIDE DEF i
<1>7. i = j
  <2> SUFFICES ASSUME i # j PROVE FALSE
    OBVIOUS
  <2>1. i \in 1 .. j - 1 /\ i \in 1 .. n + 1
    BY <1>0, <1>6
  <2>2. S(i) + PageSize <= S(j) /\ S(i) \in Nat
    BY <1>1, <2>1, PackedIs DEF S
  <2>3. QED BY <1>0, <1>3, <1>4, <1>6, <2>2
<1>8. Offset(pages, pos) = pos - S(j)
  BY <1>7 DEF Offset, i, S
<1>9. ~ (Offset(pages, pos) >= Len(pages[j]))
  BY <1>3, <1>4, <1>5, <1>8
<1>10. QED BY <1>6, <1>7, <1>9 DEF AtEnd, i

(* read_impl stops when there is no room left, or nothing to read.         *)
Stopped(r, pages) == r.left = 0 \/ AtEnd(pages, r.pos)

(* So read answers the bytes at its position, and as many as there are.    *)
LEMMA ReadFromIs ==
    ASSUME NEW pages \in Seq(Seq(Byte)), IsPages(pages), NEW pos \in Nat, NEW n \in Nat
    PROVE  /\ HasRead(ReadFrom(pages, pos, n), pages, pos, n)
           /\ Stopped(ReadFrom(pages, pos, n), pages)
<1> DEFINE base == [pos |-> pos, got |-> <<>>, left |-> n]
           Turn(r) == IF r.left = 0 \/ AtEnd(pages, r.pos) THEN r ELSE CopiedTo(pages, r)
           V == {r \in [pos : Nat, got : {SubSeq(Bytes(pages), pos + 1, pos + m) : m \in 0 .. n}, left : Nat] :
                    HasRead(r, pages, pos, n)}
           step == [r \in V |-> Turn(r)]
           Is(g) == g = [j \in 0 .. n |->
              IF j = 0 THEN {base}
              ELSE {IF r.left = 0 \/ AtEnd(pages, r.pos) THEN r ELSE CopiedTo(pages, r) : r \in g[j - 1]}]
           after == CHOOSE g : Is(g)
<1>1. ASSUME NEW r, HasRead(r, pages, pos, n)
      PROVE  r \in V /\ r.left \in 0 .. n
  <2>1. PICK m \in 0 .. n : /\ r.pos = pos + m /\ r.left = n - m
                            /\ r.got = SubSeq(Bytes(pages), pos + 1, pos + m)
    BY <1>1 DEF HasRead
  <2>2. r = [pos |-> r.pos, got |-> r.got, left |-> r.left]
    BY <1>1 DEF HasRead
  <2>3. r.pos \in Nat /\ r.left \in 0 .. n /\ r.left \in Nat
    BY <2>1
  <2>4. r.got \in {SubSeq(Bytes(pages), pos + 1, pos + k) : k \in 0 .. n}
    BY <2>1
  <2> DEFINE G == {SubSeq(Bytes(pages), pos + 1, pos + k) : k \in 0 .. n}
  <2> HIDE DEF G
  <2>5. r \in [pos : Nat, got : G, left : Nat]
    BY <2>2, <2>3, <2>4 DEF G
  <2>6. QED BY <1>1, <2>3, <2>5 DEF G
<1>2. HasRead(base, pages, pos, n)
  <2>1. 0 \in 0 .. n /\ pos + 0 = pos /\ n - 0 = n
    OBVIOUS
  <2>2. SubSeq(Bytes(pages), pos + 1, pos + 0) = <<>>
    BY SubSeqEmpty
  <2>3. QED BY <2>1, <2>2 DEF HasRead
<1>3. ASSUME NEW r, HasRead(r, pages, pos, n)
      PROVE  /\ HasRead(Turn(r), pages, pos, n)
             /\ Stopped(r, pages) => Turn(r) = r
             /\ ~ Stopped(r, pages) => Turn(r).left < r.left
  <2>1. CASE Stopped(r, pages)
    BY <1>3, <2>1 DEF Stopped
  <2>2. CASE ~ Stopped(r, pages)
    <3>1. Turn(r) = CopiedTo(pages, r) /\ r.left # 0 /\ ~ AtEnd(pages, r.pos)
      BY <2>2 DEF Stopped
    <3> HIDE DEF Turn
    <3>2. HasRead(Turn(r), pages, pos, n) /\ Turn(r).left < r.left
      BY <1>3, <3>1, ReadTurn
    <3>3. QED BY <2>2, <3>2
  <2>3. QED BY <2>1, <2>2
<1>4. base \in V /\ \A r \in V : step[r] \in V
  <2> HIDE DEF base, Turn
  <2>1. base \in V
    BY <1>1, <1>2
  <2>2. ASSUME NEW r \in V PROVE step[r] \in V
    <3>1. HasRead(r, pages, pos, n)
      OBVIOUS
    <3>2. Turn(r) \in V
      BY <1>1, <1>3, <3>1
    <3> HIDE DEF V
    <3>3. QED BY <3>2
  <2>3. QED BY <2>1, <2>2
<1> HIDE DEF base, Turn
<1>5. PICK W : /\ W \in [0 .. n -> V] /\ W[0] = base
               /\ \A j \in 1 .. n : W[j] = step[W[j - 1]]
  <2> HIDE DEF V, step
  <2>1. \E W : IsIteration(W, n, V, base, step)
    BY <1>4, Iterates
  <2>2. QED BY <2>1 DEF IsIteration
<1>6. /\ \A j \in 0 .. n : W[j] \in V
      /\ \A j \in 1 .. n : W[j] = Turn(W[j - 1])
  <2>1. \A j \in 0 .. n : W[j] \in V
    BY <1>5
  <2>2. ASSUME NEW j \in 1 .. n PROVE W[j] = Turn(W[j - 1])
    <3>1. j - 1 \in 0 .. n
      OBVIOUS
    <3>2. W[j - 1] \in V
      BY <2>1, <3>1
    <3> HIDE DEF V
    <3>3. step[W[j - 1]] = Turn(W[j - 1])
      BY <3>2
    <3>4. QED BY <1>5, <3>3
  <2>3. QED BY <2>1, <2>2
<1>7. \A j \in 0 .. n : HasRead(W[j], pages, pos, n)
  BY <1>6
<1> HIDE DEF V, step
<1>8. Is([j \in 0 .. n |-> {W[j]}])
  <2> DEFINE g == [j \in 0 .. n |-> {W[j]}]
  <2>1. ASSUME NEW j \in 0 .. n
        PROVE  g[j] = IF j = 0 THEN {base}
                      ELSE {IF r.left = 0 \/ AtEnd(pages, r.pos) THEN r ELSE CopiedTo(pages, r) :
                               r \in g[j - 1]}
    <3>1. CASE j = 0
      BY <1>5, <3>1
    <3>2. CASE j # 0
      <4>1. j \in 1 .. n /\ g[j] = {W[j]} /\ g[j - 1] = {W[j - 1]}
        BY <3>2
      <4>2. W[j] = IF W[j - 1].left = 0 \/ AtEnd(pages, W[j - 1].pos) THEN W[j - 1]
                   ELSE CopiedTo(pages, W[j - 1])
        BY <1>6, <4>1 DEF Turn
      <4> HIDE DEF g
      <4>3. QED BY <3>2, <4>1, <4>2
    <3>3. QED BY <3>1, <3>2
  <2>2. QED BY <2>1
<1>9. Is(after)
  <2> HIDE DEF Is
  <2>1. QED BY <1>8
<1>10. ReadFrom(pages, pos, n) = TheOne(after[n])
  BY DEF ReadFrom, base
<1> HIDE DEF after
<1>11. /\ after[0] = {base}
       /\ \A j \in 1 .. n : after[j] =
             {IF r.left = 0 \/ AtEnd(pages, r.pos) THEN r ELSE CopiedTo(pages, r) : r \in after[j - 1]}
  <2>1. ASSUME NEW j \in 0 .. n
        PROVE  after[j] = IF j = 0 THEN {base}
                          ELSE {IF r.left = 0 \/ AtEnd(pages, r.pos) THEN r ELSE CopiedTo(pages, r) :
                                   r \in after[j - 1]}
    BY <1>9
  <2>2. 0 \in 0 .. n /\ \A j \in 1 .. n : j \in 0 .. n /\ j # 0
    OBVIOUS
  <2>3. after[0] = {base}
    BY <2>1, <2>2
  <2>4. ASSUME NEW j \in 1 .. n
        PROVE  after[j] = {IF r.left = 0 \/ AtEnd(pages, r.pos) THEN r ELSE CopiedTo(pages, r) :
                              r \in after[j - 1]}
    BY <2>1, <2>2
  <2>5. QED BY <2>3, <2>4
<1> HIDE DEF Is
<1> DEFINE Same == {m \in Nat : m <= n =>
              after[m] = {W[m]} /\ (Stopped(W[m], pages) \/ W[m].left <= n - m)}
<1>12. n \in Same
  <2>1. 0 \in Same
    BY <1>5, <1>11 DEF base
  <2>2. ASSUME NEW m \in Nat, m \in Same PROVE m + 1 \in Same
    <3>1. CASE m + 1 <= n
      <4>1. /\ m + 1 \in 1 .. n /\ (m + 1) - 1 = m /\ after[m] = {W[m]}
            /\ m \in 0 .. n /\ m + 1 \in 0 .. n
        BY <2>2, <3>1
      <4>2. after[m + 1] =
              {IF r.left = 0 \/ AtEnd(pages, r.pos) THEN r ELSE CopiedTo(pages, r) : r \in {W[m]}}
        BY <1>11, <4>1
      <4>3. W[m + 1] = IF W[m].left = 0 \/ AtEnd(pages, W[m].pos) THEN W[m] ELSE CopiedTo(pages, W[m])
        BY <1>6, <4>1 DEF Turn
      <4>4. after[m + 1] = {W[m + 1]}
        BY <4>2, <4>3
      <4>5. Stopped(W[m], pages) \/ W[m].left <= n - m
        BY <2>2, <4>1
      <4>6. /\ HasRead(W[m], pages, pos, n) /\ W[m + 1] = Turn(W[m])
            /\ W[m].left \in 0 .. n /\ W[m + 1].left \in 0 .. n
        BY <1>1, <1>6, <1>7, <4>1
      <4>7. /\ Stopped(W[m], pages) => W[m + 1] = W[m]
            /\ ~ Stopped(W[m], pages) => W[m + 1].left < W[m].left
        BY <1>3, <4>6
      <4>8. CASE Stopped(W[m], pages)
        <5>1. Stopped(W[m + 1], pages)
          BY <4>7, <4>8
        <5>2. QED BY <4>4, <5>1
      <4>9. CASE ~ Stopped(W[m], pages)
        <5>1. W[m].left <= n - m /\ W[m + 1].left < W[m].left
          BY <4>5, <4>7, <4>9
        <5>2. W[m + 1].left <= n - (m + 1)
          BY <4>6, <5>1
        <5>3. QED BY <4>4, <5>2
      <4>10. QED BY <4>8, <4>9
    <3>2. QED BY <3>1
  <2> HIDE DEF Same
  <2>3. QED BY <2>1, <2>2, SetInduction
<1>13. ReadFrom(pages, pos, n) = W[n]
  BY <1>10, <1>12 DEF TheOne
<1>14. Stopped(W[n], pages)
  <2>1. Stopped(W[n], pages) \/ W[n].left <= n - n
    BY <1>12
  <2>2. W[n].left \in 0 .. n
    BY <1>1, <1>7
  <2>3. W[n].left <= n - n => W[n].left = 0
    BY <2>2
  <2>4. QED BY <2>1, <2>3 DEF Stopped
<1>15. QED BY <1>7, <1>13, <1>14

-----------------------------------------------------------------------------
(* What every step keeps.                                                  *)
PagesInv == \A n \in Live : FileOk(node[n])

(* While it is plain, text is what the pages hold, and they are full.      *)
TextInv ==
    /\ text \in [Node -> Seq(Byte) \cup {Garbled}]
    /\ \A n \in Node \ Live : text[n] = <<>>
    /\ \A n \in Live : text[n] # Garbled => Packed(node[n].pages) /\ text[n] = Bytes(node[n].pages)

FilesInv == ProcessesTyped /\ TreeOk /\ OpenInv /\ ListingInv /\ PagesInv /\ TextInv

LensAre == \A d \in Live : /\ Len(EntriesOf(d)) = Len(node[d].entries) + 2
                            /\ Len(node[d].entries) \in Nat

(* Lists of entries have a length.                                         *)
LEMMA EntriesLen == NodesTyped => LensAre
<1> SUFFICES ASSUME NodesTyped, NEW d \in Live
             PROVE  /\ Len(EntriesOf(d)) = Len(node[d].entries) + 2
                    /\ Len(node[d].entries) \in Nat
  BY DEF LensAre
<1> DEFINE dots == <<[name |-> ".", node |-> d], [name |-> "..", node |-> node[d].parent]>>
           es == node[d].entries
           S == {dots[1], dots[2]} \cup Entry
<1>1. es \in Seq(Entry)
  BY LiveTyped
<1>2. dots \in Seq(S) /\ Len(dots) = 2
  OBVIOUS
<1>3. es \in Seq(S) /\ Len(es) \in Nat
  BY <1>1
<1>4. EntriesOf(d) = dots \o es
  BY DEF EntriesOf
<1> HIDE DEF dots, es, S
<1>5. Len(dots \o es) = Len(dots) + Len(es)
  BY <1>2, <1>3, ConcatProperties
<1>6. QED BY <1>2, <1>3, <1>4, <1>5 DEF es

(* A context that has a listing was there and had it.                      *)
ContextsKept ==
    \A p \in Process : \A id \in DOMAIN files'[p] : files'[p][id].listing # None =>
        /\ id \in DOMAIN files[p] /\ files'[p][id].node = files[p][id].node
        /\ files'[p][id].listing = files[p][id].listing

(* The directory n leads to is still there and has lost nothing.           *)
StaysListed(n) ==
    /\ n \in Live' /\ Content(n) \in Live' /\ node'[n].mounted = node[n].mounted
    /\ Len(node[Content(n)].entries) <= Len(node'[Content(n)].entries)

(* An iterator of a directory stays within the entries while the directory *)
(* of every open one keeps its own.                                        *)
LEMMA ListingKept ==
    ASSUME TreeOk, NodesTyped', ListingInv, OpenInv, ContextsKept, ProcessesTyped,
           \A p \in Process : \A id \in DOMAIN files[p] :
              files[p][id].listing # None => StaysListed(files[p][id].node)
    PROVE  ListingInv'
<1> SUFFICES ASSUME NEW p \in Process, NEW id \in DOMAIN files'[p],
                    NEW n \in Node, NEW l \in ListingType \ {None},
                    files'[p][id].node = n, files'[p][id].listing = l
             PROVE  l.dir = Content(n)' /\ l.index <= l.len /\ l.len <= Len(EntriesOf(l.dir))'
  BY DEF ListingInv
<1>1. id \in DOMAIN files[p] /\ files[p][id].node = n /\ files[p][id].listing = l /\ l # None
  BY DEF ContextsKept
<1> DEFINE d == l.dir
<1>2. d = Content(n) /\ l.index <= l.len /\ l.len <= Len(EntriesOf(d))
  BY <1>1 DEF ListingInv
<1>3. n \in Live /\ StaysListed(n)
  BY <1>1 DEF OpenInv
<1>4. d \in Live
  BY <1>2, <1>3, ContentLive, SMTT(40) DEF TreeOk
<1>5. Content(n)' = Content(n)
  BY <1>3 DEF Content, StaysListed
<1>6. \A q \in Live' : Len(EntriesOf(q))' = Len(node'[q].entries) + 2 /\ Len(node'[q].entries) \in Nat
  <2>1. (NodesTyped => LensAre)'
    BY EntriesLen, PTL
  <2>2. QED BY <2>1 DEF LensAre
<1>7. \A q \in Live : Len(EntriesOf(q)) = Len(node[q].entries) + 2 /\ Len(node[q].entries) \in Nat
  BY EntriesLen DEF TreeOk, LensAre
<1>8. /\ Len(EntriesOf(d)) = Len(node[d].entries) + 2 /\ Len(node[d].entries) \in Nat
      /\ Len(EntriesOf(d))' = Len(node'[d].entries) + 2 /\ Len(node'[d].entries) \in Nat
      /\ Len(node[d].entries) <= Len(node'[d].entries)
  <2>1. d \in Live' /\ Len(node[d].entries) <= Len(node'[d].entries)
    BY <1>2, <1>3 DEF StaysListed
  <2> HIDE DEF d
  <2>2. QED BY <1>4, <1>6, <1>7, <2>1
<1>9. l.len \in Nat
  BY DEF ListingType
<1> HIDE DEF d
<1>10. l.len <= Len(EntriesOf(d))'
  BY <1>2, <1>8, <1>9
<1>11. QED BY <1>2, <1>5, <1>10 DEF d

(* A node has what it had, or is new.                                      *)
LEMMA PagesKept ==
    ASSUME NodesTyped, PagesInv, TextInv, text' \in [Node -> Seq(Byte) \cup {Garbled}],
           \A n \in Node \ Live' : text'[n] = <<>>,
           \A n \in Live' :
              /\ text'[n] = text[n]
              /\ n \in Live => node'[n].pages = node[n].pages /\ node'[n].total = node[n].total
              /\ n \notin Live => node'[n].pages = <<>> /\ node'[n].total = 0
    PROVE  PagesInv' /\ TextInv'
<1>1. <<>> \in Seq(Seq(Byte)) /\ Len(<<>>) = 0
  OBVIOUS
<1>2. ASSUME NEW n \in Live'
      PROVE  /\ FileOk(node'[n])
             /\ text'[n] # Garbled => Packed(node'[n].pages) /\ text'[n] = Bytes(node'[n].pages)
  <2>1. CASE n \in Live
    <3>1. FileOk(node[n])
      BY <2>1 DEF PagesInv
    <3>2. text[n] # Garbled => Packed(node[n].pages) /\ text[n] = Bytes(node[n].pages)
      BY <2>1 DEF TextInv
    <3>3. QED BY <2>1, <3>1, <3>2 DEF FileOk
  <2>2. CASE n \notin Live
    <3>1. node'[n].pages = <<>> /\ node'[n].total = 0
      BY <2>2
    <3>2. FileOk(node'[n])
      BY <1>1, <3>1, BytesAppend DEF FileOk, IsPages
    <3>3. text'[n] = <<>>
      BY <2>2 DEF TextInv, Live
    <3>4. Packed(<<>>)
      BY <1>1 DEF Packed
    <3>5. QED BY <3>1, <3>2, <3>3, <3>4, BytesAppend
  <2>3. QED BY <2>1, <2>2
<1>3. QED BY <1>2 DEF PagesInv, TextInv

(* Nobody has a node open that is not in use.                              *)
LEMMA NoOpens ==
    ASSUME OpenInv, ProcessesTyped, NEW n, n \notin Live
    PROVE  OpensOf(n) = {}
BY DEF OpenInv, OpensOf

(* create_node: the tree grows.                                            *)
MadeIn(d, name, n, kind, count) ==
    [q \in Node |->
        IF q = n THEN [NewNode(kind, d) EXCEPT !.rc = count]
        ELSE IF q = d THEN [node[d] EXCEPT !.entries = Append(@, [name |-> name, node |-> n])]
        ELSE node[q]]

(* create_node in a directory where the name is not found puts a new entry *)
(* in, and with open_new_context the node is open once.                    *)
LEMMA CreatedIs ==
    ASSUME TreeOk, NEW path \in Seq(Steps), Walk(path).error = "FileNotFound", CanCreate(path),
           NEW kind, NEW n \in Node \ Live, NEW d, d = Content(Walk(Popped(path)).at)
    PROVE  /\ Created(path, kind, n) = MadeIn(d, Filename(path), n, kind, 0)
           /\ [Created(path, kind, n) EXCEPT ![n].rc = @ + 1] = MadeIn(d, Filename(path), n, kind, 1)
<1> DEFINE es == node[d].entries
           name == Filename(path)
           new == [name |-> name, node |-> n]
           Is(i) == es[i].name = name
           c == Created(path, kind, n)
<1>1. d \in Live /\ d # n /\ \A i \in 1 .. Len(es) : es[i].name # name
  BY NewName
<1>2. Put(es, name, n) = Append(es, new)
  <2>1. {i \in 1 .. Len(es) : Is(i)} = {}
    BY <1>1
  <2>2. SelectInSeq(es, LAMBDA e : e.name = name) = 0
    BY <2>1 DEF SelectInSeq
  <2>3. QED BY <2>2 DEF Put
<1>3. c = [node EXCEPT ![d].entries = Append(@, new), ![n] = NewNode(kind, d)]
  BY <1>2 DEF Created
<1>4. node = [q \in Node |-> node[q]] /\ d \in Node
  BY <1>1 DEF TreeOk, NodesTyped, Live
<1> HIDE DEF new, c, name
<1>5. /\ c = [q \in Node |-> c[q]] /\ c[n] = NewNode(kind, d)
      /\ c[d] = [node[d] EXCEPT !.entries = Append(@, new)]
      /\ \A q \in Node \ {n, d} : c[q] = node[q]
  BY <1>1, <1>3, <1>4
<1>6. NewNode(kind, d).rc = 0 /\ NewNode(kind, d) = [NewNode(kind, d) EXCEPT !.rc = 0]
  BY DEF NewNode
<1>7. c = MadeIn(d, name, n, kind, 0)
  BY <1>1, <1>5, <1>6 DEF MadeIn, new
<1> DEFINE e == [c EXCEPT ![n].rc = @ + 1]
<1>8. /\ e = [q \in Node |-> e[q]] /\ e[n] = [NewNode(kind, d) EXCEPT !.rc = 1]
      /\ \A q \in Node \ {n} : e[q] = c[q]
  BY <1>5, <1>6
<1> HIDE DEF e
<1>9. e = MadeIn(d, name, n, kind, 1)
  BY <1>1, <1>4, <1>5, <1>8 DEF MadeIn, new
<1>10. QED BY <1>7, <1>9 DEF c, e, name

(* A node made that way leaves all that is said of the nodes true, and open*)
(* ones as they are.                                                       *)
LEMMA MadeKeeps ==
    ASSUME FilesInv, NEW path \in Seq(Steps), Walk(path).error = "FileNotFound", CanCreate(path),
           NEW kind \in {"file", "directory"}, NEW n \in Node \ Live, NEW d,
           d = Content(Walk(Popped(path)).at), NEW count \in Nat,
           node' = MadeIn(d, Filename(path), n, kind, count), text' = text
    PROVE  /\ TreeOk' /\ PagesInv' /\ TextInv' /\ Live' = Live \cup {n}
           /\ \A q \in Live : StaysListed(q) /\ node'[q].rc = node[q].rc
           /\ node'[n].rc = count
           /\ Grows(d, Filename(path), n)
<1> DEFINE name == Filename(path)
           es == node[d].entries
           new == [name |-> name, node |-> n]
           made == [NewNode(kind, d) EXCEPT !.rc = count]
           more == [node[d] EXCEPT !.entries = Append(@, new)]
<1>0. TreeOk /\ NodesTyped
  BY DEF FilesInv, TreeOk
<1>1. /\ d \in Live /\ node[d].kind = "directory" /\ (d = RamRoot => Mounted) /\ d # n
      /\ name \in Name /\ \A i \in 1 .. Len(es) : es[i].name # name
  BY <1>0, NewName
<1>2. node[d] \in NodeType /\ es \in Seq(Entry) /\ d \in Node /\ Len(es) \in Nat
  BY <1>0, <1>1, LiveTyped
<1>3. new \in Entry
  BY <1>1 DEF Entry
<1> HIDE DEF new, name
<1>4. Append(es, new) \in Seq(Entry) /\ Len(Append(es, new)) = Len(es) + 1
  BY <1>2, <1>3
<1>5. more \in NodeType /\ more.entries = Append(es, new) /\ more.mounted = node[d].mounted
      /\ more.rc = node[d].rc /\ more.pages = node[d].pages /\ more.total = node[d].total
  <2> DEFINE fs == Append(es, new)
  <2>1. more = [node[d] EXCEPT !.entries = fs] /\ fs \in Seq(Entry)
    BY <1>4
  <2> HIDE DEF fs, es, more
  <2>2. [node[d] EXCEPT !.entries = fs] \in NodeType
    BY <1>2, <2>1 DEF NodeType
  <2>3. /\ [node[d] EXCEPT !.entries = fs].entries = fs
        /\ [node[d] EXCEPT !.entries = fs].mounted = node[d].mounted
        /\ [node[d] EXCEPT !.entries = fs].rc = node[d].rc
        /\ [node[d] EXCEPT !.entries = fs].pages = node[d].pages
        /\ [node[d] EXCEPT !.entries = fs].total = node[d].total
    BY <1>2 DEF NodeType
  <2>4. QED BY <2>1, <2>2, <2>3 DEF fs
<1>6. /\ made \in NodeType /\ made.parent = d /\ made.entries = <<>> /\ made.mounted = None
      /\ made.rc = count /\ made.pages = <<>> /\ made.total = 0
  <2>1. made = [kind |-> kind, parent |-> d, entries |-> <<>>, mounted |-> None,
                rc |-> count, pages |-> <<>>, total |-> 0]
    BY DEF NewNode
  <2>2. <<>> \in Seq(Entry) /\ <<>> \in Seq(Seq(Byte)) /\ d \in Node /\ kind \in {"file", "directory"}
        /\ count \in Nat /\ None \in {None, RamRoot} /\ 0 \in Nat
    BY <1>2
  <2> HIDE DEF made
  <2>3. made \in NodeType
    BY <2>1, <2>2 DEF NodeType
  <2>4. QED BY <2>1, <2>3
<1> HIDE DEF made, more, es
<1>7. /\ node' = [q \in Node |-> IF q = n THEN made ELSE IF q = d THEN more ELSE node[q]]
  BY DEF MadeIn, made, more, new, name
<1>8. /\ node'[n] = made /\ node'[d] = more /\ \A q \in Node \ {n, d} : node'[q] = node[q]
      /\ n \in Node
  BY <1>1, <1>2, <1>7
<1>9. NodesTyped'
  BY <1>0, <1>5, <1>6, <1>7 DEF NodesTyped
<1>10. Grows(d, name, n)
  <2>1. node'[n] # Free
    BY <1>6, <1>8, FilesAssumption
  <2>2. QED BY <1>6, <1>8, <1>9, <2>1 DEF Grows, more, new
<1>11. TreeOk' /\ Live' = Live \cup {n}
  BY <1>0, <1>1, <1>10, GrowsOk DEF es
<1>12. ASSUME NEW q \in Live
       PROVE  /\ node'[q].mounted = node[q].mounted /\ node'[q].rc = node[q].rc
              /\ node'[q].pages = node[q].pages /\ node'[q].total = node[q].total
              /\ Len(node[q].entries) <= Len(node'[q].entries)
  <2>1. CASE q = d
    BY <1>2, <1>4, <1>5, <1>8, <2>1, SMTT(40) DEF es
  <2>2. CASE q # d
    <3>1. q \in Node /\ q # n /\ Len(node[q].entries) \in Nat
      BY <1>0, LiveTyped DEF Live
    <3>2. QED BY <1>8, <2>2, <3>1
  <2>3. QED BY <2>1, <2>2
<1>13. \A q \in Live : StaysListed(q)
  <2>1. ASSUME NEW q \in Live PROVE StaysListed(q)
    <3>1. Content(q) \in Live
      BY <1>0, ContentLive DEF TreeOk
    <3>2. QED BY <1>11, <1>12, <3>1 DEF StaysListed
  <2>2. QED BY <2>1
<1>14. PagesInv' /\ TextInv'
  <2>1. /\ text' \in [Node -> Seq(Byte) \cup {Garbled}] /\ \A q \in Node \ Live' : text'[q] = <<>>
        /\ PagesInv /\ TextInv
    BY <1>11 DEF FilesInv, TextInv
  <2>2. \A q \in Live' :
          /\ text'[q] = text[q]
          /\ q \in Live => node'[q].pages = node[q].pages /\ node'[q].total = node[q].total
          /\ q \notin Live => node'[q].pages = <<>> /\ node'[q].total = 0
    BY <1>6, <1>8, <1>11, <1>12
  <2>3. QED BY <1>0, <2>1, <2>2, PagesKept
<1>15. node'[n].rc = count
  BY <1>6, <1>8
<1>16. QED BY <1>10, <1>11, <1>12, <1>13, <1>14, <1>15 DEF name

(* mkdir keeps the invariant.                                              *)
LEMMA CreateDirectoryKeeps ==
    ASSUME FilesInv, NEW p \in Path, CreateDirectory(p)
    PROVE  FilesInv'
<1> DEFINE path == AbsolutePath(p, <<>>)
           d == Content(Walk(Popped(path)).at)
<1>1. path \in Seq(Steps)
  <2>1. <<>> \in Seq(Name)
    OBVIOUS
  <2>2. QED BY <2>1, AbsolutePathIs
<1>2. PICK n \in Node \ Live : node' = Created(path, "directory", n)
  BY DEF CreateDirectory
<1>3. Walk(path).error = "FileNotFound" /\ CanCreate(path) /\ UNCHANGED <<files, nextId, cwd, text>>
  BY DEF CreateDirectory
<1> HIDE DEF path
<1>4. node' = MadeIn(d, Filename(path), n, "directory", 0)
  BY <1>1, <1>2, <1>3, CreatedIs DEF FilesInv
<1>5. /\ TreeOk' /\ PagesInv' /\ TextInv' /\ Live' = Live \cup {n}
      /\ \A q \in Live : StaysListed(q) /\ node'[q].rc = node[q].rc
      /\ node'[n].rc = 0
  BY <1>1, <1>3, <1>4, MadeKeeps
<1>6. ProcessesTyped'
  BY <1>3 DEF FilesInv, ProcessesTyped
<1>7. OpenInv'
  <2>1. ASSUME NEW q PROVE OpensOf(q)' = OpensOf(q)
    BY <1>3 DEF OpensOf
  <2>2. OpensOf(n) = {}
    BY NoOpens DEF FilesInv
  <2>3. IsFiniteSet({}) /\ Cardinality({}) = 0
    BY FS_EmptySet
  <2>4. ASSUME NEW q \in Live'
        PROVE  IsFiniteSet(OpensOf(q))' /\ Cardinality(OpensOf(q))' <= node'[q].rc
    <3>1. OpensOf(q)' = OpensOf(q)
      BY <2>1
    <3>2. CASE q = n
      BY <1>5, <2>2, <2>3, <3>1, <3>2
    <3>3. CASE q \in Live
      <4>1. IsFiniteSet(OpensOf(q)) /\ Cardinality(OpensOf(q)) <= node[q].rc
        BY <3>3 DEF FilesInv, OpenInv
      <4>2. node'[q].rc = node[q].rc
        BY <1>5, <3>3
      <4>3. QED BY <3>1, <4>1, <4>2
    <3>4. QED BY <1>5, <3>2, <3>3
  <2>5. QED BY <1>3, <1>5, <2>4 DEF FilesInv, OpenInv
<1>8. ListingInv'
  <2>1. ContextsKept
    BY <1>3 DEF ContextsKept
  <2>2. \A q \in Process : \A id \in DOMAIN files[q] :
            files[q][id].listing # None => StaysListed(files[q][id].node)
    BY <1>5 DEF FilesInv, OpenInv
  <2>3. QED BY <1>5, <2>1, <2>2, ListingKept DEF FilesInv, TreeOk
<1>9. QED BY <1>5, <1>6, <1>7, <1>8 DEF FilesInv

(* open_new_context: one more context, or none for want of memory; the     *)
(* count is raised all the same.                                           *)
LEMMA ContextAdded ==
    ASSUME ProcessesTyped, NEW p \in Process, NEW n \in Node, NEW i, i = nextId[p],
           i < MaxOpens, nextId' = [nextId EXCEPT ![p] = @ + 1], cwd' = cwd,
           files' = [files EXCEPT ![p] = [id \in DOMAIN @ \cup {nextId[p]} |->
                                   IF id = nextId[p] THEN NewContext(n) ELSE @[id]]]
    PROVE  /\ ProcessesTyped' /\ ContextsKept
           /\ OpensOf(n)' = OpensOf(n) \cup {<<p, i>>}
           /\ \A q \in Node \ {n} : OpensOf(q)' = OpensOf(q)
           /\ \A q \in Process : \A id \in DOMAIN files'[q] :
                 files'[q][id].node = n \/ (id \in DOMAIN files[q] /\ files'[q][id] = files[q][id])
<1> DEFINE c == NewContext(n)
           more == [id \in DOMAIN files[p] \cup {i} |-> IF id = i THEN c ELSE files[p][id]]
<1>1. /\ i \in 0 .. MaxOpens /\ MaxOpens \in Nat /\ files[p] \in [DOMAIN files[p] -> ContextType]
      /\ DOMAIN files[p] \subseteq 0 .. i - 1
  BY FilesAssumption DEF ProcessesTyped
<1>2. i \in Nat /\ i \notin DOMAIN files[p] /\ i + 1 \in 0 .. MaxOpens
  BY <1>1
<1>3. c \in ContextType /\ c.node = n /\ c.listing = None
  BY DEF NewContext, ContextType
<1> HIDE DEF c
<1>5. /\ DOMAIN more = DOMAIN files[p] \cup {i} /\ more[i] = c
      /\ \A x \in DOMAIN files[p] : more[x] = files[p][x]
      /\ more \in [DOMAIN more -> ContextType]
  BY <1>1, <1>2, <1>3
<1> HIDE DEF more
<1>6. /\ files' = [q \in Process |-> files'[q]] /\ files'[p] = more
      /\ \A q \in Process \ {p} : files'[q] = files[q]
  BY DEF ProcessesTyped, more, c
<1>7. /\ nextId' \in [Process -> 0 .. MaxOpens] /\ nextId'[p] = i + 1
      /\ \A q \in Process \ {p} : nextId'[q] = nextId[q]
  BY <1>2 DEF ProcessesTyped
<1>8. ProcessesTyped'
  <2>1. DOMAIN more \subseteq 0 .. (i + 1) - 1
    BY <1>1, <1>2, <1>5
  <2>2. QED BY <1>5, <1>6, <1>7, <2>1 DEF ProcessesTyped
<1>9. \A q \in Process : \A id \in DOMAIN files'[q] :
         \/ q = p /\ id = i /\ files'[q][id] = c
         \/ id \in DOMAIN files[q] /\ files'[q][id] = files[q][id]
  BY <1>5, <1>6
<1>10. \A q \in Process : \A id \in DOMAIN files[q] :
           id \in DOMAIN files'[q] /\ files'[q][id] = files[q][id]
  BY <1>5, <1>6
<1>11. ContextsKept
  BY <1>3, <1>9 DEF ContextsKept
<1>12. OpensOf(n)' = OpensOf(n) \cup {<<p, i>>}
  <2>1. ASSUME NEW o \in OpensOf(n)' PROVE o \in OpensOf(n) \cup {<<p, i>>}
    <3>1. o \in Process \X Nat /\ o[2] \in DOMAIN files'[o[1]] /\ files'[o[1]][o[2]].node = n
      BY DEF OpensOf
    <3>2. QED BY <1>9, <3>1 DEF OpensOf
  <2>2. ASSUME NEW o \in OpensOf(n) PROVE o \in OpensOf(n)'
    BY <1>10 DEF OpensOf
  <2>3. <<p, i>> \in OpensOf(n)'
    BY <1>2, <1>3, <1>5, <1>6 DEF OpensOf
  <2>4. QED BY <2>1, <2>2, <2>3
<1>13. ASSUME NEW q \in Node \ {n} PROVE OpensOf(q)' = OpensOf(q)
  <2>1. ASSUME NEW o \in OpensOf(q)' PROVE o \in OpensOf(q)
    <3>1. o \in Process \X Nat /\ o[2] \in DOMAIN files'[o[1]] /\ files'[o[1]][o[2]].node = q
      BY DEF OpensOf
    <3>2. QED BY <1>3, <1>9, <3>1 DEF OpensOf
  <2>2. ASSUME NEW o \in OpensOf(q) PROVE o \in OpensOf(q)'
    BY <1>10 DEF OpensOf
  <2>3. QED BY <2>1, <2>2
<1>14. QED BY <1>3, <1>8, <1>9, <1>11, <1>12, <1>13

(* A new context of a node counts as one more that has it open.            *)
LEMMA OpenContextKeeps ==
    ASSUME FilesInv, NEW p \in Process, NEW n \in Node, NEW nodes, OpenContext(p, n, nodes),
           cwd' = cwd, Live' = Live \cup {n},
           \A q \in Live \ {n} : node'[q].rc = node[q].rc,
           node'[n].rc = IF n \in Live THEN node[n].rc + 1 ELSE 1
    PROVE  ProcessesTyped' /\ ContextsKept /\ OpenInv'
<1> DEFINE i == nextId[p]
<1>0. ProcessesTyped /\ OpenInv /\ TreeOk /\ NodesTyped
  BY DEF FilesInv, TreeOk
<1>1. /\ i < MaxOpens /\ nextId' = [nextId EXCEPT ![p] = @ + 1]
      /\ files' = [files EXCEPT ![p] = [id \in DOMAIN @ \cup {nextId[p]} |->
                                   IF id = nextId[p] THEN NewContext(n) ELSE @[id]]] \/ files' = files
  BY DEF OpenContext
<1>2. i \in Nat /\ i + 1 \in 0 .. MaxOpens
  BY <1>0, <1>1, FilesAssumption DEF ProcessesTyped
<1>3. /\ IsFiniteSet(OpensOf(n)) /\ Cardinality(OpensOf(n)) \in Nat
      /\ Cardinality(OpensOf(n)) + 1 <= node'[n].rc
      /\ node'[n].rc \in Nat
  <2>1. CASE n \in Live
    <3>1. IsFiniteSet(OpensOf(n)) /\ Cardinality(OpensOf(n)) <= node[n].rc /\ node[n].rc \in Nat
      BY <1>0, <2>1, LiveTyped DEF OpenInv, NodeType
    <3>2. Cardinality(OpensOf(n)) \in Nat
      BY <3>1, FS_CardinalityType
    <3>3. QED BY <2>1, <3>1, <3>2
  <2>2. CASE n \notin Live
    <3>1. OpensOf(n) = {}
      BY <1>0, <2>2, NoOpens
    <3>2. IsFiniteSet(OpensOf(n)) /\ Cardinality(OpensOf(n)) = 0
      BY <3>1, FS_EmptySet
    <3>3. QED BY <2>2, <3>2
  <2>3. QED BY <2>1, <2>2
<1>4. CASE files' = [files EXCEPT ![p] = [id \in DOMAIN @ \cup {nextId[p]} |->
                                   IF id = nextId[p] THEN NewContext(n) ELSE @[id]]]
  <2>1. /\ ProcessesTyped' /\ ContextsKept
        /\ OpensOf(n)' = OpensOf(n) \cup {<<p, i>>}
        /\ \A q \in Node \ {n} : OpensOf(q)' = OpensOf(q)
        /\ \A q \in Process : \A id \in DOMAIN files'[q] :
              files'[q][id].node = n \/ (id \in DOMAIN files[q] /\ files'[q][id] = files[q][id])
    BY <1>0, <1>1, <1>4, ContextAdded
  <2>2. IsFiniteSet(OpensOf(n))' /\ Cardinality(OpensOf(n))' <= node'[n].rc
    <3> DEFINE S == OpensOf(n)
               o == <<p, i>>
    <3>1. IsFiniteSet(S) /\ OpensOf(n)' = S \cup {o}
      BY <1>3, <2>1
    <3> HIDE DEF S, o
    <3>2. IsFiniteSet(S \cup {o}) /\ (Cardinality(S \cup {o}) = Cardinality(S)
                                        \/ Cardinality(S \cup {o}) = Cardinality(S) + 1)
      BY <3>1, FS_AddElement
    <3>3. QED BY <1>3, <3>1, <3>2 DEF S
  <2>3. ASSUME NEW q \in Live'
        PROVE  IsFiniteSet(OpensOf(q))' /\ Cardinality(OpensOf(q))' <= node'[q].rc
    <3>1. CASE q = n
      BY <2>2, <3>1
    <3>2. CASE q # n
      <4>1. q \in Live /\ node'[q].rc = node[q].rc /\ OpensOf(q)' = OpensOf(q)
        BY <2>1, <3>2 DEF Live
      <4>2. QED BY <1>0, <4>1 DEF OpenInv
    <3>3. QED BY <3>1, <3>2
  <2>4. QED BY <1>0, <2>1, <2>3 DEF OpenInv
<1>5. CASE files' = files
  <2>1. nextId' \in [Process -> 0 .. MaxOpens] /\ \A q \in Process : nextId[q] <= nextId'[q]
    BY <1>0, <1>1, <1>2, FilesAssumption DEF ProcessesTyped
  <2>2. \A q \in Process : nextId[q] \in Nat /\ nextId'[q] \in Nat
    BY <1>0, <2>1, FilesAssumption DEF ProcessesTyped
  <2>3. ProcessesTyped'
    <3>1. ASSUME NEW q \in Process PROVE DOMAIN files[q] \subseteq 0 .. nextId'[q] - 1
      <4>1. DOMAIN files[q] \subseteq 0 .. nextId[q] - 1 /\ nextId[q] <= nextId'[q]
        BY <1>0, <2>1 DEF ProcessesTyped
      <4>2. QED BY <2>2, <4>1
    <3>2. QED BY <1>0, <1>5, <2>1, <3>1 DEF ProcessesTyped
  <2>4. ContextsKept
    BY <1>5 DEF ContextsKept
  <2>5. ASSUME NEW q PROVE OpensOf(q)' = OpensOf(q)
    BY <1>5 DEF OpensOf
  <2>6. ASSUME NEW q \in Live'
        PROVE  IsFiniteSet(OpensOf(q))' /\ Cardinality(OpensOf(q))' <= node'[q].rc
    <3>0. OpensOf(q)' = OpensOf(q)
      BY <2>5
    <3>1. CASE q = n
      <4>1. IsFiniteSet(OpensOf(n)) /\ Cardinality(OpensOf(n)) <= node'[n].rc
        BY <1>3
      <4>2. QED BY <3>0, <3>1, <4>1
    <3>2. CASE q # n
      <4>1. q \in Live /\ node'[q].rc = node[q].rc
        BY <3>2
      <4>2. QED BY <1>0, <3>0, <4>1 DEF OpenInv
    <3>3. QED BY <3>1, <3>2
  <2>7. QED BY <1>0, <1>5, <2>3, <2>4, <2>6 DEF OpenInv
<1>6. QED BY <1>1, <1>4, <1>5

(* What resolve_path answers is the walk, or an error of its own where the *)
(* path asks for a directory.                                              *)
LEMMA ResolvedIs ==
    ASSUME TreeOk, NEW path \in Path, NEW dir \in Seq(Name)
    PROVE  LET w == Walk(AbsolutePath(path, dir))
           IN  /\ IsWalk(w) /\ Arrived(w) /\ AbsolutePath(path, dir) \in Seq(Steps)
               /\ Resolved(path, dir).error = None => Resolved(path, dir) = w
               /\ Resolved(path, dir).error = "FileNotFound" => w.error = "FileNotFound"
<1> DEFINE w == Walk(AbsolutePath(path, dir))
<1>1. IsWalk(w) /\ Arrived(w) /\ AbsolutePath(path, dir) \in Seq(Steps)
  BY AbsolutePathIs, WalkArrives
<1>2. Resolved(path, dir) = w \/ Resolved(path, dir) = [w EXCEPT !.error = "NotADirectory"]
  BY DEF Resolved
<1>3. None # "NotADirectory" \/ Resolved(path, dir) = w
  BY FilesAssumption DEF Resolved
<1> HIDE DEF w
<1>4. [w EXCEPT !.error = "NotADirectory"].error = "NotADirectory"
  BY <1>1 DEF IsWalk
<1>5. QED BY <1>1, <1>2, <1>3, <1>4 DEF w

(* The creation of a file by open keeps the invariant, when memory runs out*)
(* between node and context too.                                           *)
LEMMA OpenNewKeeps ==
    ASSUME FilesInv, NEW p \in Process, NEW path \in Path, OpenNew(p, path)
    PROVE  FilesInv'
<1> DEFINE l == AbsolutePath(path, cwd[p])
           d == Content(Walk(Popped(l)).at)
<1>0. TreeOk /\ NodesTyped /\ cwd[p] \in Seq(Name)
  BY DEF FilesInv, TreeOk, ProcessesTyped
<1>1. l \in Seq(Steps) /\ Walk(l).error = "FileNotFound"
  BY <1>0, ResolvedIs DEF OpenNew
<1>2. CanCreate(l) /\ UNCHANGED <<cwd, text>>
  BY DEF OpenNew
<1>3. PICK n \in Node \ Live : OpenContext(p, n, Created(l, "file", n))
  BY DEF OpenNew
<1> HIDE DEF l
<1>4. node' = MadeIn(d, Filename(l), n, "file", 1)
  BY <1>0, <1>1, <1>2, <1>3, CreatedIs, SMTT(40) DEF OpenContext
<1>5. /\ TreeOk' /\ PagesInv' /\ TextInv' /\ Live' = Live \cup {n}
      /\ \A q \in Live : StaysListed(q) /\ node'[q].rc = node[q].rc
      /\ node'[n].rc = 1
  BY <1>1, <1>2, <1>4, MadeKeeps
<1>6. ProcessesTyped' /\ ContextsKept /\ OpenInv'
  BY <1>2, <1>3, <1>5, OpenContextKeeps
<1>7. ListingInv'
  <2>1. \A q \in Process : \A id \in DOMAIN files[q] :
            files[q][id].listing # None => StaysListed(files[q][id].node)
    BY <1>5 DEF FilesInv, OpenInv
  <2>2. QED BY <1>5, <1>6, <2>1, ListingKept DEF FilesInv, TreeOk
<1>8. QED BY <1>5, <1>6, <1>7 DEF FilesInv

(* A node that keeps all but its count, pages and total.                   *)
SameButFile(n) ==
    /\ node' = [q \in Node |-> IF q = n THEN node'[n] ELSE node[q]]
    /\ node'[n] \in NodeType
    /\ node'[n].kind = node[n].kind /\ node'[n].parent = node[n].parent
    /\ node'[n].entries = node[n].entries /\ node'[n].mounted = node[n].mounted

(* A step that changes the text or the count of one node only leaves the   *)
(* tree sound.                                                             *)
LEMMA SameButFileOk ==
    ASSUME TreeOk, NEW n \in Live, SameButFile(n)
    PROVE  /\ TreeOk' /\ Live' = Live /\ \A q \in Live \ {n} : node'[q] = node[q]
           /\ \A q \in Live : StaysListed(q)
<1>1. n \in Node /\ NodesTyped /\ node[n] # Free /\ node'[n] # Free
  BY FilesAssumption DEF TreeOk, Live, SameButFile
<1>2. NodesTyped' /\ \A q \in Node \ {n} : node'[q] = node[q]
  BY <1>1 DEF NodesTyped, SameButFile
<1>3. Live' = Live
  BY <1>1, <1>2 DEF Live
<1>4. SameTree
  BY <1>1, <1>2, <1>3 DEF SameTree, SameButFile, Live
<1>5. TreeOk'
  BY <1>4, SameTreeOk
<1>6. ASSUME NEW q \in Live PROVE StaysListed(q)
  <2>1. Content(q) \in Live
    BY ContentLive DEF TreeOk
  <2>2. Len(node[Content(q)].entries) \in Nat
    BY <1>1, <2>1, LiveTyped
  <2>3. QED BY <1>3, <1>4, <2>1, <2>2 DEF StaysListed, SameTree
<1>7. QED BY <1>2, <1>3, <1>5, <1>6 DEF Live

(* The count of a node changed is all that changes in it.                  *)
LEMMA CountSet ==
    ASSUME NEW r \in NodeType, NEW k \in Nat, NEW more, more = [r EXCEPT !.rc = k]
    PROVE  /\ more \in NodeType /\ more.rc = k
           /\ more.kind = r.kind /\ more.parent = r.parent
           /\ more.entries = r.entries /\ more.mounted = r.mounted
           /\ more.pages = r.pages /\ more.total = r.total
<1>1. [r EXCEPT !.rc = k] \in NodeType
  BY DEF NodeType
<1>2. QED BY <1>1 DEF NodeType

(* The opening of a node there is keeps the invariant.                     *)
LEMMA OpenKeeps ==
    ASSUME FilesInv, NEW p \in Process, NEW path \in Path, NEW kind, Open(p, path, kind)
    PROVE  FilesInv'
<1> DEFINE n == Resolved(path, cwd[p]).at
<1>0. TreeOk /\ NodesTyped /\ cwd[p] \in Seq(Name)
  BY DEF FilesInv, TreeOk, ProcessesTyped
<1>1. Resolved(path, cwd[p]).error = None /\ OpenContext(p, n, node) /\ UNCHANGED <<cwd, text>>
  BY DEF Open, ResolvesTo
<1>2. n \in Live
  BY <1>0, <1>1, ResolvedIs DEF Arrived
<1> HIDE DEF n
<1>3. n \in Node /\ node[n] \in NodeType /\ node[n].rc \in Nat
  BY <1>0, <1>2, LiveTyped DEF NodeType
<1> DEFINE more == [node[n] EXCEPT !.rc = @ + 1]
<1>4. /\ more \in NodeType /\ more.rc = node[n].rc + 1
      /\ more.kind = node[n].kind /\ more.parent = node[n].parent
      /\ more.entries = node[n].entries /\ more.mounted = node[n].mounted
      /\ more.pages = node[n].pages /\ more.total = node[n].total
  <2>1. more = [node[n] EXCEPT !.rc = node[n].rc + 1] /\ node[n].rc + 1 \in Nat
    BY <1>3
  <2> HIDE DEF more
  <2>2. QED BY <1>3, <2>1, CountSet
<1>5. node' = [node EXCEPT ![n] = more]
  BY <1>1 DEF OpenContext
<1> HIDE DEF more
<1>6. SameButFile(n) /\ node'[n] = more
  BY <1>0, <1>3, <1>4, <1>5 DEF SameButFile, NodesTyped
<1>7. /\ TreeOk' /\ Live' = Live /\ \A q \in Live \ {n} : node'[q] = node[q]
      /\ \A q \in Live : StaysListed(q)
  BY <1>0, <1>2, <1>6, SameButFileOk
<1>8. ProcessesTyped' /\ ContextsKept /\ OpenInv'
  <2>1. \A q \in Live \ {n} : node'[q].rc = node[q].rc
    BY <1>7
  <2>2. node'[n].rc = IF n \in Live THEN node[n].rc + 1 ELSE 1
    BY <1>2, <1>4, <1>6
  <2>3. Live' = Live \cup {n}
    BY <1>2, <1>7
  <2>4. QED BY <1>1, <1>3, <2>1, <2>2, <2>3, OpenContextKeeps
<1>9. ListingInv'
  <2>1. \A q \in Process : \A id \in DOMAIN files[q] :
            files[q][id].listing # None => StaysListed(files[q][id].node)
    BY <1>7 DEF FilesInv, OpenInv
  <2>2. QED BY <1>0, <1>7, <1>8, <2>1, ListingKept DEF FilesInv, TreeOk
<1>10. PagesInv' /\ TextInv'
  <2>1. /\ text' \in [Node -> Seq(Byte) \cup {Garbled}] /\ \A q \in Node \ Live' : text'[q] = <<>>
        /\ PagesInv /\ TextInv
    BY <1>1, <1>7 DEF FilesInv, TextInv
  <2>2. \A q \in Live' :
          /\ text'[q] = text[q]
          /\ q \in Live => node'[q].pages = node[q].pages /\ node'[q].total = node[q].total
          /\ q \notin Live => node'[q].pages = <<>> /\ node'[q].total = 0
    BY <1>1, <1>4, <1>6, <1>7
  <2>3. QED BY <1>0, <2>1, <2>2, PagesKept
<1>11. QED BY <1>7, <1>8, <1>9, <1>10 DEF FilesInv

(* Calls that leave the nodes alone.                                       *)
LEMMA SameNodes ==
    ASSUME FilesInv, node' = node, text' = text
    PROVE  /\ TreeOk' /\ PagesInv' /\ TextInv' /\ Live' = Live
           /\ \A q \in Live : StaysListed(q)
<1>1. Live' = Live
  BY DEF Live
<1>2. TreeOk /\ NodesTyped
  BY DEF FilesInv, TreeOk
<1>3. TreeOk'
  <2>1. SameTree
    BY <1>1, <1>2 DEF SameTree, NodesTyped
  <2>2. QED BY <1>2, <2>1, SameTreeOk
<1>4. ASSUME NEW q \in Live PROVE StaysListed(q)
  <2>1. Content(q) \in Live
    BY <1>2, ContentLive DEF TreeOk
  <2>2. Len(node[Content(q)].entries) \in Nat
    BY <1>2, <2>1, LiveTyped
  <2>3. QED BY <1>1, <2>1, <2>2 DEF StaysListed
<1>5. PagesInv' /\ TextInv'
  BY <1>1 DEF FilesInv, PagesInv, TextInv
<1>6. QED BY <1>1, <1>3, <1>4, <1>5

(* A context that is still of the node it was of.                          *)
IsChanged(p, id, c) ==
    /\ \A q \in Process : DOMAIN files'[q] = DOMAIN files[q]
    /\ \A q \in Process : \A i \in DOMAIN files[q] :
          files'[q][i] = IF q = p /\ i = id THEN c ELSE files[q][i]

(* A context that changes and keeps its node is open as before.            *)
LEMMA ContextChanged ==
    ASSUME ProcessesTyped, NEW p \in Process, NEW id \in DOMAIN files[p],
           NEW c \in ContextType, c.node = files[p][id].node,
           files' = [files EXCEPT ![p] = [@ EXCEPT ![id] = c]], nextId' = nextId, cwd' = cwd
    PROVE  /\ ProcessesTyped' /\ IsChanged(p, id, c)
           /\ \A q \in Node : OpensOf(q)' = OpensOf(q)
<1> DEFINE more == [files[p] EXCEPT ![id] = c]
<1>1. files[p] \in [DOMAIN files[p] -> ContextType]
  BY DEF ProcessesTyped
<1>2. /\ DOMAIN more = DOMAIN files[p] /\ more \in [DOMAIN more -> ContextType]
      /\ \A i \in DOMAIN files[p] : more[i] = IF i = id THEN c ELSE files[p][i]
  BY <1>1
<1>3. /\ files' = [q \in Process |-> files'[q]] /\ files'[p] = more
      /\ \A q \in Process \ {p} : files'[q] = files[q]
  BY DEF ProcessesTyped
<1> HIDE DEF more
<1>4. ProcessesTyped'
  BY <1>2, <1>3 DEF ProcessesTyped
<1>5. IsChanged(p, id, c)
  BY <1>2, <1>3 DEF IsChanged
<1>6. \A q \in Process : \A i \in DOMAIN files[q] : files'[q][i].node = files[q][i].node
  BY <1>5 DEF IsChanged
<1>7. ASSUME NEW q \in Node PROVE OpensOf(q)' = OpensOf(q)
  <2>1. ASSUME NEW o \in OpensOf(q)' PROVE o \in OpensOf(q)
    <3>1. o \in Process \X Nat /\ o[2] \in DOMAIN files'[o[1]] /\ files'[o[1]][o[2]].node = q
      BY DEF OpensOf
    <3>2. QED BY <1>5, <1>6, <3>1 DEF OpensOf, IsChanged
  <2>2. ASSUME NEW o \in OpensOf(q) PROVE o \in OpensOf(q)'
    <3>1. o \in Process \X Nat /\ o[2] \in DOMAIN files[o[1]] /\ files[o[1]][o[2]].node = q
      BY DEF OpensOf
    <3>2. QED BY <1>5, <1>6, <3>1 DEF OpensOf, IsChanged
  <2>3. QED BY <2>1, <2>2
<1>8. QED BY <1>4, <1>5, <1>7

(* So the counts of the nodes stay right.                                  *)
LEMMA ChangeKeepsOpens ==
    ASSUME ProcessesTyped, NodesTyped, OpenInv, NEW p \in Process, NEW id \in DOMAIN files[p], NEW c,
           c.node = files[p][id].node, IsChanged(p, id, c),
           \A q \in Node : OpensOf(q)' = OpensOf(q), Live' = Live,
           \A q \in Live : node'[q].rc = node[q].rc
    PROVE  OpenInv'
<1>1. ASSUME NEW q \in Live'
      PROVE  IsFiniteSet(OpensOf(q))' /\ Cardinality(OpensOf(q))' <= node'[q].rc
  <2>1. q \in Live /\ node'[q].rc = node[q].rc /\ OpensOf(q)' = OpensOf(q)
    BY DEF Live
  <2>2. QED BY <2>1 DEF OpenInv
<1>2. QED BY <1>1 DEF OpenInv, IsChanged

(* What moves the position of a file.                                      *)
LEMMA MoveKeeps ==
    ASSUME FilesInv, NEW p \in Process, NEW id \in DOMAIN files[p], NEW pos \in Nat,
           files' = [files EXCEPT ![p][id].pos = pos], nextId' = nextId, cwd' = cwd,
           TreeOk', Live' = Live, \A q \in Live : StaysListed(q) /\ node'[q].rc = node[q].rc
    PROVE  ProcessesTyped' /\ OpenInv' /\ ListingInv'
<1> DEFINE c == files[p][id]
           d == [c EXCEPT !.pos = pos]
<1>0. ProcessesTyped /\ TreeOk /\ NodesTyped /\ OpenInv
  BY DEF FilesInv, TreeOk
<1>1. c \in ContextType
  BY <1>0 DEF ProcessesTyped
<1>2. d \in ContextType /\ d.node = c.node /\ d.listing = c.listing
  <2> HIDE DEF c
  <2>1. [c EXCEPT !.pos = pos] \in ContextType
    BY <1>1 DEF ContextType
  <2>2. QED BY <1>1, <2>1 DEF ContextType
<1>3. files' = [files EXCEPT ![p] = [@ EXCEPT ![id] = d]]
  OBVIOUS
<1> HIDE DEF d
<1>4. /\ ProcessesTyped' /\ IsChanged(p, id, d)
      /\ \A q \in Node : OpensOf(q)' = OpensOf(q)
  <2>1. d \in ContextType /\ d.node = files[p][id].node
    BY <1>2
  <2> HIDE DEF c
  <2>2. QED BY <1>0, <1>3, <2>1, ContextChanged, ZenonT(60)
<1>5. OpenInv'
  BY <1>0, <1>2, <1>4, ChangeKeepsOpens
<1>6. ContextsKept
  BY <1>2, <1>4 DEF ContextsKept, IsChanged
<1>7. ListingInv'
  <2>1. \A q \in Process : \A i \in DOMAIN files[q] :
            files[q][i].listing # None => StaysListed(files[q][i].node)
    BY <1>0 DEF OpenInv
  <2>2. QED BY <1>0, <1>6, <2>1, ListingKept DEF FilesInv, TreeOk
<1>8. QED BY <1>4, <1>5, <1>7

(* seek keeps the invariant.                                               *)
LEMMA SeekKeeps ==
    ASSUME FilesInv, NEW p \in Process, NEW id \in DOMAIN files[p],
           NEW offset, NEW t, Seek(p, id, offset, t)
    PROVE  FilesInv'
<1>1. PICK pos \in 0 .. MaxBytes : files' = [files EXCEPT ![p][id].pos = pos]
  BY DEF Seek
<1>2. pos \in Nat /\ UNCHANGED <<node, nextId, cwd, text>>
  BY FilesAssumption DEF Seek
<1>3. /\ TreeOk' /\ PagesInv' /\ TextInv' /\ Live' = Live
      /\ \A q \in Live : StaysListed(q)
  BY <1>2, SameNodes
<1>4. ProcessesTyped' /\ OpenInv' /\ ListingInv'
  BY <1>1, <1>2, <1>3, MoveKeeps
<1>5. QED BY <1>3, <1>4 DEF FilesInv

(* read keeps the invariant.                                               *)
LEMMA ReadKeeps ==
    ASSUME FilesInv, NEW p \in Process, NEW id \in DOMAIN files[p], NEW n \in Nat, Read(p, id, n)
    PROVE  FilesInv'
<1> DEFINE c == files[p][id]
           r == ReadFrom(node[c.node].pages, c.pos, n)
<1>1. files' = [files EXCEPT ![p][id].pos = r.pos] /\ UNCHANGED <<node, nextId, cwd, text>>
  BY DEF Read
<1>2. c \in ContextType /\ c.node \in Live /\ c.pos \in Nat
  <2>1. c \in ContextType /\ c.node \in Live
    BY DEF FilesInv, ProcessesTyped, OpenInv
  <2>2. QED BY <2>1 DEF ContextType
<1> HIDE DEF c
<1>3. FileOk(node[c.node])
  BY <1>2 DEF FilesInv, PagesInv
<1>4. HasRead(r, node[c.node].pages, c.pos, n)
  BY <1>2, <1>3, ReadFromIs DEF FileOk
<1> HIDE DEF r
<1>5. r.pos \in Nat
  BY <1>2, <1>4 DEF HasRead
<1>6. /\ TreeOk' /\ PagesInv' /\ TextInv' /\ Live' = Live
      /\ \A q \in Live : StaysListed(q)
  BY <1>1, SameNodes
<1>7. ProcessesTyped' /\ OpenInv' /\ ListingInv'
  BY <1>1, <1>5, <1>6, MoveKeeps
<1>8. QED BY <1>6, <1>7 DEF FilesInv

(* set_cwd keeps the invariant.                                            *)
LEMMA SetCwdKeeps ==
    ASSUME FilesInv, NEW p \in Process, NEW path \in Path, SetCwd(p, path)
    PROVE  FilesInv'
<1>0. ProcessesTyped /\ TreeOk /\ cwd[p] \in Seq(Name)
  BY DEF FilesInv, ProcessesTyped
<1>1. /\ Resolved(path, cwd[p]).error = None /\ cwd' = [cwd EXCEPT ![p] = Resolved(path, cwd[p]).path]
      /\ UNCHANGED <<node, files, nextId, text>>
  BY DEF SetCwd, ResolvesTo
<1>2. Resolved(path, cwd[p]).path \in Seq(Name)
  BY <1>0, <1>1, ResolvedIs DEF Arrived
<1>3. ProcessesTyped'
  BY <1>0, <1>1, <1>2 DEF ProcessesTyped
<1>4. /\ TreeOk' /\ PagesInv' /\ TextInv' /\ Live' = Live
      /\ \A q \in Live : StaysListed(q)
  BY <1>1, SameNodes
<1>5. OpenInv'
  <2>1. ASSUME NEW q PROVE OpensOf(q)' = OpensOf(q)
    BY <1>1 DEF OpensOf
  <2>2. ASSUME NEW q \in Live' PROVE IsFiniteSet(OpensOf(q))' /\ Cardinality(OpensOf(q))' <= node'[q].rc
    <3>1. OpensOf(q)' = OpensOf(q) /\ q \in Live
      BY <1>4, <2>1
    <3>2. QED BY <1>1, <3>1 DEF FilesInv, OpenInv
  <2>3. QED BY <1>1, <1>4, <2>2 DEF FilesInv, OpenInv
<1>6. ListingInv'
  <2>1. ContextsKept
    BY <1>1 DEF ContextsKept
  <2>2. \A q \in Process : \A i \in DOMAIN files[q] :
            files[q][i].listing # None => StaysListed(files[q][i].node)
    BY <1>4 DEF FilesInv, OpenInv
  <2>3. QED BY <1>4, <2>1, <2>2, ListingKept DEF FilesInv, TreeOk
<1>7. QED BY <1>3, <1>4, <1>5, <1>6 DEF FilesInv

(* The reading of a directory keeps the invariant: the entries of an open  *)
(* directory are never removed.                                            *)
LEMMA ReadDirectoryKeeps ==
    ASSUME FilesInv, NEW p \in Process, NEW id \in DOMAIN files[p], ReadDirectory(p, id)
    PROVE  FilesInv'
<1> DEFINE c == files[p][id]
           d == Content(c.node)
           listing == IF c.listing # None THEN c.listing
                      ELSE [dir |-> d, index |-> 0, len |-> Len(EntriesOf(d))]
           next == [listing EXCEPT !.index = Least(listing.index + 1, listing.len)]
           e == [c EXCEPT !.listing = next]
<1>0. ProcessesTyped /\ TreeOk /\ NodesTyped /\ OpenInv /\ ListingInv
  BY DEF FilesInv, TreeOk
<1>1. files' = [files EXCEPT ![p][id].listing = next] /\ UNCHANGED <<node, nextId, cwd, text>>
  BY DEF ReadDirectory
<1>2. c \in ContextType /\ c.node \in Live /\ c.node \in Node /\ c.listing \in ListingType \cup {None}
  <2>1. c \in ContextType /\ c.node \in Live
    BY <1>0 DEF ProcessesTyped, OpenInv
  <2>2. QED BY <2>1 DEF ContextType
<1>3. d \in Live /\ d \in Node /\ Len(EntriesOf(d)) \in Nat
  <2>1. d \in Live
    BY <1>0, <1>2, ContentLive DEF TreeOk
  <2> HIDE DEF d
  <2>2. Len(EntriesOf(d)) = Len(node[d].entries) + 2 /\ Len(node[d].entries) \in Nat
    BY <1>0, <2>1, EntriesLen DEF LensAre
  <2>3. QED BY <2>1, <2>2 DEF Live
<1>4. /\ listing \in ListingType /\ listing.dir = d
      /\ listing.index <= listing.len /\ listing.len <= Len(EntriesOf(d))
  <2>1. CASE c.listing # None
    <3>1. listing = c.listing /\ c.listing \in ListingType \ {None}
      BY <1>2, <2>1
    <3>2. c.listing.dir = d /\ c.listing.index <= c.listing.len
          /\ c.listing.len <= Len(EntriesOf(c.listing.dir))
      BY <1>0, <1>2, <3>1 DEF ListingInv
    <3>3. QED BY <3>1, <3>2
  <2>2. CASE c.listing = None
    <3>1. listing = [dir |-> d, index |-> 0, len |-> Len(EntriesOf(d))]
      BY <2>2
    <3> HIDE DEF d, listing
    <3>2. QED BY <1>3, <3>1 DEF ListingType
  <2>3. QED BY <2>1, <2>2
<1> HIDE DEF listing
<1>5. /\ next \in ListingType /\ next.dir = d
      /\ next.index <= next.len /\ next.len <= Len(EntriesOf(d))
  <2>1. listing.index \in Nat /\ listing.len \in Nat
    BY <1>4 DEF ListingType
  <2>2. /\ Least(listing.index + 1, listing.len) \in Nat
        /\ Least(listing.index + 1, listing.len) <= listing.len
    BY <2>1 DEF Least
  <2>3. [listing EXCEPT !.index = Least(listing.index + 1, listing.len)] \in ListingType
    BY <1>4, <2>2 DEF ListingType
  <2> HIDE DEF d
  <2>4. QED BY <1>4, <2>2, <2>3 DEF ListingType
<1> HIDE DEF next
<1>6. e \in ContextType /\ e.node = c.node /\ e.listing = next
  <2> HIDE DEF c
  <2>1. [c EXCEPT !.listing = next] \in ContextType
    BY <1>2, <1>5 DEF ContextType
  <2>2. QED BY <1>2, <2>1 DEF ContextType
<1>7. files' = [files EXCEPT ![p] = [@ EXCEPT ![id] = e]]
  BY <1>1
<1> HIDE DEF e
<1>8. /\ ProcessesTyped' /\ IsChanged(p, id, e)
      /\ \A q \in Node : OpensOf(q)' = OpensOf(q)
  <2>1. e \in ContextType /\ e.node = files[p][id].node
    BY <1>6
  <2> HIDE DEF c
  <2>2. QED BY <1>0, <1>1, <1>7, <2>1, ContextChanged, ZenonT(60)
<1>9. /\ TreeOk' /\ PagesInv' /\ TextInv' /\ Live' = Live
      /\ \A q \in Live : StaysListed(q)
  BY <1>1, SameNodes
<1>10. OpenInv'
  <2>1. e.node = files[p][id].node /\ \A q \in Live : node'[q].rc = node[q].rc
    BY <1>1, <1>6
  <2>2. QED BY <1>0, <1>8, <1>9, <2>1, ChangeKeepsOpens
<1>11. ListingInv'
  <2> SUFFICES ASSUME NEW q \in Process, NEW i \in DOMAIN files'[q],
                      NEW n \in Node, NEW l \in ListingType \ {None},
                      files'[q][i].node = n, files'[q][i].listing = l
               PROVE  l.dir = Content(n)' /\ l.index <= l.len /\ l.len <= Len(EntriesOf(l.dir))'
    BY DEF ListingInv
  <2>1. \A x \in Node : Content(x)' = Content(x) /\ Len(EntriesOf(x))' = Len(EntriesOf(x))
    BY <1>1 DEF Content, EntriesOf
  <2>2. l.dir = Content(n) /\ l.dir \in Node /\ l.index <= l.len /\ l.len <= Len(EntriesOf(l.dir))
    <3>0. l.dir \in Node
      BY DEF ListingType
    <3>1. CASE q = p /\ i = id
      <4>1. l = next /\ n = c.node
        BY <1>6, <1>8, <3>1 DEF IsChanged
      <4>2. QED BY <1>5, <3>0, <4>1
    <3>2. CASE ~ (q = p /\ i = id)
      <4>1. i \in DOMAIN files[q] /\ files[q][i].node = n /\ files[q][i].listing = l
        BY <1>8, <3>2 DEF IsChanged
      <4>2. QED BY <1>0, <3>0, <4>1 DEF ListingInv
    <3>3. QED BY <3>1, <3>2
  <2> DEFINE x == l.dir
  <2>3. x \in Node /\ Len(EntriesOf(x))' = Len(EntriesOf(x)) /\ Content(n)' = Content(n)
    BY <2>1, <2>2
  <2>4. QED BY <2>2, <2>3
<1>12. QED BY <1>8, <1>9, <1>10, <1>11 DEF FilesInv

(* mount keeps the invariant.                                              *)
LEMMA MountKeeps ==
    ASSUME FilesInv, NEW p \in Path, Mount(p)
    PROVE  FilesInv'
<1> DEFINE d == Resolved(p, <<>>).at
<1>0. TreeOk /\ NodesTyped /\ ProcessesTyped /\ <<>> \in Seq(Name)
  BY DEF FilesInv, TreeOk
<1>1. /\ Resolved(p, <<>>).error = None /\ node' = [node EXCEPT ![d].mounted = RamRoot]
      /\ \A n \in Live : node[n].mounted # RamRoot
      /\ \A q \in Process : nextId[q] = 0
      /\ UNCHANGED <<files, nextId, cwd, text>>
  BY DEF Mount, ResolvesTo
<1>2. d \in Live /\ (d = RamRoot => Mounted)
  BY <1>0, <1>1, ResolvedIs DEF Arrived
<1>3. d # RamRoot
  BY <1>1, <1>2 DEF Mounted
<1> HIDE DEF d
<1>4. TreeOk' /\ Live' = Live
  BY <1>0, <1>1, <1>2, <1>3, MountsOk
<1>5. \A q \in Process : DOMAIN files[q] = {}
  BY <1>0, <1>1 DEF ProcessesTyped
<1>6. ProcessesTyped'
  BY <1>0, <1>1 DEF ProcessesTyped
<1>7. OpenInv'
  <2>1. ASSUME NEW q \in Live'
        PROVE  IsFiniteSet(OpensOf(q))' /\ Cardinality(OpensOf(q))' <= node'[q].rc
    <3>1. OpensOf(q)' = {}
      BY <1>1, <1>5 DEF OpensOf
    <3>2. node'[q] \in NodeType
      BY <1>4, LiveTyped DEF TreeOk, NodesTyped, Live
    <3>3. node'[q].rc \in Nat
      BY <3>2 DEF NodeType
    <3>4. QED BY <3>1, <3>3, FS_EmptySet
  <2>2. QED BY <1>1, <1>5, <2>1 DEF OpenInv
<1>8. ListingInv'
  BY <1>1, <1>5 DEF ListingInv
<1>9. PagesInv' /\ TextInv'
  <2>0. d \in Node /\ node[d] \in NodeType
    BY <1>0, <1>2, LiveTyped
  <2>1. \A q \in Live : node'[q].pages = node[q].pages /\ node'[q].total = node[q].total
    <3> SUFFICES ASSUME NEW q \in Live
                 PROVE  node'[q].pages = node[q].pages /\ node'[q].total = node[q].total
      OBVIOUS
    <3>1. CASE q = d
      <4> DEFINE more == [node[d] EXCEPT !.mounted = RamRoot]
      <4>1. node'[q] = more
        BY <1>0, <1>1, <2>0, <3>1 DEF NodesTyped
      <4>2. more.pages = node[d].pages /\ more.total = node[d].total
        BY <2>0 DEF NodeType
      <4>3. QED BY <3>1, <4>1, <4>2
    <3>2. CASE q # d
      BY <1>0, <1>1, <2>0, <3>2 DEF Live, NodesTyped
    <3>3. QED BY <3>1, <3>2
  <2>2. /\ text' \in [Node -> Seq(Byte) \cup {Garbled}] /\ \A q \in Node \ Live' : text'[q] = <<>>
        /\ PagesInv /\ TextInv
    BY <1>1, <1>4 DEF FilesInv, TextInv
  <2>3. \A q \in Live' :
          /\ text'[q] = text[q]
          /\ q \in Live => node'[q].pages = node[q].pages /\ node'[q].total = node[q].total
          /\ q \notin Live => node'[q].pages = <<>> /\ node'[q].total = 0
    BY <1>1, <1>4, <2>1
  <2>4. QED BY <1>0, <2>2, <2>3, PagesKept
<1>10. QED BY <1>4, <1>6, <1>7, <1>8, <1>9 DEF FilesInv

(* close: the context goes, and the count of its node is lowered.          *)
LEMMA CloseKeeps ==
    ASSUME FilesInv, NEW p \in Process, NEW id, Close(p, id)
    PROVE  FilesInv'
<1> DEFINE n == files[p][id].node
           k == IF node[n].rc > 0 THEN node[n].rc - 1 ELSE 0
           o == <<p, id>>
           less == [i \in DOMAIN files[p] \ {id} |-> files[p][i]]
           more == [node[n] EXCEPT !.rc = k]
<1>0. ProcessesTyped /\ TreeOk /\ NodesTyped /\ OpenInv
  BY DEF FilesInv, TreeOk
<1>1. /\ id \in DOMAIN files[p] /\ node' = [node EXCEPT ![n] = more]
      /\ files' = [files EXCEPT ![p] = less] /\ UNCHANGED <<nextId, cwd, text>>
  BY DEF Close
<1>2. n \in Live /\ id \in Nat /\ files[p] \in [DOMAIN files[p] -> ContextType]
  <2>1. DOMAIN files[p] \subseteq 0 .. nextId[p] - 1
    BY <1>0 DEF ProcessesTyped
  <2>2. QED BY <1>0, <1>1, <2>1 DEF OpenInv, ProcessesTyped
<1>3. o \in OpensOf(n)
  BY <1>1, <1>2 DEF OpensOf
<1>4. n \in Node /\ node[n] \in NodeType /\ node[n].rc \in Nat
  <2> HIDE DEF n
  <2>1. QED BY <1>0, <1>2, LiveTyped DEF NodeType
<1>5. DOMAIN less = DOMAIN files[p] \ {id} /\ \A i \in DOMAIN less : less[i] = files[p][i]
  OBVIOUS
<1>6. less \in [DOMAIN less -> ContextType]
  BY <1>2
<1>7. /\ files' = [q \in Process |-> files'[q]] /\ files'[p] = less
      /\ \A q \in Process \ {p} : files'[q] = files[q]
  BY <1>0, <1>1 DEF ProcessesTyped
<1>8. k \in Nat /\ \A m \in Nat : m + 1 <= node[n].rc => m <= k
  BY <1>4
<1>n. n = files[p][id].node
  OBVIOUS
<1> HIDE DEF less, n, k
<1>9. /\ more \in NodeType /\ more.rc = k
      /\ more.kind = node[n].kind /\ more.parent = node[n].parent
      /\ more.entries = node[n].entries /\ more.mounted = node[n].mounted
      /\ more.pages = node[n].pages /\ more.total = node[n].total
  BY <1>4, <1>8, CountSet
<1> HIDE DEF more
<1>10. SameButFile(n) /\ node'[n] = more
  BY <1>0, <1>1, <1>4, <1>9 DEF SameButFile, NodesTyped
<1>11. /\ TreeOk' /\ Live' = Live /\ \A q \in Live \ {n} : node'[q] = node[q]
       /\ \A q \in Live : StaysListed(q)
  BY <1>0, <1>2, <1>10, SameButFileOk
<1>12. ProcessesTyped'
  <2>1. DOMAIN less \subseteq 0 .. nextId[p] - 1
    BY <1>0, <1>5 DEF ProcessesTyped
  <2>2. QED BY <1>0, <1>1, <1>6, <1>7, <2>1 DEF ProcessesTyped
<1>13. \A q \in Process : \A i \in DOMAIN files'[q] :
           i \in DOMAIN files[q] /\ files'[q][i] = files[q][i] /\ ~ (q = p /\ i = id)
  BY <1>5, <1>7
<1>14. \A q \in Process : \A i \in DOMAIN files[q] :
           (q = p /\ i = id) \/ (i \in DOMAIN files'[q] /\ files'[q][i] = files[q][i])
  BY <1>5, <1>7
<1>15. ASSUME NEW q \in Node PROVE OpensOf(q)' = OpensOf(q) \ {o}
  <2>1. ASSUME NEW x \in OpensOf(q)' PROVE x \in OpensOf(q) \ {o}
    <3>1. x \in Process \X Nat /\ x[2] \in DOMAIN files'[x[1]] /\ files'[x[1]][x[2]].node = q
      BY DEF OpensOf
    <3>2. QED BY <1>13, <3>1 DEF OpensOf
  <2>2. ASSUME NEW x \in OpensOf(q) \ {o} PROVE x \in OpensOf(q)'
    <3>1. x \in Process \X Nat /\ x[2] \in DOMAIN files[x[1]] /\ files[x[1]][x[2]].node = q
      BY DEF OpensOf
    <3>2. ~ (x[1] = p /\ x[2] = id)
      BY <3>1
    <3>3. QED BY <1>14, <3>1, <3>2 DEF OpensOf
  <2>3. QED BY <2>1, <2>2
<1> HIDE DEF o
<1>16. OpenInv'
  <2>1. ASSUME NEW q \in Live'
        PROVE  IsFiniteSet(OpensOf(q))' /\ Cardinality(OpensOf(q))' <= node'[q].rc
    <3> DEFINE S == OpensOf(q)
    <3>1. q \in Live /\ IsFiniteSet(S) /\ Cardinality(S) <= node[q].rc /\ OpensOf(q)' = S \ {o}
      BY <1>0, <1>11, <1>15 DEF OpenInv, Live
    <3>2. q = n => o \in S
      BY <1>3
    <3>3. node[q].rc \in Nat
      BY <1>0, <3>1, LiveTyped DEF NodeType
    <3> HIDE DEF S
    <3>4. /\ IsFiniteSet(S \ {o}) /\ Cardinality(S) \in Nat /\ Cardinality(S \ {o}) \in Nat
          /\ Cardinality(S \ {o}) = IF o \in S THEN Cardinality(S) - 1 ELSE Cardinality(S)
      BY <3>1, FS_RemoveElement, FS_CardinalityType
    <3>5. CASE q = n
      <4>1. Cardinality(S \ {o}) + 1 <= node[n].rc /\ node'[n].rc = k
        BY <1>9, <1>10, <3>1, <3>2, <3>4, <3>5
      <4>2. Cardinality(S \ {o}) <= k
        BY <1>8, <3>4, <4>1
      <4>3. QED BY <3>1, <3>4, <3>5, <4>1, <4>2
    <3>6. CASE q # n
      <4>1. node'[q].rc = node[q].rc
        BY <1>11, <3>1, <3>6
      <4>2. Cardinality(S \ {o}) <= node[q].rc
        BY <3>1, <3>3, <3>4
      <4>3. QED BY <3>1, <3>4, <4>1, <4>2
    <3>7. QED BY <3>5, <3>6
  <2>2. QED BY <1>0, <1>11, <1>13, <2>1 DEF OpenInv
<1>17. ListingInv'
  <2>1. ContextsKept
    BY <1>13 DEF ContextsKept
  <2>2. \A q \in Process : \A i \in DOMAIN files[q] :
            files[q][i].listing # None => StaysListed(files[q][i].node)
    BY <1>0, <1>11 DEF OpenInv
  <2>3. QED BY <1>0, <1>11, <2>1, <2>2, ListingKept DEF FilesInv, TreeOk
<1>18. PagesInv' /\ TextInv'
  <2>1. /\ text' \in [Node -> Seq(Byte) \cup {Garbled}] /\ \A q \in Node \ Live' : text'[q] = <<>>
        /\ PagesInv /\ TextInv
    BY <1>1, <1>11 DEF FilesInv, TextInv
  <2>2. \A q \in Live' :
          /\ text'[q] = text[q]
          /\ q \in Live => node'[q].pages = node[q].pages /\ node'[q].total = node[q].total
          /\ q \notin Live => node'[q].pages = <<>> /\ node'[q].total = 0
    BY <1>1, <1>9, <1>10, <1>11
  <2>3. QED BY <1>0, <2>1, <2>2, PagesKept
<1>19. QED BY <1>11, <1>12, <1>16, <1>17, <1>18 DEF FilesInv

(* write_impl, however many of its turns there was memory for.             *)
LEMMA WriteKeeps ==
    ASSUME FilesInv, NEW p \in Process, NEW id \in DOMAIN files[p], NEW data \in Data,
           Write(p, id, data)
    PROVE  FilesInv' /\ Live' = Live
<1> DEFINE c == files[p][id]
           n == c.node
           f == node[n]
           t == text[n]
<1>0. ProcessesTyped /\ TreeOk /\ NodesTyped /\ OpenInv /\ data \in Seq(Byte)
  BY FilesAssumption DEF FilesInv, TreeOk
<1>1. /\ c \in ContextType /\ n \in Live /\ c.pos \in Nat /\ n \in Node
      /\ f \in NodeType /\ FileOk(f) /\ t \in Seq(Byte) \cup {Garbled}
  <2>1. c \in ContextType /\ n \in Live
    BY <1>0 DEF ProcessesTyped, OpenInv
  <2>2. c.pos \in Nat
    BY <2>1 DEF ContextType
  <2> HIDE DEF n
  <2>3. f \in NodeType /\ n \in Node
    BY <1>0, <2>1, LiveTyped
  <2>4. QED BY <2>1, <2>2, <2>3 DEF FilesInv, PagesInv, TextInv
<1> DEFINE Chunk(w) == SubSeq(data, 1, Len(data) - Len(w.left))
           NewText(w) == IF Chunk(w) = <<>> THEN t
                         ELSE IF IsPlain(t, c.pos) THEN Overwritten(t, c.pos, Chunk(w))
                         ELSE Garbled
<1>2. PICK w \in {Written(f, c.pos, data, k) : k \in 0 .. Len(data)} :
         /\ node' = [node EXCEPT ![n].pages = w.pages, ![n].total = w.total]
         /\ files' = [files EXCEPT ![p][id].pos = w.pos]
         /\ text' = [text EXCEPT ![n] = NewText(w)]
  <2>1. \E w \in {Written(f, c.pos, data, k) : k \in 0 .. Len(data)} :
           /\ node' = [node EXCEPT ![n].pages = w.pages, ![n].total = w.total]
           /\ files' = [files EXCEPT ![p][id].pos = w.pos]
           /\ text' = [text EXCEPT ![n] = NewText(w)]
    BY Zenon DEF Write
  <2> HIDE DEF n, c, f, NewText
  <2>2. QED BY <2>1, Zenon
<1>3. PICK k \in 0 .. Len(data) : w = Written(f, c.pos, data, k)
  <2> HIDE DEF n, c, f
  <2>1. QED BY <1>2
<1>4. HasWritten(w, f, c.pos, data)
  <2> HIDE DEF c, f, n
  <2>1. k \in Nat
    BY <1>3
  <2>2. QED BY <1>0, <1>1, <1>3, <2>1, WrittenIs
<1>5. /\ node' = [node EXCEPT ![n].pages = w.pages, ![n].total = w.total]
      /\ files' = [files EXCEPT ![p][id].pos = w.pos]
      /\ text' = [text EXCEPT ![n] = NewText(w)]
      /\ UNCHANGED <<nextId, cwd>>
  BY <1>2, Zenon DEF Write
<1> HIDE DEF c, f, t
<1>6. FileOk(w) /\ w.pos \in Nat
  BY <1>4 DEF HasWritten, IsWriting
<1> DEFINE more == [f EXCEPT !.pages = w.pages, !.total = w.total]
<1>7. /\ more \in NodeType /\ more.pages = w.pages /\ more.total = w.total
      /\ more.kind = f.kind /\ more.parent = f.parent /\ more.rc = f.rc
      /\ more.entries = f.entries /\ more.mounted = f.mounted
  <2>1. w.pages \in Seq(Seq(Byte)) /\ w.total \in Nat
    <3>1. w.pages \in Seq(Seq(Byte)) /\ w.total = Len(Bytes(w.pages))
      BY <1>6 DEF FileOk
    <3>2. Bytes(w.pages) \in Seq(Byte)
      BY <3>1, BytesAppend
    <3>3. QED BY <3>1, <3>2
  <2>2. [f EXCEPT !.pages = w.pages, !.total = w.total] \in NodeType
    BY <1>1, <2>1 DEF NodeType
  <2>3. QED BY <1>1, <2>2 DEF NodeType
<1>8. node' = [node EXCEPT ![n] = more]
  <2>1. f = node[n]
    BY DEF f
  <2> HIDE DEF n
  <2>2. QED BY <1>0, <1>1, <1>5, <2>1 DEF NodesTyped
<1> HIDE DEF more, n
<1>9. f = node[n] /\ t = text[n] /\ n = files[p][id].node
  BY SMTT(40) DEF f, t, n, c
<1>10. SameButFile(n) /\ node'[n] = more
  BY <1>0, <1>1, <1>7, <1>8, <1>9 DEF SameButFile, NodesTyped
<1>11. /\ TreeOk' /\ Live' = Live /\ \A q \in Live \ {n} : node'[q] = node[q]
       /\ \A q \in Live : StaysListed(q)
  BY <1>0, <1>1, <1>10, SameButFileOk
<1>12. ProcessesTyped' /\ OpenInv' /\ ListingInv'
  <2>1. \A q \in Live : StaysListed(q) /\ node'[q].rc = node[q].rc
    BY <1>7, <1>9, <1>10, <1>11
  <2>2. QED BY <1>5, <1>6, <1>11, <2>1, MoveKeeps
<1>13. PagesInv'
  <2>1. FileOk(more)
    BY <1>6, <1>7 DEF FileOk
  <2>2. QED BY <1>10, <1>11, <2>1 DEF FilesInv, PagesInv
<1>14. t # Garbled => Packed(f.pages) /\ t = Bytes(f.pages)
  BY <1>1, <1>9 DEF FilesInv, TextInv
<1>15. /\ NewText(w) \in Seq(Byte) \cup {Garbled}
       /\ NewText(w) # Garbled => Packed(w.pages) /\ NewText(w) = Bytes(w.pages)
  <2>1. PICK m \in 0 .. Len(data) :
           /\ w.pos = c.pos + m /\ w.left = SubSeq(data, m + 1, Len(data))
           /\ m = 0 => w.pages = f.pages
           /\ AtLast(f.pages, c.pos) =>
                /\ AtLast(w.pages, w.pos)
                /\ Bytes(w.pages) = Overwritten(Bytes(f.pages), c.pos, SubSeq(data, 1, m))
    BY <1>4 DEF HasWritten
  <2>2. /\ Len(w.left) = Len(data) - m /\ SubSeq(data, 1, m) \in Seq(Byte)
        /\ Len(SubSeq(data, 1, m)) = m
    BY <1>0, <2>1, Taken
  <2>3. Len(data) \in Nat /\ m \in Nat
    BY <1>0
  <2>4. Chunk(w) = SubSeq(data, 1, m)
    <3>1. Len(data) - Len(w.left) = m
      BY <2>2, <2>3
    <3>2. QED BY <3>1
  <2>5. Chunk(w) = <<>> => m = 0
    BY <2>2, <2>4
  <2>6. Bytes(w.pages) \in Seq(Byte)
    BY <1>6, BytesAppend DEF FileOk
  <2> HIDE DEF Chunk
  <2>7. CASE Chunk(w) = <<>>
    <3>1. NewText(w) = t /\ w.pages = f.pages
      BY <2>1, <2>5, <2>7
    <3>2. QED BY <1>1, <1>14, <3>1
  <2>8. CASE Chunk(w) # <<>> /\ IsPlain(t, c.pos)
    <3>1. NewText(w) = Overwritten(t, c.pos, Chunk(w))
      BY <2>8
    <3>2. t # Garbled
      BY <2>8 DEF IsPlain
    <3>3. Packed(f.pages) /\ t = Bytes(f.pages) /\ f.pages \in Seq(Seq(Byte)) /\ IsPages(f.pages)
      BY <1>1, <1>14, <3>2 DEF FileOk
    <3>4. AtLast(f.pages, c.pos)
      BY <2>8, <3>3, PlainIsLast
    <3>5. AtLast(w.pages, w.pos) /\ Bytes(w.pages) = Overwritten(t, c.pos, Chunk(w))
      BY <2>1, <2>4, <3>3, <3>4
    <3>6. Packed(w.pages)
      BY <3>5 DEF AtLast
    <3>7. QED BY <2>6, <3>1, <3>5, <3>6
  <2>9. CASE Chunk(w) # <<>> /\ ~ IsPlain(t, c.pos)
    BY <2>9
  <2>10. QED BY <2>7, <2>8, <2>9
<1>16. TextInv'
  <2>1. text \in [Node -> Seq(Byte) \cup {Garbled}] /\ \A q \in Node \ Live : text[q] = <<>>
    BY DEF FilesInv, TextInv
  <2> HIDE DEF NewText
  <2>2. /\ text' \in [Node -> Seq(Byte) \cup {Garbled}] /\ text'[n] = NewText(w)
        /\ \A q \in Node \ {n} : text'[q] = text[q]
    BY <1>1, <1>5, <1>15, <2>1
  <2>3. \A q \in Node \ Live' : text'[q] = <<>>
    BY <1>1, <1>11, <2>1, <2>2
  <2>4. ASSUME NEW q \in Live', text'[q] # Garbled
        PROVE  Packed(node'[q].pages) /\ text'[q] = Bytes(node'[q].pages)
    <3>1. CASE q = n
      BY <1>7, <1>10, <1>15, <2>2, <2>4, <3>1
    <3>2. CASE q # n
      <4>1. q \in Live /\ q \in Node /\ node'[q] = node[q] /\ text'[q] = text[q]
        BY <1>11, <2>2, <3>2 DEF Live
      <4>2. QED BY <2>4, <4>1 DEF FilesInv, TextInv
    <3>3. QED BY <3>1, <3>2
  <2>5. QED BY <2>2, <2>3, <2>4 DEF TextInv
<1>17. QED BY <1>11, <1>12, <1>13, <1>16 DEF FilesInv

(* unlink takes out of the directory the entry that was found.             *)
LEMMA UnlinkIs ==
    ASSUME FilesInv, NEW p \in Path, Unlink(p)
    PROVE  \E d \in Live, n \in Live : \E i \in 1 .. Len(node[d].entries) :
              /\ Shrinks(d, i, n) /\ node[n].entries = <<>> /\ node[n].mounted = None
              /\ node[n].parent = d /\ ~ InUse(n)
              /\ text' = [text EXCEPT ![n] = <<>>] /\ UNCHANGED <<files, nextId, cwd>>
<1> DEFINE path == AbsolutePath(p, <<>>)
           w == Walk(Popped(path))
           name == Filename(path)
           n == Find(w.at, name)
           d == Content(w.at)
           es == node[d].entries
<1>0. TreeOk /\ NodesTyped /\ TreeInv
  BY DEF FilesInv, TreeOk
<1>1. /\ path # <<>> /\ Last(path) # ".." /\ w.error = None /\ n \in Node
      /\ node[n].kind = "directory" => node[Content(n)].entries = <<>>
      /\ ~ InUse(n)
      /\ node' = [node EXCEPT ![d].entries = RemoveFirstMatch(@, LAMBDA e : e.name = Filename(path)),
                              ![n] = Free]
      /\ text' = [text EXCEPT ![n] = <<>>] /\ UNCHANGED <<files, nextId, cwd>>
  BY DEF Unlink
<1>2. path \in Seq(Steps)
  <2>1. <<>> \in Seq(Name)
    OBVIOUS
  <2>2. QED BY <2>1, AbsolutePathIs
<1>3. Popped(path) \in Seq(Steps) /\ name \in Steps \ {".."}
  <2> HIDE DEF path
  <2>1. QED BY <1>1, <1>2, PathParts
<1>4. w.at \in Live
  <2> HIDE DEF path
  <2>1. QED BY <1>0, <1>1, <1>3, WalkArrives DEF Arrived
<1> HIDE DEF path, w, name
<1>5. n \notin FindErrors
  <2> HIDE DEF n
  <2>1. QED BY <1>1, FilesAssumption DEF FindErrors
<1>6. n \in Live /\ IsEntryOf(n, name, d)
  BY <1>0, <1>3, <1>4, <1>5, Found
<1>7. d \in Live
  BY <1>0, <1>4, ContentLive DEF TreeOk
<1> HIDE DEF n, d
<1>8. PICK i \in 1 .. Len(es) : es[i].name = name /\ es[i].node = n
  BY <1>6 DEF IsEntryOf
<1>9. es \in Seq(Entry) /\ \A j \in 1 .. Len(es) : es[j].name = name => j = i
  BY <1>0, <1>7, <1>8, LiveTyped DEF TreeInv
<1>10. node[n].parent = d
  BY <1>0, <1>7, <1>8 DEF TreeInv
<1>11. RemoveFirstMatch(es, LAMBDA e : e.name = name) = RemoveAt(es, i)
  <2> DEFINE Is(j) == es[j].name = name
             I == {j \in 1 .. Len(es) : Is(j)}
  <2>1. I = {i} /\ I \in SUBSET Nat
    BY <1>8, <1>9
  <2>2. SelectInSeq(es, LAMBDA e : e.name = name) = Min(I)
    BY <2>1 DEF SelectInSeq
  <2>3. Min(I) = i
    <3> HIDE DEF I
    <3>1. QED BY <2>1, MinIn
  <2>4. RemoveFirstMatch(es, LAMBDA e : e.name = name)
           = RemoveAt(es, SelectInSeq(es, LAMBDA e : e.name = name))
    BY <1>8 DEF RemoveFirstMatch
  <2> HIDE DEF I
  <2>5. QED BY <2>2, <2>3, <2>4
<1>12. Shrinks(d, i, n)
  BY <1>1, <1>8, <1>11 DEF Shrinks, name
<1>13. node[n].mounted = None /\ node[n].entries = <<>>
  <2>1. node[n].mounted = None
    BY <1>1 DEF InUse
  <2>2. node[n].kind \in {"file", "directory"}
    BY <1>0, <1>6, LiveTyped DEF NodeType
  <2>3. node[n].kind = "file" => node[n].entries = <<>>
    BY <1>0, <1>6 DEF TreeInv
  <2>4. QED BY <1>1, <2>1, <2>2, <2>3 DEF Content
<1>14. QED BY <1>1, <1>6, <1>7, <1>8, <1>10, <1>12, <1>13

(* unlink keeps the invariant, for a node nobody uses and nothing is in.   *)
LEMMA UnlinkKeeps ==
    ASSUME FilesInv, NEW p \in Path, Unlink(p)
    PROVE  FilesInv'
<1>0. ProcessesTyped /\ TreeOk /\ NodesTyped /\ OpenInv /\ MountInv /\ TreeInv
  BY DEF FilesInv, TreeOk
<1>i. PICK d \in Live, n \in Live : \E i \in 1 .. Len(node[d].entries) :
         /\ Shrinks(d, i, n) /\ node[n].entries = <<>> /\ node[n].mounted = None
         /\ node[n].parent = d /\ ~ InUse(n)
         /\ text' = [text EXCEPT ![n] = <<>>] /\ UNCHANGED <<files, nextId, cwd>>
  BY UnlinkIs
<1>1. PICK i \in 1 .. Len(node[d].entries) :
         /\ Shrinks(d, i, n) /\ node[n].entries = <<>> /\ node[n].mounted = None
         /\ node[n].parent = d /\ ~ InUse(n)
         /\ text' = [text EXCEPT ![n] = <<>>] /\ UNCHANGED <<files, nextId, cwd>>
  BY <1>i
<1>2. TreeOk' /\ Live' = Live \ {n} /\ n # d /\ n \notin Roots
  BY <1>0, <1>1, ShrinksOk
<1> DEFINE fs == RemoveAt(node[d].entries, i)
<1>3. node[d] \in NodeType /\ d \in Node /\ n \in Node /\ node[n].rc \in Nat
  BY <1>0, LiveTyped DEF NodeType
<1>4. \A q \in Live \ {n, d} : node'[q] = node[q]
  BY <1>0, <1>1, <1>3 DEF Shrinks, NodesTyped, Live
<1>5. node'[d] = [node[d] EXCEPT !.entries = fs]
  BY <1>0, <1>1, <1>2, <1>3 DEF Shrinks, NodesTyped
<1> HIDE DEF fs
<1>6. ASSUME NEW q \in Live \ {n}
      PROVE  /\ node'[q].mounted = node[q].mounted /\ node'[q].rc = node[q].rc
             /\ node'[q].pages = node[q].pages /\ node'[q].total = node[q].total
  <2>1. CASE q = d
    <3> DEFINE e == [node[d] EXCEPT !.entries = fs]
    <3>1. /\ e.mounted = node[d].mounted /\ e.rc = node[d].rc
          /\ e.pages = node[d].pages /\ e.total = node[d].total
      BY <1>3 DEF NodeType
    <3> HIDE DEF e
    <3>2. node'[q] = e
      BY <1>5, <2>1 DEF e
    <3>3. QED BY <2>1, <3>1, <3>2
  <2>2. CASE q # d
    BY <1>4, <2>2
  <2>3. QED BY <2>1, <2>2
<1>7. ProcessesTyped'
  BY <1>0, <1>1 DEF ProcessesTyped
<1>8. OpensOf(n) = {}
  <2>1. node[n].rc = 0
    BY <1>1, <1>3 DEF InUse
  <2>2. IsFiniteSet(OpensOf(n)) /\ Cardinality(OpensOf(n)) <= 0
    BY <1>0, <2>1 DEF OpenInv
  <2>3. Cardinality(OpensOf(n)) = 0
    BY <2>2, FS_CardinalityType
  <2>4. QED BY <2>2, <2>3, FS_EmptySet
<1>9. \A q \in Process : \A id \in DOMAIN files[q] : files[q][id].node \in Live \ {n}
  <2> SUFFICES ASSUME NEW q \in Process, NEW id \in DOMAIN files[q], files[q][id].node = n
               PROVE  FALSE
    BY <1>0 DEF OpenInv
  <2>1. id \in Nat
    <3>1. DOMAIN files[q] \subseteq 0 .. nextId[q] - 1
      BY <1>0 DEF ProcessesTyped
    <3>2. QED BY <3>1
  <2>2. <<q, id>> \in OpensOf(n)
    BY <2>1 DEF OpensOf
  <2>3. QED BY <1>8, <2>2
<1>10. OpenInv'
  <2>1. ASSUME NEW q \in Live'
        PROVE  IsFiniteSet(OpensOf(q))' /\ Cardinality(OpensOf(q))' <= node'[q].rc
    <3>1. OpensOf(q)' = OpensOf(q)
      BY <1>1 DEF OpensOf
    <3>2. q \in Live /\ node'[q].rc = node[q].rc
      BY <1>2, <1>6
    <3>3. QED BY <1>0, <3>1, <3>2 DEF OpenInv
  <2>2. QED BY <1>1, <1>2, <1>9, <2>1 DEF OpenInv
<1>11. ListingInv'
  <2>1. ContextsKept
    BY <1>1 DEF ContextsKept
  <2>2. ASSUME NEW q \in Process, NEW id \in DOMAIN files[q], files[q][id].listing # None
        PROVE  StaysListed(files[q][id].node)
    <3> DEFINE c == files[q][id]
               m == c.node
    <3>1. m \in Live \ {n} /\ c \in ContextType
      BY <1>0, <1>9 DEF ProcessesTyped
    <3>2. c.listing \in ListingType \ {None} /\ m \in Node
      BY <2>2, <3>1 DEF ContextType
    <3>3. c.listing.dir = Content(m)
      BY <3>2 DEF FilesInv, ListingInv
    <3>4. c.listing.dir # d
      <4>1. c \in Contexts
        BY DEF Contexts
      <4> HIDE DEF c
      <4>2. QED BY <1>1, <2>2, <4>1 DEF InUse, c
    <3> HIDE DEF c, m
    <3>5. Content(m) \in Live /\ Content(m) \in {m, RamRoot} /\ Content(m) # d
      BY <1>0, <3>1, <3>3, <3>4, ContentLive
    <3>6. Content(m) \in Live \ {n, d}
      BY <1>2, <3>1, <3>5 DEF Roots
    <3>7. node'[Content(m)] = node[Content(m)]
      BY <1>4, <3>6
    <3>8. Len(node[Content(m)].entries) \in Nat
      BY <1>0, <3>5, LiveTyped
    <3>9. node'[m].mounted = node[m].mounted
      BY <1>6, <3>1
    <3>10. StaysListed(m)
      BY <1>2, <3>1, <3>6, <3>7, <3>8, <3>9 DEF StaysListed
    <3>11. QED BY <3>10 DEF m, c
  <2>3. QED BY <1>0, <1>2, <2>1, <2>2, ListingKept DEF FilesInv, TreeOk
<1>12. PagesInv' /\ TextInv'
  <2>0. text \in [Node -> Seq(Byte) \cup {Garbled}] /\ \A q \in Node \ Live : text[q] = <<>>
    BY DEF FilesInv, TextInv
  <2>1. /\ text' \in [Node -> Seq(Byte) \cup {Garbled}] /\ \A q \in Node \ Live' : text'[q] = <<>>
        /\ PagesInv /\ TextInv
    <3>1. <<>> \in Seq(Byte)
      OBVIOUS
    <3>2. QED BY <1>1, <1>2, <1>3, <2>0, <3>1 DEF FilesInv
  <2>2. \A q \in Live' :
          /\ text'[q] = text[q]
          /\ q \in Live => node'[q].pages = node[q].pages /\ node'[q].total = node[q].total
          /\ q \notin Live => node'[q].pages = <<>> /\ node'[q].total = 0
    BY <1>1, <1>2, <1>3, <1>6, <2>0 DEF Live
  <2>3. QED BY <1>0, <2>1, <2>2, PagesKept
<1>13. QED BY <1>2, <1>7, <1>10, <1>11, <1>12 DEF FilesInv

-----------------------------------------------------------------------------
(* What runs leave true.                                                   *)
LEMMA InitOk == Init => FilesInv
<1> SUFFICES ASSUME Init PROVE FilesInv
  OBVIOUS
<1> DEFINE root(n) == NewNode("directory", n)
<1>1. /\ node = [n \in Node |-> IF n \in Roots THEN root(n) ELSE Free]
      /\ files = [p \in Process |-> <<>>] /\ nextId = [p \in Process |-> 0]
      /\ cwd = [p \in Process |-> <<>>] /\ text = [n \in Node |-> <<>>]
  BY DEF Init, Roots
<1>2. Roots \subseteq Node
  BY FilesAssumption DEF Roots
<1>3. ASSUME NEW n \in Node
      PROVE  /\ root(n) \in NodeType /\ root(n).kind = "directory" /\ root(n).parent = n
             /\ root(n).entries = <<>> /\ root(n).mounted = None
             /\ root(n).pages = <<>> /\ root(n).total = 0
  <2>1. <<>> \in Seq(Entry) /\ <<>> \in Seq(Seq(Byte)) /\ None \in {None, RamRoot} /\ 0 \in Nat
    OBVIOUS
  <2>2. QED BY <2>1 DEF NewNode, NodeType
<1> HIDE DEF root
<1>4. NodesTyped
  BY <1>1, <1>3 DEF NodesTyped
<1>5. Live = Roots /\ \A n \in Roots : node[n] = root(n)
  BY <1>1, <1>2, <1>3, FilesAssumption DEF Live
<1>6. TreeInv
  <2>1. \A n \in Live : Len(node[n].entries) = 0 /\ node[n].entries = <<>>
    BY <1>2, <1>3, <1>5
  <2>2. \A n \in Roots : n \in Live /\ node[n].kind = "directory" /\ node[n].parent = n
    BY <1>2, <1>3, <1>5
  <2>3. QED BY <1>5, <2>1, <2>2 DEF TreeInv
<1>7. MountInv
  BY <1>2, <1>3, <1>5 DEF MountInv, Roots
<1>8. ProcessesTyped
  <2>1. <<>> \in Seq(Name) /\ DOMAIN <<>> = {} /\ 0 \in 0 .. MaxOpens
    BY FilesAssumption
  <2>2. <<>> = [i \in {} |-> <<>>[i]]
    OBVIOUS
  <2>3. <<>> \in [{} -> ContextType]
    BY <2>2
  <2>4. QED BY <1>1, <2>1, <2>3 DEF ProcessesTyped
<1>9. \A p \in Process : DOMAIN files[p] = {}
  BY <1>1
<1>10. OpenInv
  <2>1. ASSUME NEW q \in Live PROVE IsFiniteSet(OpensOf(q)) /\ Cardinality(OpensOf(q)) <= node[q].rc
    <3>1. OpensOf(q) = {}
      BY <1>9 DEF OpensOf
    <3>2. node[q].rc \in Nat
      BY <1>4, LiveTyped DEF NodeType
    <3>3. QED BY <3>1, <3>2, FS_EmptySet
  <2>2. QED BY <1>9, <2>1 DEF OpenInv
<1>11. ListingInv
  BY <1>9 DEF ListingInv
<1>12. PagesInv /\ TextInv
  <2>1. <<>> \in Seq(Byte) /\ <<>> \in Seq(Seq(Byte)) /\ Len(<<>>) = 0
    OBVIOUS
  <2>2. \A n \in Live : node[n].pages = <<>> /\ node[n].total = 0
    BY <1>2, <1>3, <1>5
  <2>3. IsPages(<<>>) /\ Packed(<<>>) /\ Bytes(<<>>) = <<>>
    BY <2>1, BytesAppend DEF IsPages, Packed
  <2>4. PagesInv
    BY <2>1, <2>2, <2>3 DEF PagesInv, FileOk
  <2>5. text \in [Node -> Seq(Byte) \cup {Garbled}] /\ \A n \in Node : text[n] = <<>>
    BY <1>1, <2>1
  <2>6. TextInv
    BY <2>2, <2>3, <2>5 DEF TextInv, Live
  <2>7. QED BY <2>4, <2>6
<1>13. QED BY <1>4, <1>6, <1>7, <1>8, <1>10, <1>11, <1>12 DEF FilesInv, TreeOk

(* Nothing done keeps the invariant.                                       *)
LEMMA StutterKeeps ==
    ASSUME FilesInv, UNCHANGED vars
    PROVE  FilesInv'
<1>1. UNCHANGED <<node, files, nextId, cwd, text>>
  BY DEF vars
<1>2. /\ TreeOk' /\ PagesInv' /\ TextInv' /\ Live' = Live
      /\ \A q \in Live : StaysListed(q)
  BY <1>1, SameNodes
<1>3. ProcessesTyped'
  BY <1>1 DEF FilesInv, ProcessesTyped
<1>4. OpenInv'
  <2>1. ASSUME NEW q \in Live' PROVE IsFiniteSet(OpensOf(q))' /\ Cardinality(OpensOf(q))' <= node'[q].rc
    <3>1. OpensOf(q)' = OpensOf(q) /\ q \in Live
      BY <1>1, <1>2 DEF OpensOf
    <3>2. QED BY <1>1, <3>1 DEF FilesInv, OpenInv
  <2>2. QED BY <1>1, <1>2, <2>1 DEF FilesInv, OpenInv
<1>5. ListingInv'
  <2>1. ContextsKept
    BY <1>1 DEF ContextsKept
  <2>2. \A q \in Process : \A i \in DOMAIN files[q] :
            files[q][i].listing # None => StaysListed(files[q][i].node)
    BY <1>2 DEF FilesInv, OpenInv
  <2>3. QED BY <1>2, <2>1, <2>2, ListingKept DEF FilesInv, TreeOk
<1>6. QED BY <1>2, <1>3, <1>4, <1>5 DEF FilesInv

(* Every step keeps the invariant.                                         *)
LEMMA StepKeeps ==
    ASSUME FilesInv, [Next]_vars
    PROVE  FilesInv'
<1>1. ASSUME NEW p \in Path, CreateDirectory(p) \/ Mount(p) \/ Unlink(p)
      PROVE  FilesInv'
  BY <1>1, CreateDirectoryKeeps, MountKeeps, UnlinkKeeps
<1>2. ASSUME NEW p \in Process, NEW path \in Path, OpenNew(p, path) \/ SetCwd(p, path)
      PROVE  FilesInv'
  BY <1>2, OpenNewKeeps, SetCwdKeeps
<1>3. ASSUME NEW p \in Process, NEW path \in Path, NEW kind \in {"file", "directory"},
             Open(p, path, kind)
      PROVE  FilesInv'
  BY <1>3, OpenKeeps
<1>4. ASSUME NEW p \in Process, NEW id \in DOMAIN files[p],
             \/ Close(p, id) \/ ReadDirectory(p, id)
             \/ \E data \in Data : Write(p, id, data)
             \/ \E n \in {1, PageSize + 1} : Read(p, id, n)
             \/ \E offset \in SeekOffset, t \in SeekType : Seek(p, id, offset, t)
      PROVE  FilesInv'
  <2>1. {1, PageSize + 1} \subseteq Nat
    BY PageSizeAssumption
  <2>2. CASE Close(p, id)
    BY <2>2, CloseKeeps
  <2>3. CASE ReadDirectory(p, id)
    BY <2>3, ReadDirectoryKeeps
  <2>4. ASSUME NEW data \in Data, Write(p, id, data) PROVE FilesInv'
    BY <2>4, WriteKeeps
  <2>5. ASSUME NEW n \in {1, PageSize + 1}, Read(p, id, n) PROVE FilesInv'
    <3>1. n \in Nat
      BY <2>1
    <3>2. QED BY <2>5, <3>1, ReadKeeps
  <2>6. ASSUME NEW offset \in SeekOffset, NEW t \in SeekType, Seek(p, id, offset, t) PROVE FilesInv'
    BY <2>6, SeekKeeps
  <2>7. QED BY <1>4, <2>2, <2>3, <2>4, <2>5, <2>6
<1>5. CASE UNCHANGED vars
  BY <1>5, StutterKeeps
<1>6. QED BY <1>1, <1>2, <1>3, <1>4, <1>5 DEF Next

(* The tree, the open files of every process and what files hold stay in   *)
(* step, whatever calls are made.                                          *)
THEOREM FilesStay == Spec => []FilesInv
<1>1. FilesInv /\ [Next]_vars => FilesInv'
  BY StepKeeps
<1>2. QED BY <1>1, InitOk, PTL DEF Spec

(* The types are part of the invariant.                                    *)
LEMMA TypesOk == FilesInv => TypeOK
<1> SUFFICES ASSUME FilesInv PROVE TypeOK
  OBVIOUS
<1>0. ProcessesTyped /\ NodesTyped /\ OpenInv /\ ListingInv /\ PagesInv /\ TreeOk
  BY DEF FilesInv, TreeOk
<1>1. ASSUME NEW n \in Live
      PROVE  /\ node[n].kind \in {"file", "directory"} /\ node[n].parent \in Node
             /\ \A i \in 1 .. Len(node[n].entries) : node[n].entries[i] \in Entry
             /\ node[n].mounted \in {None, RamRoot} /\ node[n].rc \in Nat
             /\ IsPages(node[n].pages) /\ node[n].total = Len(Bytes(node[n].pages))
  <2>1. node[n] \in NodeType /\ node[n].entries \in Seq(Entry)
    BY <1>0, LiveTyped
  <2>2. \A i \in 1 .. Len(node[n].entries) : node[n].entries[i] \in Entry
    BY <2>1, ElementOfSeq
  <2>3. FileOk(node[n])
    BY <1>0 DEF PagesInv
  <2>4. QED BY <2>1, <2>2, <2>3 DEF NodeType, FileOk
<1>2. \A p \in Process : /\ nextId[p] \in 0 .. MaxOpens /\ DOMAIN files[p] \subseteq 0 .. nextId[p] - 1
                         /\ cwd[p] \in Seq(Name)
  BY <1>0 DEF ProcessesTyped
<1>3. ASSUME NEW c \in Contexts, c.listing # None
      PROVE  c.listing.index <= c.listing.len /\ c.listing.len <= Len(EntriesOf(c.listing.dir))
  <2>1. PICK p \in Process : \E id \in DOMAIN files[p] : c = files[p][id]
    BY DEF Contexts
  <2>2. PICK id \in DOMAIN files[p] : c = files[p][id]
    BY <2>1
  <2>3. c \in ContextType
    BY <1>0, <2>2 DEF ProcessesTyped
  <2>4. c.node \in Node /\ c.listing \in ListingType \ {None}
    BY <1>3, <2>3 DEF ContextType
  <2>5. QED BY <1>0, <2>2, <2>4 DEF ListingInv
<1>4. QED BY <1>1, <1>2, <1>3 DEF TypeOK

-----------------------------------------------------------------------------
(* No directory is below itself: of any nodes that are no roots, the       *)
(* parent of one is none of them.                                          *)
Acyclic == \A S \in SUBSET (Live \ Roots) : S # {} => \E n \in S : node[n].parent \notin S

(* New nodes have old parents, and nobody else's parent changes.           *)
ParentsKept ==
    \A n \in Live' \ Roots : /\ node'[n].parent \in Live
                             /\ n \in Live => node'[n].parent = node[n].parent

(* Then no cycle comes to be: its old nodes would be one already.          *)
LEMMA StaysAcyclic ==
    ASSUME Acyclic, ParentsKept
    PROVE  Acyclic'
<1>1. Acyclic' <=> \A S \in SUBSET (Live' \ Roots) : S # {} => \E n \in S : node'[n].parent \notin S
  BY DEF Acyclic, Roots
<1>2. ASSUME NEW S \in SUBSET (Live' \ Roots), S # {}, \A n \in S : node'[n].parent \in S
      PROVE  FALSE
  <2> DEFINE T == S \cap Live
  <2>1. \A n \in S : node'[n].parent \in T
    BY <1>2 DEF ParentsKept
  <2>2. T # {} /\ T \in SUBSET (Live \ Roots)
    BY <1>2, <2>1
  <2>3. \A n \in T : node[n].parent \in T
    BY <2>1 DEF ParentsKept
  <2> HIDE DEF T
  <2>4. QED BY <2>2, <2>3 DEF Acyclic
<1>3. QED BY <1>1, <1>2

(* A step that changes no parent and adds no node.                         *)
LEMMA SameParents ==
    ASSUME TreeInv, Live' \subseteq Live, \A n \in Live' : node'[n].parent = node[n].parent
    PROVE  ParentsKept
BY DEF ParentsKept, TreeInv, Roots

(* A step that makes a node.                                               *)
LEMMA MadeParents ==
    ASSUME TreeOk, NEW d \in Live, NEW n \in Node \ Live, NEW name, NEW kind, NEW count,
           node' = MadeIn(d, name, n, kind, count), Live' = Live \cup {n}
    PROVE  ParentsKept
<1>1. node'[n].parent = d
  <2>1. node'[n] = [NewNode(kind, d) EXCEPT !.rc = count]
    BY DEF MadeIn
  <2>2. QED BY <2>1 DEF NewNode
<1>2. ASSUME NEW q \in Live PROVE node'[q].parent = node[q].parent
  <2>1. q \in Node /\ q # n /\ node[q] \in NodeType
    BY LiveTyped DEF TreeOk
  <2>2. node'[q] = node[q] \/ (q = d /\ node'[q] = [node[q] EXCEPT !.entries = Append(@, [name |-> name, node |-> n])])
    BY <2>1 DEF MadeIn
  <2>3. QED BY <2>1, <2>2 DEF NodeType
<1>3. \A q \in Live \ Roots : node[q].parent \in Live
  BY DEF TreeOk, TreeInv
<1>4. QED BY <1>1, <1>2, <1>3 DEF ParentsKept

(* So it is for every call: mkdir and open make a node in a directory in   *)
(* use, unlink takes one away, and nothing else touches parents.           *)
LEMMA StepKeepsParents ==
    ASSUME FilesInv, FilesInv', Next
    PROVE  ParentsKept
<1>0. TreeOk /\ TreeInv /\ NodesTyped /\ ProcessesTyped /\ OpenInv /\ <<>> \in Seq(Name)
  BY DEF FilesInv, TreeOk
<1>1. ASSUME NEW n \in Node, node[n] \in NodeType,
             NEW more, more.parent = node[n].parent, more # Free, n \in Live,
             node' = [node EXCEPT ![n] = more]
      PROVE  ParentsKept
  <2>1. \A q \in Node : node'[q] = IF q = n THEN more ELSE node[q]
    BY <1>0, <1>1 DEF NodesTyped
  <2>2. Live' \subseteq Live /\ \A q \in Live' : node'[q].parent = node[q].parent
    BY <1>1, <2>1 DEF Live
  <2>3. QED BY <1>0, <2>2, SameParents
<1>2. ASSUME NEW path \in Seq(Steps), Walk(path).error = "FileNotFound", CanCreate(path),
             NEW kind \in {"file", "directory"}, NEW n \in Node \ Live, NEW count \in Nat, text' = text,
             node' = MadeIn(Content(Walk(Popped(path)).at), Filename(path), n, kind, count)
      PROVE  ParentsKept
  <2> DEFINE d == Content(Walk(Popped(path)).at)
  <2>1. Live' = Live \cup {n}
    BY <1>2, MadeKeeps
  <2>2. d \in Live
    <3>1. Popped(path) \in Seq(Steps)
      <4>1. path # <<>>
        BY <1>2, Walking, FilesAssumption DEF WalksOn, Start
      <4>2. QED BY <1>2, <4>1, PathParts
    <3>2. Walk(Popped(path)).error = None
      BY <1>2 DEF CanCreate
    <3>3. Walk(Popped(path)).at \in Live
      BY <1>0, <3>1, <3>2, WalkArrives DEF Arrived
    <3>4. QED BY <1>0, <3>3, ContentLive DEF TreeOk
  <2> HIDE DEF d
  <2>3. node' = MadeIn(d, Filename(path), n, kind, count)
    BY <1>2 DEF d
  <2>4. QED BY <1>0, <2>1, <2>2, <2>3, MadeParents
<1>3. ASSUME NEW p \in Path, CreateDirectory(p) PROVE ParentsKept
  <2> DEFINE path == AbsolutePath(p, <<>>)
  <2>1. path \in Seq(Steps)
    BY <1>0, AbsolutePathIs
  <2>2. PICK n \in Node \ Live : node' = Created(path, "directory", n)
    BY <1>3 DEF CreateDirectory
  <2>3. Walk(path).error = "FileNotFound" /\ CanCreate(path) /\ text' = text
    BY <1>3 DEF CreateDirectory
  <2> HIDE DEF path
  <2>4. node' = MadeIn(Content(Walk(Popped(path)).at), Filename(path), n, "directory", 0)
    BY <1>0, <2>1, <2>2, <2>3, CreatedIs
  <2>5. QED BY <1>2, <2>1, <2>3, <2>4
<1>4. ASSUME NEW p \in Process, NEW a \in Path, OpenNew(p, a) PROVE ParentsKept
  <2> DEFINE path == AbsolutePath(a, cwd[p])
  <2>0. cwd[p] \in Seq(Name)
    BY <1>0 DEF ProcessesTyped
  <2>1. path \in Seq(Steps) /\ Walk(path).error = "FileNotFound"
    BY <1>0, <1>4, <2>0, ResolvedIs DEF OpenNew
  <2>2. CanCreate(path) /\ text' = text
    BY <1>4 DEF OpenNew
  <2>3. PICK n \in Node \ Live : OpenContext(p, n, Created(path, "file", n))
    BY <1>4 DEF OpenNew
  <2> HIDE DEF path
  <2>4. node' = MadeIn(Content(Walk(Popped(path)).at), Filename(path), n, "file", 1)
    BY <1>0, <2>1, <2>2, <2>3, CreatedIs, SMTT(40) DEF OpenContext
  <2>5. QED BY <1>2, <2>1, <2>2, <2>4
<1>5. ASSUME NEW p \in Path, Unlink(p) PROVE ParentsKept
  <2>1. PICK d \in Live, n \in Live : \E i \in 1 .. Len(node[d].entries) :
           /\ Shrinks(d, i, n) /\ node[n].entries = <<>> /\ node[n].mounted = None
    BY <1>0, <1>5, UnlinkIs
  <2>2. PICK i \in 1 .. Len(node[d].entries) :
           /\ Shrinks(d, i, n) /\ node[n].entries = <<>> /\ node[n].mounted = None
    BY <2>1
  <2>3. Live' = Live \ {n} /\ n # d
    BY <1>0, <2>2, ShrinksOk
  <2>4. node[d] \in NodeType /\ d \in Node /\ n \in Node
    BY <1>0, LiveTyped
  <2> DEFINE fs == RemoveAt(node[d].entries, i)
             more == [node[d] EXCEPT !.entries = fs]
  <2>5. more.parent = node[d].parent
    BY <2>4 DEF NodeType
  <2>6. \A q \in Live' : node'[q] = node[q] \/ (q = d /\ node'[q] = more)
    BY <1>0, <2>2, <2>3, <2>4 DEF Shrinks, NodesTyped, Live
  <2> HIDE DEF more
  <2>7. Live' \subseteq Live /\ \A q \in Live' : node'[q].parent = node[q].parent
    BY <2>3, <2>5, <2>6
  <2>8. QED BY <1>0, <2>7, SameParents
<1>6. ASSUME NEW p \in Path, Mount(p) PROVE ParentsKept
  <2> DEFINE d == Resolved(p, <<>>).at
             more == [node[d] EXCEPT !.mounted = RamRoot]
  <2>1. Resolved(p, <<>>).error = None /\ node' = [node EXCEPT ![d] = more]
    BY <1>6 DEF Mount, ResolvesTo
  <2>2. d \in Live
    BY <1>0, <2>1, ResolvedIs DEF Arrived
  <2> HIDE DEF d
  <2>3. d \in Node /\ node[d] \in NodeType
    BY <1>0, <2>2, LiveTyped
  <2>4. more \in NodeType /\ more.parent = node[d].parent
    BY <2>3, FilesAssumption DEF NodeType
  <2>5. more # Free
    BY <2>4, FilesAssumption
  <2> HIDE DEF more
  <2>6. QED BY <1>1, <2>1, <2>2, <2>3, <2>4, <2>5
<1>7. ASSUME NEW p \in Process, NEW a \in Path, NEW kind, Open(p, a, kind) PROVE ParentsKept
  <2> DEFINE n == Resolved(a, cwd[p]).at
             more == [node[n] EXCEPT !.rc = @ + 1]
  <2>0. cwd[p] \in Seq(Name)
    BY <1>0 DEF ProcessesTyped
  <2>1. Resolved(a, cwd[p]).error = None /\ OpenContext(p, n, node)
    BY <1>7 DEF Open, ResolvesTo
  <2>2. n \in Live
    BY <1>0, <2>0, <2>1, ResolvedIs DEF Arrived
  <2> HIDE DEF n
  <2>3. n \in Node /\ node[n] \in NodeType
    BY <1>0, <2>2, LiveTyped
  <2>4. more \in NodeType /\ more.parent = node[n].parent
    <3>1. more = [node[n] EXCEPT !.rc = node[n].rc + 1] /\ node[n].rc + 1 \in Nat
      BY <2>3 DEF NodeType
    <3> HIDE DEF more
    <3>2. QED BY <2>3, <3>1, CountSet
  <2>5. node' = [node EXCEPT ![n] = more] /\ more # Free
    BY <2>1, <2>4, FilesAssumption DEF OpenContext
  <2> HIDE DEF more
  <2>6. QED BY <1>1, <2>2, <2>3, <2>4, <2>5
<1>8. ASSUME NEW p \in Process, NEW id \in DOMAIN files[p], Close(p, id) PROVE ParentsKept
  <2> DEFINE n == files[p][id].node
             k == IF node[n].rc > 0 THEN node[n].rc - 1 ELSE 0
             more == [node[n] EXCEPT !.rc = k]
  <2>1. node' = [node EXCEPT ![n] = more]
    BY <1>8 DEF Close
  <2>2. n \in Live
    BY <1>0 DEF OpenInv
  <2> HIDE DEF n
  <2>3. n \in Node /\ node[n] \in NodeType /\ node[n].rc \in Nat
    BY <1>0, <2>2, LiveTyped DEF NodeType
  <2>4. k \in Nat
    BY <2>3
  <2> HIDE DEF k
  <2>5. more \in NodeType /\ more.parent = node[n].parent
    <3> HIDE DEF more
    <3>1. more = [node[n] EXCEPT !.rc = k]
      BY DEF more
    <3>2. QED BY <2>3, <2>4, <3>1, CountSet
  <2>6. more # Free
    BY <2>5, FilesAssumption
  <2> HIDE DEF more
  <2>7. QED BY <1>1, <2>1, <2>2, <2>3, <2>5, <2>6
<1>9. ASSUME NEW p \in Process, NEW id \in DOMAIN files[p], NEW data \in Data, Write(p, id, data)
      PROVE  ParentsKept
  <2> DEFINE n == files[p][id].node
  <2>1. n \in Live
    BY <1>0, SMTT(40) DEF OpenInv
  <2>2. PICK w : node' = [node EXCEPT ![n].pages = w.pages, ![n].total = w.total]
    <3>1. \E w : node' = [node EXCEPT ![n].pages = w.pages, ![n].total = w.total]
      BY <1>9, Zenon DEF Write
    <3>2. QED BY <3>1
  <2> HIDE DEF n
  <2>3. n \in Node /\ node[n] \in NodeType
    BY <1>0, <2>1, LiveTyped
  <2> DEFINE more == [node[n] EXCEPT !.pages = w.pages, !.total = w.total]
  <2>4. more.parent = node[n].parent
    BY <2>3 DEF NodeType
  <2>5. node'[n] = more /\ \A q \in Node \ {n} : node'[q] = node[q]
    BY <1>0, <2>2, <2>3 DEF NodesTyped
  <2> HIDE DEF more
  <2>6. Live' \subseteq Live /\ \A q \in Live' : node'[q].parent = node[q].parent
    BY <2>1, <2>4, <2>5 DEF Live
  <2>7. QED BY <1>0, <2>6, SameParents
<1>10. CASE node' = node
  <2>1. Live' \subseteq Live /\ \A q \in Live' : node'[q].parent = node[q].parent
    BY <1>10, SMTT(40) DEF Live
  <2>2. QED BY <1>0, <2>1, SameParents
<1>11. ASSUME NEW p \in Process, NEW id \in DOMAIN files[p],
              \/ ReadDirectory(p, id) \/ \E k \in {1, PageSize + 1} : Read(p, id, k)
              \/ \E offset \in SeekOffset, t \in SeekType : Seek(p, id, offset, t)
       PROVE  node' = node
  BY <1>11 DEF ReadDirectory, Read, Seek
<1>12. ASSUME NEW p \in Process, NEW a \in Path, SetCwd(p, a) PROVE node' = node
  BY <1>12 DEF SetCwd
<1>13. QED BY <1>3, <1>4, <1>5, <1>6, <1>7, <1>8, <1>9, <1>10, <1>11, <1>12, Zenon DEF Next

(* The nodes of both disks stay trees: no directory is below itself.       *)
THEOREM NeverBelowItself == Spec => []Acyclic
<1>1. Init => Acyclic
  <2>1. Init => Live \subseteq Roots
    BY DEF Init, Live, Roots
  <2>2. QED BY <2>1 DEF Acyclic
<1>2. FilesInv /\ FilesInv' /\ Acyclic /\ [Next]_vars => Acyclic'
  <2>1. ASSUME FilesInv, FilesInv', Acyclic, Next PROVE Acyclic'
    BY <2>1, StepKeepsParents, StaysAcyclic
  <2>2. ASSUME Acyclic, UNCHANGED vars PROVE Acyclic'
    BY <2>2 DEF Acyclic, vars, Live, Roots
  <2>3. QED BY <2>1, <2>2
<1>3. QED BY <1>1, <1>2, FilesStay, PTL DEF Spec

(* Creating, mounting and unlinking leave a tree: every node but a root is *)
(* an entry of one directory, once, under a name of its own, that is the   *)
(* directory ".." leads to, and going up never comes round to where it was.*)
THEOREM TreeStaysSound == Spec => []TreeIsSound
<1>1. FilesInv /\ Acyclic => TreeIsSound
  <2> SUFFICES ASSUME FilesInv, Acyclic PROVE TreeIsSound
    OBVIOUS
  <2>1. TypeOK /\ NodesTyped /\ TreeInv
    BY TypesOk DEF FilesInv, TreeOk
  <2>2. \A d \in Live : \A i, j \in 1 .. Len(node[d].entries) :
           node[d].entries[i].name = node[d].entries[j].name => i = j
    BY <2>1 DEF TreeInv
  <2>3. ASSUME NEW n \in Live \ Roots,
               NEW places, places = {at \in Live \X (1 .. Cardinality(Node)) :
                  at[2] <= Len(node[at[1]].entries) /\ node[at[1]].entries[at[2]].node = n}
        PROVE  Cardinality(places) = 1 /\ \A at \in places : at[1] = node[n].parent
    <3> DEFINE d == node[n].parent
               es == node[d].entries
    <3>1. d \in Live
      BY <2>1 DEF TreeInv
    <3>2. PICK i \in 1 .. Len(es) : es[i].node = n
      BY <2>1 DEF TreeInv
    <3>3. es \in Seq(Entry) /\ Len(es) \in Nat
      <4> HIDE DEF d
      <4>1. QED BY <2>1, <3>1, LiveTyped
    <3>4. \A x, y \in 1 .. Len(es) : es[x].node = es[y].node => x = y
      <4> SUFFICES ASSUME NEW x \in 1 .. Len(es), NEW y \in 1 .. Len(es), es[x].node = es[y].node
                   PROVE  x = y
        OBVIOUS
      <4>0. TreeInv
        BY <2>1
      <4>1. \A e \in Live : \A j, k \in 1 .. Len(node[e].entries) :
               node[e].entries[j].node = node[e].entries[k].node => j = k
        BY ONLY <4>0 DEF TreeInv
      <4> HIDE DEF d
      <4>2. \A j, k \in 1 .. Len(node[d].entries) :
               node[d].entries[j].node = node[d].entries[k].node => j = k
        BY ONLY <3>1, <4>1
      <4>3. QED BY <4>2
    <3>5. Len(es) <= Cardinality(Node)
      <4> DEFINE f == [x \in 1 .. Len(es) |-> es[x].node]
      <4>1. f \in [1 .. Len(es) -> Node]
        <5>1. ASSUME NEW x \in 1 .. Len(es) PROVE es[x].node \in Node
          <6> HIDE DEF es
          <6>1. es[x] \in Entry
            BY <3>3, ElementOfSeq
          <6>2. QED BY <6>1 DEF Entry
        <5>2. QED BY <5>1
      <4>2. IsFiniteSet(1 .. Len(es)) /\ Cardinality(1 .. Len(es)) = Len(es)
        <5> HIDE DEF es
        <5>1. 1 \in Int /\ Len(es) \in Int
          BY <3>3
        <5>2. /\ IsFiniteSet(1 .. Len(es))
              /\ Cardinality(1 .. Len(es)) = IF 1 > Len(es) THEN 0 ELSE Len(es) - 1 + 1
          BY <5>1, FS_Interval
        <5>3. QED BY <3>3, <5>2
      <4>3. IsFiniteSet(Node) /\ Cardinality(Node) \in Nat
        BY FilesAssumption, FS_CardinalityType, SMTT(40)
      <4>4. \A x, y \in 1 .. Len(es) : f[x] = f[y] => x = y
        BY <3>4
      <4> HIDE DEF f, es
      <4>5. ~ (Cardinality(Node) < Cardinality(1 .. Len(es)))
        <5> SUFFICES ASSUME Cardinality(Node) < Cardinality(1 .. Len(es)) PROVE FALSE
          OBVIOUS
        <5>1. \E x, y \in 1 .. Len(es) : x # y /\ f[x] = f[y]
          BY <4>1, <4>2, <4>3, FS_PigeonHole
        <5>2. QED BY <4>4, <5>1
      <4>6. QED BY <3>3, <4>2, <4>3, <4>5
    <3>6. <<d, i>> \in places
      <4>1. i \in 1 .. Cardinality(Node) /\ i <= Len(es)
        <5> HIDE DEF es
        <5>1. Cardinality(Node) \in Nat
          BY FilesAssumption, FS_CardinalityType
        <5>2. QED BY <3>2, <3>3, <3>5, <5>1
      <4>2. QED BY <2>3, <3>1, <3>2, <4>1
    <3>7. ASSUME NEW at \in places PROVE at = <<d, i>>
      <4>1. /\ at \in Live \X (1 .. Cardinality(Node)) /\ at = <<at[1], at[2]>>
            /\ at[1] \in Live /\ at[2] \in Nat /\ at[2] >= 1
            /\ at[2] <= Len(node[at[1]].entries) /\ node[at[1]].entries[at[2]].node = n
        BY <2>3
      <4> DEFINE e == at[1]
                 j == at[2]
      <4>2. e \in Live /\ Len(node[e].entries) \in Nat
        <5>1. e \in Live
          BY <4>1
        <5> HIDE DEF e
        <5>2. QED BY <2>1, <5>1, LiveTyped
      <4>3. j \in 1 .. Len(node[e].entries) /\ node[e].entries[j].node = n
        BY <4>1, <4>2
      <4> HIDE DEF e, j
      <4>4. e = d
        BY <2>1, <4>2, <4>3 DEF TreeInv
      <4>5. j = i
        BY <3>2, <3>4, <4>3, <4>4
      <4>6. QED BY <4>1, <4>4, <4>5 DEF e, j
    <3> HIDE DEF d, es
    <3>8. places = {<<d, i>>}
      BY <3>6, <3>7
    <3>9. Cardinality(places) = 1
      BY <3>8, FS_Singleton
    <3>10. QED BY <3>7, <3>9 DEF d
  <2>4. QED BY <2>1, <2>2, <2>3 DEF TreeIsSound, Acyclic, Roots
<1>2. QED BY <1>1, FilesStay, NeverBelowItself, PTL

(* Each file gives back what was written to it: read_impl returns, from    *)
(* any position, the bytes write_impl put there, however the writes were   *)
(* cut up into pages and wherever memory ran out.                          *)
THEOREM ReadsStayTrue == Spec => []ReadsReturnText
<1>1. FilesInv => ReadsReturnText
  <2> SUFFICES ASSUME FilesInv, NEW n \in Live, text[n] # Garbled,
                      NEW pos \in 0 .. Len(text[n]), NEW k \in 1 .. PageSize + 1
               PROVE  ReadFrom(node[n].pages, pos, k).got
                        = SubSeq(text[n], pos + 1, Least(pos + k, Len(text[n])))
    BY DEF ReadsReturnText
  <2> DEFINE pages == node[n].pages
             B == Bytes(pages)
             r == ReadFrom(pages, pos, k)
  <2>1. text[n] = B /\ Packed(pages) /\ pages \in Seq(Seq(Byte)) /\ IsPages(pages)
    BY DEF FilesInv, TextInv, PagesInv, FileOk
  <2>p. pos \in 0 .. Len(B)
    BY <2>1
  <2> HIDE DEF pages
  <2>2. B \in Seq(Byte) /\ Len(B) \in Nat
    BY <2>1, BytesAppend
  <2> HIDE DEF B, r
  <2>3. pos \in Nat /\ k \in Nat /\ k # 0 /\ pos <= Len(B)
    BY <2>2, <2>p, PageSizeAssumption
  <2>4. HasRead(r, pages, pos, k) /\ Stopped(r, pages)
    BY <2>1, <2>3, ReadFromIs DEF r
  <2>5. PICK m \in 0 .. k :
           /\ r.pos = pos + m /\ r.left = k - m
           /\ r.got = SubSeq(B, pos + 1, pos + m)
           /\ m # 0 => pos + m <= Len(B)
    BY <2>4 DEF HasRead, B
  <2>6. m \in Nat /\ m <= k /\ pos + m \in Nat /\ pos + m <= Len(B)
    BY <2>2, <2>3, <2>5
  <2>7. m = k \/ pos + m = Len(B)
    <3> SUFFICES ASSUME m # k, pos + m < Len(B) PROVE FALSE
      BY <2>2, <2>6
    <3>1. r.left # 0
      BY <2>3, <2>5, <2>6
    <3>2. AtEnd(pages, r.pos)
      BY <2>4, <3>1 DEF Stopped
    <3>3. ~ AtEnd(pages, pos + m)
      BY <2>1, <2>6, NotAtEnd DEF B
    <3>4. QED BY <2>5, <3>2, <3>3
  <2>8. Least(pos + k, Len(B)) = pos + m
    <3>1. CASE m = k
      BY <2>2, <2>3, <2>6, <3>1 DEF Least
    <3>2. CASE m # k
      BY <2>2, <2>3, <2>6, <2>7, <3>2 DEF Least
    <3>3. QED BY <3>1, <3>2
  <2>9. QED BY <2>1, <2>5, <2>8 DEF r, pages
<1>2. QED BY <1>1, FilesStay, PTL

-----------------------------------------------------------------------------
(* Paths that are reported.                                                *)
LEMMA FindByContent ==
    ASSUME NEW n, NEW m, Content(n) = Content(m), NEW name
    PROVE  Find(n, name) = Find(m, name)
BY DEF Find

(* A step from a walk that arrived.                                        *)
LEMMA StrideGoes ==
    ASSUME TreeOk, NEW w, NEW name \in Steps, IsWalk(w), Arrived(w), Stride(w, name).error = None
    PROVE  /\ w.error = None /\ w.at \in Live /\ w.path \in Seq(Name)
           /\ Find(w.at, name) \notin FindErrors /\ Find(w.at, name) \in Live
           /\ Stride(w, name) = [at |-> Find(w.at, name), error |-> None,
                path |-> IF name = ".." THEN Popped(w.path) ELSE Append(w.path, name)]
<1> DEFINE found == Find(w.at, name)
<1>0. None \notin FindErrors
  BY FilesAssumption DEF FindErrors
<1>1. w.error = None
  BY StrideArrives
<1>2. w.at \in Live /\ w.path \in Seq(Name)
  BY <1>1 DEF Arrived
<1>3. found \notin FindErrors
  BY <1>0, <1>1, StrideArrives
<1>4. found \in Live
  BY <1>2, <1>3, Found
<1>5. QED BY <1>1, <1>2, <1>3, <1>4, StrideArrives

(* Back up from where a name led is the directory it was looked up in.     *)
LEMMA BackUp ==
    ASSUME TreeOk, NEW names \in Seq(Name), Walk(names).error = None,
           NEW d, d = Content(Walk(names).at), d # RamRoot,
           NEW z, z = Walk(Popped(names))
    PROVE  z.error = None /\ Content(z.at) = Content(node[d].parent)
<1>0. NodesTyped /\ TreeInv /\ MountInv
  BY DEF TreeOk
<1>1. CASE names = <<>>
  <2>1. Walk(names) = Start /\ z = Start
    BY <1>1, Walking DEF WalksOn, Popped
  <2>2. d = Content(DiskRoot) /\ z.at = DiskRoot /\ z.error = None
    BY <2>1 DEF Start
  <2>3. DiskRoot \in Live /\ node[DiskRoot].parent = DiskRoot
    BY <1>0 DEF TreeInv, Roots
  <2>4. Content(DiskRoot) \in {DiskRoot, RamRoot}
    BY <1>0, <2>3, ContentLive
  <2>5. d = DiskRoot
    BY <2>2, <2>4
  <2>6. QED BY <2>2, <2>3, <2>5
<1>2. CASE names # <<>>
  <2>1. names \in Seq(Steps)
    BY DEF Steps
  <2> DEFINE name == Filename(names)
  <2>2. /\ Popped(names) \in Seq(Steps) /\ name \in Steps /\ name = Last(names)
        /\ Walk(names) = Stride(z, name)
    BY <1>2, <2>1, PathParts
  <2>3. name \in Name
    <3>1. Len(names) \in Nat /\ Len(names) # 0
      BY <1>2
    <3>2. Len(names) \in 1 .. Len(names)
      BY <3>1
    <3>3. names[Len(names)] \in Name
      BY <3>2, ElementOfSeq
    <3>4. QED BY <2>2, <3>3 DEF Last
  <2> HIDE DEF name
  <2>4. IsWalk(z) /\ Arrived(z)
    BY <2>2, WalkArrives
  <2> DEFINE n == Find(z.at, name)
             e == Content(z.at)
  <2>5. z.error = None /\ z.at \in Live /\ n \notin FindErrors /\ n \in Live
        /\ Walk(names).at = n
    BY <2>2, <2>4, StrideGoes
  <2>6. name # ".."
    BY <2>3, FilesAssumption
  <2>7. IsEntryOf(n, name, e)
    BY <2>2, <2>5, <2>6, Found
  <2>8. e \in Live /\ node[e].mounted = None
    BY <1>0, <2>5, ContentLive
  <2>9. node[n].parent = e
    <3> HIDE DEF n, e
    <3>1. QED BY <1>0, <2>7, <2>8 DEF IsEntryOf, TreeInv
  <2>10. Content(n) \in {n, RamRoot}
    BY <1>0, <2>5, ContentLive
  <2>11. d = n
    BY <2>5, <2>10
  <2>12. Content(e) = e
    <3> HIDE DEF e
    <3>1. QED BY <2>8 DEF Content
  <2> HIDE DEF n
  <2>13. QED BY <2>5, <2>9, <2>11, <2>12
<1>3. QED BY <1>1, <1>2

(* A walk reports a path that leads back to where it ends, unless it went  *)
(* up at a mounted root.                                                   *)
LEMMA PathIsReported ==
    ASSUME TreeOk, NEW path \in Seq(Steps), ~ StaysAtMount(path)
    PROVE  ReportsItsNode(path)
<1> DEFINE Upto(m) == SubSeq(path, 1, m)
           n == Len(path)
           Good == {m \in Nat : m <= n => ReportsItsNode(Upto(m))}
<1>0. n \in Nat /\ NodesTyped /\ TreeInv /\ MountInv
  BY DEF TreeOk
<1>1. 0 \in Good
  <2>1. Upto(0) = <<>>
    OBVIOUS
  <2>2. Walk(<<>>) = Start /\ Walk(Start.path) = Start
    BY Walking DEF WalksOn, Start
  <2>3. ReportsItsNode(<<>>)
    BY <2>2 DEF ReportsItsNode, Start
  <2>4. QED BY <2>1, <2>3
<1>2. ASSUME NEW m \in Nat, m \in Good PROVE m + 1 \in Good
  <2> SUFFICES ASSUME m + 1 <= n, Walk(Upto(m + 1)).error = None
               PROVE  /\ Walk(Walk(Upto(m + 1)).path).error = None
                      /\ Content(Walk(Walk(Upto(m + 1)).path).at) = Content(Walk(Upto(m + 1)).at)
    BY DEF ReportsItsNode
  <2> DEFINE q == Upto(m)
             name == path[m + 1]
             w == Walk(q)
             v == Walk(w.path)
  <2>1. /\ q \in Seq(Steps) /\ name \in Steps /\ Upto(m + 1) = Append(q, name)
        /\ m + 1 \in 1 .. n
    <3>1. m + 1 \in 1 .. n /\ m \in 0 .. n
      BY <1>0
    <3>2. name \in Steps
      BY <3>1, ElementOfSeq
    <3>3. \A i \in 1 .. m : path[i] \in Steps
      BY <3>1, ElementOfSeq
    <3>4. q \in Seq(Steps)
      BY <1>0, <3>1, <3>3
    <3>5. Upto(m + 1) = Append(q, name)
      BY <1>0, <3>1
    <3>6. QED BY <3>1, <3>2, <3>4, <3>5
  <2>2. ReportsItsNode(q)
    BY <1>2, <1>0
  <2>3. ~ (name = ".." /\ w.error = None /\ Content(w.at) = RamRoot)
    <3>1. SubSeq(path, 1, (m + 1) - 1) = q
      OBVIOUS
    <3>2. QED BY <2>1, <3>1 DEF StaysAtMount
  <2>4. IsWalk(w) /\ Arrived(w)
    <3> HIDE DEF q
    <3>1. QED BY <2>1, WalkArrives
  <2>5. Walk(Upto(m + 1)) = Stride(w, name)
    <3> HIDE DEF q
    <3>1. q \in Seq(Component) /\ name \in Component
      BY <2>1 DEF Steps, Component
    <3>2. QED BY <2>1, <3>1, Walking DEF WalksOn
  <2> HIDE DEF q, w, Upto, name
  <2>6. /\ w.error = None /\ w.at \in Live /\ w.path \in Seq(Name)
        /\ Find(w.at, name) \notin FindErrors /\ Find(w.at, name) \in Live
        /\ Stride(w, name) = [at |-> Find(w.at, name), error |-> None,
             path |-> IF name = ".." THEN Popped(w.path) ELSE Append(w.path, name)]
    BY <2>1, <2>4, <2>5, StrideGoes
  <2>7. v.error = None /\ Content(v.at) = Content(w.at)
    BY <2>2, <2>6 DEF ReportsItsNode, w
  <2>8. w.path \in Seq(Steps) /\ w.path \in Seq(Component)
    <3> HIDE DEF w
    <3>1. QED BY <2>6 DEF Steps, Component
  <2>9. IsWalk(v) /\ Arrived(v)
    <3> DEFINE names == w.path
    <3>1. names \in Seq(Steps)
      BY <2>8
    <3> HIDE DEF names
    <3>2. IsWalk(Walk(names)) /\ Arrived(Walk(names))
      BY <3>1, WalkArrives
    <3>3. QED BY <3>2 DEF v, names
  <2>10. v.at \in Live
    BY <2>7, <2>9 DEF Arrived
  <2> DEFINE u == Walk(Upto(m + 1))
  <2>11. CASE name # ".."
    <3>1. u.path = Append(w.path, name) /\ u.at = Find(w.at, name)
      BY <2>5, <2>6, <2>11
    <3>2. Walk(Append(w.path, name)) = Stride(v, name)
      <4> DEFINE names == w.path
      <4>1. names \in Seq(Component) /\ name \in Component
        BY <2>1, <2>8 DEF Steps, Component
      <4> HIDE DEF names
      <4>2. Walk(Append(names, name)) = Stride(Walk(names), name)
        BY <4>1, Walking DEF WalksOn
      <4>3. QED BY <4>2 DEF names, v
    <3>3. Find(v.at, name) = Find(w.at, name)
      BY <2>7, FindByContent
    <3>4. Stride(v, name).error = None /\ Stride(v, name).at = Find(v.at, name)
      BY <2>1, <2>6, <2>7, <2>9, <3>3, StrideArrives
    <3>5. QED BY <3>1, <3>2, <3>3, <3>4
  <2>12. CASE name = ".."
    <3> DEFINE names == w.path
               z == Walk(Popped(names))
    <3>1. u.path = Popped(names) /\ u.at = Find(w.at, name)
      BY <2>5, <2>6, <2>12
    <3>2. Find(w.at, name) = node[Content(w.at)].parent
      BY <2>1, <2>6, <2>12, Found
    <3>3. names \in Seq(Name) /\ v = Walk(names)
      BY <2>6 DEF v
    <3>4. Content(v.at) # RamRoot
      BY <2>3, <2>6, <2>7, <2>12
    <3> HIDE DEF names
    <3>5. z.error = None /\ Content(z.at) = Content(node[Content(v.at)].parent)
      BY <2>7, <3>3, <3>4, BackUp
    <3>6. u.at = node[Content(v.at)].parent
      BY <2>7, <3>1, <3>2
    <3> HIDE DEF u
    <3>7. QED BY <3>1, <3>5, <3>6 DEF u
  <2>13. QED BY <2>11, <2>12
<1>3. n \in Good
  <2> HIDE DEF Good, Upto
  <2>1. QED BY <1>0, <1>1, <1>2, SetInduction
<1>4. Upto(n) = path
  <2>1. \A i \in 1 .. n : path[i] \in Steps
    BY ElementOfSeq
  <2>2. Upto(n) \in Seq(Steps) /\ Len(Upto(n)) = n /\ \A i \in 1 .. n : Upto(n)[i] = path[i]
    BY <1>0, <2>1
  <2> HIDE DEF Upto
  <2>3. QED BY <2>2, SeqEqual
<1>5. ReportsItsNode(Upto(n))
  BY <1>0, <1>3
<1> HIDE DEF Upto
<1>6. QED BY <1>4, <1>5

(* The path that is reported, which becomes the current directory, leads   *)
(* to where the walk led, unless the walk took ".." at the root of what is *)
(* mounted.                                                                *)
THEOREM PathsStayTrue == Spec => []PathsNameNodes
<1>1. FilesInv => PathsNameNodes
  <2> SUFFICES ASSUME FilesInv, NEW p \in Path, NEW q \in Process,
                      NEW path, path = AbsolutePath(p, cwd[q])
               PROVE  StaysAtMount(path) \/ ReportsItsNode(path)
    BY DEF PathsNameNodes, AskedFor
  <2>1. cwd[q] \in Seq(Name) /\ TreeOk
    BY DEF FilesInv, ProcessesTyped
  <2>2. path \in Seq(Steps)
    BY <2>1, AbsolutePathIs
  <2>3. QED BY <2>1, <2>2, PathIsReported
<1>2. QED BY <1>1, FilesStay, PTL

-----------------------------------------------------------------------------
(* Names that were there go on naming what they named, but for those that  *)
(* come to a node of D.                                                    *)
StaysBut(D) ==
    /\ RamRoot \notin D
    /\ \A q \in Live \ D :
          /\ q \in Live' /\ node'[q].kind = node[q].kind /\ node'[q].parent = node[q].parent
          /\ node'[q].mounted = node[q].mounted
          /\ \A i \in 1 .. Len(node[q].entries) :
                node[q].entries[i].node \notin D =>
                    \E j \in 1 .. Len(node'[q].entries) : node'[q].entries[j] = node[q].entries[i]

(* What FindIs and Walking say, in a form that can be said of the next     *)
(* state.                                                                  *)
FindsRight ==
    \A n \in Live, d \in Live : d = Content(n) /\ node[d].kind = "directory" =>
        /\ \A m : m = node[d].parent => Find(n, "..") = m
        /\ \A name, m : IsEntryOf(m, name, d) => Find(n, name) = m

(* In a sound tree an entry is what its name finds.                        *)
LEMMA Finding == TreeOk => FindsRight
BY FindIs DEF TreeOk, FindsRight, IsEntryOf

WalksNext ==
    /\ Walk(<<>>) = Start
    /\ \A path \in Seq(Component), name \in Component : \A w :
          w = Walk(path) => Walk(Append(path, name)) = Stride(w, name)

(* A longer path is walked by one stride more, after the step as before it.*)
LEMMA WalkingNext == WalksNext
BY Walking DEF WalksOn, WalksNext

(* What a name finds it still finds, unless it was the entry that went.    *)
LEMMA FoundStays ==
    ASSUME TreeOk, TreeOk', NEW D, StaysBut(D), NEW n \in Live \ D, NEW name \in Steps,
           Find(n, name) \notin FindErrors, Find(n, name) \notin D
    PROVE  Find(n, name)' = Find(n, name)
<1>0. PICK d, found : d = Content(n) /\ found = Find(n, name)
  OBVIOUS
<1>1. /\ d \in Live /\ node[d].kind = "directory"
      /\ name = ".." => found = node[d].parent
      /\ name # ".." => IsEntryOf(found, name, d)
  BY <1>0, Found, ContentLive DEF TreeOk
<1>2. Content(n)' = d
  BY <1>0 DEF StaysBut, Content
<1>3. FindsRight'
  BY Finding, PTL
<1>4. d \in Live \ D
  BY <1>0, <1>1, ContentLive DEF TreeOk, StaysBut
<1>5. d \in Live' /\ n \in Live' /\ node'[d].kind = "directory"
  BY <1>1, <1>4 DEF StaysBut
<1>6. /\ \A m : m = node'[d].parent => Find(n, "..")' = m
      /\ \A x, m : IsEntryOf(m, x, d)' => Find(n, x)' = m
  BY <1>2, <1>3, <1>5 DEF FindsRight
<1>7. CASE name = ".."
  BY <1>0, <1>1, <1>4, <1>6, <1>7 DEF StaysBut
<1>8. CASE name # ".."
  <2>1. PICK i \in 1 .. Len(node[d].entries) :
           node[d].entries[i].name = name /\ node[d].entries[i].node = found
    BY <1>1, <1>8 DEF IsEntryOf
  <2>2. PICK j \in 1 .. Len(node'[d].entries) : node'[d].entries[j] = node[d].entries[i]
    BY <1>0, <1>4, <2>1, SMTT(40) DEF StaysBut
  <2>3. node'[d].entries[j].name = name /\ node'[d].entries[j].node = found
    BY <2>1, <2>2
  <2>4. IsEntryOf(found, name, d)'
    BY <2>2, <2>3 DEF IsEntryOf
  <2>5. QED BY <1>0, <1>6, <2>4
<1>9. QED BY <1>7, <1>8

(* A walk comes to its end, and on the way to all that a shorter one does. *)
LEMMA VisitsMore ==
    ASSUME NEW before \in Seq(Steps), NEW name \in Steps, NEW path, path = Append(before, name)
    PROVE  /\ Visited(before) \subseteq Visited(path)
           /\ Walk(before).at \in Visited(before) /\ Walk(path).at \in Visited(path)
<1> DEFINE m == Len(before)
<1>1. /\ m \in Nat /\ path \in Seq(Steps) /\ Len(path) = m + 1
      /\ \A i \in 1 .. m : path[i] = before[i]
  OBVIOUS
<1>2. SubSeq(before, 1, m) = before /\ SubSeq(path, 1, m + 1) = path
  <2>1. /\ SubSeq(before, 1, m) \in Seq(Steps) /\ Len(SubSeq(before, 1, m)) = m
        /\ \A i \in 1 .. m : SubSeq(before, 1, m)[i] = before[i]
    BY <1>1, SubSeqProperties
  <2>2. /\ SubSeq(path, 1, m + 1) \in Seq(Steps) /\ Len(SubSeq(path, 1, m + 1)) = m + 1
        /\ \A i \in 1 .. m + 1 : SubSeq(path, 1, m + 1)[i] = path[i]
    BY <1>1, SubSeqProperties
  <2>3. SubSeq(before, 1, m) = before
    BY <1>1, <2>1, SeqEqual
  <2>4. SubSeq(path, 1, m + 1) = path
    BY <1>1, <2>2, SeqEqual
  <2>5. QED BY <2>3, <2>4
<1>3. ASSUME NEW i \in 0 .. m PROVE SubSeq(before, 1, i) = SubSeq(path, 1, i)
  <2>1. i \in Nat /\ i <= m
    BY <1>1
  <2>2. /\ SubSeq(before, 1, i) \in Seq(Steps) /\ Len(SubSeq(before, 1, i)) = i
        /\ \A j \in 1 .. i : SubSeq(before, 1, i)[j] = before[j]
    BY <1>1, <2>1, SubSeqProperties
  <2>3. /\ SubSeq(path, 1, i) \in Seq(Steps) /\ Len(SubSeq(path, 1, i)) = i
        /\ \A j \in 1 .. i : SubSeq(path, 1, i)[j] = path[j]
    BY <1>1, <2>1, SubSeqProperties
  <2>4. \A j \in 1 .. i : SubSeq(before, 1, i)[j] = SubSeq(path, 1, i)[j]
    BY <1>1, <2>1, <2>2, <2>3
  <2>5. QED BY <2>2, <2>3, <2>4, SeqEqual
<1>4. m \in 0 .. m /\ m + 1 \in 0 .. m + 1 /\ \A i \in 0 .. m : i \in 0 .. m + 1
  BY <1>1
<1> HIDE DEF m
<1>5. Visited(before) = {Walk(SubSeq(before, 1, i)).at : i \in 0 .. m}
  BY DEF Visited, m
<1>6. Visited(path) = {Walk(SubSeq(path, 1, i)).at : i \in 0 .. m + 1}
  BY <1>1 DEF Visited
<1>7. QED BY <1>2, <1>3, <1>4, <1>5, <1>6

(* So a path leads where it led.                                           *)
LEMMA WalkStays ==
    ASSUME TreeOk, TreeOk', NEW D, StaysBut(D), NEW path \in Seq(Steps), NEW w, w = Walk(path),
           w.error = None, Visited(path) \cap D = {}
    PROVE  Walk(path)' = w
<1> DEFINE Good == {m \in Nat : \A p \in Seq(Steps) : \A u :
                      Len(p) = m /\ u = Walk(p) /\ u.error = None /\ Visited(p) \cap D = {}
                         => Walk(p)' = u}
<1>0. WalksNext'
  BY WalkingNext, PTL
<1>1. 0 \in Good
  <2>1. Walk(<<>>) = Start /\ Walk(<<>>)' = Start
    BY <1>0, Walking DEF WalksOn, WalksNext, Start
  <2>2. \A p \in Seq(Steps) : Len(p) = 0 => p = <<>>
    OBVIOUS
  <2>3. QED BY <2>1, <2>2
<1>2. ASSUME NEW m \in Nat, m \in Good PROVE m + 1 \in Good
  <2> SUFFICES ASSUME NEW p \in Seq(Steps), NEW u, Len(p) = m + 1, u = Walk(p), u.error = None,
                      Visited(p) \cap D = {}
               PROVE  Walk(p)' = u
    OBVIOUS
  <2>1. PICK before \in Seq(Steps), name \in Steps : p = Append(before, name)
    <3>1. p # <<>>
      OBVIOUS
    <3> HIDE DEF Good
    <3>2. p \in Seq(Steps) /\ p # <<>>
      BY <3>1
    <3>3. QED BY ONLY <3>2, SequenceEmptyOrAppend
  <2> HIDE DEF Good
  <2>2. Len(before) = m
    BY <2>1
  <2>3. before \in Seq(Component) /\ name \in Component
    BY DEF Steps, Component
  <2>4. PICK v : v = Walk(before)
    OBVIOUS
  <2>5. u = Stride(v, name) /\ IsWalk(v) /\ Arrived(v)
    BY <2>1, <2>3, <2>4, Walking, WalkArrives DEF WalksOn
  <2>6. /\ v.error = None /\ v.at \in Live /\ Find(v.at, name) \notin FindErrors
        /\ u.at = Find(v.at, name)
    BY <2>5, StrideGoes
  <2>7. Visited(before) \cap D = {} /\ v.at \notin D /\ u.at \notin D
    <3>1. /\ Visited(before) \subseteq Visited(p)
          /\ Walk(before).at \in Visited(before) /\ Walk(p).at \in Visited(p)
      BY <2>1, VisitsMore
    <3>2. v.at \in Visited(before) /\ u.at \in Visited(p)
      BY <2>4, <3>1
    <3>3. Visited(p) \cap D = {}
      OBVIOUS
    <3>4. QED BY <3>1, <3>2, <3>3
  <2>8. Walk(before)' = v
    BY <1>2, <2>2, <2>4, <2>6, <2>7 DEF Good
  <2>9. Walk(p)' = Stride(v, name)'
    BY <1>0, <2>1, <2>3, <2>8 DEF WalksNext
  <2> DEFINE n == v.at
  <2>10. Find(n, name)' = Find(n, name)
    <3> HIDE DEF n
    <3>1. n \in Live \ D /\ Find(n, name) \notin FindErrors /\ Find(n, name) \notin D
      BY <2>6, <2>7 DEF n
    <3>2. QED BY <3>1, FoundStays
  <2>11. Stride(v, name)' = Stride(v, name)
    BY <2>10 DEF Stride
  <2>12. QED BY <2>5, <2>9, <2>11
<1>3. Len(path) \in Good
  <2> HIDE DEF Good
  <2>1. QED BY <1>1, <1>2, SetInduction
<1>4. QED BY <1>3

(* A step that leaves the tree alone, and perhaps what files hold and who  *)
(* has them open.                                                          *)
LEMMA SameStays ==
    ASSUME \A q \in Live : /\ q \in Live' /\ node'[q].kind = node[q].kind
                           /\ node'[q].parent = node[q].parent
                           /\ node'[q].mounted = node[q].mounted
                           /\ node'[q].entries = node[q].entries
    PROVE  StaysBut({})
<1>1. ASSUME NEW q \in Live, NEW i \in 1 .. Len(node[q].entries)
      PROVE  \E j \in 1 .. Len(node'[q].entries) : node'[q].entries[j] = node[q].entries[i]
  <2>1. node'[q].entries = node[q].entries
    OBVIOUS
  <2>2. WITNESS i \in 1 .. Len(node'[q].entries)
  <2>3. QED BY <2>1
<1>2. ASSUME NEW q \in Live
      PROVE  /\ q \in Live' /\ node'[q].kind = node[q].kind
             /\ node'[q].parent = node[q].parent /\ node'[q].mounted = node[q].mounted
  OBVIOUS
<1> DEFINE Kept(q, i) == \E j \in 1 .. Len(node'[q].entries) : node'[q].entries[j] = node[q].entries[i]
<1>3. \A q \in Live : \A i \in 1 .. Len(node[q].entries) : Kept(q, i)
  BY <1>1
<1> HIDE DEF Kept
<1>4. \A q \in Live \ {} : /\ q \in Live' /\ node'[q].kind = node[q].kind
                           /\ node'[q].parent = node[q].parent /\ node'[q].mounted = node[q].mounted
                           /\ \A i \in 1 .. Len(node[q].entries) :
                                 node[q].entries[i].node \notin {} => Kept(q, i)
  BY <1>2, <1>3
<1>5. RamRoot \notin {}
  OBVIOUS
<1>6. \A q \in Live \ {} : /\ q \in Live' /\ node'[q].kind = node[q].kind
                           /\ node'[q].parent = node[q].parent /\ node'[q].mounted = node[q].mounted
                           /\ \A i \in 1 .. Len(node[q].entries) :
                                 node[q].entries[i].node \notin {} =>
                                     \E j \in 1 .. Len(node'[q].entries) :
                                        node'[q].entries[j] = node[q].entries[i]
  BY <1>4 DEF Kept
<1>7. QED BY ONLY <1>5, <1>6 DEF StaysBut

(* create_node only adds to the tree.                                      *)
LEMMA MadeStays ==
    ASSUME FilesInv, NEW path \in Seq(Steps), Walk(path).error = "FileNotFound", CanCreate(path),
           NEW kind \in {"file", "directory"}, NEW n \in Node \ Live, NEW count \in Nat, text' = text,
           node' = MadeIn(Content(Walk(Popped(path)).at), Filename(path), n, kind, count)
    PROVE  StaysBut({})
<1>0. TreeOk /\ NodesTyped
  BY DEF FilesInv, TreeOk
<1>1. PICK d : d = Content(Walk(Popped(path)).at)
  OBVIOUS
<1>2. Live' = Live \cup {n} /\ Grows(d, Filename(path), n)
  BY <1>1, MadeKeeps
<1>3. d \in Live
  BY <1>0, <1>1, NewName
<1> DEFINE new == [name |-> Filename(path), node |-> n]
           es == node[d].entries
<1>4. node[d] \in NodeType /\ es \in Seq(Entry) /\ Len(es) \in Nat
  BY <1>0, <1>3, LiveTyped
<1>5. /\ node'[d] = [node[d] EXCEPT !.entries = Append(es, new)]
      /\ \A q \in Live \ {d} : node'[q] = node[q]
  BY <1>2 DEF Grows, Live
<1> HIDE DEF new, es
<1>6. /\ node'[d].kind = node[d].kind /\ node'[d].parent = node[d].parent
      /\ node'[d].mounted = node[d].mounted /\ node'[d].entries = Append(es, new)
  BY <1>4, <1>5 DEF NodeType
<1>7. \A i \in 1 .. Len(es) : i \in 1 .. Len(Append(es, new)) /\ Append(es, new)[i] = es[i]
  BY <1>4
<1>8. ASSUME NEW q \in Live
      PROVE  /\ q \in Live' /\ node'[q].kind = node[q].kind
             /\ node'[q].parent = node[q].parent /\ node'[q].mounted = node[q].mounted
  BY <1>2, <1>5, <1>6
<1>9. ASSUME NEW q \in Live, NEW i \in 1 .. Len(node[q].entries)
      PROVE  /\ i \in 1 .. Len(node'[q].entries)
             /\ node'[q].entries[i] = node[q].entries[i]
  <2>1. CASE q = d
    BY <1>6, <1>7, <1>9, <2>1 DEF es
  <2>2. CASE q # d
    BY <1>5, <1>9, <2>2
  <2>3. QED BY <2>1, <2>2
<1>10. RamRoot \notin {} /\ Live \ {} = Live
  OBVIOUS
<1>11. \A q \in Live : \A i \in 1 .. Len(node[q].entries) :
          \E j \in 1 .. Len(node'[q].entries) : node'[q].entries[j] = node[q].entries[i]
  BY <1>9
<1>12. QED BY ONLY <1>8, <1>10, <1>11 DEF StaysBut

(* unlink takes nothing away but the node it unlinks: where the path of    *)
(* the call led.                                                           *)
LEMMA UnlinkStays ==
    ASSUME FilesInv, NEW p \in Path, Unlink(p)
    PROVE  StaysBut({Resolved(p, <<>>).at})
<1> DEFINE path == AbsolutePath(p, <<>>)
           w == Walk(Popped(path))
           name == Filename(path)
<1>0. TreeOk /\ NodesTyped /\ <<>> \in Seq(Name)
  BY DEF FilesInv, TreeOk
<1>u. PICK d \in Live, n \in Live : \E i \in 1 .. Len(node[d].entries) :
         /\ Shrinks(d, i, n) /\ node[n].entries = <<>> /\ node[n].mounted = None
         /\ node[n].parent = d /\ ~ InUse(n)
         /\ text' = [text EXCEPT ![n] = <<>>] /\ UNCHANGED <<files, nextId, cwd>>
  BY UnlinkIs
<1>1. PICK i \in 1 .. Len(node[d].entries) :
         Shrinks(d, i, n) /\ node[n].entries = <<>> /\ node[n].mounted = None
  BY <1>u
<1>2. Live' = Live \ {n} /\ n # d /\ n \notin Roots
  BY <1>0, <1>1, ShrinksOk
<1>3. n = Resolved(p, <<>>).at
  <2>1. /\ path # <<>> /\ w.error = None /\ Find(w.at, name) \in Node
        /\ node' = [node EXCEPT
              ![Content(w.at)].entries = RemoveFirstMatch(@, LAMBDA e : e.name = Filename(path)),
              ![Find(w.at, name)] = Free]
    BY DEF Unlink
  <2>2. path \in Seq(Steps)
    BY <1>0, AbsolutePathIs
  <2>3. Find(w.at, name) \notin Live'
    <3>1. node'[Find(w.at, name)] = Free
      <4> DEFINE f == Find(w.at, name)
                 es == RemoveFirstMatch(node[Content(w.at)].entries, LAMBDA e : e.name = Filename(path))
      <4>1. f \in Node
        BY <2>1
      <4>2. node' = [node EXCEPT ![Content(w.at)].entries = es, ![f] = Free]
        BY <2>1
      <4> HIDE DEF f, es
      <4>3. node'[f] = Free
        BY <1>0, <4>1, <4>2 DEF NodesTyped
      <4>4. QED BY <4>3 DEF f
    <3>2. QED BY <3>1 DEF Live
  <2>4. Walk(path) = Stride(w, name) /\ Popped(path) \in Seq(Steps) /\ name \in Steps
    <3> HIDE DEF path
    <3>1. QED BY <2>1, <2>2, PathParts
  <2>5. IsWalk(w) /\ Arrived(w)
    BY <1>0, <2>4, WalkArrives
  <2>6. Find(w.at, name) \notin FindErrors
    BY <2>1, FilesAssumption DEF FindErrors
  <2>7. w.at \in Live
    BY <2>1, <2>5 DEF Arrived
  <2>8. Find(w.at, name) \in Live
    <3> HIDE DEF w, name
    <3>1. QED BY <1>0, <2>4, <2>6, <2>7, Found
  <2>9. Find(w.at, name) = n
    BY <1>2, <2>3, <2>8
  <2>10. Walk(path).at = n
    <3> HIDE DEF w, name, path
    <3>1. Stride(w, name).at = Find(w.at, name)
      BY <1>0, <2>1, <2>4, <2>5, <2>6, StrideArrives
    <3>2. QED BY <2>4, <2>9, <3>1
  <2>11. Resolved(p, <<>>).at = Walk(path).at
    <3>1. IsWalk(Walk(path))
      BY <1>0, <2>2, WalkArrives
    <3>2. Resolved(p, <<>>) = Walk(path) \/ Resolved(p, <<>>) = [Walk(path) EXCEPT !.error = "NotADirectory"]
      BY DEF Resolved
    <3> DEFINE v == Walk(path)
    <3> HIDE DEF v
    <3>3. [v EXCEPT !.error = "NotADirectory"].at = v.at
      BY <3>1 DEF IsWalk, v
    <3>4. QED BY <3>2, <3>3 DEF v
  <2>12. QED BY <2>10, <2>11
<1>4. node[d] \in NodeType /\ d \in Node /\ n \in Node /\ node[d].entries \in Seq(Entry)
  BY <1>0, LiveTyped
<1> DEFINE es == node[d].entries
           fs == RemoveAt(es, i)
<1>5. \A q \in Live \ {n, d} : node'[q] = node[q]
  BY <1>0, <1>1, <1>4 DEF Shrinks, NodesTyped, Live
<1>6. node'[d] = [node[d] EXCEPT !.entries = fs]
  BY <1>0, <1>1, <1>2, <1>4 DEF Shrinks, NodesTyped
<1>7. ASSUME NEW k \in 1 .. Len(es), es[k].node # n
      PROVE  \E j \in 1 .. Len(fs) : fs[j] = es[k]
  <2>1. k # i
    BY <1>1, <1>7 DEF Shrinks
  <2>2. /\ Len(es) \in Nat /\ Len(fs) = Len(es) - 1
        /\ \A j \in 1 .. Len(es) - 1 : fs[j] = IF j < i THEN es[j] ELSE es[j + 1]
    <3>1. es \in Seq(Entry) /\ i \in 1 .. Len(es) /\ Len(es) \in Nat
      BY <1>1, <1>4
    <3> HIDE DEF es
    <3>2. Len(fs) = Len(es) - 1
      BY ONLY <3>1, RemoveAtIs
    <3>3. \A j \in 1 .. Len(es) - 1 : fs[j] = IF j < i THEN es[j] ELSE es[j + 1]
      BY ONLY <3>1, RemoveAtIs
    <3>4. QED BY <3>1, <3>2, <3>3
  <2>3. CASE k < i
    BY <2>2, <2>3
  <2>4. CASE k > i
    <3>1. k - 1 \in 1 .. Len(fs) /\ fs[k - 1] = es[k]
      BY <2>2, <2>4
    <3>2. QED BY <3>1
  <2>5. QED BY <2>1, <2>2, <2>3, <2>4
<1> HIDE DEF fs
<1>8. /\ node'[d].kind = node[d].kind /\ node'[d].parent = node[d].parent
      /\ node'[d].mounted = node[d].mounted /\ node'[d].entries = fs
  BY <1>4, <1>6 DEF NodeType
<1>9. RamRoot # n
  BY <1>2 DEF Roots
<1>10. StaysBut({n})
  BY <1>2, <1>5, <1>7, <1>8, <1>9 DEF StaysBut
<1>11. QED BY <1>3, <1>10

(* mount changes nothing but the node that is mounted on.                  *)
LEMMA MountStays ==
    ASSUME FilesInv, NEW p \in Path, Mount(p)
    PROVE  StaysBut({Resolved(p, <<>>).at})
<1> DEFINE d == Resolved(p, <<>>).at
           more == [node[d] EXCEPT !.mounted = RamRoot]
<1>0. TreeOk /\ NodesTyped /\ <<>> \in Seq(Name)
  BY DEF FilesInv, TreeOk
<1>1. /\ Resolved(p, <<>>).error = None /\ node' = [node EXCEPT ![d] = more]
      /\ \A n \in Live : node[n].mounted # RamRoot
  BY DEF Mount, ResolvesTo
<1>2. d \in Live /\ (d = RamRoot => Mounted)
  BY <1>0, <1>1, ResolvedIs DEF Arrived
<1>3. d # RamRoot
  BY <1>1, <1>2 DEF Mounted
<1> HIDE DEF d, more
<1>4. \A q \in Live \ {d} : node'[q] = node[q]
  BY <1>0, <1>1, <1>2 DEF NodesTyped, Live
<1>5. QED BY <1>3, <1>4 DEF StaysBut, Live, d

(* Every other call leaves all paths what they were.                       *)
LEMMA OthersStay ==
    ASSUME FilesInv, Next, \A p \in Path : ~ Unlink(p) /\ ~ Mount(p)
    PROVE  StaysBut({})
<1>0. TreeOk /\ NodesTyped /\ ProcessesTyped /\ OpenInv /\ <<>> \in Seq(Name)
  BY DEF FilesInv, TreeOk
<1>1. ASSUME NEW n \in Live, NEW more, more # Free, node' = [node EXCEPT ![n] = more],
             more.kind = node[n].kind, more.parent = node[n].parent,
             more.mounted = node[n].mounted, more.entries = node[n].entries
      PROVE  StaysBut({})
  <2>1. \A q \in Node : node'[q] = IF q = n THEN more ELSE node[q]
    BY <1>0, <1>1 DEF NodesTyped
  <2>2. QED BY <1>1, <2>1, SameStays DEF Live
<1>2. ASSUME NEW p \in Path, CreateDirectory(p) PROVE StaysBut({})
  <2> DEFINE path == AbsolutePath(p, <<>>)
  <2>1. path \in Seq(Steps)
    BY <1>0, AbsolutePathIs
  <2>2. PICK n \in Node \ Live : node' = Created(path, "directory", n)
    BY <1>2 DEF CreateDirectory
  <2>3. Walk(path).error = "FileNotFound" /\ CanCreate(path) /\ text' = text
    BY <1>2 DEF CreateDirectory
  <2> HIDE DEF path
  <2>4. node' = MadeIn(Content(Walk(Popped(path)).at), Filename(path), n, "directory", 0)
    BY <1>0, <2>1, <2>2, <2>3, CreatedIs
  <2>5. QED BY <2>1, <2>3, <2>4, MadeStays
<1>3. ASSUME NEW p \in Process, NEW a \in Path, OpenNew(p, a) PROVE StaysBut({})
  <2> DEFINE path == AbsolutePath(a, cwd[p])
  <2>0. cwd[p] \in Seq(Name)
    BY <1>0 DEF ProcessesTyped
  <2>1. path \in Seq(Steps) /\ Walk(path).error = "FileNotFound"
    BY <1>0, <1>3, <2>0, ResolvedIs DEF OpenNew
  <2>2. CanCreate(path) /\ text' = text
    BY <1>3 DEF OpenNew
  <2>3. PICK n \in Node \ Live : OpenContext(p, n, Created(path, "file", n))
    BY <1>3 DEF OpenNew
  <2> HIDE DEF path
  <2>4. node' = MadeIn(Content(Walk(Popped(path)).at), Filename(path), n, "file", 1)
    BY <1>0, <2>1, <2>2, <2>3, CreatedIs DEF OpenContext
  <2>5. QED BY <2>1, <2>2, <2>4, MadeStays
<1>4. ASSUME NEW p \in Process, NEW a \in Path, NEW kind, Open(p, a, kind) PROVE StaysBut({})
  <2> DEFINE n == Resolved(a, cwd[p]).at
             more == [node[n] EXCEPT !.rc = @ + 1]
  <2>0. cwd[p] \in Seq(Name)
    BY <1>0 DEF ProcessesTyped
  <2>1. Resolved(a, cwd[p]).error = None /\ OpenContext(p, n, node)
    BY <1>4 DEF Open, ResolvesTo
  <2>2. n \in Live
    BY <1>0, <2>0, <2>1, ResolvedIs DEF Arrived
  <2> HIDE DEF n
  <2>3. n \in Node /\ node[n] \in NodeType
    BY <1>0, <2>2, LiveTyped
  <2>4. /\ more \in NodeType /\ more.kind = node[n].kind /\ more.parent = node[n].parent
        /\ more.mounted = node[n].mounted /\ more.entries = node[n].entries
    <3>1. more = [node[n] EXCEPT !.rc = node[n].rc + 1] /\ node[n].rc + 1 \in Nat
      BY <2>3 DEF NodeType
    <3> HIDE DEF more
    <3>2. QED BY <2>3, <3>1, CountSet
  <2>5. node' = [node EXCEPT ![n] = more] /\ more # Free
    BY <2>1, <2>4, FilesAssumption DEF OpenContext
  <2> HIDE DEF more
  <2>6. QED BY <1>1, <2>2, <2>4, <2>5
<1>5. ASSUME NEW p \in Process, NEW id \in DOMAIN files[p], Close(p, id) PROVE StaysBut({})
  <2> DEFINE n == files[p][id].node
             k == IF node[n].rc > 0 THEN node[n].rc - 1 ELSE 0
             more == [node[n] EXCEPT !.rc = k]
  <2>1. node' = [node EXCEPT ![n] = more]
    BY <1>5 DEF Close
  <2>2. n \in Live
    BY <1>0 DEF OpenInv
  <2> HIDE DEF n
  <2>3. n \in Node /\ node[n] \in NodeType /\ node[n].rc \in Nat
    BY <1>0, <2>2, LiveTyped DEF NodeType
  <2>4. k \in Nat
    BY <2>3
  <2> HIDE DEF k
  <2>5. /\ more \in NodeType /\ more.kind = node[n].kind /\ more.parent = node[n].parent
        /\ more.mounted = node[n].mounted /\ more.entries = node[n].entries
    <3> HIDE DEF more
    <3>1. more = [node[n] EXCEPT !.rc = k]
      BY DEF more
    <3>2. QED BY <2>3, <2>4, <3>1, CountSet
  <2>6. more # Free
    BY <2>5, FilesAssumption
  <2> HIDE DEF more
  <2>7. QED BY <1>1, <2>1, <2>2, <2>5, <2>6
<1>6. ASSUME NEW p \in Process, NEW id \in DOMAIN files[p], NEW data \in Data, Write(p, id, data)
      PROVE  StaysBut({})
  <2> DEFINE n == files[p][id].node
  <2>1. n \in Live
    BY <1>0, SMTT(40) DEF OpenInv
  <2>2. PICK w : node' = [node EXCEPT ![n].pages = w.pages, ![n].total = w.total]
    <3>1. \E w : node' = [node EXCEPT ![n].pages = w.pages, ![n].total = w.total]
      BY <1>6, Zenon DEF Write
    <3>2. QED BY <3>1
  <2> HIDE DEF n
  <2>3. n \in Node /\ node[n] \in NodeType
    BY <1>0, <2>1, LiveTyped
  <2> DEFINE more == [node[n] EXCEPT !.pages = w.pages, !.total = w.total]
  <2>4. /\ more.kind = node[n].kind /\ more.parent = node[n].parent
        /\ more.mounted = node[n].mounted /\ more.entries = node[n].entries
    BY <2>3 DEF NodeType
  <2>5. node'[n] = more /\ \A q \in Node \ {n} : node'[q] = node[q]
    BY <1>0, <2>2, <2>3 DEF NodesTyped
  <2>6. Live' = Live
    BY <1>6, WriteKeeps
  <2> HIDE DEF more
  <2>7. QED BY <2>4, <2>5, <2>6, SameStays DEF Live
<1>7. CASE node' = node
  <2>1. Live' = Live
    BY <1>7, SMTT(40) DEF Live
  <2>2. QED BY <1>7, <2>1, SameStays
<1>8. ASSUME NEW p \in Process, NEW id \in DOMAIN files[p],
             \/ ReadDirectory(p, id) \/ \E k \in {1, PageSize + 1} : Read(p, id, k)
             \/ \E offset \in SeekOffset, t \in SeekType : Seek(p, id, offset, t)
      PROVE  node' = node
  BY <1>8 DEF ReadDirectory, Read, Seek
<1>9. ASSUME NEW p \in Process, NEW a \in Path, SetCwd(p, a) PROVE node' = node
  BY <1>9 DEF SetCwd
<1>10. QED BY <1>2, <1>3, <1>4, <1>5, <1>6, <1>7, <1>8, <1>9, Zenon DEF Next

(* Whatever is opened, created, written, read, closed or made the current  *)
(* directory, a path that named a node goes on naming it; unlink and mount *)
(* change only what comes to the node that they were called for.           *)
THEOREM NamesStayStable == Spec => NamesAreStable
<1> DEFINE Asked(path) == \E p \in Path : /\ Unlink(p) \/ Mount(p)
                                          /\ Resolved(p, <<>>).at \in Visited(path)
           Stable == \A path \in FromRoot :
                        LET w == Walk(path)
                        IN  w.error = None /\ Walk(path)' # w => Asked(path)
<1>1. FilesInv /\ FilesInv' /\ [Next]_vars => [Stable]_node
  <2> SUFFICES ASSUME FilesInv, FilesInv', Next, NEW path \in FromRoot, NEW w, w = Walk(path),
                      w.error = None, ~ Asked(path)
               PROVE  Walk(path)' = w
    BY DEF vars
  <2>1. TreeOk /\ TreeOk'
    BY DEF FilesInv
  <2>2. path \in Seq(Steps)
    <3>1. <<>> \in Seq(Name)
      OBVIOUS
    <3>2. QED BY <3>1, AbsolutePathIs DEF FromRoot
  <2>3. CASE \E p \in Path : Unlink(p) \/ Mount(p)
    <3>1. PICK p \in Path : Unlink(p) \/ Mount(p)
      BY <2>3
    <3>2. PICK D : D = {Resolved(p, <<>>).at}
      OBVIOUS
    <3>3. StaysBut(D)
      BY <3>1, <3>2, UnlinkStays, MountStays
    <3>4. Visited(path) \cap D = {}
      BY <3>1, <3>2
    <3>5. QED BY <2>1, <2>2, <3>3, <3>4, WalkStays
  <2>4. CASE ~ \E p \in Path : Unlink(p) \/ Mount(p)
    <3>1. StaysBut({}) /\ Visited(path) \cap {} = {}
      BY <2>4, OthersStay
    <3>2. QED BY <2>1, <2>2, <3>1, WalkStays
  <2>5. QED BY <2>3, <2>4
<1>2. Spec => [][Stable]_node
  BY <1>1, FilesStay, PTL DEF Spec
<1>3. QED BY <1>1, FilesStay, PTL DEF Spec, NamesAreStable
=============================================================================
