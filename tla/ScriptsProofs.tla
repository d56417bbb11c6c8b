----------------------------- MODULE ScriptsProofs -----------------------------
(***************************************************************************)
(* The codes that scripts/codegen/generate_system_calls.py gives to errors *)
(* are the numbers from 1 on, each once, in the script and in every file   *)
(* it leaves behind, and programs that were built with an earlier file     *)
(* understand them; a run that ends well leaves the calls that are         *)
(* declared: proofs for all files and libraries, and any stops.            *)
(* At the end, the same for scripts/zig.py: what its commands promise.     *)
(***************************************************************************)
EXTENDS SystemCallGenerator, ZigVersions, Induction

(* The codes are the numbers from 1 to n.                                  *)
NumberedTo(c, n) == DOMAIN c \subseteq Error /\ c \in Bijection(DOMAIN c, 1 .. n)
Numbered(c) == \E n \in Nat : NumberedTo(c, n)

CodesInv == Numbered(codes) /\ (interface # None => Numbered(interface.codes))

PlaceInv ==
    /\ impl \in Sources /\ library \in Libraries /\ touched \subseteq {"impl", "script"}
    /\ pc \in {"idle", "parse", "read", "ask", "write"}
    /\ pc \in {"idle", "parse", "read"} => answers = Empty
    /\ DOMAIN answers \subseteq ErrorTypesOf(parsed)
    /\ disturbed \in BOOLEAN /\ codesLost \in BOOLEAN

IInv == CodesInv /\ PlaceInv

------------------------------------------------------------------------------
(* Codes that are numbered.                                                *)

LEMMA NumberedParts ==
    ASSUME NEW c, NEW n \in Nat
    PROVE  NumberedTo(c, n) <=>
              /\ DOMAIN c \subseteq Error /\ c \in [DOMAIN c -> 1 .. n]
              /\ \A d, e \in DOMAIN c : c[d] = c[e] => d = e
              /\ \A k \in 1 .. n : \E e \in DOMAIN c : c[e] = k
BY DEF NumberedTo, Bijection, Injection, Surjection, IsInjective

LEMMA EmptyNumbered == NumberedTo(Empty, 0)
<1>1. DOMAIN Empty = {} /\ 1 .. 0 = {}
  BY DEF Empty
<1>2. Empty \in [{} -> {}]
  BY DEF Empty
<1>3. QED BY <1>1, <1>2 DEF NumberedTo, Bijection, Injection, Surjection, IsInjective

(* There are as many errors with a code as there are codes.                *)
LEMMA NumberedCount ==
    ASSUME NEW c, NEW n \in Nat, NumberedTo(c, n)
    PROVE  n <= Cardinality(Error)
<1>1. IsFiniteSet(Error) /\ DOMAIN c \in SUBSET Error
  BY GeneratorAssumption DEF NumberedTo
<1>2. IsFiniteSet(DOMAIN c) /\ Cardinality(DOMAIN c) <= Cardinality(Error)
  BY <1>1, FS_Subset
<1>3. ExistsBijection(DOMAIN c, 1 .. n)
  BY DEF NumberedTo, ExistsBijection
<1>4. Cardinality(1 .. n) = Cardinality(DOMAIN c)
  BY <1>2, <1>3, FS_Bijection
<1>5. Cardinality(1 .. n) = n
  BY FS_Interval
<1>6. QED BY <1>2, <1>4, <1>5

LEMMA NumberedSound ==
    ASSUME NEW c, Numbered(c)
    PROVE  IsCodes(c) /\ IsInjective(c)
<1>1. PICK n \in Nat : NumberedTo(c, n)
  BY DEF Numbered
<1>2. n <= Cardinality(Error) /\ Cardinality(Error) \in Nat
  BY <1>1, NumberedCount, FS_CardinalityType, GeneratorAssumption
<1>3. IsCodes(c)
  BY <1>1, <1>2, NumberedParts DEF IsCodes
<1>4. IsInjective(c)
  BY <1>1, NumberedParts DEF IsInjective
<1>5. QED BY <1>3, <1>4

(* max_error_code is how many codes there are.                             *)
LEMMA MaxErrorCodeIs ==
    ASSUME NEW c, NEW n \in Nat, NumberedTo(c, n)
    PROVE  MaxErrorCode(c) = n
<1>1. /\ c \in [DOMAIN c -> 1 .. n]
      /\ \A k \in 1 .. n : \E e \in DOMAIN c : c[e] = k
  BY NumberedParts
<1>2. CASE c = Empty
  <2>1. DOMAIN c = {}
    BY <1>2 DEF Empty
  <2>2. n = 0
    BY <1>1, <2>1
  <2>3. QED BY <1>2, <2>2 DEF MaxErrorCode
<1>3. CASE c # Empty
  <2>1. DOMAIN c # {}
    BY <1>1, <1>3 DEF Empty
  <2>2. n \in 1 .. n
    BY <1>1, <2>1
  <2>3. PICK last \in DOMAIN c : c[last] = n
    BY <1>1, <2>2
  <2> DEFINE values == {c[e] : e \in DOMAIN c}
             IsMax(m) == \A e \in DOMAIN c : c[e] <= m
  <2>4. n \in values /\ IsMax(n)
    BY <1>1, <2>3
  <2>5. \A m \in values : IsMax(m) => m = n
    BY <1>1, <2>3
  <2>6. (CHOOSE m \in values : IsMax(m)) = n
    BY <2>4, <2>5
  <2>7. QED BY <1>3, <2>6 DEF MaxErrorCode
<1>4. QED BY <1>2, <1>3

(* New errors get the numbers that follow.                                 *)
LEMMA NewNumbered ==
    ASSUME NEW known, Numbered(known), NEW errors, errors \subseteq Error,
           NEW result \in WithNew(known, errors)
    PROVE  Numbered(result)
<1> DEFINE new == errors \ DOMAIN known
           k == Cardinality(new)
<1>1. PICK n \in Nat : NumberedTo(known, n)
  BY DEF Numbered
<1>2. MaxErrorCode(known) = n
  BY <1>1, MaxErrorCodeIs
<1>3. k \in Nat
  BY FS_Subset, FS_CardinalityType, GeneratorAssumption
<1>4. PICK order \in Bijection(new, n + 1 .. n + k) :
          result = [e \in DOMAIN known \cup new |-> IF e \in new THEN order[e] ELSE known[e]]
  BY <1>2 DEF WithNew
<1>5. /\ order \in [new -> n + 1 .. n + k]
      /\ \A d, e \in new : order[d] = order[e] => d = e
      /\ \A v \in n + 1 .. n + k : \E e \in new : order[e] = v
  BY <1>4 DEF Bijection, Injection, Surjection, IsInjective
<1>6. /\ DOMAIN known \subseteq Error /\ known \in [DOMAIN known -> 1 .. n]
      /\ \A d, e \in DOMAIN known : known[d] = known[e] => d = e
      /\ \A v \in 1 .. n : \E e \in DOMAIN known : known[e] = v
  BY <1>1, NumberedParts
<1>7. /\ DOMAIN result = DOMAIN known \cup new
      /\ \A e \in new : result[e] = order[e] /\ result[e] \in n + 1 .. n + k
      /\ \A e \in DOMAIN known : result[e] = known[e] /\ result[e] \in 1 .. n
  BY <1>4, <1>5, <1>6
<1> HIDE DEF new, k
<1>8. DOMAIN result \subseteq Error
  BY <1>6, <1>7 DEF new
<1>9. result \in [DOMAIN result -> 1 .. n + k]
  <2>1. \A e \in DOMAIN result : result[e] \in 1 .. n + k
    BY <1>3, <1>7
  <2>2. QED BY <1>4, <2>1
<1>10. \A d, e \in DOMAIN result : result[d] = result[e] => d = e
  BY <1>3, <1>5, <1>6, <1>7
<1>11. \A v \in 1 .. n + k : \E e \in DOMAIN result : result[e] = v
  <2>1. ASSUME NEW v \in 1 .. n + k PROVE v \in 1 .. n \/ v \in n + 1 .. n + k
    BY <1>3
  <2>2. QED BY <1>5, <1>6, <1>7, <2>1
<1>12. NumberedTo(result, n + k)
  BY <1>3, <1>8, <1>9, <1>10, <1>11, NumberedParts
<1>13. QED BY <1>3, <1>12 DEF Numbered

(* So are the codes in the part of a file that was written.                *)
LEMMA FirstNumbered ==
    ASSUME Numbered(codes), NEW n \in Nat
    PROVE  Numbered(FirstCodes(n).codes)
<1> DEFINE first == [e \in {d \in DOMAIN codes : codes[d] <= n} |-> codes[e]]
<1>1. PICK m \in Nat : NumberedTo(codes, m)
  BY DEF Numbered
<1>2. /\ DOMAIN codes \subseteq Error /\ codes \in [DOMAIN codes -> 1 .. m]
      /\ \A d, e \in DOMAIN codes : codes[d] = codes[e] => d = e
      /\ \A v \in 1 .. m : \E e \in DOMAIN codes : codes[e] = v
  BY <1>1, NumberedParts
<1> DEFINE l == IF n < m THEN n ELSE m
<1>3. l \in Nat /\ l <= n /\ l <= m
  OBVIOUS
<1>4. \A e \in DOMAIN first : e \in DOMAIN codes /\ first[e] = codes[e] /\ first[e] \in 1 .. l
  BY <1>2
<1>5. first \in [DOMAIN first -> 1 .. l]
  BY <1>4
<1>6. \A v \in 1 .. l : \E e \in DOMAIN first : first[e] = v
  BY <1>2
<1>7. NumberedTo(first, l)
  <2>1. \A d, e \in DOMAIN first : first[d] = first[e] => d = e
    BY <1>2, <1>4
  <2>2. DOMAIN first \subseteq Error
    BY <1>2, <1>4
  <2> HIDE DEF first, l
  <2>3. QED BY <1>3, <1>5, <1>6, <2>1, <2>2, NumberedParts
<1>8. FirstCodes(n).codes = first
  BY DEF FirstCodes
<1> HIDE DEF first, l
<1>9. QED BY <1>3, <1>7, <1>8 DEF Numbered

------------------------------------------------------------------------------
(* The steps.                                                              *)

LEMMA InitIInv == Init => IInv
<1> SUFFICES ASSUME Init PROVE IInv
  OBVIOUS
<1>1. Numbered(Empty)
  BY EmptyNumbered DEF Numbered
<1>2. CodesInv
  BY <1>1 DEF Init, CodesInv
<1>3. DOMAIN Empty = {}
  BY DEF Empty
<1>4. PlaceInv
  BY <1>3 DEF Init, PlaceInv
<1>5. QED BY <1>2, <1>4 DEF IInv

(* A step that ends the script forgets its codes.                          *)
LEMMA EndedStep ==
    ASSUME NEW how, Ended(how)
    PROVE  /\ Numbered(codes') /\ pc' = "idle" /\ answers' = Empty
           /\ DOMAIN answers' \subseteq ErrorTypesOf(parsed')
<1>1. Numbered(Empty)
  BY EmptyNumbered DEF Numbered
<1>2. DOMAIN Empty = {}
  BY DEF Empty
<1>3. QED BY <1>1, <1>2 DEF Ended

LEMMA GivenUpStep == IInv /\ GivenUp => IInv'
<1> SUFFICES ASSUME IInv, GivenUp PROVE IInv'
  OBVIOUS
<1>1. Ended("failed")
  BY DEF GivenUp
<1>2. QED BY <1>1, EndedStep DEF GivenUp, files, IInv, CodesInv, PlaceInv

LEMMA DeveloperStep ==
    ASSUME IInv,
           \/ \E lines \in Sources : EditImpl(lines)
           \/ \E errors \in Libraries : EditLibrary(errors)
           \/ EditScript \/ RemoveInterface \/ BuildProgram
    PROVE  IInv'
<1>1. CASE \E lines \in Sources : EditImpl(lines)
  BY <1>1 DEF EditImpl, locals, IInv, CodesInv, PlaceInv
<1>2. CASE \E errors \in Libraries : EditLibrary(errors)
  BY <1>2 DEF EditLibrary, locals, IInv, CodesInv, PlaceInv
<1>3. CASE EditScript
  BY <1>3 DEF EditScript, locals, IInv, CodesInv, PlaceInv
<1>4. CASE RemoveInterface
  BY <1>4 DEF RemoveInterface, files, locals, IInv, CodesInv, PlaceInv
<1>5. CASE BuildProgram
  BY <1>5 DEF BuildProgram, files, locals, IInv, CodesInv, PlaceInv
<1>6. QED BY <1>1, <1>2, <1>3, <1>4, <1>5

LEMMA StartStep == IInv /\ Start => IInv'
<1> SUFFICES ASSUME IInv, Start PROVE IInv'
  OBVIOUS
<1>1. CASE NeedToGenerate
  BY <1>1 DEF Start, files, IInv, CodesInv, PlaceInv
<1>2. CASE ~ NeedToGenerate
  <2>1. Ended("up to date")
    BY <1>2 DEF Start
  <2>2. QED BY <2>1, EndedStep DEF Start, files, IInv, CodesInv, PlaceInv
<1>3. QED BY <1>1, <1>2

LEMMA ParseStep == IInv /\ Parse => IInv'
<1> SUFFICES ASSUME IInv, Parse, ~ GivenUp PROVE IInv'
  BY GivenUpStep
<1>1. /\ answers' = answers /\ codes' = codes /\ pc' = "read"
      /\ UNCHANGED <<files, interface, outcome, disturbed, program, codesLost>>
  BY DEF Parse, GoesTo
<1>2. answers = Empty /\ DOMAIN Empty = {}
  BY DEF Parse, IInv, PlaceInv, Empty
<1>3. QED BY <1>1, <1>2 DEF files, IInv, CodesInv, PlaceInv

LEMMA ReadCodesStep == IInv /\ ReadCodes => IInv'
<1> SUFFICES ASSUME IInv, ReadCodes, ~ GivenUp PROVE IInv'
  BY GivenUpStep
<1>1. /\ interface # None /\ codes' = interface.codes /\ pc' = "ask"
      /\ UNCHANGED <<files, interface, parsed, answers, outcome, disturbed, program, codesLost>>
  BY DEF ReadCodes, GoesTo
<1>2. QED BY <1>1 DEF files, IInv, CodesInv, PlaceInv

LEMMA AskZigStep ==
    ASSUME IInv, NEW type \in ErrorType, AskZig(type)
    PROVE  IInv'
<1>1. library[type] \subseteq Error
  BY GeneratorAssumption DEF IInv, PlaceInv
<1>2. Numbered(codes')
  BY <1>1, NewNumbered DEF AskZig, IInv, CodesInv
<1>3. /\ type \in ErrorTypesOf(parsed) /\ DOMAIN answers' = DOMAIN answers \cup {type}
      /\ pc' = "ask"
      /\ UNCHANGED <<files, interface, parsed, outcome, disturbed, program, codesLost>>
  BY DEF AskZig, GoesTo
<1>4. QED BY <1>2, <1>3 DEF files, IInv, CodesInv, PlaceInv

LEMMA OpenStep == IInv /\ Open => IInv'
<1> SUFFICES ASSUME IInv, Open, ~ GivenUp PROVE IInv'
  BY GivenUpStep
<1>1. /\ interface' = [codes |-> Empty, switches |-> None, calls |-> <<>>]
      /\ touched' \in SUBSET touched /\ pc' = "write"
      /\ UNCHANGED <<impl, library, parsed, codes, answers, outcome,
                     disturbed, program, codesLost>>
  BY DEF Open
<1>2. Numbered(interface'.codes)
  BY <1>1, EmptyNumbered DEF Numbered
<1>3. QED BY <1>1, <1>2 DEF IInv, CodesInv, PlaceInv

LEMMA WriteStep == IInv /\ Write => IInv'
<1> SUFFICES ASSUME IInv, Write PROVE IInv'
  OBVIOUS
<1>1. PICK how : Ended(how)
  BY DEF Write
<1>2. interface'.codes = codes
  BY DEF Write, WithCalls
<1>3. /\ disturbed' \in BOOLEAN /\ touched' \in SUBSET touched
      /\ UNCHANGED <<impl, library, program, codesLost>>
  BY DEF Write
<1>4. QED BY <1>1, <1>2, <1>3, EndedStep DEF IInv, CodesInv, PlaceInv

LEMMA KillStep == IInv /\ Kill => IInv'
<1> SUFFICES ASSUME IInv, Kill PROVE IInv'
  OBVIOUS
<1>1. Ended("failed") /\ UNCHANGED <<impl, library, program>>
  BY DEF Kill
<1>2. CASE pc # "write"
  BY <1>1, <1>2, EndedStep DEF Kill, IInv, CodesInv, PlaceInv
<1>3. CASE pc = "write"
  <2>1. /\ touched' \in SUBSET touched /\ disturbed' \in BOOLEAN
        /\ codesLost' = (codesLost \/ interface'.codes # codes)
        /\ \/ \E n \in 0 .. Writable(parsed) : interface' = WithCalls(n)
           \/ \E n \in 0 .. Cardinality(Error) : interface' = FirstCodes(n)
    BY <1>3 DEF Kill
  <2>2. Numbered(interface'.codes)
    <3>1. CASE \E n \in 0 .. Writable(parsed) : interface' = WithCalls(n)
      BY <3>1 DEF WithCalls, IInv, CodesInv
    <3>2. CASE \E n \in 0 .. Cardinality(Error) : interface' = FirstCodes(n)
      <4>1. PICK n \in 0 .. Cardinality(Error) : interface' = FirstCodes(n)
        BY <3>2
      <4>2. n \in Nat
        OBVIOUS
      <4>3. QED BY <4>1, <4>2, FirstNumbered DEF IInv, CodesInv
    <3>3. QED BY <2>1, <3>1, <3>2
  <2>3. codesLost' \in BOOLEAN
    BY <2>1 DEF IInv, PlaceInv
  <2>4. QED BY <1>1, <2>1, <2>2, <2>3, EndedStep DEF IInv, CodesInv, PlaceInv
<1>4. QED BY <1>2, <1>3

LEMMA Invariance == Spec => []IInv
<1>1. IInv /\ [Next]_vars => IInv'
  <2> SUFFICES ASSUME IInv, [Next]_vars PROVE IInv'
    OBVIOUS
  <2>1. CASE Next
    <3>1. CASE \/ \E lines \in Sources : EditImpl(lines)
               \/ \E errors \in Libraries : EditLibrary(errors)
               \/ EditScript \/ RemoveInterface \/ BuildProgram
      BY <3>1, DeveloperStep
    <3>2. CASE Start
      BY <3>2, StartStep
    <3>3. CASE Parse
      BY <3>3, ParseStep
    <3>4. CASE ReadCodes
      BY <3>4, ReadCodesStep
    <3>5. CASE \E type \in ErrorType : AskZig(type)
      BY <3>5, AskZigStep
    <3>6. CASE ZigFails
      BY <3>6, GivenUpStep DEF ZigFails
    <3>7. CASE Open
      BY <3>7, OpenStep
    <3>8. CASE Write
      BY <3>8, WriteStep
    <3>9. CASE Kill
      BY <3>9, KillStep
    <3>10. QED
      BY <2>1, <3>1, <3>2, <3>3, <3>4, <3>5, <3>6, <3>7, <3>8, <3>9 DEF Next
  <2>2. CASE UNCHANGED vars
    BY <2>2 DEF vars, files, locals, IInv, CodesInv, PlaceInv
  <2>3. QED BY <2>1, <2>2
<1>2. QED BY InitIInv, <1>1, PTL DEF Spec

(* No two errors ever have the same code, whatever the implementation and  *)
(* the library hold, in whichever order they change and wherever the       *)
(* script is stopped.                                                      *)
THEOREM CodesStayApart == Spec => []CodesNeverClash
<1>1. IInv => CodesNeverClash
  BY NumberedSound DEF IInv, CodesInv, PlaceInv, CodesNeverClash, TypeOK
<1>2. QED BY Invariance, <1>1, PTL

------------------------------------------------------------------------------
(* What programs know.                                                     *)

Extends(c, d) == DOMAIN d \subseteq DOMAIN c /\ \A e \in DOMAIN d : c[e] = d[e]

(* All the errors of the types that were asked for have a code.            *)
Covers(c, switches) == \A type \in DOMAIN switches : switches[type] \subseteq DOMAIN c

CoverInv ==
    /\ Covers(codes, answers)
    /\ interface # None /\ interface.switches # None => Covers(interface.codes, interface.switches)
    /\ program # None => Covers(program.codes, program.switches)

(* A program's codes stay in the interface, and in what the script has     *)
(* read of it.                                                             *)
ProgramInv ==
    program # None /\ ~ codesLost =>
        /\ interface # None /\ pc # "write" => Extends(interface.codes, program.codes)
        /\ pc \in {"ask", "write"} => Extends(codes, program.codes)

LEMMA EmptyCovers == Covers(Empty, Empty)
<1>1. DOMAIN Empty = {}
  BY DEF Empty
<1>2. QED BY <1>1 DEF Covers

LEMMA NewExtends ==
    ASSUME NEW known, NEW errors, NEW result \in WithNew(known, errors)
    PROVE  Extends(result, known) /\ errors \subseteq DOMAIN result
<1>1. PICK order : result = [e \in DOMAIN known \cup (errors \ DOMAIN known) |->
                                IF e \in errors \ DOMAIN known THEN order[e] ELSE known[e]]
  BY DEF WithNew
<1>2. DOMAIN result = DOMAIN known \cup (errors \ DOMAIN known)
  BY <1>1
<1>3. \A e \in DOMAIN known : result[e] = known[e]
  BY <1>1
<1>4. QED BY <1>2, <1>3 DEF Extends

LEMMA EndedCovers ==
    ASSUME NEW how, Ended(how)
    PROVE  pc' = "idle" /\ Covers(codes', answers')
BY EmptyCovers DEF Ended

LEMMA GivenUpProgram ==
    ASSUME CoverInv, ProgramInv, pc # "write", GivenUp
    PROVE  CoverInv' /\ ProgramInv'
<1>1. Ended("failed") /\ UNCHANGED <<interface, program, codesLost>>
  BY DEF GivenUp
<1>2. pc' = "idle" /\ Covers(codes', answers')
  BY <1>1, EndedCovers
<1>3. QED BY <1>1, <1>2 DEF CoverInv, ProgramInv

LEMMA DeveloperProgram ==
    ASSUME CoverInv, ProgramInv,
           \/ \E lines \in Sources : EditImpl(lines)
           \/ \E errors \in Libraries : EditLibrary(errors)
           \/ EditScript \/ RemoveInterface \/ BuildProgram
    PROVE  CoverInv' /\ ProgramInv'
<1>1. CASE \E lines \in Sources : EditImpl(lines)
  BY <1>1 DEF EditImpl, locals, CoverInv, ProgramInv
<1>2. CASE \E errors \in Libraries : EditLibrary(errors)
  BY <1>2 DEF EditLibrary, locals, CoverInv, ProgramInv
<1>3. CASE EditScript
  BY <1>3 DEF EditScript, locals, CoverInv, ProgramInv
<1>4. CASE RemoveInterface
  BY <1>4 DEF RemoveInterface, locals, CoverInv, ProgramInv
<1>5. CASE BuildProgram
  <2>1. /\ pc' = "idle" /\ interface # None /\ interface.switches # None
        /\ UNCHANGED <<interface, codes, answers>>
        /\ program'.codes = interface.codes /\ program'.switches = interface.switches
    BY <1>5 DEF BuildProgram, locals
  <2>2. Extends(interface.codes, interface.codes)
    BY DEF Extends
  <2>3. QED BY <2>1, <2>2 DEF CoverInv, ProgramInv
<1>6. QED BY <1>1, <1>2, <1>3, <1>4, <1>5

LEMMA StartProgram ==
    ASSUME CoverInv, ProgramInv, Start
    PROVE  CoverInv' /\ ProgramInv'
<1>1. pc = "idle" /\ UNCHANGED <<interface, program, codesLost>>
  BY DEF Start
<1>2. CASE NeedToGenerate
  BY <1>1, <1>2 DEF Start, CoverInv, ProgramInv
<1>3. CASE ~ NeedToGenerate
  <2>1. Ended("up to date")
    BY <1>3 DEF Start
  <2>2. pc' = "idle" /\ Covers(codes', answers')
    BY <2>1, EndedCovers
  <2>3. QED BY <1>1, <2>2 DEF CoverInv, ProgramInv
<1>4. QED BY <1>2, <1>3

LEMMA ReadProgram ==
    ASSUME IInv, CoverInv, ProgramInv, Parse \/ ReadCodes
    PROVE  CoverInv' /\ ProgramInv'
<1>1. CASE GivenUp
  BY <1>1, GivenUpProgram DEF Parse, ReadCodes
<1>2. CASE Parse /\ ~ GivenUp
  BY <1>2 DEF Parse, GoesTo, CoverInv, ProgramInv
<1>3. CASE ReadCodes /\ ~ GivenUp
  <2>1. /\ pc = "read" /\ interface # None /\ codes' = interface.codes
        /\ UNCHANGED <<interface, answers, program, codesLost>>
    BY <1>3 DEF ReadCodes, GoesTo
  <2>2. answers = Empty /\ DOMAIN Empty = {}
    BY <2>1 DEF IInv, PlaceInv, Empty
  <2>3. Covers(codes', answers')
    BY <2>1, <2>2 DEF Covers
  <2>4. QED BY <2>1, <2>3 DEF CoverInv, ProgramInv
<1>4. QED BY <1>1, <1>2, <1>3

LEMMA AskProgram ==
    ASSUME CoverInv, ProgramInv, NEW type \in ErrorType, AskZig(type)
    PROVE  CoverInv' /\ ProgramInv'
<1>1. /\ pc = "ask" /\ pc' = "ask" /\ UNCHANGED <<interface, program, codesLost>>
      /\ codes' \in WithNew(codes, library[type])
      /\ answers' = [t \in DOMAIN answers \cup {type} |->
                        IF t = type THEN library[type] ELSE answers[t]]
  BY DEF AskZig, GoesTo
<1>2. Extends(codes', codes) /\ library[type] \subseteq DOMAIN codes'
  BY <1>1, NewExtends
<1>3. Covers(codes', answers')
  BY <1>1, <1>2 DEF Covers, Extends, CoverInv
<1>4. \A c : Extends(codes, c) => Extends(codes', c)
  BY <1>2 DEF Extends
<1>5. QED BY <1>1, <1>3, <1>4 DEF CoverInv, ProgramInv

LEMMA OpenProgram ==
    ASSUME CoverInv, ProgramInv, Open
    PROVE  CoverInv' /\ ProgramInv'
<1>1. CASE GivenUp
  BY <1>1, GivenUpProgram DEF Open
<1>2. CASE ~ GivenUp
  BY <1>2 DEF Open, CoverInv, ProgramInv
<1>3. QED BY <1>1, <1>2

LEMMA WriteProgram ==
    ASSUME CoverInv, ProgramInv, Write \/ (Kill /\ pc = "write")
    PROVE  CoverInv' /\ ProgramInv'
<1>1. /\ pc = "write" /\ program' = program /\ \E how : Ended(how)
      /\ \/ /\ interface'.codes = codes /\ interface'.switches = answers
            /\ ~ codesLost' => ~ codesLost
         \/ /\ interface'.switches = None
            /\ ~ codesLost' => ~ codesLost /\ interface'.codes = codes
  <2>1. CASE Write
    BY <2>1 DEF Write, WithCalls
  <2>2. CASE Kill /\ pc = "write"
    <3>1. /\ program' = program /\ Ended("failed")
          /\ ~ codesLost' => ~ codesLost /\ interface'.codes = codes
      BY <2>2 DEF Kill
    <3>2. CASE \E n \in 0 .. Writable(parsed) : interface' = WithCalls(n)
      BY <2>2, <3>1, <3>2 DEF WithCalls
    <3>3. CASE \E n \in 0 .. Cardinality(Error) : interface' = FirstCodes(n)
      BY <2>2, <3>1, <3>3 DEF FirstCodes
    <3>4. QED BY <2>2, <3>2, <3>3 DEF Kill
  <2>3. QED BY <2>1, <2>2
<1>2. pc' = "idle" /\ Covers(codes', answers')
  BY <1>1, EndedCovers
<1>3. CoverInv'
  BY <1>1, <1>2 DEF CoverInv
<1>4. ProgramInv'
  BY <1>1, <1>2 DEF ProgramInv
<1>5. QED BY <1>3, <1>4

LEMMA KillProgram ==
    ASSUME CoverInv, ProgramInv, Kill, pc # "write"
    PROVE  CoverInv' /\ ProgramInv'
<1>1. Ended("failed") /\ UNCHANGED <<interface, program, codesLost>>
  BY DEF Kill
<1>2. pc' = "idle" /\ Covers(codes', answers')
  BY <1>1, EndedCovers
<1>3. QED BY <1>1, <1>2 DEF CoverInv, ProgramInv

LEMMA ProgramInvariance == Spec => [](CoverInv /\ ProgramInv)
<1> DEFINE J == CoverInv /\ ProgramInv
<1>1. Init => J
  BY EmptyCovers DEF Init, CoverInv, ProgramInv
<1>2. IInv /\ J /\ [Next]_vars => J'
  <2> SUFFICES ASSUME IInv, CoverInv, ProgramInv, [Next]_vars PROVE CoverInv' /\ ProgramInv'
    OBVIOUS
  <2>1. CASE Next
    <3>1. CASE \/ \E lines \in Sources : EditImpl(lines)
               \/ \E errors \in Libraries : EditLibrary(errors)
               \/ EditScript \/ RemoveInterface \/ BuildProgram
      BY <3>1, DeveloperProgram
    <3>2. CASE Start
      BY <3>2, StartProgram
    <3>3. CASE Parse \/ ReadCodes
      BY <3>3, ReadProgram
    <3>4. CASE \E type \in ErrorType : AskZig(type)
      BY <3>4, AskProgram
    <3>5. CASE ZigFails
      BY <3>5, GivenUpProgram DEF ZigFails
    <3>6. CASE Open
      BY <3>6, OpenProgram
    <3>7. CASE Write
      BY <3>7, WriteProgram
    <3>8. CASE Kill
      BY <3>8, WriteProgram, KillProgram
    <3>9. QED
      BY <2>1, <3>1, <3>2, <3>3, <3>4, <3>5, <3>6, <3>7, <3>8 DEF Next
  <2>2. CASE UNCHANGED vars
    BY <2>2 DEF vars, files, locals, CoverInv, ProgramInv
  <2>3. QED BY <2>1, <2>2
<1> HIDE DEF J
<1>3. Spec => []J
  BY Invariance, <1>1, <1>2, PTL DEF Spec
<1>4. QED BY <1>3, PTL DEF J

(* An old program knows each error of the kernel's by its own code, and    *)
(* the codes of those it does not know are none of its own.                *)
THEOREM ProgramsUnderstand == Spec => []OldProgramsUnderstand
<1>1. IInv /\ CoverInv /\ ProgramInv => OldProgramsUnderstand
  <2> SUFFICES ASSUME IInv, CoverInv, ProgramInv,
                      program # None, interface # None, pc # "write", ~ codesLost,
                      interface.switches # None,
                      NEW type \in DOMAIN interface.switches \cap DOMAIN program.switches,
                      NEW e \in interface.switches[type]
               PROVE  Decoded(program, type, Encoded(interface, e)) =
                          IF e \in program.switches[type] THEN e ELSE "Unknown"
    BY DEF OldProgramsUnderstand
  <2> DEFINE code == interface.codes[e]
             known == program.switches[type]
  <2>1. /\ Extends(interface.codes, program.codes)
        /\ e \in DOMAIN interface.codes /\ known \subseteq DOMAIN program.codes
    BY DEF CoverInv, ProgramInv, Covers
  <2>2. \A c, d \in DOMAIN interface.codes : interface.codes[c] = interface.codes[d] => c = d
    BY NumberedSound DEF IInv, CodesInv, IsInjective
  <2>3. \A d \in known : program.codes[d] = code => d = e
    BY <2>1, <2>2 DEF Extends
  <2>4. CASE e \in known
    <3>1. program.codes[e] = code
      BY <2>1, <2>4 DEF Extends
    <3>2. (CHOOSE d \in known : program.codes[d] = code) = e
      BY <2>3, <2>4, <3>1
    <3>3. QED BY <2>4, <3>1, <3>2 DEF Decoded, Encoded
  <2>5. CASE e \notin known
    BY <2>3, <2>5 DEF Decoded, Encoded
  <2>6. QED BY <2>4, <2>5
<1>2. QED BY Invariance, ProgramInvariance, <1>1, PTL

------------------------------------------------------------------------------
(* What the script reads.                                                  *)

IsText(lines) ==
    /\ Len(lines) \in Nat /\ DOMAIN lines = 1 .. Len(lines)
    /\ \A i \in DOMAIN lines :
          /\ lines[i].kind \in {"interrupt", "register", "signature", "import", "number"}
          /\ lines[i].kind = "signature" => lines[i].call # None

(* What there is to be read in the lines.                                  *)
NumsIn(lines) == {lines[i].num : i \in DOMAIN lines}
CallsIn(lines) == {lines[i].call : i \in DOMAIN lines}
StatesOf(lines) ==
    [interrupt : BOOLEAN, pending : CallsIn(lines) \cup {None},
     registers : SUBSET {lines[i].arg : i \in DOMAIN lines},
     calls : Seq([num : NumsIn(lines), call : CallsIn(lines)]), failed : BOOLEAN]

LEMMA SourcesAreTexts == \A lines \in Sources : IsText(lines)
<1> SUFFICES ASSUME NEW lines \in Sources PROVE IsText(lines)
  OBVIOUS
<1>1. Len(lines) \in Nat /\ DOMAIN lines = 1 .. Len(lines)
  BY SourcesAssumption
<1>2. \A i \in DOMAIN lines : lines[i] \in ToSet(lines)
  BY DEF ToSet
<1>3. QED BY <1>1, <1>2, SourcesAssumption DEF IsText

(* The calls of after are those of before and the one under num.           *)
IsWith(before, num, call, after) ==
    \A c : c \in ToSet(after) <=>
              (c \in ToSet(before) /\ c.num # num) \/ c = [num |-> num, call |-> call]

(* put replaces what a number stood for.                                   *)
LEMMA PutIs ==
    ASSUME NEW N, NEW C, NEW calls \in Seq([num : N, call : C]),
           NEW num \in N, NEW call \in C
    PROVE  /\ Put(calls, num, call) \in Seq([num : N, call : C])
           /\ IsWith(calls, num, call, Put(calls, num, call))
<1> DEFINE new == [num |-> num, call |-> call]
           put == Put(calls, num, call)
<1>1. new \in [num : N, call : C] /\ new.num = num
  OBVIOUS
<1>2. CASE \E i \in DOMAIN calls : calls[i].num = num
  <2> DEFINE replaced == [i \in DOMAIN calls |-> IF calls[i].num = num THEN new ELSE calls[i]]
  <2>1. put = replaced
    BY <1>2 DEF Put
  <2>2. replaced \in Seq([num : N, call : C]) /\ DOMAIN replaced = DOMAIN calls
    BY <1>1
  <2>3. \A i \in DOMAIN calls : replaced[i] = IF calls[i].num = num THEN new ELSE calls[i]
    OBVIOUS
  <2> HIDE DEF replaced, new
  <2>4. ToSet(replaced) = {c \in ToSet(calls) : c.num # num} \cup {new}
    BY <1>2, <2>2, <2>3 DEF ToSet
  <2>5. IsWith(calls, num, call, replaced)
    BY <2>4 DEF IsWith, new
  <2>6. QED BY <2>1, <2>2, <2>5
<1>3. CASE ~ \E i \in DOMAIN calls : calls[i].num = num
  <2>1. put = Append(calls, new)
    BY <1>3 DEF Put
  <2> HIDE DEF new
  <2>2. /\ Append(calls, new) \in Seq([num : N, call : C])
        /\ DOMAIN Append(calls, new) = DOMAIN calls \cup {Len(calls) + 1}
        /\ \A i \in DOMAIN calls : Append(calls, new)[i] = calls[i]
        /\ Append(calls, new)[Len(calls) + 1] = new
    BY <1>1
  <2>3. ToSet(Append(calls, new)) = ToSet(calls) \cup {new}
    BY <2>2 DEF ToSet
  <2>4. {c \in ToSet(calls) : c.num # num} = ToSet(calls)
    BY <1>3 DEF ToSet
  <2>5. IsWith(calls, num, call, Append(calls, new))
    BY <2>3, <2>4 DEF IsWith, new
  <2>6. QED BY <2>1, <2>2, <2>5
<1>4. QED BY <1>2, <1>3

LEMMA ReadLineStays ==
    ASSUME NEW lines, IsText(lines), NEW s \in StatesOf(lines), NEW i \in DOMAIN lines
    PROVE  ReadLine(s, lines[i]) \in StatesOf(lines)
<1> DEFINE line == lines[i]
<1>1. /\ line.kind \in {"interrupt", "register", "signature", "import", "number"}
      /\ line.num \in NumsIn(lines) /\ line.call \in CallsIn(lines)
      /\ line.arg \in {lines[j].arg : j \in DOMAIN lines}
  BY DEF IsText, NumsIn, CallsIn
<1> DEFINE R == {lines[j].arg : j \in DOMAIN lines}
           C == CallsIn(lines)
           Q == Seq([num : NumsIn(lines), call : C])
<1>f. /\ s.interrupt \in BOOLEAN /\ s.pending \in C \cup {None} /\ s.registers \in SUBSET R
      /\ s.calls \in Q /\ s.failed \in BOOLEAN
      /\ s = [interrupt |-> s.interrupt, pending |-> s.pending, registers |-> s.registers,
              calls |-> s.calls, failed |-> s.failed]
      /\ StatesOf(lines) = [interrupt : BOOLEAN, pending : C \cup {None}, registers : SUBSET R,
                            calls : Q, failed : BOOLEAN]
  BY DEF StatesOf
<1>2. CASE s.failed \/ Refused(s, line)
  <2>1. ReadLine(s, line) = [s EXCEPT !.failed = TRUE]
    BY <1>2 DEF ReadLine
  <2>2. [s EXCEPT !.failed = TRUE] \in StatesOf(lines)
    <3> HIDE DEF line, R, C, Q
    <3>1. QED BY <1>f
  <2>3. QED BY <2>1, <2>2
<1>3. CASE ~ (s.failed \/ Refused(s, line)) /\ line.kind # "number"
  <2>1. CASE line.kind = "interrupt"
    <3>1. ReadLine(s, line) = [s EXCEPT !.interrupt = TRUE]
      BY <1>3, <2>1 DEF ReadLine
    <3>2. [s EXCEPT !.interrupt = TRUE] \in StatesOf(lines)
      <4> HIDE DEF line, R, C, Q
      <4>1. QED BY <1>f
    <3>3. QED BY <3>1, <3>2
  <2>2. CASE line.kind = "register"
    <3>1. ReadLine(s, line) = [s EXCEPT !.registers = @ \cup {line.arg}]
      BY <1>3, <2>2 DEF ReadLine
    <3>2. s.registers \cup {line.arg} \in SUBSET R
      BY <1>1, <1>f
    <3>3. [s EXCEPT !.registers = @ \cup {line.arg}] \in StatesOf(lines)
      <4> HIDE DEF line, R, C, Q
      <4>1. QED BY <1>f, <3>2
    <3>4. QED BY <3>1, <3>3
  <2>3. CASE line.kind = "signature"
    <3>1. ReadLine(s, line) = [s EXCEPT !.pending = line.call]
      BY <1>3, <2>3 DEF ReadLine
    <3>2. line.call \in C
      BY <1>1
    <3>3. [s EXCEPT !.pending = line.call] \in StatesOf(lines)
      <4> HIDE DEF line, R, C, Q
      <4>1. QED BY <1>f, <3>2
    <3>4. QED BY <3>1, <3>3
  <2>4. CASE line.kind = "import"
    BY <1>3, <2>4 DEF ReadLine
  <2>5. QED BY <1>1, <1>3, <2>1, <2>2, <2>3, <2>4
<1>4. CASE ~ (s.failed \/ Refused(s, line)) /\ line.kind = "number"
  <2>1. s.pending \in CallsIn(lines)
    BY <1>4 DEF Refused, StatesOf
  <2>2. Put(s.calls, line.num, s.pending) \in Seq([num : NumsIn(lines), call : CallsIn(lines)])
    BY <1>1, <2>1, PutIs DEF StatesOf
  <2>3. ReadLine(s, line) = [s EXCEPT !.calls = Put(s.calls, line.num, s.pending), !.pending = None]
    BY <1>4 DEF ReadLine
  <2>4. QED BY <2>2, <2>3 DEF StatesOf
<1>5. QED BY <1>2, <1>3, <1>4

(* Parsed is what is reached by reading one line after another.            *)
LEMMA Parsing ==
    ASSUME NEW lines, IsText(lines)
    PROVE  \E F \in [0 .. Len(lines) -> StatesOf(lines)] :
             /\ F[0] = Beginning
             /\ \A k \in 1 .. Len(lines) : F[k] = ReadLine(F[k - 1], lines[k])
             /\ Parsed(lines) = F[Len(lines)]
<1> DEFINE n == Len(lines)
           V == StatesOf(lines)
           step == [x \in V \X (1 .. n) |-> ReadLine(x[1], lines[x[2]])]
           Is(it) == it = [s \in SUBSET DOMAIN lines |->
                 IF s = {} THEN Beginning
                 ELSE ReadLine(it[s \ {Max(s)}], lines[Max(s)])]
           iter == CHOOSE it : Is(it)
<1>0. n \in Nat /\ DOMAIN lines = 1 .. n
  BY DEF IsText
<1>1. Parsed(lines) = iter[DOMAIN lines]
  BY DEF Parsed, FoldLeft, MapThenFoldSet
<1>v. Beginning \in V /\ \A s \in V, i \in 1 .. n : ReadLine(s, lines[i]) \in V
  <2>1. Beginning \in V
    <3>1. <<>> \in Seq([num : NumsIn(lines), call : CallsIn(lines)])
      OBVIOUS
    <3>2. QED BY <3>1 DEF Beginning, StatesOf
  <2>2. QED BY <1>0, <2>1, ReadLineStays
<1> HIDE DEF V
<1>2. \A v \in V, i \in 1 .. n : step[<<v, i>>] = ReadLine(v, lines[i]) /\ step[<<v, i>>] \in V
  BY <1>v
<1>3. PICK f : f \in [SUBSET (1 .. n) -> V] /\ Folds(f, SUBSET (1 .. n), Beginning, step)
  <2> HIDE DEF n, step
  <2>1. QED BY <1>0, <1>v, <1>2, FoldExists
<1> HIDE DEF step
<1>4. ASSUME NEW s \in SUBSET (1 .. n), s # {}
      PROVE  f[s] = ReadLine(f[s \ {Max(s)}], lines[Max(s)])
  <2>1. Max(s) \in 1 .. n /\ f[s \ {Max(s)}] \in V
    BY <1>0, <1>3, <1>4, MaxIn
  <2>2. f[s] = step[<<f[s \ {Max(s)}], Max(s)>>]
    BY <1>3, <1>4 DEF Folds
  <2>3. QED BY <1>2, <2>1, <2>2
<1>5. Is(f)
  <2>1. f = [s \in SUBSET DOMAIN lines |-> f[s]]
    BY <1>0, <1>3
  <2>2. \A s \in SUBSET DOMAIN lines :
            f[s] = IF s = {} THEN Beginning ELSE ReadLine(f[s \ {Max(s)}], lines[Max(s)])
    BY <1>0, <1>3, <1>4 DEF Folds
  <2>3. QED BY <2>1, <2>2
<1>6. Is(iter)
  <2> HIDE DEF Is
  <2>1. QED BY <1>5
<1>7. \A s \in SUBSET (1 .. n) :
            iter[s] = IF s = {} THEN Beginning ELSE ReadLine(iter[s \ {Max(s)}], lines[Max(s)])
  BY <1>0, <1>6
<1> HIDE DEF iter, Is
<1> DEFINE F == [k \in 0 .. n |-> iter[1 .. k]]
<1>8. F[0] = Beginning
  <2>1. 1 .. 0 = {} /\ {} \in SUBSET (1 .. n)
    OBVIOUS
  <2>2. iter[{}] = Beginning
    BY <1>7, <2>1
  <2>3. QED BY <1>0, <2>1, <2>2
<1>9. ASSUME NEW k \in 1 .. n PROVE F[k] = ReadLine(F[k - 1], lines[k])
  <2>1. iter[1 .. k] = ReadLine(iter[1 .. k - 1], lines[k])
    BY <1>0, <1>7, MaxInterval
  <2>2. k \in 0 .. n /\ k - 1 \in 0 .. n
    BY <1>0
  <2>3. QED BY <2>1, <2>2
<1>10. Parsed(lines) = F[n]
  BY <1>0, <1>1
<1>11. F \in [0 .. n -> V]
  <2> DEFINE Good == {k \in Nat : k <= n => F[k] \in V}
  <2> HIDE DEF F
  <2>1. 0 \in Good
    BY <1>8, <1>v
  <2>2. ASSUME NEW k \in Nat, k \in Good PROVE k + 1 \in Good
    <3>1. CASE k + 1 <= n
      <4>1. k + 1 \in 1 .. n /\ (k + 1) - 1 = k /\ F[k] \in V
        BY <1>0, <2>2, <3>1
      <4>2. QED BY <1>v, <1>9, <4>1
    <3>2. QED BY <3>1
  <2>3. \A k \in 0 .. n : F[k] \in V
    <3>1. Nat \subseteq Good
      <4> HIDE DEF Good
      <4>1. QED BY <2>1, <2>2, SetInduction
    <3>2. QED BY <1>0, <3>1
  <2>4. F = [k \in 0 .. n |-> F[k]]
    BY DEF F
  <2>5. QED BY <2>3, <2>4
<1> HIDE DEF F
<1>12. QED BY <1>8, <1>9, <1>10, <1>11 DEF V

(* A number takes the last signature above it, if nothing took it before.  *)
EndsAt(lines, i, j) ==
    /\ i < j /\ lines[i].kind = "signature" /\ lines[j].kind = "number"
    /\ \A k \in i + 1 .. j - 1 : lines[k].kind \notin {"signature", "number"}

(* x is declared by the first n lines.                                     *)
IsDeclared(lines, n, x) ==
    \E i, j \in 1 .. n :
        /\ EndsAt(lines, i, j) /\ x = [num |-> lines[j].num, call |-> lines[i].call]
        /\ \A k, l \in 1 .. n : EndsAt(lines, k, l) /\ l > j => lines[l].num # lines[j].num

(* The signature at i waits for its number after n lines.                  *)
Waits(lines, n, i) ==
    /\ lines[i].kind = "signature"
    /\ \A k \in i + 1 .. n : lines[k].kind \notin {"signature", "number"}

ReadSoFar(lines, n, s) ==
    ~ s.failed =>
        /\ s.pending # None => \E i \in 1 .. n : Waits(lines, n, i) /\ s.pending = lines[i].call
        /\ s.pending = None => \A i \in 1 .. n : ~ Waits(lines, n, i)
        /\ \A x : x \in ToSet(s.calls) <=> IsDeclared(lines, n, x)

LEMMA DeclaredByAll ==
    ASSUME NEW lines, IsText(lines)
    PROVE  \A x : x \in Declared(lines) <=> IsDeclared(lines, Len(lines), x)
<1> DEFINE D == DOMAIN lines
           pairs == {p \in D \X D : EndsAt(lines, p[1], p[2])}
           last == {q \in pairs : \A r \in pairs : r[2] > q[2] => lines[r[2]].num # lines[q[2]].num}
<1>1. Declared(lines) = {[num |-> lines[p[2]].num, call |-> lines[p[1]].call] : p \in last}
  BY DEF Declared, EndsAt
<1>2. D = 1 .. Len(lines)
  BY DEF IsText
<1>3. ASSUME NEW p \in last
      PROVE  IsDeclared(lines, Len(lines), [num |-> lines[p[2]].num, call |-> lines[p[1]].call])
  <2>1. p[1] \in D /\ p[2] \in D /\ EndsAt(lines, p[1], p[2])
    OBVIOUS
  <2>2. ASSUME NEW k \in D, NEW l \in D, EndsAt(lines, k, l), l > p[2]
        PROVE  lines[l].num # lines[p[2]].num
    <3>1. <<k, l>> \in pairs
      BY <2>2
    <3>2. QED BY <2>2, <3>1
  <2>3. \A k, l \in 1 .. Len(lines) :
            EndsAt(lines, k, l) /\ l > p[2] => lines[l].num # lines[p[2]].num
    BY <1>2, <2>2
  <2>4. p[1] \in 1 .. Len(lines) /\ p[2] \in 1 .. Len(lines)
    BY <1>2, <2>1
  <2> HIDE DEF last, D
  <2>5. QED BY <2>1, <2>3, <2>4 DEF IsDeclared
<1>4. ASSUME NEW i \in D, NEW j \in D, EndsAt(lines, i, j),
             \A k, l \in D : EndsAt(lines, k, l) /\ l > j => lines[l].num # lines[j].num
      PROVE  <<i, j>> \in last
  BY <1>4
<1> HIDE DEF last
<1>5. \A x : IsDeclared(lines, Len(lines), x) =>
          \E p \in last : x = [num |-> lines[p[2]].num, call |-> lines[p[1]].call]
  <2> SUFFICES ASSUME NEW x, IsDeclared(lines, Len(lines), x)
               PROVE  \E p \in last : x = [num |-> lines[p[2]].num, call |-> lines[p[1]].call]
    OBVIOUS
  <2>1. PICK i, j \in D :
            /\ EndsAt(lines, i, j) /\ x = [num |-> lines[j].num, call |-> lines[i].call]
            /\ \A k, l \in D : EndsAt(lines, k, l) /\ l > j => lines[l].num # lines[j].num
    <3> HIDE DEF D
    <3>1. QED BY <1>2 DEF IsDeclared
  <2>2. <<i, j>> \in last
    BY <1>4, <2>1
  <2>3. QED BY <2>1, <2>2
<1>6. QED BY <1>1, <1>3, <1>5

LEMMA ReadOneMore ==
    ASSUME NEW lines, IsText(lines), NEW n \in Nat, n + 1 \in DOMAIN lines,
           NEW s \in StatesOf(lines), ReadSoFar(lines, n, s),
           ~ s.failed, ~ Refused(s, lines[n + 1])
    PROVE  ReadSoFar(lines, n + 1, ReadLine(s, lines[n + 1]))
<1> DEFINE line == lines[n + 1]
           t == ReadLine(s, line)
           Marks == {"signature", "number"}
<1> SUFFICES ReadSoFar(lines, n + 1, t)
  OBVIOUS
<1>1. /\ line.kind \in {"interrupt", "register", "signature", "import", "number"}
      /\ line.kind = "signature" => line.call # None
      /\ n + 1 \in 1 .. n + 1 /\ \A i \in 1 .. n + 1 : i \in 1 .. n \/ i = n + 1
      /\ 1 .. n \subseteq 1 .. n + 1
  BY DEF IsText
<1>2. /\ s.pending # None => \E i \in 1 .. n : Waits(lines, n, i) /\ s.pending = lines[i].call
      /\ s.pending = None => \A i \in 1 .. n : ~ Waits(lines, n, i)
      /\ \A x : x \in ToSet(s.calls) <=> IsDeclared(lines, n, x)
  BY DEF ReadSoFar
(* A pair that ends at n + 1 or before.                                    *)
<1>3. ASSUME NEW i \in 1 .. n + 1, NEW j \in 1 .. n + 1, EndsAt(lines, i, j)
      PROVE  i \in 1 .. n /\ (j \in 1 .. n \/ (j = n + 1 /\ line.kind = "number"))
  BY <1>3 DEF EndsAt
<1>4. ASSUME line.kind # "number"
      PROVE  \A x : IsDeclared(lines, n + 1, x) <=> IsDeclared(lines, n, x)
  <2>1. ASSUME NEW x, IsDeclared(lines, n, x) PROVE IsDeclared(lines, n + 1, x)
    BY <1>1, <1>3, <1>4, <2>1 DEF IsDeclared
  <2>2. ASSUME NEW x, IsDeclared(lines, n + 1, x) PROVE IsDeclared(lines, n, x)
    BY <1>1, <1>3, <1>4, <2>2 DEF IsDeclared
  <2>3. QED BY <2>1, <2>2
<1>5. ASSUME NEW i \in 1 .. n, line.kind \notin Marks
      PROVE  Waits(lines, n + 1, i) <=> Waits(lines, n, i)
  <2>1. ASSUME NEW k \in i + 1 .. n + 1 PROVE k \in i + 1 .. n \/ k = n + 1
    OBVIOUS
  <2>2. i + 1 .. n \subseteq i + 1 .. n + 1
    OBVIOUS
  <2>3. QED BY <1>5, <2>1, <2>2 DEF Waits
<1>6. CASE line.kind \in {"interrupt", "register", "import"}
  <2>1. t.pending = s.pending /\ t.calls = s.calls
    <3>1. \/ t = [s EXCEPT !.interrupt = TRUE]
          \/ t = [s EXCEPT !.registers = @ \cup {line.arg}]
          \/ t = s
      BY <1>6 DEF ReadLine
    <3> HIDE DEF t, line
    <3>2. QED BY <3>1 DEF StatesOf
  <2>2. ~ Waits(lines, n + 1, n + 1)
    BY <1>6 DEF Waits
  <2>3. \A i \in 1 .. n : Waits(lines, n + 1, i) <=> Waits(lines, n, i)
    BY <1>5, <1>6
  <2>4. \A x : IsDeclared(lines, n + 1, x) <=> IsDeclared(lines, n, x)
    BY <1>4, <1>6
  <2> HIDE DEF t
  <2>5. QED BY <1>1, <1>2, <2>1, <2>2, <2>3, <2>4 DEF ReadSoFar
<1>7. CASE line.kind = "signature"
  <2>1. t = [s EXCEPT !.pending = line.call]
    BY <1>7 DEF ReadLine
  <2>2. t.pending = line.call /\ t.calls = s.calls
    BY <2>1 DEF StatesOf
  <2>3. Waits(lines, n + 1, n + 1)
    BY <1>7 DEF Waits
  <2>4. \A x : IsDeclared(lines, n + 1, x) <=> IsDeclared(lines, n, x)
    BY <1>4, <1>7
  <2> HIDE DEF t
  <2>5. QED BY <1>1, <1>2, <1>7, <2>2, <2>3, <2>4 DEF ReadSoFar
<1>8. CASE line.kind = "number"
  <2>1. s.pending # None /\ s.pending \in CallsIn(lines)
    BY <1>8 DEF Refused, StatesOf
  <2>2. PICK i \in 1 .. n : Waits(lines, n, i) /\ s.pending = lines[i].call
    BY <1>2, <2>1
  <2> DEFINE new == [num |-> line.num, call |-> lines[i].call]
  <2>3. t = [s EXCEPT !.calls = Put(s.calls, line.num, s.pending), !.pending = None]
    BY <1>8 DEF ReadLine
  <2>4. t.pending = None /\ t.calls = Put(s.calls, line.num, lines[i].call)
    BY <2>2, <2>3 DEF StatesOf
  <2>5. \A x : x \in ToSet(t.calls) <=> (x \in ToSet(s.calls) /\ x.num # line.num) \/ x = new
    <3>1. line.num \in NumsIn(lines) /\ s.calls \in Seq([num : NumsIn(lines), call : CallsIn(lines)])
      BY DEF NumsIn, StatesOf
    <3>2. lines[i].call \in CallsIn(lines)
      BY <2>1, <2>2
    <3> HIDE DEF t, line
    <3>3. IsWith(s.calls, line.num, lines[i].call, Put(s.calls, line.num, lines[i].call))
      <4> HIDE DEF t, line
      <4>1. QED BY <3>1, <3>2, PutIs
    <3>4. QED BY <2>4, <3>3 DEF IsWith
  <2>6. \A k \in 1 .. n + 1 : ~ Waits(lines, n + 1, k)
    <3>1. ASSUME NEW k \in 1 .. n PROVE n + 1 \in k + 1 .. n + 1
      OBVIOUS
    <3>2. QED BY <1>1, <1>8, <3>1 DEF Waits
  <2>7. EndsAt(lines, i, n + 1)
    <3>1. \A k \in i + 1 .. (n + 1) - 1 : k \in i + 1 .. n
      OBVIOUS
    <3>2. QED BY <1>8, <2>2, <3>1 DEF EndsAt, Waits
  <2>8. ASSUME NEW k \in 1 .. n, EndsAt(lines, k, n + 1) PROVE k = i
    <3>1. CASE k < i
      <4>1. i \in k + 1 .. (n + 1) - 1
        BY <3>1
      <4>2. QED BY <2>2, <2>8, <4>1 DEF EndsAt, Waits
    <3>2. CASE i < k
      <4>1. k \in i + 1 .. n
        BY <3>2
      <4>2. QED BY <2>2, <2>8, <4>1 DEF EndsAt, Waits
    <3>3. QED BY <3>1, <3>2
  <2>9. IsDeclared(lines, n + 1, new)
    <3>1. \A k, l \in 1 .. n + 1 : ~ (l > n + 1)
      OBVIOUS
    <3>2. QED BY <1>1, <2>7, <3>1 DEF IsDeclared
  <2>10. ASSUME NEW x, IsDeclared(lines, n, x), x.num # line.num
         PROVE  IsDeclared(lines, n + 1, x)
    <3>1. PICK a, b \in 1 .. n :
              /\ EndsAt(lines, a, b) /\ x = [num |-> lines[b].num, call |-> lines[a].call]
              /\ \A k, l \in 1 .. n : EndsAt(lines, k, l) /\ l > b => lines[l].num # lines[b].num
      BY <2>10 DEF IsDeclared
    <3>2. x.num = lines[b].num
      BY <3>1
    <3>3. \A k, l \in 1 .. n + 1 : EndsAt(lines, k, l) /\ l > b => lines[l].num # lines[b].num
      BY <1>3, <2>10, <3>1, <3>2
    <3>4. QED BY <1>1, <3>1, <3>3 DEF IsDeclared
  <2>11. ASSUME NEW x, IsDeclared(lines, n + 1, x), x # new
         PROVE  IsDeclared(lines, n, x) /\ x.num # line.num
    <3>1. PICK a, b \in 1 .. n + 1 :
              /\ EndsAt(lines, a, b) /\ x = [num |-> lines[b].num, call |-> lines[a].call]
              /\ \A k, l \in 1 .. n + 1 : EndsAt(lines, k, l) /\ l > b => lines[l].num # lines[b].num
      BY <2>11 DEF IsDeclared
    <3>2. a \in 1 .. n /\ b \in 1 .. n
      BY <1>3, <2>8, <2>11, <3>1
    <3>3. x.num = lines[b].num /\ lines[b].num # line.num
      BY <1>1, <2>7, <3>1, <3>2
    <3>4. IsDeclared(lines, n, x)
      BY <1>1, <3>1, <3>2 DEF IsDeclared
    <3>5. QED BY <3>3, <3>4
  <2>12. \A x : x \in ToSet(t.calls) <=> IsDeclared(lines, n + 1, x)
    BY <1>2, <2>5, <2>9, <2>10, <2>11
  <2> HIDE DEF t
  <2>13. QED BY <2>4, <2>6, <2>12 DEF ReadSoFar
<1>9. QED BY <1>1, <1>6, <1>7, <1>8

(* If the script reads the file to the end, it has read the calls that are *)
(* declared there.                                                         *)
LEMMA ParsedIsDeclared ==
    ASSUME NEW lines \in Sources, ~ Parsed(lines).failed
    PROVE  /\ ToSet(Parsed(lines).calls) = Declared(lines)
           /\ SubSeq(Parsed(lines).calls, 1, Len(Parsed(lines).calls)) = Parsed(lines).calls
<1> DEFINE n == Len(lines)
<1>1. IsText(lines) /\ n \in Nat /\ DOMAIN lines = 1 .. n
  BY SourcesAreTexts DEF IsText
<1>2. PICK F \in [0 .. n -> StatesOf(lines)] :
          /\ F[0] = Beginning
          /\ \A k \in 1 .. n : F[k] = ReadLine(F[k - 1], lines[k])
          /\ Parsed(lines) = F[n]
  BY <1>1, Parsing
<1> DEFINE Right == {k \in Nat : k <= n => ReadSoFar(lines, k, F[k])}
<1>3. 0 \in Right
  <2>1. 1 .. 0 = {} /\ ToSet(<<>>) = {}
    BY DEF ToSet
  <2>2. QED BY <1>2, <2>1 DEF ReadSoFar, Beginning, IsDeclared
<1>4. ASSUME NEW k \in Nat, k \in Right PROVE k + 1 \in Right
  <2>1. CASE k + 1 <= n
    <3>1. k \in 0 .. n /\ k + 1 \in 1 .. n /\ (k + 1) - 1 = k /\ k <= n
      BY <1>1, <2>1
    <3>2. F[k + 1] = ReadLine(F[k], lines[k + 1]) /\ F[k] \in StatesOf(lines)
      BY <1>2, <3>1
    <3>3. ReadSoFar(lines, k, F[k])
      BY <1>4, <3>1
    <3>4. CASE F[k].failed \/ Refused(F[k], lines[k + 1])
      <4>1. F[k + 1] = [F[k] EXCEPT !.failed = TRUE]
        BY <3>2, <3>4 DEF ReadLine
      <4>2. F[k + 1].failed
        BY <3>2, <4>1 DEF StatesOf
      <4>3. QED BY <4>2 DEF ReadSoFar
    <3>5. CASE ~ (F[k].failed \/ Refused(F[k], lines[k + 1]))
      BY <1>1, <3>1, <3>2, <3>3, <3>5, ReadOneMore
    <3>6. QED BY <3>4, <3>5
  <2>2. QED BY <2>1
<1>5. ReadSoFar(lines, n, F[n])
  <2>1. Nat \subseteq Right
    <3> HIDE DEF Right
    <3>1. QED BY <1>3, <1>4, SetInduction
  <2>2. QED BY <1>1, <2>1
<1>6. \A x : x \in ToSet(Parsed(lines).calls) <=> x \in Declared(lines)
  BY <1>1, <1>2, <1>5, DeclaredByAll DEF ReadSoFar
<1>7. SubSeq(Parsed(lines).calls, 1, Len(Parsed(lines).calls)) = Parsed(lines).calls
  <2>1. n \in 0 .. n
    BY <1>1
  <2>2. F[n] \in StatesOf(lines)
    BY <1>2, <2>1
  <2>3. F[n].calls \in Seq([num : NumsIn(lines), call : CallsIn(lines)])
    BY <2>2 DEF StatesOf
  <2>4. \A q \in Seq([num : NumsIn(lines), call : CallsIn(lines)]) : SubSeq(q, 1, Len(q)) = q
    OBVIOUS
  <2>5. QED BY <1>2, <2>3, <2>4
<1>8. ToSet(Parsed(lines).calls) = Declared(lines)
  BY <1>6
<1>9. QED BY <1>7, <1>8

(* The interface has the calls that the implementation declares.           *)
Current == ToSet(interface.calls) = Declared(impl)

(* While the script runs nothing is known of its outcome, and what it has  *)
(* read is in order.  An interface that is newer than all that it is       *)
(* generated for is current, and so it is after a success.                 *)
SameInv ==
    /\ pc # "idle" => outcome = None
    /\ pc \in {"read", "ask", "write"} => ~ parsed.failed
    /\ ~ disturbed /\ touched = {} /\ interface # None /\ pc # "write" => Current
    /\ ~ disturbed /\ outcome \in {"up to date", "generated"} => Current

LEMMA InitSame == Init => SameInv
BY GeneratorAssumption DEF Init, SameInv, Beginning

LEMMA FilesStay ==
    ASSUME SameInv, UNCHANGED <<impl, touched, interface, disturbed>>,
           pc # "write" \/ pc' = "write", pc' # "idle" => outcome' = None,
           pc' \in {"read", "ask", "write"} => ~ parsed'.failed,
           ~ disturbed /\ outcome' \in {"up to date", "generated"} => Current
    PROVE  SameInv'
<1>1. Current' <=> Current
  BY DEF Current
<1>2. (~ disturbed /\ touched = {} /\ interface # None /\ pc # "write" => Current)'
  BY <1>1 DEF SameInv
<1>3. (~ disturbed /\ outcome \in {"up to date", "generated"} => Current)'
  BY <1>1
<1>4. QED BY <1>2, <1>3 DEF SameInv

LEMMA GivenUpSame == SameInv /\ pc # "write" /\ GivenUp => SameInv'
<1> SUFFICES ASSUME SameInv, pc # "write", GivenUp PROVE SameInv'
  OBVIOUS
<1>1. /\ pc' = "idle" /\ outcome' = "failed"
      /\ UNCHANGED <<impl, touched, interface, disturbed>>
  BY DEF GivenUp, Ended, files
<1>2. QED BY <1>1, FilesStay

LEMMA DeveloperSame ==
    ASSUME SameInv,
           \/ \E lines \in Sources : EditImpl(lines)
           \/ \E errors \in Libraries : EditLibrary(errors)
           \/ EditScript \/ RemoveInterface \/ BuildProgram
    PROVE  SameInv'
<1>1. None \notin {"up to date", "generated"}
  BY GeneratorAssumption
<1>2. CASE EditScript \/ \E lines \in Sources : EditImpl(lines)
  <2>1. touched' # {} /\ outcome' = None /\ UNCHANGED locals
    BY <1>2 DEF EditImpl, EditScript
  <2>2. QED BY <1>1, <2>1 DEF locals, SameInv
<1>3. CASE \E errors \in Libraries : EditLibrary(errors)
  <2>1. UNCHANGED <<impl, touched, interface, disturbed, pc, parsed, outcome>>
    BY <1>3 DEF EditLibrary, locals
  <2>2. QED BY <2>1, FilesStay DEF SameInv
<1>4. CASE RemoveInterface
  BY <1>1, <1>4 DEF RemoveInterface, locals, SameInv
<1>5. CASE BuildProgram
  BY <1>5 DEF BuildProgram, files, locals, SameInv, Current
<1>6. QED BY <1>2, <1>3, <1>4, <1>5

LEMMA RunSame ==
    ASSUME SameInv, Start \/ Parse \/ ReadCodes \/ (\E type \in ErrorType : AskZig(type)) \/ Open
    PROVE  SameInv'
<1>1. None \notin {"up to date", "generated"}
  BY GeneratorAssumption
<1>2. CASE GivenUp
  BY <1>2, GivenUpSame DEF Start, Parse, ReadCodes, AskZig, GoesTo, Open
<1>3. CASE Start /\ ~ GivenUp
  <2>1. pc = "idle" /\ UNCHANGED <<impl, touched, interface, disturbed>>
    BY <1>3 DEF Start, files
  <2>2. CASE NeedToGenerate
    <3>1. pc' = "parse" /\ outcome' = None
      BY <1>3, <2>2 DEF Start
    <3>2. QED BY <1>1, <2>1, <3>1, FilesStay
  <2>3. CASE ~ NeedToGenerate
    <3>1. interface # None /\ touched = {} /\ pc' = "idle"
      BY <1>3, <2>3 DEF Start, NeedToGenerate, Ended
    <3>2. QED BY <2>1, <3>1 DEF SameInv, Current
  <2>4. QED BY <2>2, <2>3
<1>4. CASE Parse /\ ~ GivenUp
  BY <1>4 DEF Parse, GoesTo, files, SameInv, Current
<1>5. CASE (ReadCodes \/ \E type \in ErrorType : AskZig(type)) /\ ~ GivenUp
  <2>1. /\ pc \in {"read", "ask"} /\ pc' = "ask"
        /\ UNCHANGED <<impl, touched, interface, disturbed, parsed, outcome>>
    BY <1>5 DEF ReadCodes, AskZig, GoesTo, files
  <2>2. QED BY <2>1, FilesStay DEF SameInv
<1>6. CASE Open /\ ~ GivenUp
  BY <1>1, <1>6 DEF Open, SameInv
<1>7. QED BY <1>2, <1>3, <1>4, <1>5, <1>6

LEMMA WriteSame == IInv /\ SameInv /\ Write => SameInv'
<1> SUFFICES ASSUME IInv, SameInv, Write PROVE SameInv'
  OBVIOUS
<1> DEFINE n == Writable(parsed)
<1>1. /\ pc = "write" /\ ~ parsed.failed /\ pc' = "idle" /\ impl' = impl /\ impl \in Sources
      /\ interface' = [codes |-> codes, switches |-> answers, calls |-> SubSeq(parsed.calls, 1, n)]
      /\ disturbed' = (n # Len(parsed.calls) \/ parsed # Parsed(impl))
  BY DEF Write, Ended, WithCalls, SameInv, IInv, PlaceInv
<1>2. ASSUME ~ disturbed' PROVE ToSet(interface'.calls) = Declared(impl)
  <2>1. n = Len(parsed.calls) /\ parsed = Parsed(impl)
    BY <1>1, <1>2
  <2>2. interface'.calls = SubSeq(Parsed(impl).calls, 1, Len(Parsed(impl).calls))
    BY <1>1, <2>1
  <2>3. QED BY <1>1, <2>1, <2>2, ParsedIsDeclared
<1>3. QED BY <1>1, <1>2 DEF SameInv, Current

LEMMA KillSame == SameInv /\ Kill => SameInv'
<1> SUFFICES ASSUME SameInv, Kill PROVE SameInv'
  OBVIOUS
<1>1. pc' = "idle" /\ outcome' = "failed" /\ impl' = impl
  BY DEF Kill, Ended
<1>2. CASE pc = "write"
  BY <1>1, <1>2 DEF Kill, SameInv
<1>3. CASE pc # "write"
  BY <1>1, <1>3 DEF Kill, SameInv, Current
<1>4. QED BY <1>2, <1>3

LEMMA SameInvariance == Spec => []SameInv
<1>1. IInv /\ SameInv /\ [Next]_vars => SameInv'
  <2> SUFFICES ASSUME IInv, SameInv, [Next]_vars PROVE SameInv'
    OBVIOUS
  <2>1. CASE \/ \E lines \in Sources : EditImpl(lines)
             \/ \E errors \in Libraries : EditLibrary(errors)
             \/ EditScript \/ RemoveInterface \/ BuildProgram
    BY <2>1, DeveloperSame
  <2>2. CASE Start \/ Parse \/ ReadCodes \/ (\E type \in ErrorType : AskZig(type)) \/ Open
    BY <2>2, RunSame
  <2>3. CASE ZigFails
    BY <2>3, GivenUpSame DEF ZigFails
  <2>4. CASE Write
    BY <2>4, WriteSame
  <2>5. CASE Kill
    BY <2>5, KillSame
  <2>6. CASE UNCHANGED vars
    BY <2>6 DEF vars, files, locals, SameInv, Current
  <2>7. QED BY <2>1, <2>2, <2>3, <2>4, <2>5, <2>6 DEF Next
<1>2. QED BY <1>1, InitSame, Invariance, PTL DEF Spec

(* When the script has ended well, the interface has the calls that the    *)
(* implementation file declares, each under its number (lines 51-66 and    *)
(* 104-127 of generate_system_calls.py), whatever lines there are in the   *)
(* file, unless the last run to write was stopped, failed in a call, or    *)
(* wrote what it had read before an edit.                                  *)
THEOREM SuccessAlwaysMeansSame == Spec => []SuccessMeansSame
<1>1. SameInv => SuccessMeansSame
  BY DEF SameInv, Current, SuccessMeansSame, ToSet
<1>2. QED BY <1>1, SameInvariance, PTL

------------------------------------------------------------------------------
(* scripts/zig.py.                                                         *)

(* While it runs, the script owes nobody anything; the parts it has        *)
(* unpacked are there, and when it comes to use a version that one has a   *)
(* compiler.                                                               *)
RunInv ==
    /\ at # "idle" => kept = NoVersion
    /\ at = "download" => unpacked = {}
    /\ at = "unpack" => unpacked \subseteq there[zig]
    /\ at = "use" => Exists(zig)

(* A version is all there or not at all, but for the one that is being     *)
(* unpacked and those whose unpacking was stopped.                         *)
WholeInv ==
    \A v \in Version :
        v \notin stopped /\ ~ (at = "unpack" /\ v = zig) => there[v] \in {{}, Part}

ZigInv == CommandsKeepTheirWord /\ RunInv /\ WholeInv

LEMMA InitZigInv == ZigInit => ZigInv
BY DEF ZigInit, ZigInv, CommandsKeepTheirWord, ZigTypeOK, RunInv, WholeInv, Exists, Part

LEMMA OthersZig ==
    ASSUME ZigInv, NEW v \in Version, Publish(v) \/ Withdraw(v) \/ CheckOut(v) \/ Delete(v)
    PROVE  ZigInv'
<1> USE DEF ZigInv, CommandsKeepTheirWord, ZigTypeOK, RunInv, WholeInv, Exists, Part, zigRun
<1>1. CASE Publish(v) \/ Withdraw(v)
  BY <1>1 DEF Publish, Withdraw
<1>2. CASE CheckOut(v)
  BY <1>2 DEF CheckOut
<1>3. CASE Delete(v)
  BY <1>3 DEF Delete
<1>4. QED BY <1>1, <1>2, <1>3

(* A command that finds nothing to do keeps a version that is there.       *)
LEMMA CommandZig ==
    ASSUME ZigInv, Update \/ DownloadCurrent \/ \E v \in Version : UseVersion(v)
    PROVE  ZigInv'
<1> USE DEF ZigInv, CommandsKeepTheirWord, ZigTypeOK, RunInv, WholeInv, Exists, Part, zigRun
<1>1. CASE Update
  <2>1. \/ HasNothingToDo(master) /\ Exists(master) /\ master = readme
        \/ Begins("update", master, "use") /\ Exists(master)
        \/ Begins("update", master, "download")
    BY <1>1 DEF Update, Status
  <2>2. UNCHANGED <<readme, there, archives, master, offered, stopped>>
    BY <1>1 DEF Update
  <2>3. QED BY <1>1, <2>1, <2>2 DEF Update, HasNothingToDo, Begins
<1>2. CASE DownloadCurrent
  BY <1>2 DEF DownloadCurrent, HasNothingToDo, Begins
<1>3. CASE \E v \in Version : UseVersion(v)
  BY <1>3 DEF UseVersion, Begins
<1>4. QED BY <1>1, <1>2, <1>3

LEMMA WorkZig ==
    ASSUME ZigInv,
           DownloadFile \/ (\E part \in Part : Extract(part)) \/ Extracted \/ SetCurrentVersion \/ Stop
    PROVE  ZigInv'
<1> USE DEF ZigInv, CommandsKeepTheirWord, ZigTypeOK, RunInv, WholeInv, Exists, Part, zigRun
<1>1. CASE DownloadFile
  BY <1>1 DEF DownloadFile
<1>2. CASE \E part \in Part : Extract(part)
  BY <1>2 DEF Extract
<1>3. CASE Extracted
  BY <1>3 DEF Extracted
<1>4. CASE SetCurrentVersion
  BY <1>4 DEF SetCurrentVersion
<1>5. CASE Stop
  BY <1>5 DEF Stop
<1>6. QED BY <1>1, <1>2, <1>3, <1>4, <1>5

(* Whatever is published, withdrawn, checked out, deleted or stopped, and  *)
(* whenever: a command of scripts/zig.py that ended well has left behind a *)
(* README.md and a compiler that belong together (zig.py:180-189,          *)
(* 234-244).                                                               *)
THEOREM CommandsAlwaysKeepTheirWord == ZigSpec => []CommandsKeepTheirWord
<1>1. ZigInv /\ [ZigNext]_zigVars => ZigInv'
  <2> SUFFICES ASSUME ZigInv, [ZigNext]_zigVars PROVE ZigInv'
    OBVIOUS
  <2>1. CASE ZigNext
    BY <2>1, OthersZig, CommandZig, WorkZig DEF ZigNext
  <2>2. CASE UNCHANGED zigVars
    BY <2>2 DEF zigVars, zigRun, ZigInv, CommandsKeepTheirWord, ZigTypeOK, RunInv, WholeInv, Exists
  <2>3. QED BY <2>1, <2>2
<1>2. ZigInv => CommandsKeepTheirWord
  BY DEF ZigInv
<1>3. QED BY InitZigInv, <1>1, <1>2, PTL DEF ZigSpec
===============================================================================
