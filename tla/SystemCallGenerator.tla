-------------------------- MODULE SystemCallGenerator --------------------------
(***************************************************************************)
(* scripts/codegen/generate_system_calls.py among those it works with: the *)
(* developers, who edit the file that implements the system calls, the     *)
(* script and the library's error sets, and remove what it generates or    *)
(* stop it; and the programs that are built with what it has generated.    *)
(*                                                                         *)
(* Files are compared by the times of their last change: touched is the    *)
(* set of those the interface file is not newer than.  A file that was     *)
(* changed shortly before the interface file may have the same time.  The  *)
(* interface file comes with the repository, here one without errors.      *)
(***************************************************************************)
EXTENDS SystemCallSource

CONSTANTS
    Sources,        \* what the implementation file may hold
    Error,          \* the names of errors
    ErrorType,      \* the error types of the library
    Libraries       \* the errors each type may have

ASSUME GeneratorAssumption ==
    /\ Libraries \subseteq [ErrorType -> SUBSET Error]
    /\ \A lines \in Sources : ErrorTypesOf(Parsed(lines)) \subseteq ErrorType
    /\ IsFiniteSet(Error)
    /\ None \notin {"up to date", "generated"}

ASSUME SourcesAssumption ==
    \A lines \in Sources :
        /\ lines \in Seq(ToSet(lines))
        /\ \A line \in ToSet(lines) :
              /\ line.kind \in {"interrupt", "register", "signature", "import", "number"}
              /\ line.kind = "signature" => line.call # None

VARIABLES
    impl,           \* impl_file
    library,        \* the errors of each type
    touched,        \* the files among "impl" and "script" it would be generated for
    interface,      \* interface_file: codes, the error set of each type, calls; or None
    pc,             \* where the script is, "idle" when it is not running
    parsed,         \* what it has read: syscalls, syscall_regs and the rest
    codes,          \* all_error_codes
    answers,        \* error_types, as far as zig has been asked
    outcome,        \* how the script ended, while nothing it reads has changed since
    disturbed,      \* the interface is not all that was written for the lines at the time
    program,        \* the interface an older program was built with, or None
    codesLost       \* since then the interface has been cut off in its codes, or removed

files == <<impl, library, touched>>
locals == <<pc, parsed, codes, answers>>
vars == <<files, interface, locals, outcome, disturbed, program, codesLost>>

Empty == [x \in {} |-> 0]

Init ==
    /\ impl \in Sources /\ library \in Libraries /\ touched = {"impl"}
    /\ interface = [codes |-> Empty, switches |-> Empty, calls |-> <<>>]
    /\ pc = "idle" /\ parsed = Beginning /\ codes = Empty /\ answers = Empty
    /\ outcome = None /\ disturbed = FALSE
    /\ program = None /\ codesLost = FALSE

------------------------------------------------------------------------------
(* The developers.                                                         *)

EditImpl(lines) ==
    /\ impl' = lines /\ touched' = touched \cup {"impl"} /\ outcome' = None
    /\ UNCHANGED <<library, interface, locals, disturbed, program, codesLost>>

EditScript ==
    /\ touched' = touched \cup {"script"} /\ outcome' = None
    /\ UNCHANGED <<impl, library, interface, locals, disturbed, program, codesLost>>

EditLibrary(errors) ==
    /\ library' = errors
    /\ UNCHANGED <<impl, touched, interface, locals, outcome, disturbed, program, codesLost>>

RemoveInterface ==
    /\ pc # "write" /\ interface # None
    /\ interface' = None /\ codesLost' = TRUE /\ outcome' = None
    /\ UNCHANGED <<files, locals, disturbed, program>>

BuildProgram ==
    /\ pc = "idle" /\ interface # None /\ interface.switches # None
    /\ program' = [codes |-> interface.codes, switches |-> interface.switches]
    /\ codesLost' = FALSE
    /\ UNCHANGED <<files, interface, locals, outcome, disturbed>>

------------------------------------------------------------------------------
(* The script.                                                             *)

Ended(how) ==
    /\ pc' = "idle" /\ parsed' = Beginning /\ codes' = Empty /\ answers' = Empty
    /\ outcome' = how

(* An exit before the interface file is opened for writing.                *)
GivenUp ==
    Ended("failed") /\ UNCHANGED <<files, interface, disturbed, program, codesLost>>

GoesTo(place) ==
    pc' = place /\ UNCHANGED <<files, interface, outcome, disturbed, program, codesLost>>

NeedToGenerateSlip == interface = None \/ "script" \in touched  \* impl_file is not asked

NeedToGenerate == interface = None \/ touched # {}

Start ==
    /\ pc = "idle"
    /\ IF NeedToGenerate
       THEN pc' = "parse" /\ outcome' = None /\ UNCHANGED <<parsed, codes, answers>>
       ELSE Ended("up to date")
    /\ UNCHANGED <<files, interface, disturbed, program, codesLost>>

Parse ==
    /\ pc = "parse"
    /\ IF Parsed(impl).failed THEN GivenUp
       ELSE parsed' = Parsed(impl) /\ GoesTo("read") /\ UNCHANGED <<codes, answers>>

ReadCodesSlip ==            \* the codes there are are not read
    /\ pc = "read"
    /\ IF interface = None \/ ~ Readable(parsed) THEN GivenUp
       ELSE GoesTo("ask") /\ UNCHANGED <<codes, parsed, answers>>

(* The existing codes, which the script reads even if it has found that    *)
(* there is no interface file; then the signatures' error types.           *)
ReadCodes ==
    /\ pc = "read"
    /\ IF interface = None \/ ~ Readable(parsed) THEN GivenUp
       ELSE codes' = interface.codes /\ GoesTo("ask") /\ UNCHANGED <<parsed, answers>>

MaxErrorCodeSlip(known) ==  \* how many there are of those that are still in use
    Cardinality(UNION {library[type] : type \in ErrorType} \cap DOMAIN known)

(* max_error_code.                                                         *)
MaxErrorCode(known) ==
    IF known = Empty THEN 0
    ELSE CHOOSE m \in {known[e] : e \in DOMAIN known} : \A e \in DOMAIN known : known[e] <= m

(* The known codes with those of the new errors, which are numbered in the *)
(* order zig lists them.                                                   *)
WithNew(known, errors) ==
    LET new == errors \ DOMAIN known
        first == MaxErrorCode(known) + 1
        last == MaxErrorCode(known) + Cardinality(new)
    IN  {[e \in DOMAIN known \cup new |-> IF e \in new THEN order[e] ELSE known[e]] :
            order \in Bijection(new, first .. last)}

AskZig(type) ==
    /\ pc = "ask" /\ type \in ErrorTypesOf(parsed) \ DOMAIN answers
    /\ answers' = [t \in DOMAIN answers \cup {type} |->
                      IF t = type THEN library[type] ELSE answers[t]]
    /\ codes' \in WithNew(codes, library[type])
    /\ GoesTo("ask") /\ UNCHANGED parsed

ZigFails ==
    /\ pc = "ask" /\ DOMAIN answers # ErrorTypesOf(parsed)
    /\ GivenUp

(* The last checks; open truncates the file.                               *)
Open ==
    /\ pc = "ask" /\ DOMAIN answers = ErrorTypesOf(parsed)
    /\ IF ~ IsComplete(parsed) THEN GivenUp
       ELSE /\ interface' = [codes |-> Empty, switches |-> None, calls |-> <<>>]
            /\ touched' \in SUBSET touched
            /\ pc' = "write"
            /\ UNCHANGED <<impl, library, parsed, codes, answers, outcome,
                           disturbed, program, codesLost>>

(* The file with its first calls, and what there is of it if it is cut off *)
(* before them.                                                            *)
WithCalls(n) ==
    [codes |-> codes, switches |-> answers, calls |-> SubSeq(parsed.calls, 1, n)]
FirstCodes(n) ==
    [codes |-> [e \in {d \in DOMAIN codes : codes[d] <= n} |-> codes[e]],
     switches |-> None, calls |-> <<>>]

(* All of it is written, or an error in a call ends the script halfway.    *)
Write ==
    /\ pc = "write"
    /\ LET calls == parsed.calls
           whole == Writable(parsed) = Len(calls)
       IN  /\ interface' = WithCalls(Writable(parsed))
           /\ disturbed' = (~ whole \/ parsed # Parsed(impl))
           /\ Ended(IF whole THEN "generated" ELSE "failed")
    /\ touched' \in SUBSET touched
    /\ UNCHANGED <<impl, library, program, codesLost>>

(* The script is stopped, while it writes with any part of it written.     *)
Kill ==
    /\ pc # "idle" /\ Ended("failed")
    /\ IF pc # "write" THEN UNCHANGED <<touched, interface, disturbed, codesLost>>
       ELSE /\ interface' \in {WithCalls(n) : n \in 0 .. Writable(parsed)}
                              \cup {FirstCodes(n) : n \in 0 .. Cardinality(Error)}
            /\ codesLost' = (codesLost \/ interface'.codes # codes)
            /\ touched' \in SUBSET touched /\ disturbed' = TRUE
    /\ UNCHANGED <<impl, library, program>>

Next ==
    \/ \E lines \in Sources : EditImpl(lines)
    \/ \E errors \in Libraries : EditLibrary(errors)
    \/ EditScript \/ RemoveInterface \/ BuildProgram
    \/ Start \/ Parse \/ ReadCodes \/ (\E type \in ErrorType : AskZig(type)) \/ ZigFails
    \/ Open \/ Write \/ Kill

Spec == Init /\ [][Next]_vars

------------------------------------------------------------------------------
(* Properties.                                                             *)

IsCodes(c) == DOMAIN c \subseteq Error /\ \A e \in DOMAIN c : c[e] \in 1 .. Cardinality(Error)

TypeOK ==
    /\ impl \in Sources /\ library \in Libraries /\ touched \subseteq {"impl", "script"}
    /\ interface # None => IsCodes(interface.codes)
    /\ pc \in {"idle", "parse", "read", "ask", "write"}
    /\ IsCodes(codes) /\ DOMAIN answers \subseteq ErrorTypesOf(parsed)
    /\ disturbed \in BOOLEAN /\ codesLost \in BOOLEAN

(* No two errors have the same code, neither in the script nor in what it  *)
(* leaves behind, whichever errors come and go between its runs and        *)
(* wherever it is stopped (all_error_codes, lines 132-150 and 183-186).    *)
CodesNeverClash ==
    /\ TypeOK
    /\ IsInjective(codes)
    /\ interface # None => IsInjective(interface.codes)

(* ValueOrError.set_error and get, as they are generated.                  *)
Encoded(built, error) == built.codes[error]

Decoded(built, type, code) ==
    IF \E e \in built.switches[type] : built.codes[e] = code
    THEN CHOOSE e \in built.switches[type] : built.codes[e] = code
    ELSE "Unknown"

(* "Do this to make sure error value are the same between runs" (line      *)
(* 133): a program that was built with an older interface is given each    *)
(* error of the kernel's as itself if it knew the error, and as Unknown if *)
(* it did not, unless the codes were lost in between.                      *)
OldProgramsUnderstand ==
    (program # None /\ interface # None /\ pc # "write" /\ ~ codesLost) =>
        (interface.switches # None =>
            \A type \in DOMAIN interface.switches \cap DOMAIN program.switches :
                \A e \in interface.switches[type] :
                    Decoded(program, type, Encoded(interface, e)) =
                        IF e \in program.switches[type] THEN e ELSE "Unknown")

(* When the script has ended well and nothing it looks at has changed      *)
(* since, the interface has the calls the implementation declares, each    *)
(* under its number (lines 51-66 and 104-127), unless an earlier run was   *)
(* cut short or had read the implementation before its last edit.          *)
SuccessMeansSame ==
    (outcome \in {"up to date", "generated"} /\ ~ disturbed) =>
        {interface.calls[i] : i \in DOMAIN interface.calls} = Declared(impl)
===============================================================================
