------------------------------ MODULE MCScripts ------------------------------
(***************************************************************************)
(* Instances of the developers' scripts for TLC.  The scripts share no     *)
(* state, so a behaviour is one of a single script, and the others keep an *)
(* initial state.                                                          *)
(*                                                                         *)
(* For SystemCallGenerator: an implementation file that gains a call with  *)
(* the number of another one, one with a call that needs more registers    *)
(* than there are, and files that the script refuses, at its first pass    *)
(* over the lines or later.                                                *)
(***************************************************************************)
EXTENDS SystemCallGenerator, ZigVersions, CodePage437

Interrupt == [kind |-> "interrupt"]
Register(n) == [kind |-> "register", arg |-> n]
Signature(call) == [kind |-> "signature", call |-> call]
Import == [kind |-> "import"]
Number(n) == [kind |-> "number", num |-> n]

Call(name, args, returns, errors, readable) ==
    [name |-> name, args |-> args, returns |-> returns, errors |-> errors, readable |-> readable]

open == Call("open", 1, "value", "fs", TRUE)
exec == Call("exec", 1, "value", "exec", TRUE)
exit == Call("exit", 1, "noreturn", None, TRUE)
seek == Call("seek", 2, "value", "fs", TRUE)
garbled == Call("garbled", 0, "void", None, FALSE)

Preamble == <<Interrupt, Register(1), Register(2), Register(3)>>
Exit == <<Signature(exit), Import, Number(1)>>
Open0 == <<Signature(open), Number(0)>>

FirstVersion == Preamble \o Exit \o Open0
WithExec == FirstVersion \o <<Signature(exec), Import, Number(1)>>
TooManyArgs == Preamble \o Exit \o <<Signature(seek), Number(0)>>
NoNumber == Preamble \o <<Signature(exit)>> \o Open0
Garbled == Preamble \o <<Signature(garbled), Number(1)>>
NoInterrupt == Tail(Preamble) \o Exit

TheSources == {FirstVersion, WithExec, TooManyArgs, NoNumber, Garbled, NoInterrupt}

TheErrors == {"Unknown", "NotFound"}

TheLibraries ==
    {[fs |-> {"Unknown", "NotFound"}, exec |-> {"Unknown"}],
     [fs |-> {"NotFound"}, exec |-> {"NotFound"}]}

TheErrorTypes == {"fs", "exec"}

------------------------------------------------------------------------------
VARIABLE script         \* the script this behaviour is of

Script == {"generate_system_calls", "zig", "code_page_437"}

ScriptsInit ==
    /\ script \in Script
    /\ script # "generate_system_calls" =>
          impl = FirstVersion /\ library = CHOOSE errors \in Libraries : TRUE
    /\ script # "zig" => readme = (CHOOSE v \in Version : TRUE) /\ master = readme
    /\ Init /\ ZigInit /\ PageInit

GeneratorStep == script = "generate_system_calls" /\ Next /\ UNCHANGED <<script, zigVars, pageVars>>
ZigStep == script = "zig" /\ ZigNext /\ UNCHANGED <<script, vars, pageVars>>
PageStep == script = "code_page_437" /\ PageNext /\ UNCHANGED <<script, vars, zigVars>>

ScriptsNext == GeneratorStep \/ ZigStep \/ PageStep

ScriptsSpec == ScriptsInit /\ [][ScriptsNext]_<<script, vars, zigVars, pageVars>>
===============================================================================
