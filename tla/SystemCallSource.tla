--------------------------- MODULE SystemCallSource ---------------------------
(***************************************************************************)
(* What scripts/codegen/generate_system_calls.py reads in the file that    *)
(* implements the system calls, kernel/platform/system_calls.zig.  A line  *)
(* is given by the pattern it matches:                                     *)
(*   [kind |-> "interrupt"]              the interrupt number              *)
(*   [kind |-> "register", arg |-> n]    the register of argument n        *)
(*   [kind |-> "signature", call |-> c]  a SYSCALL comment                 *)
(*   [kind |-> "import"]                 an IMPORT comment                 *)
(*   [kind |-> "number", num |-> n]      the call's number                 *)
(* Lines that match none are left out.  A call has a name, a number of     *)
(* args, what it returns ("value", "void" or "noreturn"), the error type   *)
(* of its value, or None, and may not be readable for decompose_sig.       *)
(***************************************************************************)
EXTENDS Integers, SequencesExt

CONSTANT None

Beginning == [interrupt |-> FALSE, pending |-> None, registers |-> {}, calls |-> <<>>,
              failed |-> FALSE]

(* syscalls[num] = call, in a dictionary that keeps the order.             *)
Put(calls, num, call) ==
    IF \E i \in DOMAIN calls : calls[i].num = num
    THEN [i \in DOMAIN calls |-> IF calls[i].num = num THEN [num |-> num, call |-> call] ELSE calls[i]]
    ELSE Append(calls, [num |-> num, call |-> call])

(* The lines on which the script gives up, given what it has read so far.  *)
Refused(s, line) ==
    \/ line.kind \in {"interrupt", "register", "signature"} /\ s.pending # None
    \/ line.kind \in {"import", "number"} /\ s.pending = None
    \/ line.kind = "interrupt" /\ s.interrupt

ReadLine(s, line) ==
    IF s.failed \/ Refused(s, line) THEN [s EXCEPT !.failed = TRUE] ELSE
    CASE line.kind = "interrupt" -> [s EXCEPT !.interrupt = TRUE]
      [] line.kind = "register" -> [s EXCEPT !.registers = @ \cup {line.arg}]
      [] line.kind = "signature" -> [s EXCEPT !.pending = line.call]
      [] line.kind = "import" -> s
      [] line.kind = "number" ->
            [s EXCEPT !.calls = Put(@, line.num, s.pending), !.pending = None]

Parsed(lines) == FoldLeft(ReadLine, Beginning, lines)

(* decompose_sig stops the script at a signature it cannot read.           *)
Readable(s) == \A i \in DOMAIN s.calls : s.calls[i].call.readable

(* The error types of the values that calls return.                        *)
ErrorTypesOf(s) == {s.calls[i].call.errors : i \in DOMAIN s.calls} \ {None}

(* What is asked of the file once all errors are known.                    *)
IsComplete(s) == s.interrupt /\ s.registers # {} /\ s.calls # <<>>

(* Arguments are numbered from 1, and so is the pointer to a returned      *)
(* value, which comes last; add_arg wants each number to be less than that *)
(* of the registers, and stops at one that has none.                       *)
Fits(call, registers) ==
    LET returned == IF call.returns = "value" THEN 1 ELSE 0
        required == IF call.returns = "value" THEN call.args + 1 ELSE 0
    IN  /\ required <= Cardinality(registers)
        /\ \A n \in 1 .. call.args + returned : n < Cardinality(registers) /\ n \in registers

(* How many calls are written before one that has too many arguments.      *)
Writable(s) ==
    LET unfit == {i \in DOMAIN s.calls : ~ Fits(s.calls[i].call, s.registers)}
    IN  IF unfit = {} THEN Len(s.calls) ELSE Min(unfit) - 1

(* What the file declares, as its comments say: a signature goes with the  *)
(* first number below it, and a number has the last call that claims it.   *)
Declared(lines) ==
    LET Ends(i, j) ==
            /\ i < j /\ lines[i].kind = "signature" /\ lines[j].kind = "number"
            /\ \A k \in i + 1 .. j - 1 : lines[k].kind \notin {"signature", "number"}
        pairs == {p \in (DOMAIN lines) \X (DOMAIN lines) : Ends(p[1], p[2])}
    IN  {[num |-> lines[p[2]].num, call |-> lines[p[1]].call] :
            p \in {q \in pairs : \A r \in pairs : r[2] > q[2] => lines[r[2]].num # lines[q[2]].num}}
===============================================================================
