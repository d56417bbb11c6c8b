------------------------------ MODULE ExecCalls ------------------------------
(***************************************************************************)
(* What the exec system call promises its caller, with no scheduler in     *)
(* sight: it starts a process, the caller stands still until that process  *)
(* has ended, and is then told how it ended.  Threading implements this    *)
(* with start_process, wait_for_process, exit_current_process and the      *)
(* scheduler under them.                                                   *)
(***************************************************************************)
EXTENDS Integers

CONSTANTS
    Proc,       \* the processes, and the kernel's own thread that starts
    Root        \* the first of them


Outcomes == {"exited", "crashed"}
Nobody == -1

VARIABLES
    status,     \* "unborn", "running", "calling" or "ended"
    callee,     \* the process of the caller's last call
    outcome,    \* how an ended process ended
    answer      \* what the caller's last call that returned said

callVars == <<status, callee, outcome, answer>>

Init ==
    /\ status = [p \in Proc |-> IF p = Root THEN "running" ELSE "unborn"]
    /\ callee = [p \in Proc |-> Nobody]
    /\ outcome = [p \in Proc |-> "none"]
    /\ answer = [p \in Proc |-> "none"]

Call(p, c) ==
    /\ status[p] = "running" /\ status[c] = "unborn"
    /\ status' = [status EXCEPT ![p] = "calling", ![c] = "running"]
    /\ callee' = [callee EXCEPT ![p] = c]
    /\ UNCHANGED <<outcome, answer>>

End(p, how) ==
    /\ p # Root /\ status[p] = "running"
    /\ status' = [status EXCEPT ![p] = "ended"]
    /\ outcome' = [outcome EXCEPT ![p] = how]
    /\ UNCHANGED <<callee, answer>>

Return(p) ==
    /\ status[p] = "calling" /\ status[callee[p]] = "ended"
    /\ status' = [status EXCEPT ![p] = "running"]
    /\ answer' = [answer EXCEPT ![p] = outcome[callee[p]]]
    /\ UNCHANGED <<callee, outcome>>

Next ==
    \/ \E p, c \in Proc : Call(p, c)
    \/ \E p \in Proc, how \in Outcomes : End(p, how)
    \/ \E p \in Proc : Return(p)

Spec == Init /\ [][Next]_callVars /\ \A p \in Proc : WF_callVars(Return(p))
=============================================================================
