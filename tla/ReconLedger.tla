----------------------------- MODULE ReconLedger -----------------------------
(***************************************************************************)
(* What reconciliation promises, without its statements: a call fixes the  *)
(* records it accounts for, audits them one by one (an audited record has  *)
(* its result and, for a BREAK, an exception with its event), and the run  *)
(* is marked completed only by a call that has audited all of them.  A     *)
(* call may be abandoned at any point; what it audited stays.              *)
(***************************************************************************)
CONSTANTS Calls, Runs

VARIABLES
    status,    \* of each run
    target,    \* the run of each call
    phase,     \* of each call: loading, open, completed, abandoned
    scope,     \* the records it accounts for
    audited    \* those it has accounted for

vars == <<status, target, phase, scope, audited>>

Init ==
    /\ status = [r \in Runs |-> "running"]
    /\ target \in [Calls -> Runs]
    /\ phase = [c \in Calls |-> "loading"]
    /\ scope = [c \in Calls |-> {}]
    /\ audited = [c \in Calls |-> {}]

\* What is loaded is not the ledger's to say: the scope may grow in any way.
Load(c) ==
    /\ phase[c] = "loading"
    /\ scope[c] \subseteq scope'[c]
    /\ scope' = [scope EXCEPT ![c] = scope'[c]]
    /\ \E p \in {"loading", "open"} : phase' = [phase EXCEPT ![c] = p]
    /\ UNCHANGED <<status, target, audited>>

Audit(c) ==
    /\ phase[c] = "open"
    /\ \E r \in scope[c] \ audited[c] : audited' = [audited EXCEPT ![c] = @ \union {r}]
    /\ UNCHANGED <<status, target, phase, scope>>

\* The call ends with everything audited, whether or not it can say so in its run.
Complete(c) ==
    /\ phase[c] = "open"
    /\ audited[c] = scope[c]
    /\ phase' = [phase EXCEPT ![c] = "completed"]
    /\ status' \in {status, [status EXCEPT ![target[c]] = "completed"]}
    /\ UNCHANGED <<target, scope, audited>>

Abandon(c) ==
    /\ phase[c] \in {"loading", "open"}
    /\ phase' = [phase EXCEPT ![c] = "abandoned"]
    /\ status' \in {status, [status EXCEPT ![target[c]] = "failed"]}
    /\ UNCHANGED <<target, scope, audited>>

Next == \E c \in Calls :
    \/ Load(c)
    \/ Audit(c)
    \/ Complete(c)
    \/ Abandon(c)

Spec == Init /\ [][Next]_vars
=============================================================================
