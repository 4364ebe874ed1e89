----------------------------- MODULE ReplayBook -----------------------------
(***************************************************************************)
(* What the replay harness promises of its cases, without its statements:  *)
(* what a case holds is fixed when the case appears, there is one answer   *)
(* to it however often it is replayed, and its mark is decided at most     *)
(* once, after there is an answer.                                         *)
(***************************************************************************)
CONSTANT Cases

VARIABLES
    content,   \* of each case: {}, or the one row it holds
    mark,      \* of each case: absent, pending, passing or failing
    answers    \* of each case: {}, or the one answer its replays give

vars == <<content, mark, answers>>

Init ==
    /\ content = [k \in Cases |-> {}]
    /\ mark = [k \in Cases |-> "absent"]
    /\ answers = [k \in Cases |-> {}]

\* What is captured is not the book's to say.
Open(k) ==
    /\ mark[k] = "absent"
    /\ \E row \in content'[k] : content' = [content EXCEPT ![k] = {row}]
    /\ mark' = [mark EXCEPT ![k] = "pending"]
    /\ UNCHANGED answers

\* Nor is what a replay finds, but no later one finds anything else.
Answer(k) ==
    /\ mark[k] # "absent"
    /\ answers[k] = {}
    /\ \E a \in answers'[k] : answers' = [answers EXCEPT ![k] = {a}]
    /\ UNCHANGED <<content, mark>>

Decide(k) ==
    /\ mark[k] = "pending"
    /\ answers[k] # {}
    /\ \E m \in {"passing", "failing"} : mark' = [mark EXCEPT ![k] = m]
    /\ UNCHANGED <<content, answers>>

Next == \E k \in Cases : Open(k) \/ Answer(k) \/ Decide(k)

Spec == Init /\ [][Next]_vars
=============================================================================
