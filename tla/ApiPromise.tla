----------------------------- MODULE ApiPromise -----------------------------
(***************************************************************************)
(* What the API promises whoever calls it, without its goroutines, pool    *)
(* and connections: a process answers with its store or without one to     *)
(* the end, each request at most once, and one that is told to stop        *)
(* delivers what it has taken on, unless that outlasts the deadline.       *)
(***************************************************************************)
CONSTANTS
    Requests,
    Questions,   \* answers that take a query
    StandIns     \* answers of a process without a store

VARIABLES
    mode,        \* "without" a store, or "with" one
    stage,       \* "up", "draining" or "over"
    late,        \* the deadline of the draining has passed
    killed,      \* the process did not end by itself
    taken,       \* the requests that a handler works on or has worked on
    reply,       \* of each request: {}, or the one answer written to it
    delivered,   \* those whose client has it
    torn         \* those that left a statement with an unknown outcome

vars == <<mode, stage, late, killed, taken, reply, delivered, torn>>

Init ==
    /\ mode = "without" /\ stage = "up" /\ late = FALSE /\ killed = FALSE
    /\ taken = {} /\ delivered = {} /\ torn = {}
    /\ reply = [r \in Requests |-> {}]

\* A store is found before anybody is served, or not at all.
Find ==
    /\ mode = "without" /\ stage = "up" /\ taken = {}
    /\ mode' = "with"
    /\ UNCHANGED <<stage, late, killed, taken, reply, delivered, torn>>

Stop ==
    /\ stage = "up" /\ stage' = "draining"
    /\ UNCHANGED <<mode, late, killed, taken, reply, delivered, torn>>

Overdue ==
    /\ stage = "draining" /\ late' = TRUE
    /\ UNCHANGED <<mode, stage, killed, taken, reply, delivered, torn>>

\* In time all that was taken on is delivered, and even late no statement is torn.
End ==
    /\ stage = "draining"
    /\ late \/ delivered = taken
    /\ stage' = "over"
    /\ UNCHANGED <<mode, late, killed, taken, reply, delivered, torn>>

Kill ==
    /\ stage # "over" /\ stage' = "over" /\ killed' = TRUE
    /\ torn' \subseteq taken \ delivered
    /\ UNCHANGED <<mode, late, taken, reply, delivered>>

\* Without a store the handler answers at once; with one, only what takes no query.
Take(r) ==
    /\ stage # "over" /\ r \notin taken
    /\ taken' = taken \union {r}
    /\ \/ \E a \in {"preflight"} \union (IF mode = "without" THEN StandIns ELSE {}) :
             reply' = [reply EXCEPT ![r] = {a}]
       \/ mode = "with" /\ UNCHANGED reply
    /\ UNCHANGED <<mode, stage, late, killed, delivered, torn>>

Answer(r) ==
    /\ stage # "over" /\ mode = "with"
    /\ r \in taken /\ reply[r] = {}
    /\ \E a \in Questions : reply' = [reply EXCEPT ![r] = {a}]
    /\ UNCHANGED <<mode, stage, late, killed, taken, delivered, torn>>

Deliver(r) ==
    /\ stage # "over" /\ reply[r] # {} /\ r \notin delivered
    /\ delivered' = delivered \union {r}
    /\ UNCHANGED <<mode, stage, late, killed, taken, reply, torn>>

Next ==
    \/ Find \/ Stop \/ Overdue \/ End \/ Kill
    \/ \E r \in Requests : Take(r) \/ Answer(r) \/ Deliver(r)

Spec == Init /\ [][Next]_vars
=============================================================================
