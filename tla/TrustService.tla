----------------------------- MODULE TrustService -----------------------------
(***************************************************************************)
(* The trust score service (internal/trust/service.go) beside the engine   *)
(* whose results it scores.                                                *)
(*                                                                         *)
(* There are two ways to a score: ComputeForReconResult starts from a      *)
(* recon result and looks for its exception, ComputeForException starts    *)
(* from an exception and looks for its result.  Both then read the record  *)
(* and the clock, score, and replace the entity's row of trust_scores.     *)
(* Each read and the write is a statement of its own, so scorings          *)
(* interleave with each other, with the engine that is still writing the   *)
(* rows they read, with the feeds and with the operators who review.       *)
(***************************************************************************)
EXTENDS ReconQueries, TrustScore

CONSTANTS
    Scorings,   \* the calls of ComputeForReconResult and ComputeForException
    Ages,       \* the ages in days that the records of the runs may reach
    Decisions   \* the statuses operators may give an exception

ASSUME ScoringAssumption == Ages \subseteq Int /\ Decisions \subseteq ExceptionStatuses

VARIABLES
    scores,   \* trust_scores: the row of each entity that has one
    review,   \* exceptions.status where it is not the "open" the engine wrote
    age,      \* the clock: whole days since the as-of date of the runs
    stage,    \* where each scoring is
    task      \* what it has read

trustVars == <<scores, review, age, stage, task>>

Stages == {"idle", "exception", "result", "signals", "upsert", "scored", "failed"}

StatusOf(x) == IF x \in DOMAIN review THEN review[x] ELSE "open"

-----------------------------------------------------------------------------
(* What a scoring has read so far. *)

NoRow == NoResult
NoTask == [exception |-> NoRow, result |-> NoRow, review |-> NoException, input |-> NoRow]

\* account_id, security_id and quantity are NOT NULL; hasAmount is false for a zero.
Present(r) == IF r.val # 0 THEN 4 ELSE 3

\* The signals of a record, and those assumed when it could not be read.
Signals(r) == [source |-> r.source, present |-> Present(r)]
Assumed == [source |-> "custodian", present |-> 4]

InputOf(t, signals) ==
    Input(task[t].result.status, task[t].result.reason, signals.source, age,
          signals.present, task[t].review)

\* A TrustScoreRow.
RowOf(in) == [components |-> Components(in), total |-> Score(in)]

Enter(t, where) == stage' = [stage EXCEPT ![t] = where]

-----------------------------------------------------------------------------
(* ComputeForReconResult *)

\* The result and its run.  A run's as-of date never changes.
LoadResult(t) ==
    /\ stage[t] = "idle"
    /\ \E res \in results : task' = [task EXCEPT ![t].result = res]
    /\ Enter(t, "exception")
    /\ UNCHANGED <<vars, scores, review, age>>

\* No row and any error of the query mean the same: there is no exception.
LookupExceptionStatus(t) ==
    /\ stage[t] = "exception"
    /\ \/ \E x \in ExceptionsFor(task[t].result) : task' = [task EXCEPT ![t].review = StatusOf(x)]
       \/ task' = [task EXCEPT ![t].review = NoException]
    /\ Enter(t, "signals")
    /\ UNCHANGED <<vars, scores, review, age>>

-----------------------------------------------------------------------------
(* ComputeForException *)

\* The exception with its status as it is now, and its run.
LoadExceptionRow(t) ==
    /\ stage[t] = "idle"
    /\ \E x \in exceptions :
          task' = [task EXCEPT ![t].exception = x, ![t].review = StatusOf(x)]
    /\ Enter(t, "result")
    /\ UNCHANGED <<vars, scores, review, age>>

\* Fault: the reason code of the result is not taken over.
LoadResultOfException_NoReason(t) ==
    /\ stage[t] = "result"
    /\ \E res \in ResultsFor(task[t].exception) :
          task' = [task EXCEPT ![t].result = [res EXCEPT !.reason = NoReason]]
    /\ Enter(t, "signals")
    /\ UNCHANGED <<vars, scores, review, age>>

LoadResultOfException(t) ==
    /\ stage[t] = "result"
    /\ \E res \in ResultsFor(task[t].exception) : task' = [task EXCEPT ![t].result = res]
    /\ Enter(t, "signals")
    /\ UNCHANGED <<vars, scores, review, age>>

-----------------------------------------------------------------------------
(* Both *)

\* The record, or what is assumed when the query fails, and the clock.
EntitySignals(t) ==
    /\ stage[t] = "signals"
    /\ \E signals \in {Signals(r) : r \in RecordsOf(task[t].result)} \union {Assumed} :
          task' = [task EXCEPT ![t].input = InputOf(t, signals)]
    /\ Enter(t, "upsert")
    /\ UNCHANGED <<vars, scores, review, age>>

\* Fault: ON CONFLICT forgets a column.
Upserted_KeepsReview(e, row) ==
    [i \in DOMAIN scores \union {e} |->
        IF i = e /\ e \in DOMAIN scores
        THEN [row EXCEPT !.components.review = scores[e].components.review]
        ELSE IF i = e THEN row ELSE scores[i]]

\* The row of an entity that has one is replaced.
Upserted(e, row) == [i \in DOMAIN scores \union {e} |-> IF i = e THEN row ELSE scores[i]]

\* computeAndPersist and UpsertTrustScore.
UpsertTrustScore(t) ==
    /\ stage[t] = "upsert"
    /\ \E outcome \in Outcomes :
          /\ scores' = IF outcome = "failed" THEN scores
                       ELSE Upserted(task[t].result.entity, RowOf(task[t].input))
          /\ Enter(t, IF outcome = "applied" THEN "scored" ELSE "failed")
    /\ UNCHANGED <<vars, review, age, task>>

\* A statement fails, the request is cancelled, or the process ends: what was read is lost.
GiveUp(t) ==
    /\ stage[t] \notin {"scored", "failed"}
    /\ Enter(t, "failed")
    /\ task' = [task EXCEPT ![t] = NoTask]
    /\ UNCHANGED <<vars, scores, review, age>>

Scoring(t) ==
    \/ LoadResult(t) \/ LookupExceptionStatus(t)
    \/ LoadExceptionRow(t) \/ LoadResultOfException(t)
    \/ EntitySignals(t) \/ UpsertTrustScore(t)
    \/ GiveUp(t)

-----------------------------------------------------------------------------
(* What goes on outside of src/. *)

\* An operator changes the status of an exception, in the database: no code of src/ does.
Decide(x, status) ==
    /\ StatusOf(x) # status
    /\ review' = [y \in DOMAIN review \union {x} |-> IF y = x THEN status ELSE review[y]]
    /\ UNCHANGED <<vars, scores, age, stage, task>>

\* Time passes.
Grow(days) ==
    /\ days > age
    /\ age' = days
    /\ UNCHANGED <<vars, scores, review, stage, task>>

TrustInit ==
    /\ Init
    /\ scores = <<>>
    /\ review = <<>>
    /\ age \in Ages
    /\ stage = [t \in Scorings |-> "idle"]
    /\ task = [t \in Scorings |-> NoTask]

TrustNext ==
    \/ Next /\ UNCHANGED trustVars
    \/ \E t \in Scorings : Scoring(t)
    \/ \E x \in exceptions, status \in Decisions : Decide(x, status)
    \/ \E days \in Ages : Grow(days)

TrustSpec == TrustInit /\ [][TrustNext]_<<vars, trustVars>>
=============================================================================
