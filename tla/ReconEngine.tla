----------------------------- MODULE ReconEngine -----------------------------
(***************************************************************************)
(* Engine.Run of internal/recon/engine.go, one process per call.           *)
(*                                                                         *)
(* A call reads its recon run, loads the internal and then the custodian   *)
(* records, pairs them by key, judges each pair, and writes what it found: *)
(* a recon result per record, and for a BREAK an exception and its         *)
(* "created" event, with lineage edges in between.  Every statement is     *)
(* committed by itself (internal/db/store.go opens no transaction), so     *)
(* other calls and the feeds interleave between any two of them, and a     *)
(* call may end after any of them: by an error of the statement, by the    *)
(* cancellation of its context, or with the process.                       *)
(*                                                                         *)
(* A write has three outcomes: it is applied; it fails; or it is applied   *)
(* and its acknowledgement is lost, so the call sees an error (Outcomes).  *)
(* Every row gets a random id; a call writes at most one row per record    *)
(* and table, so (call, record) identifies the row here.                   *)
(*                                                                         *)
(* Nothing in src/ schedules the calls or stops two of them from working   *)
(* on the same run, and Run does not look at the run's status.             *)
(***************************************************************************)
EXTENDS ReconRules, FiniteSets

CONSTANTS
    Calls,      \* the calls of Engine.Run there will be
    Runs,       \* the rows of recon_runs
    RunType,    \* the entity_type of each run
    Tables,     \* the positions and transactions there may be at the start
    Feed,       \* the records that the ingestion may still write
    Cfg         \* the engine's ReconConfig

\* Records with one id are one record: a correction keeps its type, source and key.
SameRecord(a, b) == a.id = b.id => a.type = b.type /\ a.source = b.source /\ a.key = b.key

ASSUME EngineAssumption ==
    /\ RunType \in [Runs -> EntityTypes]
    /\ Tables \subseteq SUBSET Record
    /\ Feed \subseteq Record
    /\ Cfg \in Config
    /\ NoReason \notin Ids
    /\ \A table \in Tables : IsFiniteSet(table)
    /\ \A table \in Tables : \A a, b \in table : a.id = b.id => a = b
    /\ \A table \in Tables : \A a, b \in table \union Feed : SameRecord(a, b)

VARIABLES
    records,     \* positions and transactions, of the as-of date of the runs
    runStatus,   \* recon_runs.status
    results,     \* recon_results
    exceptions,  \* exceptions
    events,      \* exception_events of type "created"
    edges,       \* lineage_edges
    pc,          \* where each call is
    run,         \* its argument
    internal,    \* what it loaded
    custodian,
    pairing,     \* its custodianMap
    taken,       \* the records its loops have taken up
    cur          \* the result of the iteration it is in

audit == <<results, exceptions, events, edges>>
snapshot == <<internal, custodian, pairing>>
loop == <<taken, cur>>
vars == <<records, runStatus, audit, pc, run, snapshot, loop>>

Statuses == {"running", "completed", "failed"}

\* A call that has ended returned nil ("succeeded") or an error: the run could not be
\* read ("unread"), the reconciliation failed ("failed"), or it was done and the run could
\* not be marked completed ("unmarked").  Or its process ended ("crashed").
Working == {"loadInternal", "loadCustodian", "loop", "resultEdge", "exception", "event",
            "exceptionEdge", "failing"}
Ended == {"succeeded", "unread", "failed", "unmarked", "crashed"}
Places == {"idle"} \union Working \union Ended

Result == [call : Calls, run : Runs, type : EntityTypes, entity : Ids,
           status : {"MATCH", "BREAK"}, reason : ReasonCodes \union {NoReason}]
Exception == [call : Calls, run : Runs, type : EntityTypes, entity : Ids, reason : ReasonCodes]
Event == [call : Calls, entity : Ids]
Edge == [call : Calls, entity : Ids, relation : {"reconciled_as", "raised_exception"}]

NoResult == [entity |-> NoReason]   \* cur outside of an iteration

KeysOf(rs) == {r.key : r \in rs}

-----------------------------------------------------------------------------
(* The loops over the sorted records. *)

\* Fault: the records are not sorted.
Smallest_Any(rs) == rs
Smallest(rs) == {r \in rs : \A s \in rs : r.key <= s.key}

\* Fault: the matched keys are not remembered.
Unmatched_All(c) == custodian[c]

\* The custodian records the second loop reports: those whose key no internal record has.
Unmatched(c) == {r \in custodian[c] : r.key \notin KeysOf(internal[c])}

\* All the records a call reports.
Scope(c) == internal[c] \union Unmatched(c)

\* The records that may come next: the internal ones in key order, then the unmatched
\* custodian ones.  Records of one key come in the order the database gave them.
NextRecords(c) ==
    LET ints == internal[c] \ taken[c]
    IN  IF ints # {} THEN Smallest(ints) ELSE Smallest(Unmatched(c) \ taken[c])

\* Fault: the custodian record is read again when it is compared.
VerdictOn_Live(c, r) ==
    IF r \in internal[c] /\ r.key \in DOMAIN pairing[c]
    THEN Judge(Cfg, r, CHOOSE x \in records : x.id = pairing[c][r.key].id)
    ELSE Unmapped

VerdictOn(c, r) ==
    IF r \in internal[c] /\ r.key \in DOMAIN pairing[c]
    THEN Judge(Cfg, r, pairing[c][r.key])
    ELSE Unmapped

ResultOf(c, r) ==
    [call |-> c, run |-> run[c], type |-> RunType[run[c]], entity |-> r.id,
     status |-> VerdictOn(c, r).status, reason |-> VerdictOn(c, r).reason]

ExceptionOf(res) ==
    [call |-> res.call, run |-> res.run, type |-> res.type,
     entity |-> res.entity, reason |-> res.reason]

EventOf(res) == [call |-> res.call, entity |-> res.entity]
EdgeOf(res, relation) == [call |-> res.call, entity |-> res.entity, relation |-> relation]

-----------------------------------------------------------------------------
(* What a statement of the store may do. *)

Outcomes == {"applied", "failed", "unacknowledged"}

Insert(table, row, outcome) == IF outcome = "failed" THEN table ELSE table \union {row}

GoTo(c, place) == pc' = [pc EXCEPT ![c] = place]

\* if err != nil { return err }: Run then marks the run as failed.
Continue(c, outcome, place) == GoTo(c, IF outcome = "applied" THEN place ELSE "failing")

Mark(r, status, outcome) ==
    runStatus' = IF outcome = "failed" THEN runStatus ELSE [runStatus EXCEPT ![r] = status]

-----------------------------------------------------------------------------
Init ==
    /\ records \in Tables
    /\ runStatus = [r \in Runs |-> "running"]
    /\ results = {} /\ exceptions = {} /\ events = {} /\ edges = {}
    /\ pc = [c \in Calls |-> "idle"]
    /\ run \in [Calls -> Runs]
    /\ internal = [c \in Calls |-> {}]
    /\ custodian = [c \in Calls |-> {}]
    /\ pairing = [c \in Calls |-> <<>>]
    /\ taken = [c \in Calls |-> {}]
    /\ cur = [c \in Calls |-> NoResult]

\* The feeds insert or correct a record.
Ingest(r) ==
    /\ records' = {x \in records : x.id # r.id} \union {r}
    /\ UNCHANGED <<runStatus, audit, pc, run, snapshot, loop>>

\* Run is called and reads its recon run.  An error is returned as it is; a run of a
\* type the engine does not support fails.
GetReconRun(c) ==
    /\ pc[c] = "idle"
    /\ \/ GoTo(c, "unread")
       \/ GoTo(c, IF RunType[run[c]] = "tax_lot" THEN "failing" ELSE "loadInternal")
    /\ UNCHANGED <<records, runStatus, audit, run, snapshot, loop>>

\* ListPositionsBySource and ListTransactionsBySource.
Listed(type, source) == {r \in records : r.type = type /\ r.source = source}

LoadInternal(c) ==
    /\ pc[c] = "loadInternal"
    /\ \/ /\ internal' = [internal EXCEPT ![c] = Listed(RunType[run[c]], "internal")]
          /\ GoTo(c, "loadCustodian")
       \/ /\ GoTo(c, "failing")
          /\ UNCHANGED internal
    /\ UNCHANGED <<records, runStatus, audit, run, custodian, pairing, loop>>

\* custodianMap keeps the last record of a key, and the sort leaves the order of equal
\* keys to the database: any of them may be the last.
Pairings(rs) == {f \in [KeysOf(rs) -> rs] : \A k \in KeysOf(rs) : f[k].key = k}

LoadCustodian(c) ==
    /\ pc[c] = "loadCustodian"
    /\ \/ /\ custodian' = [custodian EXCEPT ![c] = Listed(RunType[run[c]], "custodian")]
          /\ \E f \in Pairings(custodian'[c]) : pairing' = [pairing EXCEPT ![c] = f]
          /\ GoTo(c, "loop")
       \/ /\ GoTo(c, "failing")
          /\ UNCHANGED <<custodian, pairing>>
    /\ UNCHANGED <<records, runStatus, audit, run, internal, loop>>

\* Fault: the error of the insert is ignored.
PersistResult_IgnoreError(c) ==
    /\ pc[c] = "loop"
    /\ \E r \in NextRecords(c), outcome \in Outcomes :
          /\ results' = Insert(results, ResultOf(c, r), outcome)
          /\ taken' = [taken EXCEPT ![c] = @ \union {r}]
          /\ cur' = [cur EXCEPT ![c] = ResultOf(c, r)]
          /\ GoTo(c, "resultEdge")
    /\ UNCHANGED <<records, runStatus, exceptions, events, edges, run, snapshot>>

\* Fault: the record is not passed over once it is reported.
PersistResult_SameAgain(c) ==
    /\ pc[c] = "loop"
    /\ \E r \in NextRecords(c), outcome \in Outcomes :
          /\ results' = Insert(results, ResultOf(c, r), outcome)
          /\ cur' = [cur EXCEPT ![c] = ResultOf(c, r)]
          /\ Continue(c, outcome, "resultEdge")
    /\ UNCHANGED <<records, runStatus, exceptions, events, edges, run, snapshot, taken>>

\* persistResult: the result of the next record.
PersistResult(c) ==
    /\ pc[c] = "loop"
    /\ \E r \in NextRecords(c), outcome \in Outcomes :
          /\ results' = Insert(results, ResultOf(c, r), outcome)
          /\ taken' = [taken EXCEPT ![c] = @ \union {r}]
          /\ cur' = [cur EXCEPT ![c] = ResultOf(c, r)]
          /\ Continue(c, outcome, "resultEdge")
    /\ UNCHANGED <<records, runStatus, exceptions, events, edges, run, snapshot>>

\* The end of an iteration.
NextIteration(c) ==
    /\ GoTo(c, "loop")
    /\ cur' = [cur EXCEPT ![c] = NoResult]

\* Fault: every result raises an exception, a MATCH too.
ReconciledAs_AlwaysRaises(c) ==
    /\ pc[c] = "resultEdge"
    /\ \E outcome \in Outcomes : edges' = Insert(edges, EdgeOf(cur[c], "reconciled_as"), outcome)
    /\ GoTo(c, "exception")
    /\ UNCHANGED <<records, runStatus, results, exceptions, events, run, snapshot, loop>>

\* The edge from the record to its result.  Its failure is logged and forgotten.
ReconciledAs(c) ==
    /\ pc[c] = "resultEdge"
    /\ \E outcome \in Outcomes : edges' = Insert(edges, EdgeOf(cur[c], "reconciled_as"), outcome)
    /\ \/ /\ cur[c].status = "BREAK" /\ cur[c].reason # NoReason
          /\ GoTo(c, "exception")
          /\ UNCHANGED cur
       \/ /\ ~(cur[c].status = "BREAK" /\ cur[c].reason # NoReason)
          /\ NextIteration(c)
    /\ UNCHANGED <<records, runStatus, results, exceptions, events, run, snapshot, taken>>

\* Fault: a failed insert of the exception is logged and forgotten, like an edge's.
CreateException_LogError(c) ==
    /\ pc[c] = "exception"
    /\ \E outcome \in Outcomes :
          /\ exceptions' = Insert(exceptions, ExceptionOf(cur[c]), outcome)
          /\ \/ /\ outcome = "applied"
                /\ GoTo(c, "event")
                /\ UNCHANGED cur
             \/ /\ outcome # "applied"
                /\ NextIteration(c)
    /\ UNCHANGED <<records, runStatus, results, events, edges, run, snapshot, taken>>

\* createException: the exception, its event, the edge from the result to it.
CreateException(c) ==
    /\ pc[c] = "exception"
    /\ \E outcome \in Outcomes :
          /\ exceptions' = Insert(exceptions, ExceptionOf(cur[c]), outcome)
          /\ Continue(c, outcome, "event")
    /\ UNCHANGED <<records, runStatus, results, events, edges, run, snapshot, loop>>

CreateEvent(c) ==
    /\ pc[c] = "event"
    /\ \E outcome \in Outcomes :
          /\ events' = Insert(events, EventOf(cur[c]), outcome)
          /\ Continue(c, outcome, "exceptionEdge")
    /\ UNCHANGED <<records, runStatus, results, exceptions, edges, run, snapshot, loop>>

RaisedException(c) ==
    /\ pc[c] = "exceptionEdge"
    /\ \E outcome \in Outcomes :
          edges' = Insert(edges, EdgeOf(cur[c], "raised_exception"), outcome)
    /\ NextIteration(c)
    /\ UNCHANGED <<records, runStatus, results, exceptions, events, run, snapshot, taken>>

\* Fault: the run is marked completed before the unmatched custodian records are done.
MarkCompleted_AfterFirstLoop(c) ==
    /\ pc[c] = "loop"
    /\ internal[c] \subseteq taken[c]
    /\ \E outcome \in Outcomes :
          /\ Mark(run[c], "completed", outcome)
          /\ GoTo(c, IF outcome = "applied" THEN "succeeded" ELSE "unmarked")
    /\ UNCHANGED <<records, audit, run, snapshot, loop>>

\* Both loops are done: Run marks the run completed and returns.
MarkCompleted(c) ==
    /\ pc[c] = "loop"
    /\ Scope(c) \subseteq taken[c]
    /\ \E outcome \in Outcomes :
          /\ Mark(run[c], "completed", outcome)
          /\ GoTo(c, IF outcome = "applied" THEN "succeeded" ELSE "unmarked")
    /\ UNCHANGED <<records, audit, run, snapshot, loop>>

\* Fault: an error still marks the run completed.
MarkFailed_AsCompleted(c) ==
    /\ pc[c] = "failing"
    /\ \E outcome \in Outcomes : Mark(run[c], "completed", outcome)
    /\ GoTo(c, "failed")
    /\ UNCHANGED <<records, audit, run, snapshot, loop>>

\* After an error Run marks the run failed, ignores whether that worked, and returns.
MarkFailed(c) ==
    /\ pc[c] = "failing"
    /\ \E outcome \in Outcomes : Mark(run[c], "failed", outcome)
    /\ GoTo(c, "failed")
    /\ UNCHANGED <<records, audit, run, snapshot, loop>>

\* The process of the call ends between two statements.
Crash(c) ==
    /\ pc[c] \in Working
    /\ GoTo(c, "crashed")
    /\ UNCHANGED <<records, runStatus, audit, run, snapshot, loop>>

\* The statements a call goes through by itself once it has read its run.
Step(c) ==
    \/ LoadInternal(c)
    \/ LoadCustodian(c)
    \/ PersistResult(c)
    \/ ReconciledAs(c)
    \/ CreateException(c)
    \/ CreateEvent(c)
    \/ RaisedException(c)
    \/ MarkCompleted(c)
    \/ MarkFailed(c)

Next ==
    \/ \E c \in Calls : GetReconRun(c) \/ Step(c) \/ Crash(c)
    \/ \E r \in Feed : Ingest(r)

\* A call is a goroutine that nothing blocks but its own statements, and those return.
Fairness == \A c \in Calls : WF_vars(Step(c))

Spec == Init /\ [][Next]_vars
FairSpec == Spec /\ Fairness
=============================================================================
