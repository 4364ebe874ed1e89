---------------------------- MODULE ReplayHarness ----------------------------
(***************************************************************************)
(* The replay harness (internal/replay/service.go) beside the engine whose *)
(* exceptions it captures.                                                 *)
(*                                                                         *)
(* A capture reads an exception, its recon result and its run, then the    *)
(* record the exception is about, then that record's counterpart as it is  *)
(* now, and inserts a replay case: the two records, the default config and *)
(* the expected verdict.  A replay reads a case, judges its snapshots with *)
(* the current rules, and updates the case's status.  Captures and replays *)
(* are HTTP requests: they interleave with each other, with the engine and *)
(* with the feeds at every statement, and may stop at any.                 *)
(***************************************************************************)
EXTENDS ReconQueries

CONSTANTS
    Captures,    \* the calls of CreateCaseFromException; each names its case
    Replays,     \* the calls of RunCase
    DefaultCfg   \* recon.DefaultConfig()

ASSUME HarnessAssumption ==
    /\ Captures \intersect Replays = {} /\ NoReason \notin Captures
    /\ DefaultCfg \in Config
    /\ \A table \in Tables : \A r \in table \union Feed : r.key > 0

VARIABLES
    cases,   \* replay_cases: the row of each capture that inserted one
    at,      \* where each capture and replay is
    draft,   \* the row a capture is putting together
    job      \* the case a replay has read, and what it found

harnessVars == <<cases, at, draft, job>>

\* The side of a snapshot for which there was no record.  It is stored as a JSON null,
\* which json.Unmarshal accepts and turns into a zero record.
Missing == [id |-> "", key |-> 0, qty |-> 0, val |-> 0]

\* A ReplayCaseRow but for its config, which is always DefaultCfg, and its status.
Snapshot == Record \union {Missing}
NoDraft == [source |-> NoReason]
Row == [source : Exception, expected : Verdict, internal : Snapshot, custodian : Snapshot]

CaseStatuses == {"pending", "passing", "failing"}
Case == [row : Row, status : CaseStatuses]

ReplayOutcomes == {"unchanged", "improved", "regressed", "changed"}
NoJob == [case |-> NoReason]
Job == [case : Captures, row : Row, verdict : Verdict, outcome : ReplayOutcomes]

CapturePlaces == {"idle", "entity", "pair", "insert", "captured", "failed"}
ReplayPlaces == {"idle", "update", "replayed", "failed"}

Reach(h, place) == at' = [at EXCEPT ![h] = place]

-----------------------------------------------------------------------------
(* CreateCaseFromException *)

\* FindPairedPosition and FindPairedTransaction take any one of these.
Counterparts(e) ==
    {p \in records : p.type = e.type /\ p.key = e.key /\ p.source # e.source}

\* A record goes to the side it comes from.
WithSide(row, e) == [row EXCEPT ![e.source] = e]

\* Fault: the nullable reason code of the result is not read.
LoadException_NoReason(k) ==
    /\ at[k] = "idle"
    /\ \/ \E x \in exceptions : \E res \in ResultsFor(x) :
             /\ draft' = [draft EXCEPT ![k] =
                    [source |-> x, expected |-> [status |-> res.status, reason |-> NoReason],
                     internal |-> Missing, custodian |-> Missing]]
             /\ Reach(k, "entity")
       \/ /\ Reach(k, "failed")
          /\ UNCHANGED draft
    /\ UNCHANGED <<vars, cases, job>>

\* The exception and its result and run.  These three rows never change once they are
\* there, so reading them in one step loses nothing.
LoadException(k) ==
    /\ at[k] = "idle"
    /\ \/ \E x \in exceptions : \E res \in ResultsFor(x) :
             /\ draft' = [draft EXCEPT ![k] =
                    [source |-> x, expected |-> [status |-> res.status, reason |-> res.reason],
                     internal |-> Missing, custodian |-> Missing]]
             /\ Reach(k, "entity")
       \/ /\ Reach(k, "failed")
          /\ UNCHANGED draft
    /\ UNCHANGED <<vars, cases, job>>

\* GetPosition or GetTransaction.
LoadEntity(k) ==
    /\ at[k] = "entity"
    /\ \E e \in RecordsOf(draft[k].source) : draft' = [draft EXCEPT ![k] = WithSide(@, e)]
    /\ Reach(k, "pair")
    /\ UNCHANGED <<vars, cases, job>>

\* The record of the draft that is not missing.
Entity(row) == IF row.internal # Missing THEN row.internal ELSE row.custodian

\* The counterpart.  No row and any error of the query mean the same: there is none.
FindPaired(k) ==
    /\ at[k] = "pair"
    /\ \/ \E p \in Counterparts(Entity(draft[k])) :
             draft' = [draft EXCEPT ![k] = WithSide(@, p)]
       \/ UNCHANGED draft
    /\ Reach(k, "insert")
    /\ UNCHANGED <<vars, cases, job>>

InsertReplayCase(k) ==
    /\ at[k] = "insert"
    /\ \E outcome \in Outcomes :
          /\ cases' = IF outcome = "failed" THEN cases
                      ELSE [n \in DOMAIN cases \union {k} |->
                               IF n = k THEN [row |-> draft[k], status |-> "pending"]
                                        ELSE cases[n]]
          /\ Reach(k, IF outcome = "applied" THEN "captured" ELSE "failed")
    /\ UNCHANGED <<vars, draft, job>>

-----------------------------------------------------------------------------
(* RunCase *)

\* Fault: the transaction rules judge positions too.
Replayed_TransactionRules(row) ==
    ApplyRules(TransactionRules(DefaultCfg, row.internal, row.custodian))

\* Fault: the records are read again.
Replayed_Live(row) ==
    LET now(side) == IF \E x \in records : x.id = side.id
                     THEN CHOOSE x \in records : x.id = side.id ELSE side
    IN  ApplyRules(PositionRules(DefaultCfg, now(row.internal), now(row.custodian)))

\* replayFromSnapshots: the current rules on the stored records.
Replayed(row) ==
    ApplyRules(IF row.source.type = "position"
               THEN PositionRules(DefaultCfg, row.internal, row.custodian)
               ELSE TransactionRules(DefaultCfg, row.internal, row.custodian))

OutcomeOf(expected, actual) ==
    CASE actual = expected -> "unchanged"
      [] actual # expected /\ expected.status = "BREAK" /\ actual.status # "BREAK" -> "improved"
      [] actual # expected /\ expected.status # "BREAK" /\ actual.status = "BREAK" -> "regressed"
      [] OTHER -> "changed"

\* Fault: the outcome itself is stored as the status.
StatusAfter_Outcome(outcome) == outcome
\* Fault: every change fails the case.
StatusAfter_AnyChange(outcome) == IF outcome = "unchanged" THEN "passing" ELSE "failing"
StatusAfter(outcome) == IF outcome = "regressed" THEN "failing" ELSE "passing"

\* GetReplayCase, and the judgement, which touches nothing shared.
ReadCase(r) ==
    /\ at[r] = "idle"
    /\ \/ \E k \in DOMAIN cases :
             LET row == cases[k].row IN
             /\ job' = [job EXCEPT ![r] =
                    [case |-> k, row |-> row, verdict |-> Replayed(row),
                     outcome |-> OutcomeOf(row.expected, Replayed(row))]]
             /\ Reach(r, "update")
       \/ /\ Reach(r, "failed")
          /\ UNCHANGED job
    /\ UNCHANGED <<vars, cases, draft>>

\* The outcome is returned whether the update of the status worked or not.
UpdateReplayCaseStatus(r) ==
    /\ at[r] = "update"
    /\ \E written \in BOOLEAN :
          cases' = IF written
                   THEN [cases EXCEPT ![job[r].case].status = StatusAfter(job[r].outcome)]
                   ELSE cases
    /\ Reach(r, "replayed")
    /\ UNCHANGED <<vars, draft, job>>

\* A statement fails, the request is cancelled, or the process ends.
Abandon(h) ==
    /\ at[h] \in {"entity", "pair", "insert", "update"}
    /\ Reach(h, "failed")
    /\ UNCHANGED <<vars, cases, draft, job>>

-----------------------------------------------------------------------------
HarnessInit ==
    /\ Init
    /\ cases = <<>>
    /\ at = [h \in Captures \union Replays |-> "idle"]
    /\ draft = [k \in Captures |-> NoDraft]
    /\ job = [r \in Replays |-> NoJob]

Capture(k) == LoadException(k) \/ LoadEntity(k) \/ FindPaired(k) \/ InsertReplayCase(k)
Replay(r) == ReadCase(r) \/ UpdateReplayCaseStatus(r)

HarnessNext ==
    \/ Next /\ UNCHANGED harnessVars
    \/ \E k \in Captures : Capture(k)
    \/ \E r \in Replays : Replay(r)
    \/ \E h \in Captures \union Replays : Abandon(h)

HarnessSpec == HarnessInit /\ [][HarnessNext]_<<vars, harnessVars>>
=============================================================================
