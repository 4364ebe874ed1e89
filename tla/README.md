# TrustLot in TLA+

TrustLot compares a firm's own positions and transactions with its custodians',
records what it finds as audited rows in PostgreSQL, and lets operators explain,
score, trace and replay each break. This directory is a formal model of that:
TLA+ modules translated from the Go code and the SQL in it, TLC configurations
that check them on small instances, and proofs that TLAPS checks for every value
of the constants.

The thing to know about the system is that **the database is its only shared
state and no code opens a transaction**. Every statement of
`internal/db/store.go` commits by itself. So the engine's report, a replay case,
a trust score, a lineage graph and an explanation are each put together by several
statements,
and anything else may run between two of them; any statement may fail, be
applied without its acknowledgement coming back, or be the last before the
process ends. The model keeps exactly that, and abstracts the data.

Running it:

    tlc -workers 2 -config EngineOne.cfg MCReconEngine.tla    # a run
    tlapm ReconEngineProof.tla                                # a proof module

`PROJECT.json` lists the runs and their modules, a mutant of the code for every
property (the definitions whose names have a suffix, `Smallest_Any`, are those:
each is introduced by a comment "Fault:"), the source lines that each definition
translates, the hazards, the findings and the theorems.

## 1. The system

### Components, their state and their operations

| Component | Code | State it owns | Operations | Model |
|---|---|---|---|---|
| Reconciliation rules | `internal/recon/rules.go`, `ApplyRules` in `engine.go`, `config.go` | none (pure) | two ordered rule sets, first rule that does not match decides | `ReconRules`, whole |
| Reconciliation engine | `internal/recon/engine.go` | `recon_runs.status`, `recon_results`, `exceptions`, `exception_events`, `lineage_edges` | `Engine.Run` | `ReconEngine`, whole |
| Replay harness | `internal/replay/service.go` | `replay_cases` | `CreateCaseFromException`, `RunCase` | `ReplayHarness`, whole |
| Trust scores | `internal/trust/*` | `trust_scores` | `ComputeForReconResult`, `ComputeForException`, `ListScores` | `TrustScore` (arithmetic), `TrustService`, whole |
| Lineage | `internal/lineage/service.go` | none: reads | `GetLineageForEntity`, `GetLineageForException` | `LineageService`, whole |
| Store | `internal/db/store.go` | the connection pool | a method per statement | each statement in the module of the component that issues it; the queries several components share in `ReconQueries` |
| Explanation | `internal/explain/*` | none: reads | `ExplainException` | `ExplainService`, whole but for the texts |
| HTTP API | `internal/http/*`, `cmd/api`, `internal/db/db.go` | the store pointer, fixed at start; the pool, the listener, the handlers at work | start, one handler per endpoint, shutdown | `ApiServer`; what a service computes is in the service's module |
| Ingestion | `internal/ingest/*` | none | `CSVParser.Parse`; `Pipeline` is empty | not modelled; the feeds are an external action |
| Exception manager, worker | `internal/exception`, `cmd/worker` | none | an interface without an implementation; a process that waits for a signal | not modelled |
| Operator console | `apps/web` | what a page fetched last | pages | not modelled |
| Config, telemetry, platform, `tools/synth` | | none | | not modelled |

### Interactions

    feeds (external) ── positions, transactions ──┐
                                                  v
       Engine.Run ──> recon_results ──> exceptions ──> exception_events
           │               │                │
       lineage_edges       │                └── operators' reviews (external)
       (never read)        v                v
                 trust scoring      replay capture ──> replay_cases <── RunCase
                           │
                       trust_scores ──> lineage query (reads all of the above)
                 explanation (reads records, recon_results, exceptions)

    clients ──> API process ──> explanation, replay, trust, lineage ──> pool ──> database

The components share tables and nothing else; there are no callbacks, queues or
locks. Nothing in the repository calls `Engine.Run` yet (the worker is a
placeholder), so nothing keeps two calls off one run either; the model lets any
number of calls work on any runs.

Downstream components find the engine's rows **by run and entity**, which the
schema does not make unique (`GetReconResultForException`,
`FindExceptionForEntity`). As long as one call works on a run there is one row;
after two calls there are several and the query picks one. This recurs in
replay, trust, lineage and explanation, and many properties below have the premise
`~Mixed(x)`: they say what two calls on one run can spoil and that nothing else
can.

### What is hard, and what makes each component correct

* **Rules.** The order of the rules, the comparison with a tolerance, and the
  asymmetry of internal and custodian. Correct: verdicts do not depend on which
  side is which (`SidesAgree`), loosening a tolerance loses no match
  (`LooserKeepsMatch`), a reason code names a difference that is there
  (`ReasonNamesTheDifference`).
* **Engine.** Partial failure and crashes between the writes of one record;
  two loops that must not report a key twice; feeds writing between the two
  reads; concurrent calls on one run; the run's last status. Correct: rows are
  anchored (`AuditChain`), at most the last break is torn (`AtMostOneTorn`), what
  is there is a prefix of the sorted records (`PrefixOfOrder`), "completed" means
  that exactly what was loaded is reported (`CompletedIsAccounted`), equal inputs get
  equal verdicts (`SameInputsSameVerdicts`), no step gives a call more to do
  (`CallsDescend`) and a call ends (`CallEnds`).
* **Replay.** The capture reads the records after the engine did; an error of the
  query for the counterpart counts as "there is none"; status updates may be lost
  or overtaken. Correct: `ExpectsItsException`, `FailingMeansMixedRun`,
  `FaithfulReplay`, and what is captured, answered and decided is for good
  (`CasesSpec`, which implies `ReplaysAgree`).
* **Trust.** Failed reads are replaced by assumptions that *raise* the score; two
  ways to a score; rows overwritten by stale ones. Correct: a stored row is one
  scoring's own, whole, for the entity it began with (`BoardSpec`, which implies
  `RowIsWhole`), `LevelIsEarned`, `ExceptionScoresAsBreak`, `WaysAgree`.
* **Lineage.** Failed reads are passed over silently; the graph is of no single
  moment; a batch hangs on its entity only through its raw records, and the switch of an
  exception has no case for a tax lot. Correct: `GraphIsInBetween`,
  `DanglesOnlyForExceptions`, `OnlyEmptyBatchesStandApart`, `RaisedByItsBreak`.
* **Explanation.** Any failed read but the first makes the record "unmatched"; the
  records are read after the engine compared others of the same ids, and a
  counterpart may have come since. Correct: `UnmatchedIsEarned`, `ExplainsItsPair`,
  `EqualMeansCorrected`, `GenericMeansLateCounterpart`, `ShowsItsBreak`.
* **HTTP API.** One look for the database decides what the process answers for the
  rest of its life; three timers (10 s of the shutdown, 30 s of a request, none of
  the ping) and a pool that waits for its connections decide whether it ends.
  Correct: `PromiseSpec` (which implies `StandInsAreForLife` and `StatementsFinish`),
  `GracefulUntilDeadline`, `RequestEnds`, `ShutdownEnds`.

The hazards, line by line, are in `PROJECT.json`.

## 2. Modules

    ReconRules ── RulesContract                     (rules alone)
        │
    ReconEngine ── ReconEngineProps ── ReconLedger  (engine, abstract ledger)
        │
    ReconQueries ──┬── ReplayHarness  ── ReplayProps ── ReplayBook  (abstract book of cases)
                   ├── TrustService (+ TrustScore) ── TrustProps ── ScoreBoard  (abstract board of scores)
                   ├── LineageService ── LineageProps
                   └── ExplainService ── ExplainProps

    ApiServer ── ApiProps ── ApiPromise             (the process; no tables; what it promises)

A component's module holds its state and actions and knows no property; the
`...Props` module states the properties; `MC...` has the instances for TLC;
`...Proof` the theorems. `ReplayHarness`, `TrustService`, `LineageService` and
`ExplainService` extend the engine: their next-state relations contain the engine's whole `Next`,
so they are checked and proved against the rows a running engine really leaves,
not against well-formed rows made up for them.

### Records

A record is `[id, type, source, key, qty, val]`: what the rules and the pairing
can tell apart. `key` is the pairing key (account and security; for a
transaction also type and trade date) as its rank in the sort order; `val` is the
market value or the amount. Amounts are fixed-point integers. The code computes
with float64, where a difference that is exactly the tolerance may come out above
it; `RoundsUp` is the set of pairs for which it does, and the theorems hold
for every choice of it.

### `ReconEngine`: `Engine.Run`

A process per call, `pc[c]` is the next statement:

    idle --GetReconRun--> loadInternal --> loadCustodian --> loop
    loop --PersistResult--> resultEdge --ReconciledAs--> loop                 (MATCH)
                                        └--> exception --> event --> exceptionEdge --> loop   (BREAK)
    loop --MarkCompleted--> succeeded | unmarked
    any error --> failing --MarkFailed--> failed;    any statement --Crash--> crashed

| Action | Code |
|---|---|
| `GetReconRun` | `engine.go:26-41`: an unreadable run returns the error, an unsupported type fails the run |
| `LoadInternal`, `LoadCustodian` | the two listings of `reconcilePositions` and `reconcileTransactions`, the sorts, `custodianMap` |
| `PersistResult` | the insert of `persistResult`, for the next record of the two loops (`NextRecords`) with the verdict of `VerdictOn` |
| `ReconciledAs`, `RaisedException` | the lineage edges, whose failure is only logged |
| `CreateException`, `CreateEvent` | the two inserts of `createException` |
| `MarkCompleted`, `MarkFailed` | the two endings of `Run` |
| `Ingest` | external: a feed inserts or corrects a record |

Each write has an outcome from `Outcomes`: applied, failed, or *unacknowledged*
(applied, and the call sees an error, as after a lost connection or a cancelled
context). `custodianMap` keeps the last record of a key, and neither the query
nor `sort.Slice` fixes the order of equal keys: `Pairings` lets any of them be
the last. Row ids are random; a call writes at most one row per record and table,
so (call, record) stands for the id.

### `ReconLedger`: the abstract specification

What reconciliation promises, without statements: a call fixes a scope, audits
its records one by one, and completes only when everything in its scope is
audited; it may be abandoned anywhere, and what was audited stays. The refinement
mapping (`ReconEngineProps!Ledger`) takes `audited` to the records whose result is
there, with exception and event for a break. So the three inserts of one break
are one `Audit` step, taken by whichever write completes it (also an
unacknowledged one).

### `ReplayHarness`

`LoadException`, `LoadEntity`, `FindPaired`, `InsertReplayCase` are the
statements of a capture; `ReadCase`, `UpdateReplayCaseStatus` those of a replay;
`Abandon` ends either between two statements. The case holds the two records *as
they are now*, which need not be the ones the engine compared. A missing
counterpart is stored as JSON `null`, which the replay reads back as a record of
zeros: `Missing`. The config stored is always the default one (`DefaultCfg`), the
engine's own is `Cfg`; the two are separate constants because the code does not
tie them.

### `ReplayBook`: the abstract specification of the harness

A case is opened with a row, answered once and decided at most once. The mapping
(`ReplayProps!Book`) takes `content` to the rows of `cases`, `mark` to their statuses
and `answers` to what the replays that have read the case found. The first `ReadCase` of a case
is its `Answer`, the first update that is written its `Decide`; every other step of
the harness, the engine and the feeds stutters, so an update that is lost, late or
overtaken by another replay's flips nothing. The code reaches this although no update checks
the status it overwrites: it relies on the snapshot and the rules staying as they are.

### `TrustScore` and `TrustService`

The scorer is exact arithmetic in hundredths of a point: every component is a
multiple of 5 percent and every weight a whole percentage, so no rounding is
left. A scoring has a `stage` and a `task` (what it has read). `LoadResult` and
`LookupExceptionStatus` belong to `ComputeForReconResult`, `LoadExceptionRow` and
`LoadResultOfException` to `ComputeForException`, `EntitySignals` and
`UpsertTrustScore` to both, `GiveUp` is any failure. The two reads whose errors the
code swallows (`lookupExceptionStatus`, `entitySignals`) have the corresponding
branch. `Decide` (a review) and `Grow` (the clock) are external.

### `ScoreBoard`: the abstract specification of the scores

A scoring settles whose score it works out (`Aim`), from what (`Settle`), and posts the
row of that whole or has the post lost (`Post`); or it gives up. The mapping
(`TrustProps!Board`) takes `target` to the entity of the exception or result a scoring
began with, `reading` to its input, `Row` to the scorer, `over` to the scorings that have ended, and `board` to
`trust_scores` itself. A scoring of an exception reads a result after its exception, which is of the
same entity and so a stutter; the engine, the feeds, the reviews and the clock stutter, too.

### `LineageService`

`place` is the query's next read; `nodes` and `links` are `graphBuilder`'s maps,
where the keying by id makes sets the right abstraction. Each read either adds its
rows or is passed over (`Skip`), as in the code. `skipped` and `before` are
history variables for the properties: the code keeps neither, and a caller cannot
tell a partial graph from a complete one. One query is enough, since queries write
nothing. A batch is read only after its raw records were, by a statement of its
own, and its edges lead to them: a batch without raw records (those of `db/seed.sql`, or
"batch-2" of `TestTransactionFullChain`) is a node without an edge, which
`OnlyEmptyBatchesStandApart` allows and nothing else. The switch of
`GetLineageForException` has no case for a tax lot and no default: no code raises such an
exception, but `db/seed.sql:109` has one, so `LotExceptions` are rows that are there from
the start, each with its result (`seed.sql:102`). `Ask` then goes straight to `link`, the
edges start at an entity and a result that the graph does not have, and the score is the
only other row in it. Not modelled: labels, metadata, and the order of the answer.

### `ExplainService`

`at` is the next read: the exception, its result, the run, the entity, the
counterpart; `LoadAgain` is the second, identical read of a position that could not
be read, whose row the code takes for the custodian's. A read gives one of its rows,
nothing, or an error, and the service does not tell the last two apart; `lost` is a
history variable that does: whether any read has failed. `pair` has the record of each side.
`Answer` is
`BuildExplanation` of what was read: "unmatched" when a side is missing, "generic"
when the reason code has no builder, else the builder's fields side by side; a
builder that asserts another type panics, which `ExplainTypeOK` excludes. The exceptions
are those the engine raises. Of the seed's own, the tax lot's has no records for the
service to read, and the duplicate transaction's (`seed.sql:108`) no counterpart in the
tables: both are explained as "unmatched" although no read failed.

### `ApiServer`

One life of the API process; a restart is another. `Connect` is `NewPool` and what
`main` makes of its error, `Start` the server goroutine, `BeginShutdown`, `Drained`
or `Deadline`, `ClosePool` and `Exit` the end of `main` in the order of its deferred
calls. A request goes

    unsent --Dial--> connected --Receive--> sending (no store, or a preflight) --Sent--> answered
                                        └--> between --Acquire--> querying --> between | sending

and ends `refused` (never read), `cut` (its handler was at work when the process
ended) or `torn` (with a statement in flight). Every handler is of one of five
kinds: a preflight, the health check, a list, one exception (each one statement), and
a service of several statements, which may pass over a failed one. `Denied` is a
statement that gets no connection: its context is over or the pool is closed
(`shutOut`). The database is up, down or hung (a statement then returns only when its
context ends). `net/http`, `pgxpool` and chi are external: that `Shutdown` waits for
active and new connections, that `Close` waits for acquired ones and refuses new
acquires, that chi's `Timeout` ends the request's context and nothing else. The
health check and the lists report a failed statement, the others call it "not
found"; the model has one answer, `error`, for both.

### `ApiPromise`: the abstract specification of the process

What clients can tell: a process is with a store or without one before it has taken on
anything, and stays so; each request is taken on once, answered once, with an answer of
the process's kind, and delivered once; an orderly end in time has delivered everything
taken on, and a late one has at least torn no statement; a kill may tear what it likes. The mapping (`ApiProps!Promise`)
forgets the listener, the pool, the statements and the timers: waiting, querying and
being denied are stutters, and so is the end of `Shutdown`. A kill is told from an end by
`killed`, without which the promise would excuse any exit.

## 3. Runs

Bounds are small on purpose; each was chosen so that the case a property is about
happens, and the mutant of each property shows that it does.

| Run | What it asks | Instance | Distinct states |
|---|---|---|---|
| `RulesContract` | the four rule properties, on every pair | amounts 0..3, tolerances 0..2 (below, at and above each tolerance), two pairs at the tolerance that round up | 9,216 |
| `EngineOne` | what one call leaves, whatever its statements do; the refinement of `ReconLedger`; that calls end | every subset of a book of six records, for positions, transactions and tax lots: matched, matched with two candidates on either side, unmatched on each side | 117,850 |
| `EngineTwo` | completion, determinism and the descent of each call, with two calls on one run or two | one matched key that a feed turns into a break, one unmatched record | 349,627 |
| `Replay` | what a case is worth; the refinement of `ReplayBook` | two engine calls on one run over a broken pair that a feed repairs, a capture, two replays | 843,888 |
| `Trust` | what a stored score says; the refinement of `ScoreBoard` | one engine call over a pair that agrees or breaks and whose missing value a feed adds, two scorings, a review, one passage of 8 days | 1,179,564 |
| `Lineage` | what a graph says | two engine calls on one run or two over a record whose counterpart a feed brings; a record without a batch, one of a batch without raw records, one of a batch of two; an exception of a tax lot; one query from an entity or an exception | 1,169,526 |
| `Explain` | what an explanation says | two engine calls on one run or two over a pair for each rule, two candidates for a counterpart, or a record without one; a feed corrects a record or brings a counterpart; one explanation | 1,237,940 |
| `Api` | how a process serves and ends; the refinement of `ApiPromise` | two requests of any kind, a pool of one connection, services of two statements | 156,699 |

`Replay`, `Trust`, `EngineTwo`, `Lineage` and `Explain` use symmetry of the calls,
scorings or replays, which no action or invariant tells apart. `Lineage` and `Explain`
have a view that leaves out `runStatus`, `events` and `edges`: no guard of the query or
the explanation and no property of these runs reads them, and nothing that the engine
writes to the other tables depends on them. `CHECK_DEADLOCK FALSE` is set where calls end and nothing starts new ones.

Why the bounds are enough: calls only meet in the tables, and they meet on a key
or an entity. Two calls, one key with a counterpart and one without already give
every pair of statements a conflict; a third call would repeat one of the two. A
book of six records has every combination of sides and duplicates of one key. What
the bounds leave open is what the theorems of section 4 are for.

Requests to the API meet in the pool and in the end of the process. Two on one
connection are the least that can wait for each other, and two statements the least
between which a pool can close. The answers of one process are compared pairwise.

The refinement of the ledger is run with one call, over every sub-book: two calls
meet only in the run's status, and that they do so as the ledger allows is proved for
any number of them.

In `Trust`, one engine call keeps the space within reach, so there no run is
mixed: `~Mixed` holds throughout. That `ExceptionScoresAsBreak` and `WaysAgree` hold with
mixed runs beside is proved (`ExceptionsScoreAsBreaks`, `BothWaysAgree`), not run.

`LevelIsEarned` is about the distance between the verdicts in the arithmetic alone: a
score that a failed read has raised, or that a later review has made stale, need not change
its level. What a failed read can do to a score is `WaysAgree`'s, what a stale one is,
`BoardSpec`'s.

**Fairness.** `EngineOne` assumes weak fairness of each call's own next statement
(`Step(c)`), not of its start, of crashes or of feeds. A call is a goroutine that
blocks on nothing but its own statements, each of which returns, with an error if the
context or the connection ends. `CallEnds` then says that a call that has begun ends,
however its statements turn out.

`Api` assumes weak fairness of the main goroutine, of each handler's own steps and of
the request's timer: goroutines run and timers fire. It assumes nothing of the
database (it may hang for ever, and the driver need not give up: `ConnectTimeout` is
not fair), of clients (one may never take its answer: `Sent` is not fair) or of
signals. `RequestEnds` therefore rests on the `Timeout` middleware, and `ShutdownEnds`
on all three of the signal's context in the ping, the deadline of `Shutdown`, and the
requests' timeouts, without which the pool's `Close` waits for ever.

**Findings.** Four runs are expected to be violated. Each checks a sentence of the
documentation, a comment or a test against the code:

| Run | The sentence | What the code does |
|---|---|---|
| `Rules_MatchMeansAgreement` | a MATCH means "Records agree within tolerance" (`reason-codes.md:93`) | the transaction rules never compare the quantities of a pair whose amounts agree |
| `Engine_BreakHasException` | a BREAK creates an exception (`reason-codes.md:95`, `architecture.md:110`) | a call that stops between the two inserts leaves a BREAK without one, for good |
| `Engine_Deterministic` | "same inputs always produce same outputs" (`architecture.md:135`) | with two custodian records under one key the order of rows decides |
| `Replay_MissingSideIsAnError` | a missing snapshot is an error (`service_test.go:200`, `replay.md:104`) | the missing side of an unmatched record is stored as JSON null and replayed as zeros |

Seen while modelling and not given a run:

* `lineage.go:21` says an edge "connects two nodes in the lineage graph". The graph
  of an exception may have an edge that starts at a result it has no node for, and that
  of a tax lot's exception has none but such edges and the score's;
  `DanglesOnlyForExceptions` says exactly when.
* `model.go:97` calls a run "a single execution of the reconciliation engine"; a
  second call on the same run adds its rows to the first one's.
* The engine writes `lineage_edges` and nothing reads them; a failed insert is only
  logged, while `architecture.md:111` says every transformation is recorded.
* Two postings of one trade on one side are not seen by the duplicate rule, which
  compares across sides only (`rules.go:77`).
* A capture stores the default config whatever config the engine used.
* A case can become "failing" only in a mixed run (`FailingMeansMixedRun`), so the
  status says less than `domain-model.md:120` promises; and the update of the status
  may be swallowed.
* `trust_scores` has one row per entity, across runs; its freshness is that of the
  day it was computed. A record that could not be read counts as complete, so a
  failed read can raise the score of an incomplete record, by 2.5 points at most
  (`WaysAgree`).
* `architecture.md:109` speaks of seven weighted components: there are five and a
  penalty. `README.md:118` still calls the trust and lineage endpoints stubs.
* The scorer takes an empty status to mean that no exception exists (`scorer.go:38`);
  it also gets one when the lookup fails (`trust/service.go:137`), and a break whose
  open exception could not be read is stored 7.5 points higher (`WaysAgree`).
* When the database is down at the start of the API, the store stays nil until a
  restart: the lists answer empty, the services 503, where `architecture.md:134` says
  "empty responses, not errors"; when it goes down later, the lists answer 500. Without
  a store, `GET /exceptions/{id}` answers 200 with the status "not_implemented".
* A timeout or a lost connection is answered 404 by every handler of one thing, as if
  the thing did not exist; chi's 504 comes after the handler's header and is ignored.
* An address that is in use is logged, and the process stays without a listener until
  a signal (`main.go:46`).
* A request that outlives `Shutdown`'s ten seconds meets the closed pool: an explanation
  then says "unmatched", a lineage graph has gaps, both with status 200.
* An unmatched or generic explanation has `"field_diffs": null`, which
  `exceptions/[id]/page.tsx:36` types as an array; a list of an empty table is `null`
  too, where a process without a store answers `[]`.
* `CSVParser` gives a row that does not parse no raw data, and the column is NOT NULL.

## 4. Theorems

All proofs are checked by `tlapm` to the last leaf, with the assumptions of the
modules as the only ones: `RulesAssumption` (about `RoundsUp`), `EngineAssumption`
(records with one id are one record, a correction keeps type, source and key, the books
to start from are finite),
`HarnessAssumption`, `ScoringAssumption`, `LineageAssumption` and `ApiAssumption` (the
types of the constants).
They hold for any number of calls, runs, records, captures, replays, scorings,
requests and connections, any books and feeds, any tolerances and any rounding.

| Module | Theorems | Argument |
|---|---|---|
| `RulesLemmas`, `RulesProof` | `RulesTypeOK`, `RulesAreSymmetric`, `LooserToleranceKeepsMatch`, `ReasonsAreTrue`, `TolerancesDecide` | a rule set of two reduces to a case split on its rules (`ApplyTwoRules`, `JudgeByRule`); then arithmetic |
| `ReconEngineProof` | `EngineInvariant`, `EngineTypeOK`, `RowsAreAnchored`, `CompletedRunsAreAccounted`, `AtMostOneBreakIsTorn` | the inductive invariant `IInv`, below |
| the same | `OneSideIsReported`, `VerdictsAreDeterministic`, `ReportIsAPrefix` | `IdsInv` (what was loaded keeps its identity whatever feeds do), `OrderInv` (the records before the current one are taken) |
| the same | `CallsComeToAnEnd`, `LoopsAreNeverStuck` | `FiniteInv` (a call loads finitely many records) and the measure `Fuel`, below; any set of keys has a least one |
| the same | `EngineImplementsLedger` | `Spec => LedgerSpec`, step by step: a step that writes audits at most one record, an ending completes or abandons, the rest stutters |
| `ReplayProof` | `EngineBesideHarness`, `HarnessInvariant`, `HarnessTypes`, `CaseExpectsItsException`, `OnlyMixedRunsFail`, `ReplaysAreDeterministic`, `ReplayReproduces` | `HarnessInv`: every draft, case and job goes back to an exception and a result that are there |
| the same | `HarnessImplementsBook` | `HarnessSpec => CasesSpec`, step by step, from `HarnessInv` and `MarkInv`: a status is pending or the one its row decides |
| `TrustProof` | `BreakScoresLowest`, `BetterEvidenceNeverLowers` | the scorer's arithmetic for every input: the sum needs no clamping (`TotalIsSum`), and each component is monotone |
| the same | `ServiceImplementsBoard` | `TrustSpec => BoardSpec`, step by step, from `TrustInv`: the result a scoring finds is of its exception's entity |
| the same | `EngineBesideTrust`, `TrustInvariant`, `TrustTypes`, `RowsAreWhole`, `LevelsAreEarned`, `ExceptionsScoreAsBreaks`, `ReadsInvariant`, `BothWaysAgree` | bounds of the score for each status; `TrustInv`: what was read is in the database, every stored row is the score of an input taken from a result of its entity; `ReadsInv`: a record is read as of its own source, or as assumed |
| `LineageProof` | `EngineBesideQuery`, `EngineSupports`, `QueryInvariant`, `LineageTypes`, `GraphsAreInBetween`, `EdgesDangleOnlyForExceptions`, `GraphsHangTogether`, `ExceptionsShowTheirBreak` | `QueryInv`, below |
| `ExplainProof` | `EngineBesideExplanation`, `ExplanationInvariant`, `ExplanationTypes`, `UnmatchedIsTrue`, `PairIsTheEnginesPair`, `EqualValuesWereCorrected`, `GenericIsLate`, `ShownResultIsTheBreak` | `ExplainInv`, below |
| `ApiProof` | `ApiInvariant`, `ApiTypes`, `StandInsAreForTheProcess`, `ShutdownIsGraceful`, `NoStatementIsTorn` | `ApiInv`, below |
| the same | `ProcessKeepsPromise` | `Spec => PromiseSpec`, from `ApiInv`: a lemma each for main, the end of the process and a request, whose steps `Moves` lists |
| the same | `HandlersDescend`, `ShutdownDescends` | the measures `Steps` and `MainRank`, below |

**`IInv`.** None of the engine's properties is inductive. "At most one break is
torn" needs to know which one, so `PlaceInv` ties `pc` to the rows: at `exception`
the current result is a BREAK that is in the table, at `event` its exception is too,
and so on; at `loop` there is no current result. `TakenInv` says that every record
taken up is reported or is the current one; `ResultsInv` that every result is the
verdict on a record its call took up; `StatusInv` that a run marked completed has a
call that finished. With `TypeOK` and `AuditChain` they are inductive:
`MarkCompleted` requires every record of the scope to be taken, so `TakenInv` gives
`CompletedIsAccounted`; `PlaceInv` and `ResultsInv` give `AtMostOneTorn`.

**Composition.** The harness and the trust service extend the engine, so each has
a theorem that its steps are steps or stutters of the engine
(`EngineBesideHarness`, `EngineBesideTrust`, `EngineBesideQuery`,
`EngineBesideExplanation`); the engine's invariants then carry over, and the lemma both rest on is `OneResultPerEntity`: a call writes at most one
result per entity. Without a mixed run, the result found by run and entity is
therefore the exception's own (`ResultOfException`).

**`QueryInv`.** That every edge and node is right at the end of a query does not
follow from what one read adds: the invariant has a part for the whole graph
(`GraphInv`: each node is a row of the subject and hangs on it, each edge is sound,
where an edge from a result may lack its node) and a part for each place (`ReadInv`:
the tables read so far are in the graph with the rows they had at the start, or
`skipped` names the read). The root hangs on the entity only from `LinkException` on,
whether or not the exceptions were read before, and a batch on its raw records, which are
all there when it is read. It rests on `SupportedInv`: the engine writes nothing about tax
lots, so the subject of an exception it raised is a position or a transaction; the graph of
a tax lot has an invariant of its own, `LotInv`, which lists the nodes and edges there may
be.

**`ExplainInv`.** `ReadInv` says at each place what was read: the exception is in its
table, the result is one of its run and entity. `PairInv` says that a record on a side is
of that side and under the entity's key, and that a missing one was looked for, or `lost`
is set. The rest is the engine's: `PresentInv` (what a call loaded is still there, in
some version), `TypesInv` (of the run's type), `SupportedInv` and the verdicts. A reason
code other than "unmapped" then means that the engine compared two records, which
`IdsInv` identifies with the ones found now, and `ReasonsAreTrue` says in which field
they differed.

**`ApiInv`.** `StoreInv`: before the store is decided nothing has been answered, so the
answers are of one kind. `StageInv`: the listener is open only while `main` serves; the
pool is closed only afterwards, and, without the deadline, only when no handler is at
work; with the listener closed none can start again. `ReplyInv`: a handler has not
answered before it sends, a process that was killed is gone, and a handler between two
statements has one left.

**What the liveness rests on.** The provers cannot reach `CallEnds`, `RequestEnds` and
`ShutdownEnds` themselves. What these need besides fairness is proved: that there is
always a step to take, and a measure that steps lower and nobody else raises. For a call
it is `StageOf` and then `Fuel`, five for each record not yet taken up and what is left
of the present one; it is a natural number because what was loaded is finite, and a
feed or another call does not raise it because the loaded records are the call's
own. `LoopsAreNeverStuck` says that a loop has a next record or is done. For a handler
it is `Steps`, two for each statement it may still issue (its connection and its
outcome) and one for its timeout; for the end of the process `MainRank`, and in `closing`
the set of requests that hold a connection, of which no new ones come.

**Only model-checked.** `CallEnds`, `RequestEnds` and `ShutdownEnds` (liveness under
fairness, which needs ENABLED) and the four violated properties. Every invariant, action
property and refinement that a passing run checks is a theorem.

## 5. Not modelled, and why

Pure I/O, layout and wording: the decoding of parameters, headers, the texts of
explanations and rationales, labels and metadata of nodes, SQL, the console's
pages. Listings that only read for display (`ListExceptions`, `ListReplayCases`,
`ListScores`, ...). `NEAR_MATCH`, which exists in the schema and the scorer but
which no rule returns (the scorer's model has it). Placeholders: the worker, the
ingestion pipeline, the exception manager, the generator. The parser is a pure
function over bytes that nothing calls. Float64 rounding is modelled by `RoundsUp`
and not bit by bit.

## 6. Plan

In order of importance; all but the last are done.

1. `ReconRules`, `RulesContract`: the verdicts, checked and proved.
2. `ReconEngine`, `ReconEngineProps`: the engine statement by statement, checked
   and proved.
3. `ReconLedger`: the abstract specification and the refinement, checked and proved.
4. `ReplayHarness`, `TrustScore`, `TrustService`: composed with the engine,
   checked and proved.
5. `LineageService`: composed with the engine, checked and proved.
6. `ExplainService`: composed with the engine and the feeds, checked and proved.
7. `ApiServer`: the process from its start to its end, checked and proved.
8. `ReplayBook`: the abstract specification of a replay case and the refinement,
   checked and proved.
9. `ScoreBoard`, `ApiPromise`: the abstract specifications of the scores and of the
   process and their refinements, checked and proved; the descents that the liveness
   properties rest on, proved.
10. The requests of the console that overtake each other.
