----------------------------- MODULE ReplayProof -----------------------------
(***************************************************************************)
(* Proofs about replay cases, for any number of engine calls, captures and *)
(* replays.                                                                *)
(*                                                                         *)
(* The harness leaves the engine's variables alone, so the engine's        *)
(* invariants hold beside it.  The harness's own invariant says that a     *)
(* draft past its first step, and every case, rests on an exception and a  *)
(* result that are in the database, and that a replay's verdict is the     *)
(* judgement of the rules on the row of its case.                          *)
(***************************************************************************)
EXTENDS ReplayProps, ReconEngineProof

\* A row rests on an exception and on a result of it.
Grounded(row) ==
    /\ row.source \in exceptions
    /\ \E res \in ResultsFor(row.source) :
          row.expected = [status |-> res.status, reason |-> res.reason]

DraftInv == \A k \in Captures :
    /\ at[k] \in {"entity", "pair", "insert"} => draft[k] \in Row /\ Grounded(draft[k])
    /\ k \in DOMAIN cases => /\ cases[k].row \in Row /\ Grounded(cases[k].row)
                             /\ at[k] \notin {"idle", "entity", "pair", "insert"}

\* What a replay has in hand.
Found(r) ==
    /\ job[r] \in Job
    /\ job[r].case \in DOMAIN cases
    /\ job[r].row = cases[job[r].case].row
    /\ job[r].verdict = Replayed(job[r].row)
    /\ job[r].outcome = OutcomeOf(job[r].row.expected, job[r].verdict)

JobInv == \A r \in Replays :
    /\ at[r] = "idle" => job[r] = NoJob
    /\ at[r] = "update" \/ Judged(r) => Found(r)

\* A case fails because of a replay that regressed.
FailInv == \A k \in DOMAIN cases : cases[k].status = "failing" =>
    \E r \in Replays : job[r].case = k /\ job[r].outcome = "regressed"

HarnessInv == HarnessTypeOK /\ DraftInv /\ JobInv /\ FailInv

-----------------------------------------------------------------------------
(* The engine is not disturbed. *)

LEMMA HarnessStepsAreEngineSteps ==
    [HarnessNext]_<<vars, harnessVars>> => [Next]_vars
BY DEF HarnessNext, Capture, LoadException, LoadEntity, FindPaired, InsertReplayCase, Replay,
       ReadCase, UpdateReplayCaseStatus, Abandon

THEOREM EngineBesideHarness == HarnessSpec => [](IInv /\ IdsInv /\ TypesInv)
<1>1. HarnessInit => Init /\ TypesInv
  BY DEF HarnessInit, Init, TypesInv
<1>2. TypeOK /\ TypesInv /\ [Next]_vars => TypesInv'
  BY TypesInvStays
<1>3. IInv => TypeOK
  BY DEF IInv
<1>4. [HarnessNext]_<<vars, harnessVars>> => [Next]_vars
  BY HarnessStepsAreEngineSteps
<1> QED
  BY <1>1, <1>2, <1>3, <1>4, RecordIdentity, PTL DEF HarnessSpec, Spec

-----------------------------------------------------------------------------
(* The invariant of the harness. *)

LEMMA GroundStays ==
    ASSUME [Next]_vars, NEW row, Grounded(row)
    PROVE  Grounded(row)'
BY RowsStay DEF Grounded, ResultsFor

LEMMA OutcomeType ==
    ASSUME NEW expected, NEW actual
    PROVE  /\ OutcomeOf(expected, actual) \in ReplayOutcomes
           /\ OutcomeOf(expected, actual) = "regressed" =>
                 expected # actual /\ expected.status # "BREAK"
           /\ expected = actual => OutcomeOf(expected, actual) = "unchanged"
BY DEF OutcomeOf, ReplayOutcomes

LEMMA ReplayedType == ASSUME NEW row PROVE Replayed(row) \in Verdict
<1> DEFINE int == row.internal
           cust == row.custodian
           rules == {PositionQuantity(DefaultCfg, int, cust), PositionPrice(DefaultCfg, int, cust),
                     TransactionDuplicate(int, cust), TransactionAmount(DefaultCfg, int, cust)}
<1>1. rules \subseteq Verdict /\ Match \in Verdict
  BY DEF PositionQuantity, PositionPrice, TransactionDuplicate, TransactionAmount, Match, Break,
         Verdict, ReasonCodes
<1>2. /\ ApplyRules(PositionRules(DefaultCfg, int, cust)) \in rules \union {Match}
      /\ ApplyRules(TransactionRules(DefaultCfg, int, cust)) \in rules \union {Match}
  BY ApplyTwoRules DEF PositionRules, TransactionRules
<1>3. Replayed(row) \in rules \union {Match}
  BY <1>2 DEF Replayed
<1> QED
  BY <1>1, <1>3

LEMMA InitHarnessInv == HarnessInit => HarnessInv
<1> SUFFICES ASSUME HarnessInit PROVE HarnessInv
  OBVIOUS
<1>1. DOMAIN cases = {}
  BY DEF HarnessInit
<1> QED
  BY <1>1 DEF HarnessInit, HarnessInv, HarnessTypeOK, DraftInv, JobInv, FailInv, Found, Judged,
              CapturePlaces, ReplayPlaces

\* The engine and the feeds only add rows.
LEMMA EngineStepKeepsHarness ==
    ASSUME HarnessInv, [Next]_vars, UNCHANGED harnessVars
    PROVE  HarnessInv'
<1>1. \A row : Grounded(row) => Grounded(row)'
  BY GroundStays
<1>2. cases' = cases /\ at' = at /\ draft' = draft /\ job' = job
  BY DEF harnessVars
<1>3. HarnessTypeOK'
  BY <1>2 DEF HarnessInv, HarnessTypeOK
<1>4. DraftInv'
  BY <1>1, <1>2 DEF HarnessInv, DraftInv
<1>5. ASSUME NEW r \in Replays, Found(r) PROVE Found(r)'
  BY <1>2, <1>5 DEF Found
<1>6. JobInv'
  BY <1>2, <1>5 DEF HarnessInv, JobInv, Judged
<1>7. FailInv'
  BY <1>2 DEF HarnessInv, FailInv
<1> QED
  BY <1>3, <1>4, <1>6, <1>7 DEF HarnessInv

\* Drafts are rows.
LEMMA DraftTypes ==
    ASSUME TypeOK
    PROVE  /\ \A x \in exceptions : \A res \in ResultsFor(x) :
                 [source |-> x, expected |-> [status |-> res.status, reason |-> res.reason],
                  internal |-> Missing, custodian |-> Missing] \in Row
           /\ \A row \in Row : \A e \in records :
                 WithSide(row, e) \in Row /\ WithSide(row, e).source = row.source
                 /\ WithSide(row, e).expected = row.expected
<1>1. ASSUME NEW x \in exceptions, NEW res \in ResultsFor(x)
      PROVE  /\ x \in Exception
             /\ [status |-> res.status, reason |-> res.reason] \in Verdict
  BY DEF TypeOK, ResultsFor, Result, Verdict
<1>2. ASSUME NEW row \in Row, NEW e \in records
      PROVE  /\ WithSide(row, e) \in Row /\ WithSide(row, e).source = row.source
             /\ WithSide(row, e).expected = row.expected
  <2>1. e \in Snapshot /\ e.source \in {"internal", "custodian"}
    BY DEF TypeOK, Record, Sources, Snapshot
  <2>2. CASE e.source = "internal"
    <3>1. WithSide(row, e) = [row EXCEPT !.internal = e]
      BY <2>2 DEF WithSide
    <3> QED
      BY <2>1, <3>1 DEF Row
  <2>3. CASE e.source = "custodian"
    <3>1. WithSide(row, e) = [row EXCEPT !.custodian = e]
      BY <2>3 DEF WithSide
    <3> QED
      BY <2>1, <3>1 DEF Row
  <2> QED
    BY <2>1, <2>2, <2>3
<1> QED
  BY <1>1, <1>2 DEF Row, Snapshot

\* A capture puts together a row that rests on what it read.
LEMMA CaptureKeepsHarness ==
    ASSUME TypeOK, HarnessInv, NEW k \in Captures, Capture(k)
    PROVE  HarnessInv'
<1> USE DEF HarnessInv
<1>0. /\ k \notin Replays /\ at \in [Captures \union Replays -> CapturePlaces \union ReplayPlaces]
      /\ draft \in [Captures -> Row \union {NoDraft}]
  BY HarnessAssumption DEF HarnessTypeOK
<1>1. /\ \A row : Grounded(row)' <=> Grounded(row)
      /\ \A row : Replayed(row)' = Replayed(row)
  BY DEF Capture, LoadException, LoadEntity, FindPaired, InsertReplayCase, vars, audit,
         Grounded, ResultsFor
<1>2. /\ job' = job
      /\ \A h \in Captures \union Replays : h # k => at'[h] = at[h]
      /\ \A n \in Captures : n # k => draft'[n] = draft[n]
  BY <1>0 DEF Capture, LoadException, LoadEntity, FindPaired, InsertReplayCase, Reach
<1>3. CASE at[k] # "insert"
  <2>1. /\ cases' = cases
        /\ at[k] \in {"idle", "entity", "pair"}
        /\ at'[k] \in {"entity", "pair", "insert", "failed"}
    BY <1>0, <1>3 DEF Capture, LoadException, LoadEntity, FindPaired, InsertReplayCase, Reach
  <2>2. at' \in [Captures \union Replays -> CapturePlaces \union ReplayPlaces]
    BY <1>0 DEF Capture, LoadException, LoadEntity, FindPaired, InsertReplayCase, Reach,
                CapturePlaces, ReplayPlaces
  <2>3. /\ draft' \in [Captures -> Row \union {NoDraft}]
        /\ at'[k] \in {"entity", "pair", "insert"} => draft'[k] \in Row /\ Grounded(draft'[k])
    <3>1. CASE LoadException(k)
      BY <1>0, <3>1, DraftTypes DEF LoadException, Reach, Grounded
    <3>2. CASE LoadEntity(k) \/ FindPaired(k)
      BY <1>0, <3>2, DraftTypes
         DEF LoadEntity, FindPaired, DraftInv, Grounded, Counterparts, RecordsOf
    <3> QED
      BY <1>3, <3>1, <3>2 DEF Capture, InsertReplayCase
  <2> QED
    BY <1>0, <1>1, <1>2, <2>1, <2>2, <2>3 DEF HarnessTypeOK, DraftInv, JobInv, FailInv, Found, Judged
<1>4. CASE at[k] = "insert"
  <2>1. InsertReplayCase(k)
    BY <1>4 DEF Capture, LoadException, LoadEntity, FindPaired
  <2>2. /\ draft[k] \in Row /\ Grounded(draft[k]) /\ k \notin DOMAIN cases
    BY <1>4 DEF DraftInv
  <2>3. /\ draft' = draft
        /\ at' \in [Captures \union Replays -> CapturePlaces \union ReplayPlaces]
        /\ at'[k] \in {"captured", "failed"}
    BY <1>0, <2>1 DEF InsertReplayCase, Reach, CapturePlaces
  <2>4. CASE cases' = cases
    BY <1>0, <1>1, <1>2, <2>3, <2>4 DEF HarnessTypeOK, DraftInv, JobInv, FailInv, Found, Judged
  <2>5. CASE cases' # cases
    <3>1. /\ DOMAIN cases' = DOMAIN cases \union {k}
          /\ cases'[k] = [row |-> draft[k], status |-> "pending"]
          /\ \A n \in DOMAIN cases : cases'[n] = cases[n]
      BY <2>1, <2>2, <2>5 DEF InsertReplayCase
    <3>2. cases'[k] \in Case /\ cases'[k].row = draft[k] /\ cases'[k].status = "pending"
      BY <2>2, <3>1 DEF Case, CaseStatuses
    <3> QED
      BY <1>0, <1>1, <1>2, <2>2, <2>3, <3>1, <3>2
         DEF HarnessTypeOK, DraftInv, JobInv, FailInv, Found, Judged
  <2> QED
    BY <2>4, <2>5
<1> QED
  BY <1>3, <1>4

\* A replay takes the row of a case and judges it; the status follows its outcome.
LEMMA ReplayKeepsHarness ==
    ASSUME HarnessInv, NEW r \in Replays, Replay(r)
    PROVE  HarnessInv'
<1> USE DEF HarnessInv
<1>0. /\ r \notin Captures /\ at \in [Captures \union Replays -> CapturePlaces \union ReplayPlaces]
      /\ job \in [Replays -> Job \union {NoJob}] /\ DOMAIN cases \subseteq Captures
      /\ NoReason \notin Captures
  BY HarnessAssumption DEF HarnessTypeOK
<1>1. \A row : Grounded(row)' <=> Grounded(row)
  BY DEF Replay, ReadCase, UpdateReplayCaseStatus, vars, audit, Grounded, ResultsFor
<1>2. /\ draft' = draft
      /\ \A h \in Captures \union Replays : h # r => at'[h] = at[h]
      /\ \A q \in Replays : q # r => job'[q] = job[q]
      /\ at' \in [Captures \union Replays -> CapturePlaces \union ReplayPlaces]
  BY <1>0 DEF Replay, ReadCase, UpdateReplayCaseStatus, Reach, CapturePlaces, ReplayPlaces
<1>3. CASE ReadCase(r)
  <2>1. cases' = cases /\ at[r] = "idle" /\ job[r] = NoJob /\ at'[r] \in {"update", "failed"}
    BY <1>0, <1>3 DEF ReadCase, Reach, JobInv
  <2>2. at'[r] = "failed" => job' = job
    BY <1>0, <1>3 DEF ReadCase, Reach
  <2>3. at'[r] = "update" => Found(r)'
    <3>1. SUFFICES ASSUME at'[r] = "update" PROVE Found(r)'
      OBVIOUS
    <3>2. PICK k \in DOMAIN cases :
             job' = [job EXCEPT ![r] =
                        [case |-> k, row |-> cases[k].row, verdict |-> Replayed(cases[k].row),
                         outcome |-> OutcomeOf(cases[k].row.expected, Replayed(cases[k].row))]]
      BY <1>0, <1>3, <3>1 DEF ReadCase, Reach
    <3>3. /\ k \in Captures /\ cases[k].row \in Row
          /\ Replayed(cases[k].row) \in Verdict
          /\ OutcomeOf(cases[k].row.expected, Replayed(cases[k].row)) \in ReplayOutcomes
      BY <1>0, ReplayedType, OutcomeType DEF DraftInv
    <3>4. job'[r] \in Job
      BY <1>0, <3>2, <3>3 DEF Job
    <3>5. /\ job'[r].case = k /\ job'[r].row = cases[k].row
          /\ job'[r].verdict = Replayed(cases[k].row)
          /\ job'[r].outcome = OutcomeOf(cases[k].row.expected, Replayed(cases[k].row))
      BY <1>0, <3>2
    <3> QED
      BY <2>1, <3>4, <3>5 DEF Found
  <2>4. HarnessTypeOK'
    <3>1. job' = [q \in Replays |-> job'[q]]
      BY <1>0, <1>3 DEF ReadCase
    <3>2. \A q \in Replays : job'[q] \in Job \union {NoJob}
      BY <1>0, <1>2, <2>1, <2>2, <2>3 DEF Found
    <3>3. job' \in [Replays -> Job \union {NoJob}]
      BY <3>1, <3>2
    <3> QED
      BY <1>0, <1>2, <2>1, <3>3 DEF HarnessTypeOK
  <2>5. DraftInv'
    BY <1>0, <1>1, <1>2, <2>1 DEF DraftInv
  <2>6. ASSUME NEW q \in Replays, q # r, Found(q) PROVE Found(q)'
    BY <1>2, <2>1, <2>6 DEF Found
  <2>7. JobInv'
    BY <1>2, <2>1, <2>2, <2>3, <2>6 DEF JobInv, Judged
  <2>8. FailInv'
    <3>1. \A k \in DOMAIN cases : job[r].case # k
      BY <1>0, <2>1 DEF NoJob
    <3> QED
      BY <1>2, <2>1, <3>1 DEF FailInv
  <2> QED
    BY <2>4, <2>5, <2>7, <2>8
<1>4. CASE UpdateReplayCaseStatus(r)
  <2>1. /\ job' = job /\ at[r] = "update" /\ at'[r] = "replayed" /\ Found(r)
    BY <1>0, <1>4 DEF UpdateReplayCaseStatus, Reach, JobInv
  <2>2. /\ DOMAIN cases' = DOMAIN cases
        /\ \A k \in DOMAIN cases :
              /\ cases'[k].row = cases[k].row
              /\ cases'[k] \in Case
              /\ \/ cases'[k].status = cases[k].status
                 \/ k = job[r].case /\ cases'[k].status = StatusAfter(job[r].outcome)
    <3>1. \A k \in DOMAIN cases : cases[k] \in Case /\ StatusAfter(job[r].outcome) \in CaseStatuses
      BY DEF HarnessTypeOK, StatusAfter, CaseStatuses
    <3>2. CASE cases' = cases
      BY <3>1, <3>2
    <3>3. CASE cases' = [cases EXCEPT ![job[r].case].status = StatusAfter(job[r].outcome)]
      BY <3>1, <3>3, <2>1 DEF Found, Case
    <3> QED
      BY <1>4, <3>2, <3>3 DEF UpdateReplayCaseStatus
  <2>3. HarnessTypeOK'
    BY <1>0, <1>2, <2>1, <2>2 DEF HarnessTypeOK
  <2>4. DraftInv'
    BY <1>0, <1>1, <1>2, <2>2 DEF DraftInv
  <2>5. ASSUME NEW q \in Replays, Found(q) PROVE Found(q)'
    BY <2>1, <2>2, <2>5 DEF Found
  <2>6. JobInv'
    BY <1>2, <2>1, <2>5 DEF JobInv, Judged
  <2>7. FailInv'
    BY <2>1, <2>2 DEF FailInv, StatusAfter
  <2> QED
    BY <2>3, <2>4, <2>6, <2>7
<1> QED
  BY <1>3, <1>4 DEF Replay

LEMMA AbandonKeepsHarness ==
    ASSUME HarnessInv, NEW h \in Captures \union Replays, Abandon(h)
    PROVE  HarnessInv'
<1> USE DEF HarnessInv
<1>1. /\ cases' = cases /\ draft' = draft /\ job' = job
      /\ at[h] \in {"entity", "pair", "insert", "update"} /\ at'[h] = "failed"
      /\ \A g \in Captures \union Replays : g # h => at'[g] = at[g]
      /\ at' \in [Captures \union Replays -> CapturePlaces \union ReplayPlaces]
  BY DEF Abandon, Reach, HarnessTypeOK, CapturePlaces
<1>2. \A row : Grounded(row)' <=> Grounded(row)
  BY DEF Abandon, vars, audit, Grounded, ResultsFor
<1>3. ASSUME NEW q \in Replays, Found(q) PROVE Found(q)'
  BY <1>1, <1>3 DEF Found
<1>4. HarnessTypeOK'
  BY <1>1 DEF HarnessTypeOK
<1>5. DraftInv'
  BY <1>1, <1>2 DEF DraftInv
<1>6. JobInv'
  BY <1>1, <1>3 DEF JobInv, Judged
<1>7. FailInv'
  BY <1>1 DEF FailInv
<1> QED
  BY <1>4, <1>5, <1>6, <1>7

\* The invariant of the harness, beside the engine's.
THEOREM HarnessInvariant == HarnessSpec => [](HarnessInv /\ IInv /\ IdsInv /\ TypesInv)
<1>1. ASSUME HarnessInv, TypeOK, [HarnessNext]_<<vars, harnessVars>> PROVE HarnessInv'
  <2>1. CASE UNCHANGED <<vars, harnessVars>>
    BY <1>1, <2>1, EngineStepKeepsHarness
  <2>2. CASE Next /\ UNCHANGED harnessVars
    BY <1>1, <2>2, EngineStepKeepsHarness
  <2>3. CASE \E k \in Captures : Capture(k)
    BY <1>1, <2>3, CaptureKeepsHarness
  <2>4. CASE \E r \in Replays : Replay(r)
    BY <1>1, <2>4, ReplayKeepsHarness
  <2>5. CASE \E h \in Captures \union Replays : Abandon(h)
    BY <1>1, <2>5, AbandonKeepsHarness
  <2> QED
    BY <1>1, <2>1, <2>2, <2>3, <2>4, <2>5 DEF HarnessNext
<1>2. IInv => TypeOK
  BY DEF IInv
<1> QED
  BY <1>1, <1>2, InitHarnessInv, EngineBesideHarness, PTL DEF HarnessSpec

-----------------------------------------------------------------------------
(* What a case is worth. *)

\* The result of its own call is what an exception says, and with one call on the run it is
\* the only one a capture can find.
LEMMA ExpectationOfRow ==
    ASSUME IInv, IdsInv, NEW row, Grounded(row), ~Mixed(row.source)
    PROVE  \E res \in results :
              /\ res.call = row.source.call /\ res.type = row.source.type
              /\ res.entity = row.source.entity
              /\ res.status = "BREAK" /\ res.reason = row.source.reason
              /\ row.expected = [status |-> "BREAK", reason |-> row.source.reason]
<1>1. PICK res \in ResultsFor(row.source) :
          row.expected = [status |-> res.status, reason |-> res.reason]
  BY DEF Grounded
<1>2. row.source \in exceptions
  BY DEF Grounded
<1> QED
  BY <1>1, <1>2, ResultOfException DEF ResultsFor

\* A case expects the BREAK of its exception, unless two calls worked on the run.
THEOREM CaseExpectsItsException == HarnessSpec => []ExpectsItsException
<1>1. HarnessInv /\ IInv /\ IdsInv => ExpectsItsException
  <2>1. SUFFICES ASSUME HarnessInv, IInv, IdsInv, NEW k \in DOMAIN cases,
                        ~Mixed(cases[k].row.source)
                 PROVE  cases[k].row.expected =
                            [status |-> "BREAK", reason |-> cases[k].row.source.reason]
    BY DEF ExpectsItsException
  <2>2. Grounded(cases[k].row)
    <3>1. DraftInv /\ DOMAIN cases \subseteq Captures
      BY <2>1 DEF HarnessInv, HarnessTypeOK
    <3> QED
      BY <3>1 DEF DraftInv
  <2> QED
    BY <2>1, <2>2, ExpectationOfRow
<1> QED
  BY <1>1, HarnessInvariant, PTL

\* Without two calls on its run no case is ever marked failing.
THEOREM OnlyMixedRunsFail == HarnessSpec => []FailingMeansMixedRun
<1>1. HarnessInv /\ IInv /\ IdsInv => FailingMeansMixedRun
  <2>1. SUFFICES ASSUME HarnessInv, IInv, IdsInv, NEW k \in DOMAIN cases,
                        cases[k].status = "failing"
                 PROVE  /\ Mixed(cases[k].row.source)
                        /\ \E r \in Replays : job[r].case = k /\ job[r].outcome = "regressed"
    BY DEF FailingMeansMixedRun
  <2>2. PICK r \in Replays : job[r].case = k /\ job[r].outcome = "regressed"
    BY <2>1 DEF HarnessInv, FailInv
  <2>3. k \in Captures /\ Grounded(cases[k].row)
    <3>1. DraftInv /\ DOMAIN cases \subseteq Captures
      BY <2>1 DEF HarnessInv, HarnessTypeOK
    <3> QED
      BY <3>1 DEF DraftInv
  <2>4. Judged(r)
    BY <2>2, <2>3, HarnessAssumption DEF Judged, NoJob
  <2>5. cases[k].row.expected.status # "BREAK"
    <3>1. Found(r)
      BY <2>1, <2>4 DEF HarnessInv, JobInv
    <3>2. OutcomeOf(cases[k].row.expected, job[r].verdict) = "regressed"
      BY <2>2, <3>1 DEF Found
    <3> QED
      BY <3>2, OutcomeType
  <2>6. Mixed(cases[k].row.source)
    <3>1. SUFFICES ASSUME ~Mixed(cases[k].row.source) PROVE FALSE
      OBVIOUS
    <3>2. cases[k].row.expected = [status |-> "BREAK", reason |-> cases[k].row.source.reason]
      BY <2>1, <2>3, <3>1, ExpectationOfRow
    <3> QED
      BY <2>5, <3>2
  <2> QED
    BY <2>2, <2>6
<1> QED
  BY <1>1, HarnessInvariant, PTL

\* Cases, drafts and replays have their types.
THEOREM HarnessTypes == HarnessSpec => []HarnessTypeOK
<1>1. HarnessInv => HarnessTypeOK
  BY DEF HarnessInv
<1> QED
  BY <1>1, HarnessInvariant, PTL

\* All the replays of a case agree.
THEOREM ReplaysAreDeterministic == HarnessSpec => []ReplaysAgree
<1>1. HarnessInv => ReplaysAgree
  BY DEF HarnessInv, JobInv, Found, ReplaysAgree
<1> QED
  BY <1>1, HarnessInvariant, PTL

\* A case of the records the engine compared reproduces the engine's verdict.
THEOREM ReplayReproduces == HarnessSpec => []FaithfulReplay
<1>1. ASSUME HarnessInv, IInv, IdsInv, TypesInv, NEW r \in Replays, Judged(r), NEW row,
             row = job[r].row, NEW c, c = row.source.call, row.internal \in internal[c],
             row.internal.id = row.source.entity, row.internal.key \in DOMAIN pairing[c],
             row.custodian = pairing[c][row.internal.key], ~Mixed(row.source), Cfg = DefaultCfg
      PROVE  job[r].outcome = "unchanged"
  <2>1. /\ Found(r) /\ job[r].case \in Captures /\ Grounded(row)
    BY <1>1 DEF HarnessInv, JobInv, DraftInv, HarnessTypeOK, Found
  <2>2. PICK res \in results :
            /\ res.call = c /\ res.type = row.source.type /\ res.entity = row.source.entity
            /\ res.status = "BREAK" /\ res.reason = row.source.reason
            /\ row.expected = [status |-> "BREAK", reason |-> row.source.reason]
    BY <1>1, <2>1, ExpectationOfRow
  <2>3. c \in Calls
    BY <1>1, <2>2, ResultNamesRecord
  <2>4. PICK s \in Scope(c) :
            /\ res = ResultOf(c, s) /\ s.id = res.entity
            /\ res.status = VerdictOn(c, s).status /\ res.reason = VerdictOn(c, s).reason
    <3>1. \E s \in taken[res.call] :
              /\ res = ResultOf(res.call, s) /\ s.id = res.entity /\ s \in Scope(res.call)
              /\ res.status = VerdictOn(res.call, s).status
              /\ res.reason = VerdictOn(res.call, s).reason
      BY <1>1, ResultNamesRecord
    <3> QED
      BY <2>2, <3>1
  <2>5. s = row.internal
    BY <1>1, <2>2, <2>3, <2>4, LoadedIds, ScopeIsLoaded
  <2>6. VerdictOn(c, s) = Judge(Cfg, row.internal, row.custodian)
    BY <1>1, <2>5 DEF VerdictOn
  <2>7. row.internal.type = row.source.type
    <3>1. row.source.type = RunType[run[c]]
      BY <2>2, <2>4 DEF ResultOf
    <3> QED
      BY <1>1, <2>3, <3>1 DEF TypesInv
  <2>8. Replayed(row) = VerdictOn(c, s)
    BY <1>1, <2>6, <2>7 DEF Replayed, Judge
  <2>9. VerdictOn(c, s) = [status |-> "BREAK", reason |-> row.source.reason]
    BY <2>2, <2>4, VerdictOnType DEF Verdict
  <2>10. Replayed(row) = row.expected
    BY <2>2, <2>8, <2>9
  <2>11. job[r].outcome = OutcomeOf(row.expected, Replayed(row))
    BY <1>1, <2>1 DEF Found
  <2> QED
    BY <2>10, <2>11, OutcomeType
<1>2. HarnessInv /\ IInv /\ IdsInv /\ TypesInv => FaithfulReplay
  BY <1>1 DEF FaithfulReplay
<1> QED
  BY <1>2, HarnessInvariant, PTL

-----------------------------------------------------------------------------
(* The harness implements the book of cases. *)

\* The one answer there can be to a case, and the one status it can be given.
AnswerTo(row) == <<Replayed(row), OutcomeOf(row.expected, Replayed(row))>>
Decided(row) == StatusAfter(OutcomeOf(row.expected, Replayed(row)))

MarkInv == \A k \in DOMAIN cases : cases[k].status \in {"pending", Decided(cases[k].row)}

LEMMA DecidedType == ASSUME NEW row PROVE Decided(row) \in {"passing", "failing"}
BY DEF Decided, StatusAfter

\* Whoever has judged a case has found its one answer.
LEMMA JudgedFacts ==
    ASSUME HarnessInv, NEW r \in Replays, Judged(r)
    PROVE  /\ job[r].case \in DOMAIN cases /\ job[r].case \in Captures
           /\ <<job[r].verdict, job[r].outcome>> = AnswerTo(cases[job[r].case].row)
<1>1. Found(r) /\ DOMAIN cases \subseteq Captures
  BY DEF HarnessInv, JobInv, HarnessTypeOK
<1> QED
  BY <1>1 DEF Found, AnswerTo

LEMMA OneAnswer ==
    ASSUME HarnessInv, NEW k \in Captures
    PROVE  AnswersTo(k) \subseteq {AnswerTo(cases[k].row)}
BY JudgedFacts DEF AnswersTo

\* Steps that touch neither a case nor a job.
LEMMA SameBook ==
    ASSUME cases' = cases, job' = job
    PROVE  UNCHANGED <<Contents, Marks, Answers>> /\ (MarkInv => MarkInv')
<1>1. Contents' = Contents
  BY DEF Contents
<1>2. Marks' = Marks
  BY DEF Marks
<1>3. Answers' = Answers
  BY DEF Answers, AnswersTo, Judged
<1>4. MarkInv => MarkInv'
  BY DEF MarkInv
<1> QED
  BY <1>1, <1>2, <1>3, <1>4

\* A capture that inserts its row opens the case.
LEMMA InsertOpens ==
    ASSUME HarnessInv, MarkInv, NEW k \in Captures, InsertReplayCase(k)
    PROVE  [Book!Next]_<<Contents, Marks, Answers>> /\ MarkInv'
<1>1. CASE cases' = cases
  BY <1>1, SameBook DEF InsertReplayCase
<1>2. CASE cases' # cases
  <2>1. /\ k \notin DOMAIN cases
        /\ DOMAIN cases' = DOMAIN cases \union {k}
        /\ cases'[k] = [row |-> draft[k], status |-> "pending"]
        /\ \A n \in DOMAIN cases : cases'[n] = cases[n]
    <3>1. k \notin DOMAIN cases
      BY DEF InsertReplayCase, HarnessInv, DraftInv
    <3> QED
      BY <1>2, <3>1 DEF InsertReplayCase
  <2>2. Answers' = Answers
    BY DEF InsertReplayCase, Answers, AnswersTo, Judged
  <2>3. Contents' = [Contents EXCEPT ![k] = {draft[k]}] /\ Contents'[k] = {draft[k]}
    <3>1. cases'[k].row = draft[k] /\ k \in DOMAIN cases'
      BY <2>1
    <3>2. \A n \in Captures : n # k => Contents'[n] = Contents[n]
      BY <2>1 DEF Contents
    <3> QED
      BY <3>1, <3>2 DEF Contents
  <2>4. Marks[k] = "absent" /\ Marks' = [Marks EXCEPT ![k] = "pending"]
    <3>1. cases'[k].status = "pending" /\ k \in DOMAIN cases'
      BY <2>1
    <3>2. \A n \in Captures : n # k => Marks'[n] = Marks[n]
      BY <2>1 DEF Marks
    <3> QED
      BY <2>1, <3>1, <3>2 DEF Marks
  <2>5. Book!Open(k)
    BY <2>2, <2>3, <2>4 DEF Book!Open
  <2>6. MarkInv'
    BY <2>1 DEF MarkInv
  <2> QED
    BY <2>5, <2>6 DEF Book!Next
<1> QED
  BY <1>1, <1>2

\* The first replay that reads a case answers it; a later one finds the same answer.
LEMMA ReadAnswers ==
    ASSUME HarnessInv, HarnessInv', MarkInv, NEW r \in Replays, ReadCase(r)
    PROVE  [Book!Next]_<<Contents, Marks, Answers>> /\ MarkInv'
<1>1. /\ cases' = cases /\ job[r] = NoJob /\ job \in [Replays -> Job \union {NoJob}]
  BY DEF ReadCase, HarnessInv, JobInv, HarnessTypeOK
<1>2. Contents' = Contents /\ Marks' = Marks /\ MarkInv'
  BY <1>1 DEF Contents, Marks, MarkInv
<1>3. CASE job' = job
  BY <1>1, <1>3, SameBook
<1>4. CASE job' # job
  <2>1. PICK k \in DOMAIN cases :
           job' = [job EXCEPT ![r] =
                      [case |-> k, row |-> cases[k].row, verdict |-> Replayed(cases[k].row),
                       outcome |-> OutcomeOf(cases[k].row.expected, Replayed(cases[k].row))]]
    BY <1>4 DEF ReadCase
  <2>2. /\ k \in Captures /\ NoReason \notin Captures
    BY HarnessAssumption DEF HarnessInv, HarnessTypeOK
  <2>3. /\ job'[r].case = k /\ Judged(r)' /\ ~Judged(r)
        /\ <<job'[r].verdict, job'[r].outcome>> = AnswerTo(cases[k].row)
        /\ \A q \in Replays : q # r => job'[q] = job[q]
    BY <1>1, <2>1, <2>2 DEF Judged, NoJob, AnswerTo
  <2>4. \A n \in Captures : n # k => AnswersTo(n)' = AnswersTo(n)
    BY <2>3 DEF AnswersTo, Judged
  <2>5. AnswersTo(k)' = AnswersTo(k) \union {AnswerTo(cases[k].row)}
    BY <2>3 DEF AnswersTo, Judged
  <2>6. CASE AnswersTo(k) = {}
    <3>1. /\ Answers' = [Answers EXCEPT ![k] = {AnswerTo(cases[k].row)}]
          /\ Answers[k] = {} /\ AnswerTo(cases[k].row) \in Answers'[k]
      BY <2>2, <2>4, <2>5, <2>6 DEF Answers
    <3>2. Marks[k] # "absent"
      <4>1. cases[k].status \in CaseStatuses
        BY DEF HarnessInv, HarnessTypeOK, Case
      <4> QED
        BY <2>2, <4>1 DEF Marks, CaseStatuses
    <3>3. Book!Answer(k)
      BY <1>2, <3>1, <3>2 DEF Book!Answer
    <3> QED
      BY <1>2, <2>2, <3>3 DEF Book!Next
  <2>7. CASE AnswersTo(k) # {}
    <3>1. AnswersTo(k)' = AnswersTo(k)
      BY <2>2, <2>5, <2>7, OneAnswer
    <3>2. Answers' = Answers
      BY <2>4, <3>1 DEF Answers
    <3> QED
      BY <1>2, <3>2
  <2> QED
    BY <2>6, <2>7
<1> QED
  BY <1>3, <1>4

\* The first update that is written decides the case; a later one changes nothing.
LEMMA UpdateDecides ==
    ASSUME HarnessInv, MarkInv, NEW r \in Replays, UpdateReplayCaseStatus(r)
    PROVE  [Book!Next]_<<Contents, Marks, Answers>> /\ MarkInv'
<1> DEFINE k == job[r].case
           status == Decided(cases[k].row)
<1>1. CASE cases' = cases
  BY <1>1, SameBook DEF UpdateReplayCaseStatus
<1>2. CASE cases' # cases
  <2>1. Judged(r)
    <3>1. Found(r)
      BY DEF UpdateReplayCaseStatus, HarnessInv, JobInv
    <3> QED
      BY <3>1, HarnessAssumption DEF Found, Judged, Job, NoJob
  <2>2. /\ k \in DOMAIN cases /\ k \in Captures
        /\ StatusAfter(job[r].outcome) = status
    BY <2>1, JudgedFacts DEF AnswerTo, Decided
  <2>3. cases' = [cases EXCEPT ![k].status = status] /\ job' = job
    BY <1>2, <2>2 DEF UpdateReplayCaseStatus
  <2>4. /\ DOMAIN cases' = DOMAIN cases
        /\ \A n \in DOMAIN cases : cases'[n].row = cases[n].row
        /\ \A n \in DOMAIN cases : n # k => cases'[n] = cases[n]
        /\ cases'[k].status = status
    <3>1. \A n \in DOMAIN cases : cases[n] \in Case
      BY DEF HarnessInv, HarnessTypeOK
    <3> HIDE DEF status
    <3> QED
      BY <2>2, <2>3, <3>1 DEF Case
  <2>5. MarkInv'
    BY <2>4 DEF MarkInv
  <2>6. Contents' = Contents /\ Answers' = Answers
    <3>1. Contents' = Contents
      BY <2>4 DEF Contents
    <3>2. Answers' = Answers
      BY <2>3 DEF Answers, AnswersTo, Judged
    <3> QED
      BY <3>1, <3>2
  <2>7. Marks' = [Marks EXCEPT ![k] = status]
    <3> HIDE DEF status
    <3> QED
      BY <2>2, <2>4 DEF Marks
  <2>8. CASE cases[k].status = "pending"
    <3>1. Marks[k] = "pending" /\ Answers[k] # {}
      BY <2>1, <2>2, <2>8 DEF Marks, Answers, AnswersTo
    <3>2. status \in {"passing", "failing"}
      BY DecidedType
    <3>3. Book!Decide(k)
      BY <2>6, <2>7, <3>1, <3>2 DEF Book!Decide
    <3> QED
      BY <2>2, <2>5, <3>3 DEF Book!Next
  <2>9. CASE cases[k].status # "pending"
    <3>1. Marks[k] = status
      BY <2>2, <2>9 DEF Marks, MarkInv
    <3>2. Marks' = Marks
      BY <2>2, <2>7, <3>1 DEF Marks
    <3> QED
      BY <2>5, <2>6, <3>2
  <2> QED
    BY <2>8, <2>9
<1> QED
  BY <1>1, <1>2

LEMMA HarnessStepRefines ==
    ASSUME HarnessInv, HarnessInv', MarkInv, [HarnessNext]_<<vars, harnessVars>>
    PROVE  [Book!Next]_<<Contents, Marks, Answers>> /\ MarkInv'
<1>1. CASE cases' = cases /\ job' = job
  BY <1>1, SameBook
<1>2. ASSUME NEW k \in Captures, InsertReplayCase(k)
      PROVE  [Book!Next]_<<Contents, Marks, Answers>> /\ MarkInv'
  BY <1>2, InsertOpens
<1>3. ASSUME NEW r \in Replays, Replay(r)
      PROVE  [Book!Next]_<<Contents, Marks, Answers>> /\ MarkInv'
  BY <1>3, ReadAnswers, UpdateDecides DEF Replay
<1>4. \/ cases' = cases /\ job' = job
      \/ \E k \in Captures : InsertReplayCase(k)
      \/ \E r \in Replays : Replay(r)
  BY DEF HarnessNext, harnessVars, Capture, LoadException, LoadEntity, FindPaired, Abandon
<1> QED
  BY <1>1, <1>2, <1>3, <1>4

\* The harness implements the book of cases: what a case holds, its answer and its decided
\* status are for good.
THEOREM HarnessImplementsBook == HarnessSpec => CasesSpec
<1>1. HarnessInit => Book!Init /\ MarkInv
  <2>1. SUFFICES ASSUME HarnessInit PROVE Book!Init /\ MarkInv
    OBVIOUS
  <2>2. DOMAIN cases = {}
    BY <2>1 DEF HarnessInit
  <2>3. Contents = [k \in Captures |-> {}] /\ Marks = [k \in Captures |-> "absent"]
    BY <2>2 DEF Contents, Marks
  <2>4. Answers = [k \in Captures |-> {}]
    BY <2>1 DEF HarnessInit, Answers, AnswersTo, Judged
  <2> QED
    BY <2>2, <2>3, <2>4 DEF Book!Init, MarkInv
<1>2. HarnessInv /\ HarnessInv' /\ MarkInv /\ [HarnessNext]_<<vars, harnessVars>>
        => [Book!Next]_Book!vars /\ MarkInv'
  BY HarnessStepRefines DEF Book!vars
<1> QED
  BY <1>1, <1>2, HarnessInvariant, PTL DEF HarnessSpec, CasesSpec, Book!Spec
=============================================================================
