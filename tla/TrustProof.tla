----------------------------- MODULE TrustProof -----------------------------
(***************************************************************************)
(* Proofs about trust scores, for any number of engine calls and scorings. *)
(*                                                                         *)
(* The scorer's arithmetic is proved first, on every input.  The service   *)
(* leaves the engine's variables alone, so the engine's invariants hold    *)
(* beside it.  Its own invariant says that what a scoring has read is in   *)
(* the database, and that every stored row is the score of an input taken  *)
(* from a result of its entity.                                            *)
(***************************************************************************)
EXTENDS TrustProps, ReconEngineProof

-----------------------------------------------------------------------------
(* The scorer. *)

\* The values the components take.
LEMMA ComponentValues ==
    ASSUME NEW in \in ScorerInput
    PROVE  /\ Components(in).source \in {95, 85}
           /\ in.status = "MATCH" => Components(in).reconciliation = 100
           /\ in.status = "NEAR_MATCH" => Components(in).reconciliation = 70
           /\ in.status = "BREAK" => Components(in).reconciliation = 20
           /\ Components(in).freshness \in {100, 70, 30, 10}
           /\ Components(in).completeness \in {75, 100}
           /\ Components(in).review \in {0, 40, 50, 100}
           /\ in.status = "BREAK" => Components(in).anomaly \in {20, 30, 40}
           /\ in.status # "BREAK" => Components(in).anomaly = 0
<1>1. SourceReliability(in.source) \in {95, 85}
  BY DEF ScorerInput, Sources, SourceReliability
<1>2. /\ in.status = "MATCH" => Reconciliation(in.status) = 100
      /\ in.status = "NEAR_MATCH" => Reconciliation(in.status) = 70
      /\ in.status = "BREAK" => Reconciliation(in.status) = 20
  BY DEF Reconciliation
<1>3. Freshness(in.age) \in {100, 70, 30, 10}
  <2>1. in.age \in Int
    BY DEF ScorerInput
  <2>2. CASE in.age <= 0
    BY <2>1, <2>2 DEF Freshness
  <2>3. CASE in.age = 1
    BY <2>1, <2>3 DEF Freshness
  <2>4. CASE in.age \in 2 .. 7
    BY <2>1, <2>4 DEF Freshness
  <2>5. CASE in.age > 7
    BY <2>1, <2>5 DEF Freshness
  <2> QED
    BY <2>1, <2>2, <2>3, <2>4, <2>5
<1>4. Completeness(in.present) \in {75, 100}
  BY DEF ScorerInput, Completeness
<1>5. HumanReview(in.review) \in {0, 40, 50, 100}
  BY DEF ScorerInput, Reviews, ExceptionStatuses, NoException, HumanReview
<1>6. /\ in.status = "BREAK" => AnomalyPenalty(in.status, in.reason) \in {20, 30, 40}
      /\ in.status # "BREAK" => AnomalyPenalty(in.status, in.reason) = 0
  BY DEF AnomalyPenalty
<1> QED
  BY <1>1, <1>2, <1>3, <1>4, <1>5, <1>6 DEF Components

\* The weighted sum needs no clamping, so the total is the sum.
LEMMA TotalIsSum ==
    ASSUME NEW in \in ScorerInput
    PROVE  LET c == Components(in) IN
           Score(in) = c.source * 15 + c.reconciliation * 35 + c.freshness * 15
                           + c.completeness * 10 + c.review * 15 - c.anomaly * 10
<1> DEFINE c == Components(in)
           sum == c.source * 15 + c.reconciliation * 35 + c.freshness * 15
                      + c.completeness * 10 + c.review * 15 - c.anomaly * 10
<1>1. in.status \in MatchStatuses
  BY DEF ScorerInput
<1>2. sum \in Int /\ 0 <= sum /\ sum <= 10000
  BY <1>1, ComponentValues DEF MatchStatuses
<1>3. Total(c) = Clamp(sum, 0, 10000)
  BY DEF Total, weights
<1>4. Total(c) = sum
  BY <1>2, <1>3 DEF Clamp
<1> QED
  BY <1>4 DEF Score

LEMMA ScoreRange == ASSUME NEW in \in ScorerInput PROVE Score(in) \in 0 .. 10000
<1> DEFINE c == Components(in)
           sum == c.source * 15 + c.reconciliation * 35 + c.freshness * 15
                      + c.completeness * 10 + c.review * 15 - c.anomaly * 10
<1>1. in.status \in MatchStatuses
  BY DEF ScorerInput
<1>2. sum \in Int /\ 0 <= sum /\ sum <= 10000
  BY <1>1, ComponentValues DEF MatchStatuses
<1>3. Score(in) = sum
  BY TotalIsSum
<1> HIDE DEF sum
<1>4. \A n \in Int : 0 <= n /\ n <= 10000 => n \in 0 .. 10000
  OBVIOUS
<1>5. sum \in 0 .. 10000
  BY <1>2, <1>4
<1> QED
  BY <1>3, <1>5

LEMMA RowType == ASSUME NEW in \in ScorerInput PROVE RowOf(in) \in ScoreRow
<1> DEFINE c == Components(in)
<1>1. in.status \in MatchStatuses
  BY DEF ScorerInput
<1>2. /\ c.source \in Percent /\ c.reconciliation \in Percent /\ c.freshness \in Percent
      /\ c.completeness \in Percent /\ c.review \in Percent /\ c.anomaly \in Percent
  BY <1>1, ComponentValues DEF MatchStatuses, Percent
<1>3. Score(in) \in 0 .. 10000
  BY ScoreRange
<1>4. c = [source |-> c.source, reconciliation |-> c.reconciliation, freshness |-> c.freshness,
           completeness |-> c.completeness, review |-> c.review, anomaly |-> c.anomaly]
  BY DEF Components
<1> HIDE DEF c
<1>5. [components |-> c, total |-> Score(in)] \in ScoreRow
  BY <1>2, <1>3, <1>4 DEF ScoreRow
<1> QED
  BY <1>5 DEF RowOf, c

\* No break scores 60 points, whatever else is right about it, and no match less than 40.
LEMMA BoundOfStatus ==
    ASSUME NEW in \in ScorerInput
    PROVE  /\ in.status = "BREAK" => Score(in) < 6000
           /\ in.status = "MATCH" => Score(in) >= 4000
<1>1. in.status = "BREAK" => Score(in) < 6000
  BY ComponentValues, TotalIsSum
<1>2. in.status = "MATCH" => Score(in) >= 4000
  BY ComponentValues, TotalIsSum
<1> QED
  BY <1>1, <1>2

LEMMA HighIsAbove == ASSUME NEW n \in Int, n < 6000 PROVE Level(n) # "High"
BY DEF Level

LEMMA LowIsBelow == ASSUME NEW n \in Int, n >= 4000 PROVE Level(n) # "Low"
<1>1. CASE n >= 7500
  BY <1>1 DEF Level
<1>2. CASE n \in 4000 .. 7499
  BY <1>2 DEF Level
<1> QED
  BY <1>1, <1>2

LEMMA LevelOfStatus ==
    ASSUME NEW in \in ScorerInput
    PROVE  /\ in.status = "BREAK" => Level(Score(in)) # "High"
           /\ in.status = "MATCH" => Level(Score(in)) # "Low"
<1> DEFINE c == Components(in)
           sum == c.source * 15 + c.reconciliation * 35 + c.freshness * 15
                      + c.completeness * 10 + c.review * 15 - c.anomaly * 10
<1>1. in.status \in MatchStatuses
  BY DEF ScorerInput
<1>2. /\ sum \in Int
      /\ in.status = "BREAK" => sum < 6000
      /\ in.status = "MATCH" => sum >= 4000
  BY <1>1, ComponentValues DEF MatchStatuses
<1>3. Score(in) = sum
  BY TotalIsSum
<1>4. \A n \in Int : n < 6000 => Level(n) # "High"
  BY HighIsAbove
<1>5. \A n \in Int : n >= 4000 => Level(n) # "Low"
  BY LowIsBelow
<1> HIDE DEF sum
<1>6. ASSUME in.status = "BREAK" PROVE Level(sum) # "High"
  <2>1. sum \in Int /\ sum < 6000
    BY <1>2, <1>6
  <2> QED
    BY <1>4, <2>1
<1>7. ASSUME in.status = "MATCH" PROVE Level(sum) # "Low"
  <2>1. sum \in Int /\ sum >= 4000
    BY <1>2, <1>7
  <2> QED
    BY <1>5, <2>1
<1> QED
  BY <1>3, <1>6, <1>7

\* scorer.go's order of the verdicts: of one record on one day a break scores below a near
\* match and below a match, whatever has become of the exceptions of each.
THEOREM BreakScoresLowest ==
    ASSUME NEW a \in ScorerInput, NEW b \in ScorerInput,
           a.status = "BREAK", b.status # "BREAK",
           a.source = b.source, a.age = b.age, a.present = b.present
    PROVE  Score(a) < Score(b)
<1> DEFINE ca == Components(a)
           cb == Components(b)
<1>1. ca.source = cb.source /\ ca.freshness = cb.freshness /\ ca.completeness = cb.completeness
  BY DEF Components
<1>2. cb.reconciliation \in {70, 100} /\ cb.anomaly = 0 /\ cb.review \in {0, 40, 50, 100}
  <2>1. b.status \in {"MATCH", "NEAR_MATCH"}
    BY DEF ScorerInput, MatchStatuses
  <2> QED
    BY <2>1, ComponentValues
<1>3. /\ ca.reconciliation = 20 /\ ca.anomaly \in {20, 30, 40} /\ ca.review \in {0, 40, 50, 100}
      /\ ca.source \in Int /\ ca.freshness \in Int /\ ca.completeness \in Int
  BY ComponentValues
<1>4. /\ Score(a) = ca.source * 15 + ca.reconciliation * 35 + ca.freshness * 15
                        + ca.completeness * 10 + ca.review * 15 - ca.anomaly * 10
      /\ Score(b) = cb.source * 15 + cb.reconciliation * 35 + cb.freshness * 15
                        + cb.completeness * 10 + cb.review * 15 - cb.anomaly * 10
  BY TotalIsSum
<1> HIDE DEF ca, cb
<1> QED
  BY <1>1, <1>2, <1>3, <1>4

\* What is known of a is no worse than what is known of b: a verdict no worse, for the same
\* reason if both are breaks, a source no less trusted, no older, no less complete, and a
\* review no further from its end, where no exception at all comes before a resolved one.
StatusRank(status) == CASE status = "MATCH" -> 2 [] status = "NEAR_MATCH" -> 1 [] OTHER -> 0
ReviewRank(reviewed) ==
    CASE reviewed = "open" -> 0 [] reviewed = "acknowledged" -> 1
      [] reviewed = NoException -> 2 [] OTHER -> 3

NoWorse(a, b) ==
    /\ StatusRank(a.status) >= StatusRank(b.status)
    /\ a.status = "BREAK" /\ b.status = "BREAK" => a.reason = b.reason
    /\ a.source = b.source \/ a.source = "internal"
    /\ a.age <= b.age
    /\ a.present >= b.present
    /\ ReviewRank(a.review) >= ReviewRank(b.review)

LEMMA FreshnessFalls ==
    ASSUME NEW m \in Int, NEW n \in Int, m <= n
    PROVE  Freshness(m) >= Freshness(n)
<1>1. \A k \in Int : /\ k <= 0 => Freshness(k) = 100
                     /\ k = 1 => Freshness(k) = 70
                     /\ k \in 2 .. 7 => Freshness(k) = 30
                     /\ k > 7 => Freshness(k) = 10
  BY DEF Freshness
<1>2. CASE n <= 0
  BY <1>1, <1>2
<1>3. CASE n = 1
  <2>1. m <= 0 \/ m = 1
    BY <1>3
  <2> QED
    BY <1>1, <1>3, <2>1
<1>4. CASE n \in 2 .. 7
  <2>1. m <= 0 \/ m = 1 \/ m \in 2 .. 7
    BY <1>4
  <2> QED
    BY <1>1, <1>4, <2>1
<1>5. CASE n > 7
  <2>1. m <= 0 \/ m = 1 \/ m \in 2 .. 7 \/ m > 7
    OBVIOUS
  <2> QED
    BY <1>1, <1>5, <2>1
<1> QED
  BY <1>2, <1>3, <1>4, <1>5

\* Better evidence never lowers a score (scorer.go's weights and tables): there is no input
\* for which an older record, a missing field, a worse verdict, a less trusted source or a
\* review reopened raises it.
THEOREM BetterEvidenceNeverLowers ==
    ASSUME NEW a \in ScorerInput, NEW b \in ScorerInput, NoWorse(a, b)
    PROVE  Score(a) >= Score(b)
<1> DEFINE ca == Components(a)
           cb == Components(b)
<1>1. ca.source >= cb.source
  BY DEF NoWorse, Components, SourceReliability, ScorerInput, Sources
<1>2. ca.freshness >= cb.freshness
  BY FreshnessFalls DEF NoWorse, Components, ScorerInput
<1>3. ca.completeness >= cb.completeness
  BY DEF NoWorse, Components, Completeness, ScorerInput
<1>4. ca.review >= cb.review
  <2>1. ASSUME NEW reviewed \in Reviews
        PROVE  \/ ReviewRank(reviewed) = 0 /\ HumanReview(reviewed) = 0
               \/ ReviewRank(reviewed) = 1 /\ HumanReview(reviewed) = 40
               \/ ReviewRank(reviewed) = 2 /\ HumanReview(reviewed) = 50
               \/ ReviewRank(reviewed) = 3 /\ HumanReview(reviewed) = 100
    BY DEF Reviews, ExceptionStatuses, NoException, ReviewRank, HumanReview
  <2>2. /\ a.review \in Reviews /\ b.review \in Reviews
        /\ ReviewRank(a.review) >= ReviewRank(b.review)
        /\ ca.review = HumanReview(a.review) /\ cb.review = HumanReview(b.review)
    BY DEF ScorerInput, NoWorse, Components
  <2> HIDE DEF ca, cb
  <2>3. HumanReview(a.review) >= HumanReview(b.review)
    BY <2>1, <2>2
  <2> QED
    BY <2>2, <2>3
<1>5. ca.reconciliation * 35 - ca.anomaly * 10 >= cb.reconciliation * 35 - cb.anomaly * 10
  <2>1. a.status \in MatchStatuses /\ b.status \in MatchStatuses
    BY DEF ScorerInput
  <2>2. CASE a.status = "BREAK"
    <3>1. b.status = "BREAK"
      BY <2>1, <2>2 DEF NoWorse, StatusRank, MatchStatuses
    <3>2. ca.reconciliation = cb.reconciliation /\ ca.anomaly = cb.anomaly
      BY <2>2, <3>1 DEF NoWorse, Components
    <3>3. ca.reconciliation \in Int /\ ca.anomaly \in Int
      BY <2>2, ComponentValues
    <3> HIDE DEF ca, cb
    <3> QED
      BY <3>2, <3>3
  <2>3. CASE a.status = "NEAR_MATCH"
    <3>1. b.status \in {"BREAK", "NEAR_MATCH"}
      BY <2>1, <2>3 DEF NoWorse, StatusRank, MatchStatuses
    <3>2. ca.reconciliation = 70 /\ ca.anomaly = 0
      BY <2>3, ComponentValues
    <3>3. cb.reconciliation \in {20, 70} /\ cb.anomaly \in {0, 20, 30, 40}
      BY <3>1, ComponentValues
    <3> HIDE DEF ca, cb
    <3> QED
      BY <3>2, <3>3
  <2>4. CASE a.status = "MATCH"
    <3>1. ca.reconciliation = 100 /\ ca.anomaly = 0
      BY <2>4, ComponentValues
    <3>2. cb.reconciliation \in {20, 70, 100} /\ cb.anomaly \in {0, 20, 30, 40}
      BY <2>1, ComponentValues DEF MatchStatuses
    <3> HIDE DEF ca, cb
    <3> QED
      BY <3>1, <3>2
  <2> QED
    BY <2>1, <2>2, <2>3, <2>4 DEF MatchStatuses
<1>6. /\ ca.source \in Int /\ ca.reconciliation \in Int /\ ca.freshness \in Int
      /\ ca.completeness \in Int /\ ca.review \in Int /\ ca.anomaly \in Int
      /\ cb.source \in Int /\ cb.reconciliation \in Int /\ cb.freshness \in Int
      /\ cb.completeness \in Int /\ cb.review \in Int /\ cb.anomaly \in Int
  BY ComponentValues DEF ScorerInput, MatchStatuses
<1>7. /\ Score(a) = ca.source * 15 + ca.reconciliation * 35 + ca.freshness * 15
                        + ca.completeness * 10 + ca.review * 15 - ca.anomaly * 10
      /\ Score(b) = cb.source * 15 + cb.reconciliation * 35 + cb.freshness * 15
                        + cb.completeness * 10 + cb.review * 15 - cb.anomaly * 10
  BY TotalIsSum
<1> HIDE DEF ca, cb
<1> QED
  BY <1>1, <1>2, <1>3, <1>4, <1>5, <1>6, <1>7

-----------------------------------------------------------------------------
(* The invariant of the service. *)

\* What a scoring has read.
Read(t) ==
    /\ ByException(t) => task[t].exception \in exceptions
    /\ task[t].result # NoRow => task[t].result \in results
    /\ ByException(t) /\ task[t].result # NoRow => task[t].result \in ResultsFor(task[t].exception)
    /\ Scored(t) => /\ task[t].result # NoRow
                    /\ task[t].input.status = task[t].result.status
                    /\ task[t].input.reason = task[t].result.reason
                    /\ task[t].input.review = task[t].review

\* How far it got.
Placed(t) ==
    /\ stage[t] = "idle" => task[t] = NoTask
    /\ stage[t] \in {"exception", "result", "signals"} => ~Scored(t)
    /\ stage[t] = "exception" => ~ByException(t)
    /\ stage[t] = "result" => ByException(t)
    /\ stage[t] \in {"exception", "signals", "upsert"} => task[t].result # NoRow
    /\ stage[t] = "upsert" => Scored(t)

\* Until somebody reviews, every exception is open.
OpenInv == DOMAIN review = {} => \A t \in Scorings :
    /\ task[t].review \in {"open", NoException}
    /\ ByException(t) => task[t].review = "open"

ScoresInv == \A e \in DOMAIN scores :
    \E in \in ScorerInput, res \in results :
        res.entity = e /\ in.status = res.status /\ scores[e] = RowOf(in)

TrustInv ==
    /\ TrustTypeOK
    /\ \A t \in Scorings : Read(t) /\ Placed(t)
    /\ OpenInv
    /\ ScoresInv

LEMMA TrustStepsAreEngineSteps ==
    [TrustNext]_<<vars, trustVars>> => [Next]_vars
BY DEF TrustNext, Scoring, LoadResult, LookupExceptionStatus, LoadExceptionRow,
       LoadResultOfException, EntitySignals, UpsertTrustScore, GiveUp, Decide, Grow

THEOREM EngineBesideTrust == TrustSpec => [](IInv /\ IdsInv)
<1>1. TrustInit => Init
  BY DEF TrustInit
<1>2. [TrustNext]_<<vars, trustVars>> => [Next]_vars
  BY TrustStepsAreEngineSteps
<1> QED
  BY <1>1, <1>2, RecordIdentity, PTL DEF TrustSpec, Spec

LEMMA InitTrustInv == TrustInit => TrustInv
<1> SUFFICES ASSUME TrustInit PROVE TrustInv
  OBVIOUS
<1>1. DOMAIN scores = {} /\ DOMAIN review = {}
  BY DEF TrustInit
<1>2. /\ NoTask.exception = NoRow /\ NoTask.result = NoRow /\ NoTask.input = NoRow
      /\ NoTask \in [exception : Exception \union {NoRow}, result : Result \union {NoRow},
                     review : Reviews, input : ScorerInput \union {NoRow}]
  BY DEF NoTask, Reviews
<1>3. \A t \in Scorings : stage[t] = "idle" /\ task[t] = NoTask
  BY DEF TrustInit
<1>4. TrustTypeOK
  BY <1>1, <1>2 DEF TrustInit, TrustTypeOK, Stages
<1>5. \A t \in Scorings : ~ByException(t) /\ ~Scored(t) /\ task[t].review = NoException
  BY <1>2, <1>3 DEF ByException, Scored, NoTask
<1> QED
  BY <1>1, <1>2, <1>3, <1>4, <1>5 DEF TrustInv, Read, Placed, OpenInv, ScoresInv

\* The engine and the feeds only add rows.
LEMMA EngineStepKeepsTrust ==
    ASSUME TrustInv, [Next]_vars, UNCHANGED trustVars
    PROVE  TrustInv'
<1>1. results \subseteq results' /\ exceptions \subseteq exceptions'
  BY RowsStay
<1>2. scores' = scores /\ review' = review /\ age' = age /\ stage' = stage /\ task' = task
  BY DEF trustVars
<1>3. TrustTypeOK'
  BY <1>1, <1>2 DEF TrustInv, TrustTypeOK
<1>4. ASSUME NEW t \in Scorings PROVE Read(t)' /\ Placed(t)'
  <2>1. Read(t) /\ Placed(t)
    BY DEF TrustInv
  <2>2. Placed(t)'
    BY <1>2, <2>1 DEF Placed, Scored, ByException
  <2>3. Read(t)'
    BY <1>1, <1>2, <2>1 DEF Read, Scored, ByException, ResultsFor
  <2> QED
    BY <2>2, <2>3
<1>5. OpenInv'
  BY <1>2 DEF TrustInv, OpenInv, ByException
<1>6. ScoresInv'
  BY <1>1, <1>2 DEF TrustInv, ScoresInv
<1> QED
  BY <1>3, <1>4, <1>5, <1>6 DEF TrustInv

\* A statement of a scoring leaves the engine, the reviews and the clock alone.
LEMMA ScoringIsLocal ==
    ASSUME TrustTypeOK, NEW t \in Scorings, Scoring(t)
    PROVE  /\ results' = results /\ exceptions' = exceptions
           /\ review' = review /\ age' = age
           /\ stage' \in [Scorings -> Stages] /\ stage' = [stage EXCEPT ![t] = stage'[t]]
           /\ DOMAIN task' = Scorings /\ \A u \in Scorings : u # t => task'[u] = task[u]
<1> USE DEF Scoring, LoadResult, LookupExceptionStatus, LoadExceptionRow, LoadResultOfException,
            EntitySignals, UpsertTrustScore, GiveUp, Enter
<1>1. results' = results /\ exceptions' = exceptions /\ review' = review /\ age' = age
  BY DEF vars, audit
<1>2. stage' \in [Scorings -> Stages] /\ stage' = [stage EXCEPT ![t] = stage'[t]]
  BY DEF TrustTypeOK, Stages
<1>3. DOMAIN task' = Scorings /\ \A u \in Scorings : u # t => task'[u] = task[u]
  BY DEF TrustTypeOK
<1> QED
  BY <1>1, <1>2, <1>3

TaskType == [exception : Exception \union {NoRow}, result : Result \union {NoRow},
             review : Reviews, input : ScorerInput \union {NoRow}]

\* Rows of the tables are not the absence of a row.
LEMMA RowsAreRows ==
    ASSUME TypeOK
    PROVE  /\ \A x \in exceptions : x \in Exception /\ x # NoRow
           /\ \A res \in results : res \in Result /\ res # NoRow
           /\ \A in \in ScorerInput : in # NoRow
<1>1. \A x \in Exception : x # NoRow
  BY EngineAssumption DEF Exception, NoRow, NoResult
<1>2. \A res \in Result : res # NoRow
  BY EngineAssumption DEF Result, NoRow, NoResult
<1>3. \A in \in ScorerInput : in # NoRow
  BY DEF ScorerInput, NoRow, NoResult
<1> QED
  BY <1>1, <1>2, <1>3 DEF TypeOK

\* The input of a scoring that has read a result.
LEMMA InputType ==
    ASSUME TypeOK, TrustTypeOK, NEW t \in Scorings, task[t].result \in results,
           NEW signals \in {Signals(r) : r \in RecordsOf(task[t].result)} \union {Assumed}
    PROVE  /\ InputOf(t, signals) \in ScorerInput
           /\ InputOf(t, signals).status = task[t].result.status
           /\ InputOf(t, signals).reason = task[t].result.reason
           /\ InputOf(t, signals).review = task[t].review
<1>1. signals.source \in Sources /\ signals.present \in 3 .. 4
  <2>1. CASE signals = Assumed
    BY <2>1 DEF Assumed, Sources
  <2>2. ASSUME NEW r \in records, signals = Signals(r)
        PROVE  signals.source \in Sources /\ signals.present \in 3 .. 4
    BY <2>2 DEF TypeOK, Record, Signals, Present
  <2> QED
    BY <2>1, <2>2 DEF RecordsOf
<1>2. /\ task[t].result.status \in MatchStatuses
      /\ task[t].result.reason \in ReasonCodes \union {NoReason}
  BY DEF TypeOK, Result, MatchStatuses
<1>3. task[t].review \in Reviews
  BY DEF TrustTypeOK
<1>4. age \in Int
  BY ScoringAssumption DEF TrustTypeOK
<1> QED
  BY <1>1, <1>2, <1>3, <1>4 DEF InputOf, Input, ScorerInput

\* What a scoring reads next is right, whatever it reads.
LEMMA ScoringReads ==
    ASSUME TypeOK, TrustInv, NEW t \in Scorings, Scoring(t), ~UpsertTrustScore(t)
    PROVE  /\ scores' = scores
           /\ task'[t] \in TaskType
           /\ Read(t)' /\ Placed(t)'
           /\ DOMAIN review = {} => task'[t].review \in {"open", NoException}
                                    /\ (ByException(t)' => task'[t].review = "open")
<1>1. /\ TrustTypeOK /\ Read(t) /\ Placed(t) /\ OpenInv
      /\ task[t] \in TaskType /\ stage \in [Scorings -> Stages] /\ task = [u \in Scorings |-> task[u]]
  BY DEF TrustInv, TrustTypeOK, TaskType
<1>2. results' = results /\ exceptions' = exceptions
  BY <1>1, ScoringIsLocal
<1>3. \A x \in exceptions : StatusOf(x) \in ExceptionStatuses /\ (DOMAIN review = {} => StatusOf(x) = "open")
  BY <1>1 DEF TrustTypeOK, StatusOf, ExceptionStatuses
<1> USE DEF Enter, Read, Placed, ByException, Scored, TaskType
<1>4. CASE LoadResult(t)
  <2>1. PICK res \in results : task' = [task EXCEPT ![t].result = res]
    BY <1>4 DEF LoadResult
  <2>2. task[t] = NoTask /\ stage'[t] = "exception" /\ scores' = scores
    BY <1>1, <1>4 DEF LoadResult
  <2>3. task'[t] = [task[t] EXCEPT !.result = res]
    BY <1>1, <2>1
  <2> QED
    BY <1>1, <1>2, <2>1, <2>2, <2>3, RowsAreRows DEF NoTask
<1>5. CASE LookupExceptionStatus(t)
  <2>1. PICK s \in Reviews : /\ task' = [task EXCEPT ![t].review = s]
                             /\ DOMAIN review = {} => s \in {"open", NoException}
    BY <1>3, <1>5 DEF LookupExceptionStatus, ExceptionsFor, Reviews
  <2>2. stage[t] = "exception" /\ stage'[t] = "signals" /\ scores' = scores
    BY <1>1, <1>5 DEF LookupExceptionStatus
  <2>3. task'[t] = [task[t] EXCEPT !.review = s]
    BY <1>1, <2>1
  <2> QED
    BY <1>1, <1>2, <2>1, <2>2, <2>3
<1>6. CASE LoadExceptionRow(t)
  <2>1. PICK x \in exceptions :
            task' = [task EXCEPT ![t].exception = x, ![t].review = StatusOf(x)]
    BY <1>6 DEF LoadExceptionRow
  <2>2. task[t] = NoTask /\ stage'[t] = "result" /\ scores' = scores
    BY <1>1, <1>6 DEF LoadExceptionRow
  <2>3. task'[t] = [task[t] EXCEPT !.exception = x, !.review = StatusOf(x)]
    BY <1>1, <2>1
  <2>4. StatusOf(x) \in Reviews /\ x \in Exception /\ x # NoRow
    BY <1>3, RowsAreRows DEF Reviews
  <2>5. /\ task'[t].exception = x /\ task'[t].result = NoRow /\ task'[t].input = NoRow
        /\ task'[t].review = StatusOf(x) /\ task'[t] \in TaskType
    <3>1. task'[t] = [exception |-> x, result |-> NoRow, review |-> StatusOf(x), input |-> NoRow]
      <4>1. task'[t] = [NoTask EXCEPT !.exception = x, !.review = StatusOf(x)]
        BY <2>2, <2>3
      <4> HIDE DEF TaskType
      <4> QED
        BY <4>1 DEF NoTask
    <3> QED
      BY <2>4, <3>1
  <2>6. Read(t)' /\ Placed(t)'
    BY <1>2, <2>2, <2>4, <2>5
  <2> QED
    BY <1>3, <2>2, <2>5, <2>6
<1>7. CASE LoadResultOfException(t)
  <2>1. PICK res \in ResultsFor(task[t].exception) : task' = [task EXCEPT ![t].result = res]
    BY <1>7 DEF LoadResultOfException
  <2>2. stage[t] = "result" /\ stage'[t] = "signals" /\ scores' = scores
    BY <1>1, <1>7 DEF LoadResultOfException
  <2>3. task'[t] = [task[t] EXCEPT !.result = res]
    BY <1>1, <2>1
  <2>4. /\ res \in results /\ res \in Result /\ res # NoRow
        /\ res.run = task[t].exception.run /\ res.type = task[t].exception.type
        /\ res.entity = task[t].exception.entity
    BY <2>1, RowsAreRows DEF ResultsFor
  <2>5. /\ task'[t].exception = task[t].exception /\ task'[t].result = res
        /\ task'[t].review = task[t].review /\ task'[t].input = task[t].input
        /\ task'[t] \in TaskType
    BY <1>1, <2>3, <2>4
  <2>6. Read(t)'
    BY <1>1, <1>2, <2>2, <2>4, <2>5 DEF ResultsFor
  <2>7. Placed(t)'
    BY <1>1, <2>2, <2>4, <2>5
  <2> QED
    BY <1>1, <2>2, <2>5, <2>6, <2>7 DEF OpenInv
<1>8. CASE EntitySignals(t)
  <2>1. PICK signals \in {Signals(r) : r \in RecordsOf(task[t].result)} \union {Assumed} :
            task' = [task EXCEPT ![t].input = InputOf(t, signals)]
    BY <1>8 DEF EntitySignals
  <2>2. stage[t] = "signals" /\ stage'[t] = "upsert" /\ scores' = scores
    BY <1>1, <1>8 DEF EntitySignals
  <2>3. task'[t] = [task[t] EXCEPT !.input = InputOf(t, signals)]
    BY <1>1, <2>1
  <2>4. task[t].result \in results
    BY <1>1, <2>2
  <2>5. /\ InputOf(t, signals) \in ScorerInput
        /\ InputOf(t, signals).status = task[t].result.status
        /\ InputOf(t, signals).reason = task[t].result.reason
        /\ InputOf(t, signals).review = task[t].review
    BY <1>1, <2>4, InputType
  <2> QED
    BY <1>1, <1>2, <2>2, <2>3, <2>5, RowsAreRows DEF OpenInv, ResultsFor
<1>9. CASE GiveUp(t)
  <2>1. task'[t] = NoTask /\ stage'[t] = "failed" /\ scores' = scores
    BY <1>1, <1>9 DEF GiveUp
  <2> QED
    BY <2>1 DEF NoTask, Reviews
<1> QED
  BY <1>4, <1>5, <1>6, <1>7, <1>8, <1>9 DEF Scoring

LEMMA ScoringKeepsTrust ==
    ASSUME TypeOK, TrustInv, NEW t \in Scorings, Scoring(t)
    PROVE  TrustInv'
<1>1. /\ TrustTypeOK /\ OpenInv /\ ScoresInv
      /\ \A u \in Scorings : Read(u) /\ Placed(u) /\ task[u] \in TaskType
  BY DEF TrustInv, TrustTypeOK, TaskType
<1>2. /\ results' = results /\ exceptions' = exceptions /\ review' = review /\ age' = age
      /\ stage' \in [Scorings -> Stages] /\ \A u \in Scorings : u # t => stage'[u] = stage[u]
      /\ DOMAIN task' = Scorings /\ \A u \in Scorings : u # t => task'[u] = task[u]
  BY <1>1, ScoringIsLocal DEF TrustTypeOK
<1>3. ASSUME NEW u \in Scorings, u # t PROVE Read(u)' /\ Placed(u)'
  <2>1. task'[u] = task[u] /\ stage'[u] = stage[u] /\ Read(u) /\ Placed(u)
    BY <1>1, <1>2, <1>3
  <2> QED
    BY <1>2, <2>1 DEF Read, Placed, Scored, ByException, ResultsFor
<1>4. CASE ~UpsertTrustScore(t)
  <2>1. /\ scores' = scores /\ task'[t] \in TaskType /\ Read(t)' /\ Placed(t)'
        /\ DOMAIN review = {} => task'[t].review \in {"open", NoException}
                                 /\ (ByException(t)' => task'[t].review = "open")
    BY <1>4, ScoringReads
  <2>2. task' \in [Scorings -> TaskType]
    <3>1. task' = [u \in Scorings |-> task'[u]]
      BY <1>1, <1>4 DEF Scoring, LoadResult, LookupExceptionStatus, LoadExceptionRow,
                  LoadResultOfException, EntitySignals, GiveUp, TrustTypeOK
    <3>2. \A u \in Scorings : task'[u] \in TaskType
      BY <1>1, <1>2, <2>1
    <3> QED
      BY <3>1, <3>2
  <2>3. TrustTypeOK'
    BY <1>1, <1>2, <2>1, <2>2 DEF TrustTypeOK, TaskType
  <2>4. OpenInv'
    BY <1>1, <1>2, <2>1 DEF OpenInv, ByException
  <2>5. ScoresInv'
    BY <1>1, <1>2, <2>1 DEF ScoresInv
  <2> QED
    BY <1>3, <2>1, <2>3, <2>4, <2>5 DEF TrustInv
<1>5. CASE UpsertTrustScore(t)
  <2> DEFINE e == task[t].result.entity
             in == task[t].input
  <2>1. /\ stage[t] = "upsert" /\ stage'[t] \in {"scored", "failed"} /\ task' = task
        /\ scores' = scores \/ scores' = Upserted(e, RowOf(in))
    BY <1>1, <1>5 DEF UpsertTrustScore, Enter, TrustTypeOK
  <2>2. /\ task[t].result \in results /\ in \in ScorerInput
        /\ in.status = task[t].result.status
    BY <1>1, <2>1 DEF Read, Placed, Scored, TaskType
  <2>3. e \in Ids /\ RowOf(in) \in ScoreRow
    BY <2>2, RowsAreRows, RowType DEF Result
  <2>4. /\ DOMAIN scores' \subseteq Ids
        /\ \A i \in DOMAIN scores' : \/ i \in DOMAIN scores /\ scores'[i] = scores[i]
                                     \/ i = e /\ scores'[i] = RowOf(in)
    BY <1>1, <2>1, <2>3 DEF Upserted, TrustTypeOK
  <2> HIDE DEF e, in
  <2>5. TrustTypeOK'
    BY <1>1, <1>2, <2>1, <2>3, <2>4 DEF TrustTypeOK
  <2>6. ScoresInv'
    <3>1. \E jn \in ScorerInput, res \in results :
              res.entity = e /\ jn.status = res.status /\ RowOf(in) = RowOf(jn)
      BY <2>2 DEF e, in
    <3> QED
      BY <1>1, <1>2, <2>4, <3>1 DEF ScoresInv
  <2>7. Read(t)' /\ Placed(t)'
    BY <1>1, <1>2, <2>1 DEF Read, Placed, Scored, ByException, ResultsFor
  <2>8. OpenInv'
    BY <1>1, <1>2, <2>1 DEF OpenInv, ByException
  <2> QED
    BY <1>3, <2>5, <2>6, <2>7, <2>8 DEF TrustInv
<1> QED
  BY <1>4, <1>5

LEMMA OutsideKeepsTrust ==
    ASSUME TrustInv,
           \/ \E x \in exceptions, status \in Decisions : Decide(x, status)
           \/ \E days \in Ages : Grow(days)
    PROVE  TrustInv'
<1> USE DEF Decide, Grow
<1>1. /\ results' = results /\ exceptions' = exceptions /\ scores' = scores
      /\ stage' = stage /\ task' = task
  BY DEF vars, audit
<1>2. age' \in Ages
  BY DEF TrustInv, TrustTypeOK
<1>3. /\ DOMAIN review \subseteq DOMAIN review' /\ DOMAIN review' \subseteq exceptions
      /\ \A x \in DOMAIN review' : review'[x] \in ExceptionStatuses
  BY ScoringAssumption DEF TrustInv, TrustTypeOK
<1>4. TrustTypeOK'
  BY <1>1, <1>2, <1>3 DEF TrustInv, TrustTypeOK
<1>5. ASSUME NEW t \in Scorings PROVE Read(t)' /\ Placed(t)'
  <2>1. Read(t) /\ Placed(t)
    BY DEF TrustInv
  <2> QED
    BY <1>1, <2>1 DEF Read, Placed, Scored, ByException, ResultsFor
<1>6. OpenInv'
  BY <1>1, <1>3 DEF TrustInv, OpenInv, ByException
<1>7. ScoresInv'
  BY <1>1 DEF TrustInv, ScoresInv
<1> QED
  BY <1>4, <1>5, <1>6, <1>7 DEF TrustInv

\* The invariant of the service, beside the engine's.
THEOREM TrustInvariant == TrustSpec => [](TrustInv /\ IInv /\ IdsInv)
<1>1. ASSUME TrustInv, TypeOK, [TrustNext]_<<vars, trustVars>> PROVE TrustInv'
  <2>1. CASE UNCHANGED <<vars, trustVars>> \/ (Next /\ UNCHANGED trustVars)
    BY <1>1, <2>1, EngineStepKeepsTrust
  <2>2. CASE \E t \in Scorings : Scoring(t)
    BY <1>1, <2>2, ScoringKeepsTrust
  <2>3. CASE \/ \E x \in exceptions, status \in Decisions : Decide(x, status)
             \/ \E days \in Ages : Grow(days)
    BY <1>1, <2>3, OutsideKeepsTrust
  <2> QED
    BY <1>1, <2>1, <2>2, <2>3 DEF TrustNext
<1>2. IInv => TypeOK
  BY DEF IInv
<1> QED
  BY <1>1, <1>2, InitTrustInv, EngineBesideTrust, PTL DEF TrustSpec

-----------------------------------------------------------------------------
(* What a stored score says. *)

\* Scores, reviews and scorings have their types.
THEOREM TrustTypes == TrustSpec => []TrustTypeOK
<1>1. TrustInv => TrustTypeOK
  BY DEF TrustInv
<1> QED
  BY <1>1, TrustInvariant, PTL

\* The total of a stored row is that of its own components.
THEOREM RowsAreWhole == TrustSpec => []RowIsWhole
<1>1. TrustInv => RowIsWhole
  BY DEF TrustInv, ScoresInv, RowIsWhole, RowOf, Score
<1> QED
  BY <1>1, TrustInvariant, PTL

\* "High" takes a result that is no break, "Low" one that is.
THEOREM LevelsAreEarned == TrustSpec => []LevelIsEarned
<1>1. ASSUME TrustInv, TypeOK, NEW e \in DOMAIN scores
      PROVE  /\ Level(scores[e].total) = "High" =>
                    \E res \in results : res.entity = e /\ res.status # "BREAK"
             /\ Level(scores[e].total) = "Low" =>
                    \E res \in results : res.entity = e /\ res.status = "BREAK"
  <2>1. PICK in \in ScorerInput, res \in results :
            res.entity = e /\ in.status = res.status /\ scores[e] = RowOf(in)
    BY <1>1 DEF TrustInv, ScoresInv
  <2>2. scores[e].total = Score(in)
    BY <2>1 DEF RowOf
  <2>3. res.status \in {"MATCH", "BREAK"}
    BY <1>1 DEF TypeOK, Result
  <2>4. /\ in.status = "BREAK" => Level(Score(in)) # "High"
        /\ in.status = "MATCH" => Level(Score(in)) # "Low"
    BY LevelOfStatus
  <2> QED
    BY <2>1, <2>2, <2>3, <2>4
<1>2. TrustInv /\ TypeOK => LevelIsEarned
  BY <1>1 DEF LevelIsEarned
<1>3. IInv => TypeOK
  BY DEF IInv
<1> QED
  BY <1>2, <1>3, TrustInvariant, PTL

\* What a scoring of an exception in an unmixed run has read: the exception's own break.
LEMMA ExceptionsBreak ==
    ASSUME TrustInv, IInv, IdsInv, NEW t \in Scorings, Scored(t), ByException(t),
           ~Mixed(task[t].exception)
    PROVE  /\ task[t].input \in ScorerInput
           /\ task[t].input.status = "BREAK"
           /\ task[t].input.reason = task[t].exception.reason
<1>1. Read(t) /\ task[t] \in TaskType
  BY DEF TrustInv, TrustTypeOK, TaskType
<1>2. /\ task[t].exception \in exceptions /\ task[t].result \in ResultsFor(task[t].exception)
      /\ task[t].input.status = task[t].result.status
      /\ task[t].input.reason = task[t].result.reason
  BY <1>1 DEF Read
<1>3. task[t].input \in ScorerInput
  BY <1>1 DEF TaskType, Scored
<1>4. task[t].result.status = "BREAK" /\ task[t].result.reason = task[t].exception.reason
  BY <1>2, ResultOfException
<1> QED
  BY <1>2, <1>3, <1>4

\* The score of an exception is that of a break, unless two calls worked on the run.
THEOREM ExceptionsScoreAsBreaks == TrustSpec => []ExceptionScoresAsBreak
<1>1. ASSUME TrustInv, IInv, IdsInv, NEW t \in Scorings, Scored(t), ByException(t),
             ~Mixed(task[t].exception)
      PROVE  /\ task[t].input.status = "BREAK"
             /\ task[t].input.reason = task[t].exception.reason
             /\ Score(task[t].input) < 6000
  BY <1>1, ExceptionsBreak, BoundOfStatus
<1>2. TrustInv /\ IInv /\ IdsInv => ExceptionScoresAsBreak
  BY <1>1 DEF ExceptionScoresAsBreak
<1> QED
  BY <1>2, TrustInvariant, PTL

\* What is read of a record is its own source, or what is assumed when it cannot be read.
ReadsRecord(t) ==
    \/ task[t].input.source = "custodian" /\ task[t].input.present = 4
    \/ \E r \in records : r.id = task[t].result.entity /\ r.source = task[t].input.source

ReadsInv == \A t \in Scorings : Scored(t) => ReadsRecord(t)

\* A record that is there stays, and stays of its source.
LEMMA SourcesStay ==
    ASSUME IdsInv, [Next]_vars, NEW r \in records
    PROVE  \E s \in records' : s.id = r.id /\ s.source = r.source
<1>1. ASSUME NEW f \in Feed, Ingest(f) PROVE \E s \in records' : s.id = r.id /\ s.source = r.source
  <2>1. records' = {x \in records : x.id # f.id} \union {f}
    BY <1>1 DEF Ingest
  <2>2. CASE r.id = f.id
    <3>1. r.source = f.source
      BY <2>2 DEF IdsInv, Known, SameRecord
    <3> QED
      BY <2>1, <2>2, <3>1
  <2>3. CASE r.id # f.id
    BY <2>1, <2>3
  <2> QED
    BY <2>2, <2>3
<1>2. CASE records' = records
  BY <1>2
<1>3. records' = records \/ \E f \in Feed : Ingest(f)
  BY DEF Next, vars, snapshot, GetReconRun, Crash, Step, LoadInternal, LoadCustodian,
         PersistResult, ReconciledAs, CreateException, CreateEvent, RaisedException,
         MarkCompleted, MarkFailed
<1> QED
  BY <1>1, <1>2, <1>3

LEMMA ReadsInvStays ==
    ASSUME TrustInv, IdsInv, ReadsInv, [TrustNext]_<<vars, trustVars>> PROVE ReadsInv'
<1> SUFFICES ASSUME NEW t \in Scorings, Scored(t)' PROVE ReadsRecord(t)'
  BY DEF ReadsInv
<1>1. CASE task'[t] = task[t]
  <2>1. Scored(t) /\ ReadsRecord(t)
    BY <1>1 DEF Scored, ReadsInv
  <2>2. CASE task[t].input.source = "custodian" /\ task[t].input.present = 4
    BY <1>1, <2>2 DEF ReadsRecord
  <2>3. CASE \E r \in records : r.id = task[t].result.entity /\ r.source = task[t].input.source
    <3>1. PICK r \in records : r.id = task[t].result.entity /\ r.source = task[t].input.source
      BY <2>3
    <3>2. PICK s \in records' : s.id = r.id /\ s.source = r.source
      BY SourcesStay, TrustStepsAreEngineSteps
    <3> QED
      BY <1>1, <3>1, <3>2 DEF ReadsRecord
  <2> QED
    BY <2>1, <2>2, <2>3 DEF ReadsRecord
<1>2. ASSUME NEW u \in Scorings, Scoring(u), task'[t] # task[t] PROVE ReadsRecord(t)'
  <2>1. u = t
    BY <1>2, ScoringIsLocal DEF TrustInv, TrustTypeOK
  <2>2. Placed(t) /\ task[t] \in TaskType /\ task \in [Scorings -> TaskType]
    BY DEF TrustInv, TrustTypeOK, TaskType
  <2>3. CASE EntitySignals(t)
    <3>1. PICK signals \in {Signals(r) : r \in RecordsOf(task[t].result)} \union {Assumed} :
             task' = [task EXCEPT ![t].input = InputOf(t, signals)]
      BY <2>3 DEF EntitySignals
    <3>2. /\ task'[t].result = task[t].result /\ records' = records
          /\ task'[t].input.source = signals.source /\ task'[t].input.present = signals.present
      BY <2>2, <2>3, <3>1 DEF EntitySignals, InputOf, Input, TaskType, vars
    <3>3. CASE signals = Assumed
      BY <3>2, <3>3 DEF ReadsRecord, Assumed
    <3>4. CASE \E r \in RecordsOf(task[t].result) : signals = Signals(r)
      BY <3>2, <3>4 DEF ReadsRecord, Signals, RecordsOf
    <3> QED
      BY <3>1, <3>3, <3>4
  <2>4. CASE stage[t] \in {"idle", "exception", "result"} /\ task'[t].input = task[t].input
    BY <2>2, <2>4 DEF Placed, Scored, NoTask
  <2>5. CASE task'[t] = NoTask
    BY <2>5 DEF Scored, NoTask
  <2>6. ASSUME LoadResult(t) \/ LookupExceptionStatus(t) \/ LoadExceptionRow(t)
                   \/ LoadResultOfException(t)
        PROVE  stage[t] \in {"idle", "exception", "result"} /\ task'[t].input = task[t].input
    <3>1. CASE LoadResult(t)
      BY <2>2, <3>1 DEF LoadResult
    <3>2. CASE LookupExceptionStatus(t)
      <4>1. PICK v : task' = [task EXCEPT ![t].review = v]
        BY <3>2 DEF LookupExceptionStatus
      <4>2. stage[t] = "exception"
        BY <3>2 DEF LookupExceptionStatus
      <4> QED
        BY <2>2, <4>1, <4>2
    <3>3. CASE LoadExceptionRow(t)
      BY <2>2, <3>3 DEF LoadExceptionRow
    <3>4. CASE LoadResultOfException(t)
      BY <2>2, <3>4 DEF LoadResultOfException
    <3> QED
      BY <2>6, <3>1, <3>2, <3>3, <3>4
  <2>7. ~UpsertTrustScore(t)
    BY <1>2 DEF UpsertTrustScore
  <2>8. GiveUp(t) => task'[t] = NoTask
    BY <2>2 DEF GiveUp
  <2> QED
    BY <1>2, <2>1, <2>3, <2>4, <2>5, <2>6, <2>7, <2>8 DEF Scoring
<1>3. task'[t] = task[t] \/ \E u \in Scorings : Scoring(u)
  BY DEF TrustNext, trustVars, Decide, Grow
<1> QED
  BY <1>1, <1>2, <1>3

THEOREM ReadsInvariant == TrustSpec => [](TrustInv /\ IInv /\ IdsInv /\ ReadsInv)
<1>1. TrustInit => ReadsInv
  BY DEF TrustInit, ReadsInv, Scored, NoTask
<1>2. (TrustInv /\ IInv /\ IdsInv) /\ ReadsInv /\ [TrustNext]_<<vars, trustVars>> => ReadsInv'
  BY ReadsInvStays
<1> QED
  BY <1>1, <1>2, TrustInvariant, PTL DEF TrustSpec

\* Two inputs of a verdict and a day: what the review and the record's reading count for.
LEMMA ReviewAndReadingCount ==
    ASSUME NEW in \in ScorerInput, NEW jn \in ScorerInput,
           in.status = jn.status, in.reason = jn.reason, in.age = jn.age,
           in.review = "open", jn.review \in {"open", NoException}
    PROVE  Score(jn) - Score(in) - (IF jn.review = NoException THEN 750 ELSE 0)
               = 15 * (SourceReliability(jn.source) - SourceReliability(in.source))
                     + 250 * (jn.present - in.present)
<1> DEFINE c == Components(in)
           d == Components(jn)
<1>1. /\ c.reconciliation = d.reconciliation /\ c.freshness = d.freshness
      /\ c.anomaly = d.anomaly
      /\ c.source = SourceReliability(in.source) /\ d.source = SourceReliability(jn.source)
      /\ c.completeness = 25 * in.present /\ d.completeness = 25 * jn.present
  BY DEF Components, Completeness
<1>2. c.review = 0 /\ d.review = IF jn.review = NoException THEN 50 ELSE 0
  BY DEF Components, HumanReview, NoException
<1>3. /\ c.source \in Int /\ c.reconciliation \in Int /\ c.freshness \in Int
      /\ c.completeness \in Int /\ c.anomaly \in Int
      /\ d.source \in Int /\ in.present \in Int /\ jn.present \in Int
  BY ComponentValues DEF ScorerInput, MatchStatuses
<1>4. /\ Score(in) = c.source * 15 + c.reconciliation * 35 + c.freshness * 15
                        + c.completeness * 10 + c.review * 15 - c.anomaly * 10
      /\ Score(jn) = d.source * 15 + d.reconciliation * 35 + d.freshness * 15
                        + d.completeness * 10 + d.review * 15 - d.anomaly * 10
  BY TotalIsSum
<1> HIDE DEF c, d
<1> QED
  BY <1>1, <1>2, <1>3, <1>4

\* Readings of one record are at most 2.5 points apart: one field, or the field and the
\* source that are assumed.
LEMMA ReadingsAreClose ==
    ASSUME IdsInv, NEW a \in Scorings, NEW b \in Scorings, ReadsRecord(a), ReadsRecord(b),
           task[a].input \in ScorerInput, task[b].input \in ScorerInput,
           task[a].result.entity = task[b].result.entity
    PROVE  15 * (SourceReliability(task[b].input.source) - SourceReliability(task[a].input.source))
               + 250 * (task[b].input.present - task[a].input.present) \in -250 .. 250
<1> DEFINE in == task[a].input
           jn == task[b].input
<1>1. \/ in.source = jn.source
      \/ in.source = "custodian" /\ in.present = 4
      \/ jn.source = "custodian" /\ jn.present = 4
  BY DEF ReadsRecord, IdsInv, OneRowPerId
<1>2. /\ in.source \in {"internal", "custodian"} /\ in.present \in {3, 4}
      /\ jn.source \in {"internal", "custodian"} /\ jn.present \in {3, 4}
  BY DEF ScorerInput, Sources
<1>3. SourceReliability("internal") = 95 /\ SourceReliability("custodian") = 85
  BY DEF SourceReliability
<1> HIDE DEF in, jn
<1> DEFINE x == SourceReliability(in.source)
           y == SourceReliability(jn.source)
           m == in.present
           n == jn.present
<1>4. /\ x \in {85, 95} /\ y \in {85, 95} /\ m \in {3, 4} /\ n \in {3, 4}
      /\ x = y \/ (x = 85 /\ m = 4) \/ (y = 85 /\ n = 4)
  BY <1>1, <1>2, <1>3
<1> HIDE DEF x, y, m, n
<1>5. 15 * (y - x) + 250 * (n - m) \in -250 .. 250
  BY <1>4
<1> QED
  BY <1>5 DEF x, y, m, n, in, jn

\* The two ways to a score agree, but for an exception that was not seen and a record that
\* could not be read or was corrected.
THEOREM BothWaysAgree == TrustSpec => []WaysAgree
<1>1. ASSUME TrustInv, IInv, IdsInv, ReadsInv, NEW a \in Scorings, NEW b \in Scorings,
             Scored(a), ByException(a), ~Mixed(task[a].exception),
             Scored(b), ~ByException(b), task[b].result \in ResultsFor(task[a].exception),
             DOMAIN review = {},
             task[a].input.age = task[b].input.age
      PROVE  /\ Gap(a, b) \in -250 .. 250
             /\ /\ task[a].input.source = task[b].input.source
                /\ task[a].input.present = task[b].input.present
                => Gap(a, b) = 0
  <2>1. /\ Read(a) /\ Read(b) /\ task[b] \in TaskType
        /\ task[a].review = "open" /\ task[b].review \in {"open", NoException}
    BY <1>1 DEF TrustInv, TrustTypeOK, TaskType, OpenInv
  <2>2. /\ task[a].input \in ScorerInput /\ task[a].input.status = "BREAK"
        /\ task[a].input.reason = task[a].exception.reason
        /\ task[a].input.review = "open"
    BY <1>1, <2>1, ExceptionsBreak DEF Read
  <2>3. task[b].input \in ScorerInput
    BY <1>1, <2>1 DEF TaskType, Scored
  <2>4. task[b].result.status = "BREAK" /\ task[b].result.reason = task[a].exception.reason
    BY <1>1, <2>1, ResultOfException DEF Read
  <2>5. /\ task[b].input.status = "BREAK" /\ task[b].input.reason = task[a].exception.reason
        /\ task[b].input.review \in {"open", NoException}
    BY <1>1, <2>1, <2>4 DEF Read
  <2>6. task[a].result.entity = task[b].result.entity
    BY <1>1, <2>1 DEF Read, ResultsFor
  <2>7. ReadsRecord(a) /\ ReadsRecord(b)
    BY <1>1 DEF ReadsInv
  <2> DEFINE apart == 15 * (SourceReliability(task[b].input.source)
                                - SourceReliability(task[a].input.source))
                          + 250 * (task[b].input.present - task[a].input.present)
  <2>8. Gap(a, b) = apart
    BY <1>1, <2>2, <2>3, <2>5, ReviewAndReadingCount DEF Gap
  <2>9. apart \in -250 .. 250
    BY <1>1, <2>2, <2>3, <2>6, <2>7, ReadingsAreClose
  <2>10. /\ task[a].input.source = task[b].input.source
         /\ task[a].input.present = task[b].input.present
         => apart = 0
    BY <2>2, <2>3 DEF ScorerInput, Sources, SourceReliability
  <2> HIDE DEF apart
  <2> QED
    BY <2>8, <2>9, <2>10
<1>2. TrustInv /\ IInv /\ IdsInv /\ ReadsInv => WaysAgree
  BY <1>1 DEF WaysAgree
<1> QED
  BY <1>2, ReadsInvariant, PTL

-----------------------------------------------------------------------------
(* The service implements the board. *)

BoardVars == <<Targets, Readings, Over, scores>>

LEMMA SameBoard ==
    ASSUME task' = task, stage' = stage, scores' = scores
    PROVE  UNCHANGED BoardVars
BY DEF BoardVars, Targets, Readings, Over, TargetOf, ReadingOf, ByException

\* A statement of a scoring moves nothing of another's on the board.
LEMMA OthersOnBoard ==
    ASSUME TrustTypeOK, NEW t \in Scorings, Scoring(t)
    PROVE  /\ Targets' = [Targets EXCEPT ![t] = TargetOf(t)']
           /\ Readings' = [Readings EXCEPT ![t] = ReadingOf(t)']
           /\ Over' = IF stage'[t] \in {"scored", "failed"} THEN Over \union {t} ELSE Over \ {t}
<1>1. \A u \in Scorings : u # t => task'[u] = task[u] /\ stage'[u] = stage[u]
  BY ScoringIsLocal DEF TrustTypeOK
<1>2. \A u \in Scorings : u # t => TargetOf(u)' = TargetOf(u) /\ ReadingOf(u)' = ReadingOf(u)
  BY <1>1 DEF TargetOf, ReadingOf, ByException
<1>3. Targets' = [Targets EXCEPT ![t] = TargetOf(t)']
  BY <1>2 DEF Targets
<1>4. Readings' = [Readings EXCEPT ![t] = ReadingOf(t)']
  BY <1>2 DEF Readings
<1>5. Over' = IF stage'[t] \in {"scored", "failed"} THEN Over \union {t} ELSE Over \ {t}
  BY <1>1 DEF Over
<1> QED
  BY <1>3, <1>4, <1>5

LEMMA ScoringRefines ==
    ASSUME TypeOK, TrustInv, NEW t \in Scorings, Scoring(t)
    PROVE  [Board!Next]_BoardVars
<1>1. /\ TrustTypeOK /\ Read(t) /\ Placed(t) /\ task[t] \in TaskType
      /\ DOMAIN task = Scorings /\ stage \in [Scorings -> Stages]
  BY DEF TrustInv, TrustTypeOK, TaskType
<1>2. /\ Targets' = [Targets EXCEPT ![t] = TargetOf(t)']
      /\ Readings' = [Readings EXCEPT ![t] = ReadingOf(t)']
      /\ Over' = IF stage'[t] \in {"scored", "failed"} THEN Over \union {t} ELSE Over \ {t}
      /\ Targets[t] = TargetOf(t) /\ Readings[t] = ReadingOf(t)
  BY <1>1, OthersOnBoard DEF Targets, Readings
<1>3. t \notin Over
  BY DEF Over, Scoring, LoadResult, LookupExceptionStatus, LoadExceptionRow,
         LoadResultOfException, EntitySignals, UpsertTrustScore, GiveUp
<1>4. /\ \A x \in exceptions : x \in Exception /\ x # NoRow /\ x.entity \in Ids
      /\ \A res \in results : res \in Result /\ res # NoRow /\ res.entity \in Ids
  BY RowsAreRows DEF Exception, Result
<1>5. ASSUME TargetOf(t)' = TargetOf(t), ReadingOf(t)' = ReadingOf(t), scores' = scores,
             stage'[t] \notin {"scored", "failed"}
      PROVE  UNCHANGED BoardVars
  <2>1. Targets' = Targets /\ Readings' = Readings
    BY <1>2, <1>5 DEF Targets, Readings
  <2> QED
    BY <1>2, <1>3, <1>5, <2>1 DEF BoardVars
<1>6. ASSUME NEW e \in Ids, TargetOf(t) = {}, TargetOf(t)' = {e}, ReadingOf(t)' = ReadingOf(t),
             scores' = scores, stage'[t] \notin {"scored", "failed"}
      PROVE  Board!Aim(t)
  <2>1. Readings' = Readings /\ Over' = Over
    BY <1>2, <1>3, <1>6 DEF Readings
  <2> QED
    BY <1>2, <1>3, <1>6, <2>1 DEF Board!Aim
<1>7. CASE LoadResult(t)
  <2>1. PICK res \in results : task' = [task EXCEPT ![t].result = res]
    BY <1>7 DEF LoadResult
  <2>2. task[t] = NoTask /\ stage'[t] = "exception" /\ scores' = scores
    BY <1>1, <1>7 DEF LoadResult, Placed, Enter
  <2>3. task'[t] = [NoTask EXCEPT !.result = res]
    BY <1>1, <2>1, <2>2
  <2>4. TargetOf(t) = {} /\ ReadingOf(t) = {}
    BY <2>2 DEF TargetOf, ReadingOf, ByException, NoTask
  <2>5. TargetOf(t)' = {res.entity} /\ ReadingOf(t)' = {}
    BY <1>4, <2>3 DEF TargetOf, ReadingOf, ByException, NoTask
  <2> QED
    BY <1>4, <1>6, <2>2, <2>4, <2>5 DEF Board!Next
<1>8. CASE LookupExceptionStatus(t)
  <2>1. PICK s : task' = [task EXCEPT ![t].review = s]
    BY <1>8 DEF LookupExceptionStatus
  <2>2. stage'[t] = "signals" /\ scores' = scores
    BY <1>1, <1>8 DEF LookupExceptionStatus, Enter
  <2>3. /\ task'[t].exception = task[t].exception /\ task'[t].result = task[t].result
        /\ task'[t].input = task[t].input
    BY <1>1, <2>1 DEF TaskType
  <2> QED
    BY <1>5, <2>2, <2>3 DEF TargetOf, ReadingOf, ByException
<1>9. CASE LoadExceptionRow(t)
  <2>1. PICK x \in exceptions :
            task' = [task EXCEPT ![t].exception = x, ![t].review = StatusOf(x)]
    BY <1>9 DEF LoadExceptionRow
  <2>2. task[t] = NoTask /\ stage'[t] = "result" /\ scores' = scores
    BY <1>1, <1>9 DEF LoadExceptionRow, Placed, Enter
  <2>3. task'[t] = [NoTask EXCEPT !.exception = x, !.review = StatusOf(x)]
    BY <1>1, <2>1, <2>2
  <2>4. TargetOf(t) = {} /\ ReadingOf(t) = {}
    BY <2>2 DEF TargetOf, ReadingOf, ByException, NoTask
  <2>5. TargetOf(t)' = {x.entity} /\ ReadingOf(t)' = {}
    BY <1>4, <2>3 DEF TargetOf, ReadingOf, ByException, NoTask
  <2> QED
    BY <1>4, <1>6, <2>2, <2>4, <2>5 DEF Board!Next
<1>10. CASE LoadResultOfException(t)
  <2>1. PICK res : task' = [task EXCEPT ![t].result = res]
    BY <1>10 DEF LoadResultOfException
  <2>2. stage'[t] = "signals" /\ scores' = scores /\ ByException(t)
    BY <1>1, <1>10 DEF LoadResultOfException, Placed, Enter
  <2>3. task'[t].exception = task[t].exception /\ task'[t].input = task[t].input
    BY <1>1, <2>1 DEF TaskType
  <2> QED
    BY <1>5, <2>2, <2>3 DEF TargetOf, ReadingOf, ByException
<1>11. CASE EntitySignals(t)
  <2>1. PICK signals \in {Signals(r) : r \in RecordsOf(task[t].result)} \union {Assumed} :
            task' = [task EXCEPT ![t].input = InputOf(t, signals)]
    BY <1>11 DEF EntitySignals
  <2>2. /\ stage'[t] = "upsert" /\ scores' = scores
        /\ ~Scored(t) /\ task[t].result \in results
    BY <1>1, <1>11 DEF EntitySignals, Placed, Read, Enter
  <2>3. /\ task'[t].exception = task[t].exception /\ task'[t].result = task[t].result
        /\ task'[t].input = InputOf(t, signals)
    BY <1>1, <2>1 DEF TaskType
  <2>4. InputOf(t, signals) \in ScorerInput /\ InputOf(t, signals) # NoRow
    BY <1>1, <2>2, InputType, RowsAreRows
  <2> DEFINE in == InputOf(t, signals)
  <2>5. ReadingOf(t) = {} /\ ReadingOf(t)' = {in} /\ in \in DOMAIN Rows
    BY <2>2, <2>3, <2>4 DEF ReadingOf, Scored, Rows
  <2>6. TargetOf(t)' = TargetOf(t) /\ TargetOf(t) # {}
    BY <1>4, <2>2, <2>3 DEF TargetOf, ByException
  <2> HIDE DEF in
  <2>7. Targets' = Targets /\ Over' = Over
    BY <1>2, <1>3, <2>2, <2>6 DEF Targets
  <2>8. Readings'[t] = {in} /\ Readings' = [Readings EXCEPT ![t] = {in}]
    BY <1>2, <2>5 DEF Readings
  <2>9. Board!Settle(t)
    BY <1>2, <1>3, <2>2, <2>5, <2>6, <2>7, <2>8 DEF Board!Settle
  <2> QED
    BY <2>9 DEF Board!Next
<1>12. CASE UpsertTrustScore(t)
  <2> DEFINE e == task[t].result.entity
             in == task[t].input
  <2>1. /\ stage'[t] \in {"scored", "failed"} /\ task' = task
        /\ scores' \in {scores, Upserted(e, RowOf(in))}
        /\ Scored(t) /\ task[t].result \in results
    BY <1>1, <1>12 DEF UpsertTrustScore, Enter, Placed, Read
  <2>2. TargetOf(t) = {e} /\ ReadingOf(t) = {in}
    BY <1>1, <1>4, <2>1 DEF TargetOf, ReadingOf, Scored, ByException, Read, ResultsFor
  <2>3. TargetOf(t)' = TargetOf(t) /\ ReadingOf(t)' = ReadingOf(t)
    BY <2>1 DEF TargetOf, ReadingOf, ByException
  <2>4. Targets' = Targets /\ Readings' = Readings /\ Over' = Over \union {t}
    BY <1>2, <2>1, <2>3 DEF Targets, Readings
  <2>5. Rows[in] = RowOf(in)
    BY <1>1, <2>1 DEF Rows, Scored, TrustTypeOK
  <2>6. Upserted(e, RowOf(in)) = Board!Posted(e, Rows[in])
    BY <2>5 DEF Upserted, Board!Posted
  <2> HIDE DEF e, in
  <2>7. Board!Post(t)
    BY <1>2, <1>3, <2>1, <2>2, <2>4, <2>6 DEF Board!Post
  <2> QED
    BY <2>7 DEF Board!Next
<1>13. CASE GiveUp(t)
  <2>1. task'[t] = NoTask /\ stage'[t] = "failed" /\ scores' = scores
    BY <1>1, <1>13 DEF GiveUp, Enter
  <2>2. TargetOf(t)' = {} /\ ReadingOf(t)' = {}
    BY <2>1 DEF TargetOf, ReadingOf, ByException, NoTask
  <2>3. Board!GiveUp(t)
    BY <1>2, <1>3, <2>1, <2>2 DEF Board!GiveUp
  <2> QED
    BY <2>3 DEF Board!Next
<1> QED
  BY <1>7, <1>8, <1>9, <1>10, <1>11, <1>12, <1>13 DEF Scoring

\* The service, beside the engine, the feeds, the operators and the clock, implements the board.
THEOREM ServiceImplementsBoard == TrustSpec => BoardSpec
<1>1. TrustInit => Board!Init
  <2>1. SUFFICES ASSUME TrustInit PROVE Board!Init
    OBVIOUS
  <2>2. \A t \in Scorings : stage[t] = "idle" /\ task[t] = NoTask
    BY <2>1 DEF TrustInit
  <2>3. \A t \in Scorings : TargetOf(t) = {} /\ ReadingOf(t) = {}
    BY <2>2 DEF TargetOf, ReadingOf, ByException, NoTask
  <2>4. Over = {} /\ scores = <<>>
    BY <2>1, <2>2 DEF TrustInit, Over
  <2> QED
    BY <2>3, <2>4 DEF Board!Init, Targets, Readings
<1>2. ASSUME TypeOK, TrustInv, [TrustNext]_<<vars, trustVars>>
      PROVE  [Board!Next]_BoardVars
  <2>1. CASE \E t \in Scorings : Scoring(t)
    BY <1>2, <2>1, ScoringRefines
  <2>2. CASE ~ \E t \in Scorings : Scoring(t)
    <3>1. task' = task /\ stage' = stage /\ scores' = scores
      BY <1>2, <2>2 DEF TrustNext, trustVars, Decide, Grow
    <3> QED
      BY <3>1, SameBoard
  <2> QED
    BY <2>1, <2>2
<1>3. TypeOK /\ TrustInv /\ [TrustNext]_<<vars, trustVars>> => [Board!Next]_Board!vars
  BY <1>2 DEF BoardVars, Board!vars
<1>4. IInv => TypeOK
  BY DEF IInv
<1> QED
  BY <1>1, <1>3, <1>4, TrustInvariant, PTL DEF TrustSpec, BoardSpec, Board!Spec
=============================================================================
