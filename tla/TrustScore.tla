------------------------------ MODULE TrustScore ------------------------------
(***************************************************************************)
(* The trust score (internal/trust/scorer.go), version 1 of the model.     *)
(*                                                                         *)
(* Components and weights are percentages, so a total counts hundredths of *)
(* a point: 10000 is the code's 100.00.  Every component is a multiple of  *)
(* 5 and the weighted sum an integer, so math.Round to two decimals has    *)
(* nothing to round and the float64 computation ends on the same value.    *)
(***************************************************************************)
EXTENDS Integers

MatchStatuses == {"MATCH", "NEAR_MATCH", "BREAK"}

\* exceptions.status; "" is what the scorer gets when it knows of no exception.
ExceptionStatuses == {"open", "acknowledged", "resolved", "suppressed"}
NoException == ""
Reviews == ExceptionStatuses \union {NoException}

\* reconInput.  age is the number of whole days from AsOfDate to Now, and present the
\* number of the four fields that are there.
Input(status, reason, source, age, present, review) ==
    [status |-> status, reason |-> reason, source |-> source,
     age |-> age, present |-> present, review |-> review]

SourceReliability(source) ==
    CASE source = "internal" -> 95 [] source = "custodian" -> 85 [] OTHER -> 70

\* Fault: a break falls through to the case of a near match.
Reconciliation_BreakAsNear(status) ==
    CASE status = "MATCH" -> 100 [] status \in {"NEAR_MATCH", "BREAK"} -> 70 [] OTHER -> 0
\* Fault: the status of a match is misspelt and falls to the default.
Reconciliation_NoMatch(status) ==
    CASE status = "NEAR_MATCH" -> 70 [] status = "BREAK" -> 20 [] OTHER -> 0
Reconciliation(status) ==
    CASE status = "MATCH" -> 100 [] status = "NEAR_MATCH" -> 70 [] status = "BREAK" -> 20
      [] OTHER -> 0

Freshness(age) ==
    CASE age <= 0 -> 100 [] age = 1 -> 70 [] age \in 2 .. 7 -> 30 [] OTHER -> 10

\* Fault: the count is not divided by the number of fields.
Completeness_Undivided(present) == 100 * present
Completeness(present) == 25 * present

HumanReview(review) ==
    CASE review = "open" -> 0 [] review = "acknowledged" -> 40
      [] review \in {"resolved", "suppressed"} -> 100 [] OTHER -> 50

AnomalyPenalty(status, reason) ==
    CASE status # "BREAK" -> 0
      [] status = "BREAK" /\ reason = "TXN_DUPLICATE" -> 40
      [] status = "BREAK" /\ reason \in {"POS_QUANTITY_MISMATCH", "TXN_AMOUNT_MISMATCH"} -> 30
      [] OTHER -> 20

\* computeComponents
Components(in) ==
    [source |-> SourceReliability(in.source), reconciliation |-> Reconciliation(in.status),
     freshness |-> Freshness(in.age), completeness |-> Completeness(in.present),
     review |-> HumanReview(in.review), anomaly |-> AnomalyPenalty(in.status, in.reason)]

Clamp(v, lo, hi) == IF v < lo THEN lo ELSE IF v > hi THEN hi ELSE v

weights == [source |-> 15, reconciliation |-> 35, freshness |-> 15, completeness |-> 10,
            review |-> 15, anomaly |-> 10]

\* computeTotal
Total(c) ==
    Clamp(c.source * weights.source + c.reconciliation * weights.reconciliation
              + c.freshness * weights.freshness + c.completeness * weights.completeness
              + c.review * weights.review - c.anomaly * weights.anomaly, 0, 10000)

Score(in) == Total(Components(in))

\* The level buildRationale opens with: "High trust", "Medium trust" or "Low trust".
Level(total) ==
    CASE total >= 7500 -> "High" [] total \in 4000 .. 7499 -> "Medium"
      [] OTHER -> "Low"
=============================================================================
