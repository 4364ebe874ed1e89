----------------------------- MODULE RulesLemmas -----------------------------
(***************************************************************************)
(* Lemmas about the comparison rules, for all records and tolerances.      *)
(***************************************************************************)
EXTENDS ReconRules, TLAPS

\* ApplyRules over a set of two rules: the second is asked only if the first matches.
LEMMA ApplyTwoRules ==
    ASSUME NEW a, NEW b
    PROVE  ApplyRules(<<a, b>>) =
               IF a.status # "MATCH" THEN a ELSE IF b.status # "MATCH" THEN b ELSE Match
<1> DEFINE said == <<a, b>>
           hits == {n \in DOMAIN said : said[n].status # "MATCH"}
           first == CHOOSE n \in hits : \A m \in hits : n <= m
<1>1. /\ DOMAIN said = {1, 2} /\ said[1] = a /\ said[2] = b
  OBVIOUS
<1>2. CASE a.status # "MATCH"
  <2>1. 1 \in hits /\ hits \subseteq {1, 2}
    BY <1>1, <1>2
  <2>2. first = 1
    BY <2>1
  <2> QED
    BY <1>1, <1>2, <2>1, <2>2 DEF ApplyRules
<1>3. CASE a.status = "MATCH" /\ b.status # "MATCH"
  <2>1. hits = {2}
    BY <1>1, <1>3
  <2>2. first = 2
    BY <2>1
  <2> QED
    BY <1>1, <1>3, <2>1, <2>2 DEF ApplyRules
<1>4. CASE a.status = "MATCH" /\ b.status = "MATCH"
  <2>1. hits = {}
    BY <1>1, <1>4
  <2> QED
    BY <1>4, <2>1 DEF ApplyRules
<1> QED
  BY <1>2, <1>3, <1>4

\* The verdict on a pair, rule by rule.
LEMMA JudgeByRule ==
    ASSUME NEW conf, NEW int, NEW cust
    PROVE  Judge(conf, int, cust) =
        IF int.type = "position"
        THEN IF Exceeds(int.qty, cust.qty, conf.qty) THEN Break("POS_QUANTITY_MISMATCH")
             ELSE IF Exceeds(int.val, cust.val, conf.price) THEN Break("POS_PRICE_SOURCE_DIFF")
             ELSE Match
        ELSE IF int.key = cust.key /\ int.qty = cust.qty /\ int.id # cust.id /\ int.val # cust.val
             THEN Break("TXN_DUPLICATE")
             ELSE IF Exceeds(int.val, cust.val, conf.price) THEN Break("TXN_AMOUNT_MISMATCH")
             ELSE Match
<1>1. Judge(conf, int, cust) =
        IF int.type = "position"
        THEN ApplyRules(<<PositionQuantity(conf, int, cust), PositionPrice(conf, int, cust)>>)
        ELSE ApplyRules(<<TransactionDuplicate(int, cust), TransactionAmount(conf, int, cust)>>)
  BY DEF Judge, PositionRules, TransactionRules
<1>2. /\ Match.status = "MATCH"
      /\ \A reason : Break(reason).status = "BREAK"
  BY DEF Match, Break
<1>3. CASE int.type = "position"
  BY <1>1, <1>2, <1>3, ApplyTwoRules DEF PositionQuantity, PositionPrice
<1>4. CASE int.type # "position"
  BY <1>1, <1>2, <1>4, ApplyTwoRules DEF TransactionDuplicate, TransactionAmount
<1> QED
  BY <1>3, <1>4

\* A verdict is a verdict: a BREAK with a reason code or the MATCH without one.
LEMMA JudgeType ==
    ASSUME NEW conf, NEW int, NEW cust
    PROVE  /\ Judge(conf, int, cust) \in Verdict
           /\ Judge(conf, int, cust).status = "BREAK" <=> Judge(conf, int, cust).reason # NoReason
<1>1. Match \in Verdict /\ Match.status # "BREAK" /\ Match.reason = NoReason
  BY DEF Match, Verdict, NoReason
<1>2. \A reason \in ReasonCodes :
        /\ Break(reason) \in Verdict
        /\ Break(reason).status = "BREAK" /\ Break(reason).reason # NoReason
  BY DEF Break, Verdict, ReasonCodes, NoReason
<1>3. Judge(conf, int, cust) \in
        {Match} \union {Break(reason) : reason \in ReasonCodes}
  BY JudgeByRule DEF ReasonCodes
<1> QED
  BY <1>1, <1>2, <1>3

-----------------------------------------------------------------------------
\* The distance does not depend on the side.
LEMMA ExceedsIsSymmetric ==
    ASSUME NEW a \in Int, NEW b \in Int, NEW tolerance
    PROVE  Exceeds(a, b, tolerance) <=> Exceeds(b, a, tolerance)
<1>1. AbsDiff(a, b) = AbsDiff(b, a)
  BY DEF AbsDiff
<1>2. {a, b} = {b, a}
  OBVIOUS
<1> QED
  BY <1>1, <1>2 DEF Exceeds

\* What is within a tolerance is within every looser one.
LEMMA ExceedsIsMonotone ==
    ASSUME NEW a \in Int, NEW b \in Int, NEW t \in Nat, NEW u \in Nat, u >= t,
           ~Exceeds(a, b, t)
    PROVE  ~Exceeds(a, b, u)
<1>1. CASE u = t
  BY <1>1
<1>2. CASE u > t
  <2>1. AbsDiff(a, b) \in Int /\ AbsDiff(a, b) <= t
    BY DEF Exceeds, AbsDiff
  <2> QED
    BY <1>2, <2>1 DEF Exceeds
<1> QED
  BY <1>1, <1>2

\* Swapping the two sides of a pair never changes the verdict (rules.go: the rules compare
\* differences and equalities, not sides).
LEMMA JudgeIsSymmetric ==
    ASSUME NEW conf, NEW int \in Record, NEW cust \in Record, int.type = cust.type
    PROVE  Judge(conf, cust, int) = Judge(conf, int, cust)
<1>1. int.qty \in Int /\ cust.qty \in Int /\ int.val \in Int /\ cust.val \in Int
  BY DEF Record
<1>2. /\ Exceeds(int.qty, cust.qty, conf.qty) <=> Exceeds(cust.qty, int.qty, conf.qty)
      /\ Exceeds(int.val, cust.val, conf.price) <=> Exceeds(cust.val, int.val, conf.price)
  BY <1>1, ExceedsIsSymmetric
<1> QED
  BY <1>2, JudgeByRule

\* Loosening the tolerances keeps every MATCH.
LEMMA JudgeIsMonotone ==
    ASSUME NEW conf \in Config, NEW loose \in Config, NEW int \in Record, NEW cust \in Record,
           loose.price >= conf.price, loose.qty >= conf.qty, Judge(conf, int, cust) = Match
    PROVE  Judge(loose, int, cust) = Match
<1>1. \A reason : Break(reason) # Match
  BY DEF Break, Match
<1>2. /\ int.qty \in Int /\ cust.qty \in Int /\ int.val \in Int /\ cust.val \in Int
      /\ conf.qty \in Nat /\ conf.price \in Nat /\ loose.qty \in Nat /\ loose.price \in Nat
  BY DEF Record, Config
<1>3. /\ ~Exceeds(int.qty, cust.qty, conf.qty) => ~Exceeds(int.qty, cust.qty, loose.qty)
      /\ ~Exceeds(int.val, cust.val, conf.price) => ~Exceeds(int.val, cust.val, loose.price)
  BY <1>2, ExceedsIsMonotone
<1> QED
  BY <1>1, <1>3, JudgeByRule
=============================================================================
