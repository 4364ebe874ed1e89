----------------------------- MODULE RulesProof -----------------------------
(***************************************************************************)
(* The contract of the comparison rules holds for all quantities, values   *)
(* and tolerances.                                                         *)
(***************************************************************************)
EXTENDS RulesContract, RulesLemmas

\* The verdict has the shape domain-model.md:75 asks for, on every pair.
THEOREM RulesTypeOK == Spec => []TypeOK
<1>1. Init => TypeOK
  <2> SUFFICES ASSUME Init PROVE TypeOK
    OBVIOUS
  <2>1. cfg \in Config
    BY ContractAssumption DEF Init, Configs, Config
  <2>2. i \in Record /\ c \in Record
    <3>1. \A source \in Sources : Side(source) \subseteq Record
      <4>1. /\ {"position", "transaction"} \subseteq EntityTypes
            /\ {0} \subseteq Nat
            /\ Amounts \subseteq Int
        BY ContractAssumption DEF EntityTypes
      <4> QED
        BY <4>1 DEF Side, Record
    <3> QED
      BY <3>1 DEF Init, Sources
  <2>3. i.type = c.type /\ i.key = c.key /\ i.id # c.id
    BY DEF Init, Side
  <2> QED
    BY <2>1, <2>2, <2>3, JudgeType DEF TypeOK, verdict
<1>2. TypeOK /\ [UNCHANGED vars]_vars => TypeOK'
  BY DEF TypeOK, vars, verdict
<1> QED
  BY <1>1, <1>2, PTL DEF Spec

\* Swapping the two sides of a pair never changes the verdict (rules.go: the rules compare
\* differences and equalities, not sides).
THEOREM RulesAreSymmetric == Spec => []SidesAgree
<1>1. TypeOK => SidesAgree
  BY JudgeIsSymmetric DEF TypeOK, SidesAgree, verdict
<1> QED
  BY <1>1, RulesTypeOK, PTL

\* Loosening the tolerances of the configuration keeps every MATCH.
THEOREM LooserToleranceKeepsMatch == Spec => []LooserKeepsMatch
<1>1. TypeOK => LooserKeepsMatch
  <2> SUFFICES ASSUME TypeOK, NEW looser \in Configs,
                      looser.price >= cfg.price, looser.qty >= cfg.qty, verdict = Match
               PROVE  Judge(looser, i, c) = Match
    BY DEF LooserKeepsMatch
  <2>1. looser \in Config
    BY ContractAssumption DEF Configs, Config
  <2> QED
    BY <2>1, JudgeIsMonotone DEF TypeOK, verdict
<1> QED
  BY <1>1, RulesTypeOK, PTL

\* The reason code of a BREAK names a difference of the pair, the first in rule order.
THEOREM ReasonsAreTrue == Spec => []ReasonNamesTheDifference
<1>1. TypeOK => ReasonNamesTheDifference
  <2> SUFFICES ASSUME TypeOK PROVE ReasonNamesTheDifference
    OBVIOUS
  <2>1. /\ Match.reason = NoReason
        /\ \A reason : Break(reason).reason = reason /\ Break(reason) # Match
    BY DEF Match, Break
  <2>2. i.val = c.val => ~Exceeds(i.val, c.val, cfg.price)
    BY DEF TypeOK, Record, Config, Exceeds, AbsDiff
  <2> QED
    BY <2>1, <2>2, JudgeByRule DEF TypeOK, ReasonNamesTheDifference, verdict, NoReason
<1> QED
  BY <1>1, RulesTypeOK, PTL

\* The tolerances are what decides (rules.go): no difference above its tolerance is missed,
\* and none below it is made up, whatever floating point does to a difference that equals
\* its tolerance.  Only a transaction's amount breaks inside its tolerance, as a duplicate,
\* and only a transaction's quantity is never looked at for itself.
THEOREM TolerancesDecide ==
    ASSUME NEW conf \in Config, NEW int \in Record, NEW cust \in Record
    PROVE  LET qtyBy == AbsDiff(int.qty, cust.qty)
               valBy == AbsDiff(int.val, cust.val)
               broken == Judge(conf, int, cust).status = "BREAK"
           IN  /\ valBy > conf.price => broken
               /\ int.type = "position" /\ qtyBy > conf.qty => broken
               /\ broken => \/ valBy > 0 /\ valBy >= conf.price
                            \/ int.type = "position" /\ qtyBy > 0 /\ qtyBy >= conf.qty
                            \/ int.type # "position" /\ valBy > 0 /\ qtyBy = 0
<1> DEFINE qtyBy == AbsDiff(int.qty, cust.qty)
           valBy == AbsDiff(int.val, cust.val)
<1>1. /\ int.qty \in Int /\ cust.qty \in Int /\ int.val \in Int /\ cust.val \in Int
      /\ conf.qty \in Nat /\ conf.price \in Nat
  BY DEF Record, Config
<1>2. /\ qtyBy \in Nat /\ (qtyBy = 0 <=> int.qty = cust.qty)
      /\ valBy \in Nat /\ (valBy = 0 <=> int.val = cust.val)
  BY <1>1 DEF AbsDiff
<1>3. /\ valBy > conf.price => Exceeds(int.val, cust.val, conf.price)
      /\ qtyBy > conf.qty => Exceeds(int.qty, cust.qty, conf.qty)
      /\ Exceeds(int.val, cust.val, conf.price) => valBy > 0 /\ valBy >= conf.price
      /\ Exceeds(int.qty, cust.qty, conf.qty) => qtyBy > 0 /\ qtyBy >= conf.qty
  BY <1>1, <1>2 DEF Exceeds
<1>4. Match.status # "BREAK" /\ \A reason : Break(reason).status = "BREAK"
  BY DEF Match, Break
<1> HIDE DEF qtyBy, valBy
<1>5. CASE int.type = "position"
  BY <1>3, <1>4, <1>5, JudgeByRule DEF qtyBy, valBy
<1>6. CASE int.type # "position"
  <2>1. int.key = cust.key /\ int.qty = cust.qty /\ int.id # cust.id /\ int.val # cust.val
            => valBy > 0 /\ qtyBy = 0
    BY <1>2
  <2> QED
    BY <1>3, <1>4, <1>6, <2>1, JudgeByRule DEF qtyBy, valBy
<1> QED
  BY <1>5, <1>6
=============================================================================
