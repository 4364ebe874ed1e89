----------------------------- MODULE ReconRules -----------------------------
(***************************************************************************)
(* The comparison rules of the reconciliation engine                       *)
(* (internal/recon/rules.go and ApplyRules in internal/recon/engine.go).   *)
(*                                                                         *)
(* A record is what the rules and the pairing can tell apart of a position *)
(* or a transaction:                                                       *)
(*   key  the pairing key (account and security, for a transaction also    *)
(*        its type and trade date), as its rank in the engine's sort order *)
(*   qty  the quantity                                                     *)
(*   val  the market value of a position, the amount of a transaction      *)
(* Quantities and values are fixed-point integers.  The code computes with *)
(* float64: a difference that is exactly the tolerance in decimal may come *)
(* out above it (5000.01 - 5000.00 > 0.01).  RoundsUp is the set of such   *)
(* pairs; other differences are assumed to compare as their decimals do.   *)
(***************************************************************************)
EXTENDS Integers, Sequences

CONSTANTS
    Ids,        \* entity identifiers (the UUIDs of the records)
    RoundsUp    \* pairs {a, b} whose float64 difference rounds above a tolerance they equal

ASSUME RulesAssumption == RoundsUp \subseteq SUBSET Int

EntityTypes == {"position", "transaction", "tax_lot"}
Sources == {"internal", "custodian"}

Record == [id : Ids, type : EntityTypes, source : Sources, key : Nat, qty : Int, val : Int]

\* ReconConfig: the tolerances the rules compare with.
Config == [price : Nat, qty : Nat]

NoReason == "none"   \* the nil *model.ReasonCode of a MATCH

ReasonCodes == {"POS_QUANTITY_MISMATCH", "POS_PRICE_SOURCE_DIFF", "TXN_DUPLICATE",
                "TXN_AMOUNT_MISMATCH", "MAP_ACCOUNT_UNMAPPED"}

\* What a rule returns; NEAR_MATCH exists in the schema, but no rule returns it.
Verdict == [status : {"MATCH", "BREAK"}, reason : ReasonCodes \union {NoReason}]

Match == [status |-> "MATCH", reason |-> NoReason]
\* Fault: the reason code of a BREAK is lost.
Break_WithoutReason(reason) == [status |-> "BREAK", reason |-> NoReason]
Break(reason) == [status |-> "BREAK", reason |-> reason]

\* Fault: math.Abs is forgotten.
AbsDiff_Signed(a, b) == a - b
AbsDiff(a, b) == IF a >= b THEN a - b ELSE b - a

\* Fault: the comparison is the wrong way round.
Exceeds_Swapped(a, b, tolerance) == AbsDiff(a, b) < tolerance

\* math.Abs(a - b) > tolerance, in float64.  A zero tolerance compares exactly.
Exceeds(a, b, tolerance) ==
    \/ AbsDiff(a, b) > tolerance
    \/ tolerance > 0 /\ AbsDiff(a, b) = tolerance /\ {a, b} \in RoundsUp

-----------------------------------------------------------------------------
(* The rules: i is the internal record, c the custodian record it is paired with. *)

PositionQuantity(cfg, i, c) ==
    IF Exceeds(i.qty, c.qty, cfg.qty) THEN Break("POS_QUANTITY_MISMATCH") ELSE Match

PositionPrice(cfg, i, c) ==
    IF Exceeds(i.val, c.val, cfg.price) THEN Break("POS_PRICE_SOURCE_DIFF") ELSE Match

\* Fault: the quantities are not compared.
TransactionDuplicate_AnyQuantity(i, c) ==
    IF i.key = c.key /\ i.id # c.id /\ i.val # c.val THEN Break("TXN_DUPLICATE") ELSE Match

\* Security and trade date agree whenever the keys do.  The amounts are compared
\* for equality, without the tolerance.
TransactionDuplicate(i, c) ==
    IF i.key = c.key /\ i.qty = c.qty /\ i.id # c.id /\ i.val # c.val
    THEN Break("TXN_DUPLICATE")
    ELSE Match

TransactionAmount(cfg, i, c) ==
    IF Exceeds(i.val, c.val, cfg.price) THEN Break("TXN_AMOUNT_MISMATCH") ELSE Match

\* What each rule of a type says of the pair, in the order of its rule set.
PositionRules(cfg, i, c) == <<PositionQuantity(cfg, i, c), PositionPrice(cfg, i, c)>>
TransactionRules(cfg, i, c) == <<TransactionDuplicate(i, c), TransactionAmount(cfg, i, c)>>

\* The first rule that does not match decides, a MATCH if none does.
ApplyRules(said) ==
    LET hits == {n \in DOMAIN said : said[n].status # "MATCH"}
        first == CHOOSE n \in hits : \A m \in hits : n <= m
    IN  IF hits = {} THEN Match ELSE said[first]

\* The verdict on a pair; reconcilePositions and reconcileTransactions pick the rule set.
Judge(cfg, i, c) ==
    ApplyRules(IF i.type = "position" THEN PositionRules(cfg, i, c)
                                      ELSE TransactionRules(cfg, i, c))

\* A record with no counterpart is a BREAK of its own (persistBreak).
Unmapped == Break("MAP_ACCOUNT_UNMAPPED")
=============================================================================
