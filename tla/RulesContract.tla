---------------------------- MODULE RulesContract ----------------------------
(***************************************************************************)
(* What the comparison rules promise about every pair they judge.  A state *)
(* is one call of ApplyRules: a configuration and a pair of records with   *)
(* the same key.  Nothing moves; the invariants are statements about the   *)
(* verdict on each pair.                                                   *)
(***************************************************************************)
EXTENDS ReconRules

CONSTANTS
    Amounts,      \* the quantities and values of the records
    Tolerances    \* the tolerances of the configurations

ASSUME ContractAssumption == Amounts \subseteq Int /\ Tolerances \subseteq Nat

VARIABLES cfg, i, c
vars == <<cfg, i, c>>

Configs == [price : Tolerances, qty : Tolerances]

Side(source) == [id : Ids, type : {"position", "transaction"}, source : {source},
                 key : {0}, qty : Amounts, val : Amounts]

Init ==
    /\ cfg \in Configs
    /\ i \in Side("internal")
    /\ c \in {r \in Side("custodian") : r.type = i.type /\ r.id # i.id}

Spec == Init /\ [][UNCHANGED vars]_vars

verdict == Judge(cfg, i, c)

\* Configurations, records, and the shape of a verdict: a BREAK has a reason code, a
\* MATCH has none (domain-model.md:75).
TypeOK ==
    /\ cfg \in Config
    /\ i \in Record /\ c \in Record
    /\ i.type = c.type /\ i.key = c.key /\ i.id # c.id
    /\ verdict \in Verdict
    /\ verdict.status = "BREAK" <=> verdict.reason # NoReason

\* The rules judge a pair, not a side: had the custodian's values been the internal
\* ones and the internal values the custodian's, the verdict would be the same.
SidesAgree == Judge(cfg, c, i) = verdict

\* Loosening a tolerance never turns a MATCH into a BREAK, whatever rule fires first.
LooserKeepsMatch ==
    \A looser \in Configs :
        /\ looser.price >= cfg.price
        /\ looser.qty >= cfg.qty
        /\ verdict = Match
        => Judge(looser, i, c) = Match

\* A reason code names a difference the pair has, and the one the rule order gives it:
\* a price difference is reported only when the quantities agree, a duplicate only when
\* they are equal, and an amount mismatch only when they differ as well (with equal
\* quantities the duplicate rule answers first, whatever the tolerance).
ReasonNamesTheDifference ==
    LET qtyDiffers == Exceeds(i.qty, c.qty, cfg.qty)
        valDiffers == Exceeds(i.val, c.val, cfg.price)
    IN  /\ verdict.reason = "POS_QUANTITY_MISMATCH" => qtyDiffers
        /\ verdict.reason = "POS_PRICE_SOURCE_DIFF" => valDiffers /\ ~qtyDiffers
        /\ verdict.reason = "TXN_DUPLICATE" => i.val # c.val /\ i.qty = c.qty
        /\ verdict.reason = "TXN_AMOUNT_MISMATCH" => valDiffers /\ i.qty # c.qty
        /\ verdict = Match => ~valDiffers

-----------------------------------------------------------------------------
(* What the documentation says of a verdict, and the code does not do. *)

\* reason-codes.md:93 says a MATCH means "Records agree within tolerance".  The
\* transaction rules never look at the quantity of a pair whose amounts agree.
MatchMeansAgreement ==
    verdict = Match => /\ AbsDiff(i.qty, c.qty) <= cfg.qty
                       /\ AbsDiff(i.val, c.val) <= cfg.price
=============================================================================
