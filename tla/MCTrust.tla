------------------------------- MODULE MCTrust -------------------------------
(* Instances of the trust score service for TLC. *)
EXTENDS TrustProps, TLC

Rec(id, type, source, qty, val) ==
    [id |-> id, type |-> type, source |-> source, key |-> 1, qty |-> qty, val |-> val]

MCCfg == [price |-> 1, qty |-> 0]
MCRunType == [pos |-> "position"]

\* A pair that agrees or breaks on its quantity; the internal record has no market value.
Pairs == {{Rec("i1", "position", "internal", 5, 0), Rec("k1", "position", "custodian", qty, 0)}
             : qty \in {5, 9}}
\* A feed adds the market value.
Correction == {Rec("i1", "position", "internal", 5, 1)}

MCSymmetry == Permutations(Scorings)
=============================================================================
