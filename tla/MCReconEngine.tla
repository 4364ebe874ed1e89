---------------------------- MODULE MCReconEngine ----------------------------
(* Instances of the engine for TLC. *)
EXTENDS ReconEngineProps, TLC

Rec(id, type, source, key, qty, val) ==
    [id |-> id, type |-> type, source |-> source, key |-> key, qty |-> qty, val |-> val]

MCCfg == [price |-> 1, qty |-> 0]
MCRunType == [pos |-> "position", txn |-> "transaction", lot |-> "tax_lot"]

\* A record on each side of key 1 that agree, two more on key 1 (a second internal one and
\* a custodian one with another value), and one on each side with no counterpart.
Book(type) ==
    {Rec("i1", type, "internal", 1, 1, 5), Rec("i2", type, "internal", 1, 1, 9),
     Rec("i3", type, "internal", 2, 1, 5), Rec("k1", type, "custodian", 1, 1, 5),
     Rec("k2", type, "custodian", 1, 1, 9), Rec("k3", type, "custodian", 3, 1, 5)}

AllBooks == SUBSET Book("position") \union SUBSET Book("transaction")

\* One matched key whose custodian value a feed corrects into a break, one unmatched
\* record a side; a feed may also add a second custodian record under key 1.
PairBook == {Rec("i1", "position", "internal", 1, 1, 5), Rec("k1", "position", "custodian", 1, 1, 5),
             Rec("k3", "position", "custodian", 3, 1, 5)}
PairBooks == {PairBook}

\* A break found by a rule and one for want of a counterpart.
BrokenBooks == {{Rec("i1", "position", "internal", 1, 1, 5), Rec("k1", "position", "custodian", 1, 1, 9),
                 Rec("k3", "position", "custodian", 3, 1, 5)}}
Corrections == {Rec("k1", "position", "custodian", 1, 1, 9)}
Duplicates == {Rec("k2", "position", "custodian", 1, 1, 9)}
PairRuns == [pos |-> "position"]
TwoRuns == [pos |-> "position", pos2 |-> "position"]

MCSymmetry == Permutations(Calls)
=============================================================================
