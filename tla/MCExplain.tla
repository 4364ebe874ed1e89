------------------------------ MODULE MCExplain ------------------------------
(* Instances of the explanation for TLC. *)
EXTENDS ExplainProps, TLC

Rec(id, type, source, qty, val) ==
    [id |-> id, type |-> type, source |-> source, key |-> 1, qty |-> qty, val |-> val]

MCCfg == [price |-> 1, qty |-> 0]
MCRunType == [mon |-> "position", tue |-> "position", txn |-> "transaction"]

\* A pair of positions and a pair of transactions for each rule, two candidates for one
\* counterpart, and a record of each side without any.
P(id, source, qty, val) == Rec(id, "position", source, qty, val)
T(id, source, qty, val) == Rec(id, "transaction", source, qty, val)

Pairs == {
    {P("i1", "internal", 5, 5), P("k1", "custodian", 6, 5)},
    {P("i1", "internal", 5, 5), P("k1", "custodian", 5, 9)},
    {T("t1", "internal", 5, 5), T("u1", "custodian", 5, 9)},
    {T("t1", "internal", 5, 5), T("u1", "custodian", 6, 9)},
    {P("i1", "internal", 5, 5), P("k1", "custodian", 5, 5), P("k2", "custodian", 6, 5)},
    {P("i1", "internal", 5, 5)},
    {P("k1", "custodian", 5, 5)}}

\* A feed brings the counterpart, or corrects the record that broke.
Feeds == {P("i1", "internal", 5, 5), P("k1", "custodian", 5, 5), T("u1", "custodian", 5, 5)}

\* Nothing that the explanation or its properties read depends on the other tables.
MCView == <<records, results, exceptions, pc, run, snapshot, loop, explanation>>

MCSymmetry == Permutations(Calls)
=============================================================================
