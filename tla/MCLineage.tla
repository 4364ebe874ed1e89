------------------------------ MODULE MCLineage ------------------------------
(* Instances of the lineage query for TLC. *)
EXTENDS LineageProps, TLC

Rec(id, type, source, qty) ==
    [id |-> id, type |-> type, source |-> source, key |-> 1, qty |-> qty, val |-> 0]

MCCfg == [price |-> 0, qty |-> 0]
MCRunType == [r \in {"mon", "tue"} |-> "position"]

\* A position without its counterpart, which the feed may bring: a break, then a match.  A
\* transaction of a batch without raw records, which the runs have nothing to do with.
Alone == {{Rec("i1", "position", "internal", 5), Rec("t1", "transaction", "internal", 5)}}
Counterpart == {Rec("k1", "position", "custodian", 5)}
MCBatchOf == [i1 |-> NoBatch, t1 |-> "b0", k1 |-> "b1", l1 |-> NoBatch]
MCRawsOf == [b0 |-> {}, b1 |-> {"w1", "w2"}]
MCLotExceptions == {[call |-> NoReason, run |-> "mon", type |-> "tax_lot", entity |-> "l1"]}

\* Nothing that the query or its properties read depends on the other tables.
MCView == <<records, results, exceptions, pc, run, snapshot, loop, query>>

MCSymmetry == Permutations(Calls)
=============================================================================
