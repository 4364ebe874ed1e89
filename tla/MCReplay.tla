------------------------------ MODULE MCReplay ------------------------------
(* Instances of the replay harness for TLC. *)
EXTENDS ReplayProps, TLC

Rec(id, type, source, val) ==
    [id |-> id, type |-> type, source |-> source, key |-> 1, qty |-> 1, val |-> val]

MCCfg == [price |-> 1, qty |-> 0]
MCRunType == [pos |-> "position"]

\* A pair that breaks on its value.
BrokenPair == {{Rec("i1", "position", "internal", 5), Rec("k1", "position", "custodian", 9)}}
\* A feed corrects the custodian's value.
Correction == {Rec("k1", "position", "custodian", 5)}

\* An internal record that has no counterpart.
Alone == {{Rec("i1", "position", "internal", 5)}}
MCSymmetry == Permutations(Replays) \union Permutations(Calls)
=============================================================================
