\* Two calls on one run or on two, while a feed corrects the record they compare: completion,
\* determinism, and that each call descends.
CONSTANTS
    Ids = {"i1", "k1", "k2", "k3"}
    RoundsUp = {}
    c1 = c1
    c2 = c2
    Calls = {c1, c2}
    Runs = {"pos", "pos2"}
    RunType <- TwoRuns
    Tables <- PairBooks
    Feed <- Corrections
    Cfg <- MCCfg
SYMMETRY MCSymmetry
SPECIFICATION Spec
CHECK_DEADLOCK FALSE
INVARIANTS CompletedIsAccounted SameInputsSameVerdicts
PROPERTY CallsDescend
