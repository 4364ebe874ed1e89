\* Two calls on two runs over one book, two custodian records under one key.
CONSTANTS
    Ids = {"i1", "k1", "k2", "k3"}
    RoundsUp = {}
    Calls = {"c1", "c2"}
    Runs = {"pos", "pos2"}
    RunType <- TwoRuns
    Tables <- PairBooks
    Feed <- Duplicates
    Cfg <- MCCfg
SPECIFICATION Spec
CHECK_DEADLOCK FALSE
INVARIANT Deterministic
