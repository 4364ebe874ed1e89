\* One call that finds two breaks and may stop anywhere.
CONSTANTS
    Ids = {"i1", "k1", "k2", "k3"}
    RoundsUp = {}
    Calls = {"c1"}
    Runs = {"pos"}
    RunType <- PairRuns
    Tables <- BrokenBooks
    Feed = {}
    Cfg <- MCCfg
SPECIFICATION Spec
CHECK_DEADLOCK FALSE
INVARIANT BreakHasException
