\* Two engine calls on one run over a broken pair that a feed corrects, a capture of one
\* of their exceptions and two replays of it.
CONSTANTS
    Ids = {"i1", "k1"}
    RoundsUp = {}
    c1 = c1
    c2 = c2
    Calls = {c1, c2}
    Runs = {"pos"}
    RunType <- MCRunType
    Tables <- BrokenPair
    Feed <- Correction
    Cfg <- MCCfg
    DefaultCfg <- MCCfg
    Captures = {"case1"}
    r1 = r1
    r2 = r2
    Replays = {r1, r2}
SYMMETRY MCSymmetry
SPECIFICATION HarnessSpec
CHECK_DEADLOCK FALSE
INVARIANTS HarnessTypeOK ExpectsItsException FailingMeansMixedRun FaithfulReplay
PROPERTY CasesSpec
