\* An engine call over a pair that agrees or breaks and whose missing value a feed adds, and
\* two scorings of its results and exceptions, while operators review and the record grows old.
CONSTANTS
    Ids = {"i1", "k1"}
    RoundsUp = {}
    c1 = c1
    Calls = {c1}
    Runs = {"pos"}
    RunType <- MCRunType
    Tables <- Pairs
    Feed <- Correction
    Cfg <- MCCfg
    t1 = t1
    t2 = t2
    Scorings = {t1, t2}
    Ages = {0, 8}
    Decisions = {"resolved"}
SYMMETRY MCSymmetry
SPECIFICATION TrustSpec
CHECK_DEADLOCK FALSE
INVARIANTS TrustTypeOK LevelIsEarned ExceptionScoresAsBreak WaysAgree
PROPERTY BoardSpec
