\* Two engine calls, on one run or on two, over a pair for each rule or a record without
\* its counterpart, which a feed corrects or brings, and an explanation of an exception.
CONSTANTS
    Ids = {"i1", "k1", "k2", "t1", "u1"}
    RoundsUp = {}
    c1 = c1
    c2 = c2
    Calls = {c1, c2}
    Runs = {"mon", "tue", "txn"}
    RunType <- MCRunType
    Tables <- Pairs
    Feed <- Feeds
    Cfg <- MCCfg
SYMMETRY MCSymmetry
VIEW MCView
SPECIFICATION ExplainSpec
CHECK_DEADLOCK FALSE
INVARIANTS ExplainTypeOK UnmatchedIsEarned ExplainsItsPair  GenericMeansLateCounterpart ShowsItsBreak
