\* One engine call over a record with no counterpart, a capture and a replay.
CONSTANTS
    Ids = {"i1", "k1"}
    RoundsUp = {}
    Calls = {"c1"}
    Runs = {"pos"}
    RunType <- MCRunType
    Tables <- Alone
    Feed = {}
    Cfg <- MCCfg
    DefaultCfg <- MCCfg
    Captures = {"case1"}
    Replays = {"r1"}
SPECIFICATION HarnessSpec
CHECK_DEADLOCK FALSE
INVARIANT MissingSideIsAnError
