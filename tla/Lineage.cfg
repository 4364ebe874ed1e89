\* Two engine calls, on one run or on two, over a pair that a feed turns into a break, and
\* a query for the entity, for an exception of it or for one of a tax lot.  The view leaves
\* out events and edges.
CONSTANTS
    Ids = {"i1", "t1", "k1", "l1"}
    RoundsUp = {}
    c1 = c1
    c2 = c2
    Calls = {c1, c2}
    Runs = {"mon", "tue"}
    RunType <- MCRunType
    Tables <- Alone
    Feed <- Counterpart
    Cfg <- MCCfg
    Batches = {"b0", "b1"}
    Raws = {"w1", "w2"}
    BatchOf <- MCBatchOf
    RawsOf <- MCRawsOf
    LotExceptions <- MCLotExceptions
SYMMETRY MCSymmetry
VIEW MCView
SPECIFICATION LineageSpec
CHECK_DEADLOCK FALSE
INVARIANTS LineageTypeOK GraphIsInBetween DanglesOnlyForExceptions OnlyEmptyBatchesStandApart RaisedByItsBreak
