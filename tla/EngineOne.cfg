\* One call over every sub-book of six records, of each entity type, each statement
\* failing or not: what it leaves, the refinement of the ledger, and that the call ends.
CONSTANTS
    Ids = {"i1", "i2", "i3", "k1", "k2", "k3"}
    RoundsUp = {}
    Calls = {"c1"}
    Runs = {"pos", "txn", "lot"}
    RunType <- MCRunType
    Tables <- AllBooks
    Feed = {}
    Cfg <- MCCfg
SPECIFICATION FairSpec
CHECK_DEADLOCK FALSE
INVARIANTS TypeOK AuditChain PrefixOfOrder AtMostOneTorn OneSidePerKey
PROPERTIES LedgerSpec CallEnds
