\* Two requests of any kind on a pool of one connection; services of two statements.
CONSTANTS
    Requests = {r1, r2}
    MaxConns = 1
    MaxStatements = 2
SPECIFICATION FairSpec
CHECK_DEADLOCK FALSE
INVARIANTS ApiTypeOK GracefulUntilDeadline
PROPERTIES PromiseSpec RequestEnds ShutdownEnds
