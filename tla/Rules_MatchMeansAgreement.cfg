\* Amounts 0..3 with tolerances 0..2: differences below, at and above each tolerance,
\* one pair at the tolerance that rounds up and others that do not.
CONSTANTS
    Ids = {"a", "b"}
    Amounts = {0, 1, 2, 3}
    Tolerances = {0, 1, 2}
    RoundsUp = {}
SPECIFICATION Spec
INVARIANT MatchMeansAgreement
