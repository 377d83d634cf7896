SPECIFICATION FairSpec
CONSTANTS
    Callers = {c1, c2, c3}
    Threshold = 2
    OpenTimeout = 2
INVARIANTS
    TypeOK
    CounterInv
    LateFailuresBounded
PROPERTIES
    FollowsDiagram
    OpenLeadsToProbe
    RecoversForGood
