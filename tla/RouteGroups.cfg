SPECIFICATION Spec
CONSTANTS
    Keys <- SomeKeys
    Data = {v1, v2}
    Nothing = Nothing
    Buckets = 3
    MaxChain = 4
    Numbers = {1, 2, 3, 4}
    MaxNodes = 5
    K = 2
    LeafSize = 2
    MaxLeaves = 3
    LastKey = 8
    Base = 4
    Half = 64
    Elements = {1, 2}
    MaxSlice = 3
    MaxArrays = 2
    MaxViews = 1
    MaxRoutes = 3
    MaxHandlers = 3
    MaxCalls = 2
INVARIANT
    RoutesKeepTheirHandlers
CHECK_DEADLOCK FALSE
