SPECIFICATION Spec
CONSTANTS
    None = None
    Never = Never
    r1 = r1
    r2 = r2
    counter = counter
    Requests = {r1, r2}
    Asks <- MCAsks
    QueryNames <- MCQueryNames
    Segments <- MCSegments
    Handlers <- MCHandlers
    Base <- MCBase
    Keys <- MCKeys
    OtherKeys = {counter}
    DefaultTTL = 1
    CacheTTL = None
    Counts <- MCCounts
    MaxVersion = 1
    MaxTime = 2
INVARIANTS
    TypeOK
    HandlerRunsOnce
    
    BoundedStaleness
PROPERTIES
    TTLsAreKept
SYMMETRY Interchangeable
CHECK_DEADLOCK FALSE
