SPECIFICATION Spec
CONSTANTS
    None = None
    c1 = c1
    c2 = c2
    k1 = k1
    u1 = u1
    u2 = u2
    Users = {u1, u2}
    Clients = {c1, c2}
    Calls = {k1}
    Limits = {1, 2}
    MaxSent = 2
    MaxStreams = 3
    MaxTime = 1
INVARIANTS
    TypeOK
    MissesNothing
    CutOffOnlyAfterLate
    StreamsAreUsed
    PagesCoverOnce
    AtMostOnce
PROPERTIES
    ImplementsBroadcast
SYMMETRY Interchangeable
CHECK_DEADLOCK FALSE
