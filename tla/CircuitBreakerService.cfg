SPECIFICATION FairSpec
CONSTANTS
    NaN = NaN
    Absent = Absent
    s1 = s1
    c1 = c1
    c2 = c2
    c3 = c3
    Services = {s1}
    Calls = {c1, c2, c3}
    DefaultConfig <- MCDefault
    Configs <- MCConfigs
    Forcible = {s1}
    MaxTime = 4
    MaxFailures = 5
INVARIANTS
    TypeOK
    ClosedBelowThreshold
    WindowServed
PROPERTIES
    RefusalEndsByTimeOrReset
    TripIsEarned
    ImplementsGate
    EventuallyProbed
