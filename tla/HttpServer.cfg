SPECIFICATION Spec
CONSTANTS
    NaN = NaN
    Absent = Absent
    Anything = Anything
    p1 = p1
    p2 = p2
    Checks <- MCChecks
    Kind <- MCKind
    Names <- MCNames
    Reports = {p1, p2}
    CheckConfig <- MCCheck
    Levels <- MCLevels
    DefaultLimit = 7
    StatsLimit = 12
    Errors <- MCErrors
    DefaultConfig <- MCDefault
    DatabaseConfig <- MCDefault
    RedisConfig <- MCRedis
    MaxRequests = 3
    MaxTime = 1
INVARIANTS
    TypeOK
    RetryAfterFits
    GuardsKeepTheirConfig
    RefusedShows
    LogTellsOutcomes
    StatsWeighAlike
SYMMETRY Interchangeable
CHECK_DEADLOCK FALSE
