SPECIFICATION Spec
CONSTANTS
    None = None
    r1 = r1
    r2 = r2
    u1 = u1
    u2 = u2
    u3 = u3
    r3 = r3
    Requests = {r1, r2, r3}
    Menu <- MCSequential
    Ids = {u1, u2, u3}
    Emails = {"e1", "e2"}
    Names = {"n1", "n2"}
    Queries <- MCQueries
    InitialUsers <- MCUsers
    RedisUp = {TRUE}
    DbOutcomes = {"ok"}
    RemoveClearsId = FALSE
PROPERTIES
    ListsCleared
CHECK_DEADLOCK FALSE
