SPECIFICATION Spec
CONSTANTS
    r1 = r1
    r2 = r2
    r3 = r3
    u1 = u1
    u2 = u2
    s1 = s1
    s2 = s2
    s3 = s3
    Requests = {r1, r2, r3}
    Menu <- MCMenu
    Users = {u1, u2}
    Sessions = {s1, s2, s3}
    LoggedIn <- MCLoggedIn
    Second = 2
    MaxTime = 5
    AccessTTL = 2
    RefreshTTL = 4
    SessionTTL = 3
    SlidingWindow = 1
    RedisUp = {TRUE}
    None = None
INVARIANT BlacklistedUntilExpiry
CHECK_DEADLOCK FALSE
