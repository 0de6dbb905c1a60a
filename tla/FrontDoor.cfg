SPECIFICATION Spec
CONSTANTS
    probe = probe  nokey = nokey  r1 = r1  r2 = r2  r3 = r3
    Requests <- AllRequests
    Probes <- ProbeSet
    KeyHolders <- WithKey
    ApiKeysConfigured = TRUE
    RequestTimeoutSeconds = 1
    LimitPerMinute = 1
    WindowSeconds = 3
    TicksPerSecond = 2
    MaxTime = 8
    Never = Never
INVARIANTS
    AtMostTwiceTheLimit
    RefusedOnlyWhenSpent
    RetryAfterCoversWindow
CHECK_DEADLOCK FALSE
