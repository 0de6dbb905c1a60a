SPECIFICATION Spec
CONSTANTS
    w1 = w1  w2 = w2
    Workers <- Workers2
    JobTimeoutSeconds = 1
    MaxJobs = 2
    Unread = Unread
INVARIANTS
    ReadyCount
    FailedCount
    OwnsSessionsToServe
    CountersBalance
    SnapshotGauge
CHECK_DEADLOCK FALSE
