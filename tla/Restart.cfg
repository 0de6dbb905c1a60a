SPECIFICATION SafetySpec
CONSTANTS
    j1 = j1  j2 = j2  j3 = j3  w1 = w1  w2 = w2
    NoJob = NoJob
    Jobs <- Jobs1
    Workers <- Workers1
    Uploads <- Jobs1
    Hooked <- Jobs1
    QueueSize = 1
    JobTimeoutSeconds = 1
    JobRetentionLimit = 1
    MetadataRetentionLimit = 1
    Faults = {}
    MaxCrashes = 1
INVARIANTS
    RecoveredIsSettled
CHECK_DEADLOCK FALSE
