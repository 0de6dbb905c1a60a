SPECIFICATION SafetySpec
CONSTANTS
    j1 = j1  j2 = j2  j3 = j3  w1 = w1  w2 = w2
    NoJob = NoJob
    Jobs <- Jobs2
    Workers <- Workers2
    Uploads <- Jobs2
    Hooked = {}
    QueueSize = 1
    JobTimeoutSeconds = 1
    JobRetentionLimit = 1
    MetadataRetentionLimit = 1
    Faults = {"fs", "init", "panic", "cancel"}
    MaxCrashes = 2
PROPERTIES ImplementsLifecycle FailedIsFinal
CHECK_DEADLOCK FALSE
