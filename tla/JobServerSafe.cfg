SPECIFICATION SafetySpec
CONSTANTS
    j1 = j1  j2 = j2  j3 = j3  w1 = w1  w2 = w2
    NoJob = NoJob
    Jobs <- Jobs3
    Workers <- Workers2
    Uploads <- Jobs3
    Hooked <- Jobs3
    QueueSize = 1
    JobTimeoutSeconds = 1
    JobRetentionLimit = 1
    MetadataRetentionLimit = 1
    Faults = {"init", "panic", "cancel"}
    MaxCrashes = 2
SYMMETRY Symmetry
INVARIANTS
    TypeOK
    ServedByOneWorker
    OneVerdict
    AcceptedIsOnDisk
    ImageOutlivesInference
    RunningHasWorker
    FinishedRecordsBounded
CHECK_DEADLOCK FALSE
