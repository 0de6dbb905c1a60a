SPECIFICATION Spec
CONSTANTS
    j1 = j1  j2 = j2  j3 = j3  w1 = w1  w2 = w2
    NoJob = NoJob
    Jobs <- Jobs2
    Workers <- Workers2
    Uploads <- Jobs1
    Hooked <- Jobs2
    QueueSize = 1
    JobTimeoutSeconds = 1
    JobRetentionLimit = 2
    MetadataRetentionLimit = 1
    Faults = {"panic", "cancel"}
    MaxCrashes = 2
INVARIANTS
    QueuedIsPending
    FinishedIsSettled
PROPERTIES
    AcceptedGetsOutcome
    AcceptedGetsWebhook
CHECK_DEADLOCK FALSE
