SPECIFICATION Spec
CONSTANTS
    j1 = j1  j2 = j2
    Jobs <- Jobs2
    WebhookMaxAttempts = 3
    TimeoutSeconds = 1
    Faults = {"net", "reject", "disk", "stop"}
INVARIANTS
    AppliedOnce
    DeadLetterIsLast
PROPERTIES
    DeliveryEnds
    ImplementsAnnouncement
CHECK_DEADLOCK FALSE
