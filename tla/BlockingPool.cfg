SPECIFICATION Spec
CONSTANTS
    w1 = w1  w2 = w2  t1 = t1  t2 = t2  t3 = t3  h1 = h1
    Workers <- Workers2
    Threads <- Threads2
    Handlers <- Handlers1
    JobTimeoutSeconds = 1
    RequestTimeoutSeconds = 1
    WebhookTimeoutSeconds = 1
INVARIANTS
    SessionsBounded
PROPERTIES
    SlotReturnsWhileThreadsLast
    RequestIsAnswered
    ShutdownEnds
\* The process may exit, and a process whose threads all hang stands still.
CHECK_DEADLOCK FALSE
