SPECIFICATION Spec
CONSTANTS
    j1 = j1  j2 = j2  j3 = j3  p1 = p1  p2 = p2
    Unset = Unset
    Malformed = Malformed
    NoConfig = NoConfig
    Torn = Torn
    Jobs <- Jobs2
    Processes <- OneProcess
    Sources <- AllSources
    Limits <- AllLimits
    Faults = {"stop", "full", "port"}
    MaxStarts = 3
INVARIANTS
    SoundBeforeWriting
    ReadableUnlessCut
PROPERTIES
    DiskMovesOn
    ImplementsStore
CHECK_DEADLOCK FALSE
