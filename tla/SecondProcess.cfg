SPECIFICATION Spec
CONSTANTS
    j1 = j1  j2 = j2  j3 = j3  p1 = p1  p2 = p2
    Unset = Unset
    Malformed = Malformed
    NoConfig = NoConfig
    Torn = Torn
    Jobs <- Jobs1
    Processes <- TwoProcesses
    Sources <- TwoSources
    Limits <- AllLimits
    Faults = {}
    MaxStarts = 2
INVARIANTS
    RecoversTheDead
CHECK_DEADLOCK FALSE
