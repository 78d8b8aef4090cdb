CONSTANTS
    Scanners = {s1}
    MaxId = 2
    MaxRecreates = 2
    MaxFaults = 2
    MaxForeign = 0
    MaxTrouble = 4
    MaxQueue = 2
SPECIFICATION Spec
INVARIANT AbsentIsReported
CHECK_DEADLOCK FALSE
