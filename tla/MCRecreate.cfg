CONSTANTS
    Scanners = {s1}
    MaxId = 3
    MaxRecreates = 2
    MaxFaults = 3
    MaxForeign = 1
    MaxTrouble = 4
    MaxQueue = 2
SPECIFICATION FairSpec
INVARIANT ReportsKept
PROPERTY FailureArrives
CHECK_DEADLOCK FALSE
