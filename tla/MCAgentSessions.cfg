SPECIFICATION FairSpec
CONSTANTS
    Healths <- MCHealths
    MaxConns = 2
    MaxTrouble = 1
    MaxQueue = 1
CHECK_DEADLOCK FALSE
INVARIANT ShownIsTrue
PROPERTIES NothingOlder Settles
