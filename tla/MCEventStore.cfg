CONSTANTS
    Retention = 2
    MaxEvents = 5
    MaxFaults = 4
    SyncCoversName = TRUE
SPECIFICATION Spec
INVARIANTS StoreConsistent AckedSurvive
PROPERTY ImplementsLog
