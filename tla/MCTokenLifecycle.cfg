SPECIFICATION FairSpec
CONSTANTS
    MaxRev = 2
    Settings <- MCSettings
    MaxTokens = 2
    MaxFlight = 1
    MaxQueue = 1
    MaxDrops = 1
    MaxFaults = 1
    MaxTrouble = 2
CHECK_DEADLOCK FALSE
INVARIANTS TokensCurrent NoForgottenToken
PROPERTIES ValuesCurrent DeletedTokensDie CredentialDelivered
