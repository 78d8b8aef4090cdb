SPECIFICATION ConsumersFairSpec
CONSTANTS
    Names = {"app"}
    Projects = {"web"}
    KeyOf <- MCKeyOf
    Users <- MCUsers
    Enforced = {"byService"}
    None = None
    MaxId = 2
    MaxAssignment = 2
    MaxTrouble = 1
    MaxLooks = 2
    MaxSets = 1
CHECK_DEADLOCK FALSE
INVARIANTS TokensWanted EnforcedOnce
PROPERTIES EventuallyAgreed
