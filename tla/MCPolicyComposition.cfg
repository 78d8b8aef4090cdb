SPECIFICATION ComposeSpec
CONSTANTS
    Cases <- MCCases
    Mounts <- MCMounts
    Outside <- MCOutside
    Length <- MCLength
    Begins <- MCBegins
    IdentityLimit = 1
    EnvLimit = 1
    Oversized = {"n"}
    ValueLimit = 1
    AmountLimit = 10
    None = None
CHECK_DEADLOCK FALSE
INVARIANTS ComposedSound ReadAlike
