SPECIFICATION Spec
CONSTANTS
    p = p
    q = q
    c1 = c1
    c2 = c2
    b1 = b1
    Names <- MCNames
    Bindings <- MCBindings
    Contents <- MCContents
    Written <- MCWritten
    ValueBindings <- MCBindings
    MaxGen = 2
    MaxRev = 2
    MaxFaults = 2
    None = None
CHECK_DEADLOCK FALSE
INVARIANTS PublishedMatchesStore
