SPECIFICATION FairSpec
CONSTANTS
    b1 = b1
    b2 = b2
    k = k
    r = r
    Conns = {c1, c2}
    Vaults = {v1, v2}
    BindingIds = {b1, b2}
    TransitKeys = {k}
    Roles = {r}
    Views <- MCViews
    FirstViews <- MCFirstViews
    MaxWork = 4
    MaxSerial = 4
    MaxTokens = 2
    WrapLimit = 1
    None = None
CHECK_DEADLOCK FALSE
INVARIANTS WrappingSound SignedWhileOffered ForwardedNeverSigns
PROPERTIES StaysFresh
