CONSTANTS
  Browsers = {b1, b2}
  Subjects = {alice, bob, carol}
  Admitted = {alice, bob}
  Policies = {p, q}
  MaxSessions = 4
  MaxPreAuths = 3
  PreAuthLimit = 1
  MaxWork = 3
  None = None
SPECIFICATION Spec
SYMMETRY Symmetric
CHECK_DEADLOCK FALSE
INVARIANT SessionsSound
PROPERTY ActsOnWhatWasSeen
