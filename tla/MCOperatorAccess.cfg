CONSTANTS
  Keys = {k1, k2, k3}
  Conns = {c1, c2}
  Labels = {l1, l2}
  Agents = {a1, a2}
  Policies = {p1, p2}
  Sources = {x, y}
  a1 = a1
  a2 = a2
  p1 = p1
  p2 = p2
  Grants <- MCGrants
  PendingLimit = 1
  MaxWork = 3
  None = None
SYMMETRY MCSymmetry
SPECIFICATION Spec
CHECK_DEADLOCK FALSE
INVARIANTS KeyListsSound RevocationHolds
PROPERTIES DecisionsStand GrantConfines BoundAsAsked
