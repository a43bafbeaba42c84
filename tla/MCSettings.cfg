SPECIFICATION Spec
CONSTANTS
  u1 = u1
  u2 = u2
  k1 = k1
  k2 = k2
  c1 = c1
  p1 = p1
  p2 = p2
  l1 = l1
  l2 = l2
  Handler = {p1, p2}
  User = {u1, u2}
  Key = {k1, k2}
  Client = {c1}
  Url = {l1, l2}
  NoKey = NoKey
  None = None
  Days = {0, 1}
  Window = 2
  MaxRequests = 2
  MaxFaults = 1
  ThrottleMax = 0
SYMMETRY Symmetry
INVARIANTS
  StoreSound
  PageIsTrue
PROPERTIES
  RegisterSpec
  AuthorityHeld
CHECK_DEADLOCK FALSE
