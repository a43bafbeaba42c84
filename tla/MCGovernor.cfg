SPECIFICATION Spec
CONSTANTS
  Request = {r1, r2, r3, r4}
  NoPin = NoPin
  Pins = {3}
  Deadlines = {6}
  Second = 2
  Poll = 2
  ExhaustBackoff = 3
  GrowInterval = 2
  DissolveAfter = 3
  MaxPinChanges = 1
  MaxRestarts = 1
  Horizon = 9
SYMMETRY Symmetry
INVARIANTS
  PermitsCounted
  OverCommitBounded
  StaysDissolved
PROPERTIES
  CapRisesPaced
  DrainHonoured
CHECK_DEADLOCK FALSE
