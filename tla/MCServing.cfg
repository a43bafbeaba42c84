SPECIFICATION SpecAnswered
CONSTANTS
  r1 = r1
  r2 = r2
  r3 = r3
  Request = {r1, r2, r3}
  Streams = {r1, r2}
  Buffereds = {r3}
  Listings = {r2, r3}
  None = None
  MaxInflight = 2
  Workers = 1
  Cap = 1
  MaxTries = 1
INVARIANTS
  ResourcesReturned
  MeasuredOnEveryExit
PROPERTIES
  FreedOnHangUp
CHECK_DEADLOCK FALSE
