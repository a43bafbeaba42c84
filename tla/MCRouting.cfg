SPECIFICATION FairSpec
CONSTANTS
  p1 = p1
  p2 = p2
  r1 = r1
  Request = {r1}
  Provider = {p1, p2}
  Streamed = p1
  MaxFailures = 2
  OpenTimeout = 1
  HalfOpenMax = 2
  Burst = 1
  MaxRetries = 3
  MaxWait = 2
INVARIANTS
  BreakerTrips
PROPERTIES
  BreakerBacked
  EveryCandidateTried
  RequestEnds
