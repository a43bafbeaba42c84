SPECIFICATION FairSpec
CONSTANTS
  k1 = k1
  k2 = k2
  Key = {k1, k2}
  NoKey = NoKey
  NoJob = NoJob
  InitOrder <- MCInitOrder
  InitRpm <- MCInitRpm
  RpmMax = 2
  Rpms = {1, 2}
  Backoffs = {2}
  Deadlines = {1, 3}
  Prefers = {1}
  UpstreamWindow = 2
  Jitter = 1
  GrantGap = 1
  PollCap = 1
  MaxAcquires = 3
  Horizon = 4
  MaxGen = 0
INVARIANTS
  InArrivalOrder
  UpstreamQuota
PROPERTIES
  Resolved
CHECK_DEADLOCK FALSE
