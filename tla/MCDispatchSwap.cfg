SPECIFICATION Spec
CONSTANTS
  k1 = k1
  k2 = k2
  Key = {k1, k2}
  NoKey = NoKey
  NoJob = NoJob
  InitOrder <- MCInitOrder
  InitRpm <- MCSwapRpm
  RpmMax = 2
  Rpms = {1, 2}
  Backoffs = {2}
  Deadlines = {3}
  Prefers = {0}
  UpstreamWindow = 2
  Jitter = 1
  GrantGap = 1
  PollCap = 1
  MaxAcquires = 2
  Horizon = 4
  MaxGen = 2
INVARIANTS
  TypeOK
  SlotsAccounted
  WaitIsExact
PROPERTIES
  GrantWithinBudget
  CooldownKept
CHECK_DEADLOCK FALSE
