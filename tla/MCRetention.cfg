SPECIFICATION FairSpec
CONSTANTS
  w1 = w1
  w2 = w2
  Worker = {w1, w2}
  NoWorker = NoWorker
  CompactAfter = 0
  MaxDropped = 1
INVARIANTS
  RequestsKept
PROPERTIES
  DebtPaid
