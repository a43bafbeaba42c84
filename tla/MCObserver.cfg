SPECIFICATION Spec
CONSTANTS
  delta = delta
  last = last
  other = other
  broken = broken
  calls = calls
  second = second
  LF = LF
  CR = CR
  Prefix = Prefix
  Colon = Colon
  Text = Text
  Json = {delta, last, other, broken, calls, second}
  Doc <- Docs6
  Chunk <- Chunks
  Absent = Absent
  Invalid = Invalid
  None = None
  MaxEvent = 4
  MaxIndexed = 2
  MaxCount = 4
  MaxChunks = 5
INVARIANTS
  ReportedExactly
  MemoryBounded
CHECK_DEADLOCK FALSE
