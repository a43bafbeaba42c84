SPECIFICATION SelectionSpec
CONSTANTS
  t1 = t1
  t2 = t2
  s1 = s1
  m1 = m1
  m2 = m2
  k1 = k1
  k2 = k2
  Task = {t1, t2}
  Session = {s1}
  Provider = {"nvidia", "local", "groq"}
  Model = {m1, m2}
  None = None
  Wild = Wild
  Free = Free
  Upstream = "nvidia"
  Env <- Environment
  Stores <- Saves
  Elo <- Ratings
  Restored <- Found
  Samples = {10, 40}
  Period = 6
  Ttl = 1
  Decay = 1
  MaxNow = 1
  MaxEvents = 3
SYMMETRY Symmetry
INVARIANTS
  LanesAndTurns

  
CHECK_DEADLOCK FALSE
