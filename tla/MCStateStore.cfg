SPECIFICATION Spec
CONSTANTS
  s1 = s1
  t1 = t1
  t2 = t2
  Task = {t1}
  Provider = {"a"}
  Key = {"k"}
  Session = {s1}
  None = None
  LegacyHealth <- LegacyRatings
  Legacy <- LegacyPins
  Affinity <- LegacyUses
  Second = 2
  Window = 6
  Grace = 12
  Backoffs = {3}
  Ttl = 2
  Rpm = 2
  MaxFailures = 1
  Timeout = 4
  HalfOpenMax = 1
  MaxNow = 6
  MaxEvents = 3
  MaxSetbacks = 2
  MaxBacklog = 1
INVARIANTS
  WindowsRestored
  RestartLosesNothing
PROPERTIES
  PinsHonoured
CHECK_DEADLOCK FALSE
