SPECIFICATION FairCoalescer
CONSTANTS
  r1 = r1
  r2 = r2
  r3 = r3
  k1 = k1
  Post = {r1, r2, r3}
  Identity = {k1}
  KeyOf <- MCKeyOf
  NoLead = NoLead
  Ttl = 2
  Horizon = 5
INVARIANTS
  NoDeadEntry
  OneLeader
PROPERTIES
  PublishedIsShared
  FollowersReleased
CHECK_DEADLOCK FALSE
