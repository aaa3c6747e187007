\* A recycling pool of two runtimes; three requests wait with a bound, one without.
CONSTANTS
  Slots = {s1, s2}
  Requests = {r1, r2, r3, r4}
  None = None
  Recycling = TRUE
  Bounded = {r1, r2, r3}
SPECIFICATION FairSpec
INVARIANTS
  PoolIsSafe
  NoLostWakeup
PROPERTIES
  WaitersAreServed
  ImplementsResourcePool
