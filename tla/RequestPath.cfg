\* Two states, two clients that send again and again, one stream slot.
CONSTANTS
  Slots = {s1, s2}
  Requests = {r1, r2}
  None = None
  Recycling = TRUE
  Bounded = {r1, r2}
  MaxStreams = 1
SPECIFICATION PathFairSpec
INVARIANTS
  NothingIsKept
  LimitSpentOnce
PROPERTIES
  UsesThePool
  EveryRequestAnswered
