\* The route limit of a state that was rebuilt from an edited script.
CONSTANTS
  Slots = {s1}
  Requests = {r1}
  None = None
  Recycling = TRUE
  Bounded = {r1}
  MaxStreams = 1
SPECIFICATION PathSpec
INVARIANTS
  LimitSpentBeforeCall
