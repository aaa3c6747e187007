\* What a client that hangs up leaves in the state.
CONSTANTS
  Slots = {s1}
  Requests = {r1}
  None = None
  Recycling = TRUE
  Bounded = {r1}
  MaxStreams = 1
SPECIFICATION PathSpec
PROPERTIES
  CallStartsClean
