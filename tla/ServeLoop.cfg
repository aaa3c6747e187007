\* Clients outnumber the slots; TLS, a readiness delay, a probe listener; it stops.
CONSTANTS
  Conns = {c1, c2, c3}
  MaxConnections = 2
  MaxStreams = 1
  Tls = TRUE
  Delay = TRUE
  Probe = TRUE
SPECIFICATION FairSpec
CHECK_DEADLOCK FALSE
INVARIANTS
  SlotsConserved
  StatusIsHonest
PROPERTIES
  ShutdownEnds
  DrainsCleanly
