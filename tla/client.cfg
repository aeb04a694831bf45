SPECIFICATION FairSpec
CONSTANTS
  Options <- Started
  Codes = {0, 1}
  MaxOut = 1
  SockCap = 1
  ObufLimit = 0
  MaxCmds = 2
  MaxInput = 2
  MaxInFlight = 1
  MaxSignals = 1
INVARIANTS ServerAgrees StreamsHitTheirCommand NeverDeaf FailureReported
PROPERTIES StopOnError ListEnds
CHECK_DEADLOCK FALSE
