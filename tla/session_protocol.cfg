SPECIFICATION Spec
CONSTANTS
  Plans <- ProtocolPlans
  MaxMsgs = 4
  MaxOut = 1
  BufLimit = 1
  PipeCap = 1
INVARIANTS TypeOK ExitIsPrompt ExitAnnounced
PROPERTY KeepsPromise
CHECK_DEADLOCK FALSE
