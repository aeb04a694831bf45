SPECIFICATION Spec
CONSTANTS
  Plans <- InputPlans
  MaxMsgs = 5
  MaxOut = 3
  BufLimit = 1
  PipeCap = 1
INVARIANT PauseIsTemporary
CHECK_DEADLOCK FALSE
