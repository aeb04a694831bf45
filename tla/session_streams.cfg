SPECIFICATION FairSpec
CONSTANTS
  Plans <- StreamPlans
  MaxMsgs = 5
  MaxOut = 3
  BufLimit = 1
  PipeCap = 1
INVARIANTS OutputInsideCommand OutputConserved NoLostWakeup
PROPERTY EveryCmdAnswered
CHECK_DEADLOCK FALSE
