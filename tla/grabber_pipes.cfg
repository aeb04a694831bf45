SPECIFICATION FairSpec
CONSTANTS
  Outs <- Pipes
  MaxWrite = 3
  OutCap = 1
INVARIANT NothingLost
PROPERTY GrabberExits
CHECK_DEADLOCK FALSE
