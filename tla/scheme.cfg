SPECIFICATION FairSpec
CONSTANTS
  Inputs <- Configurations
  Plugin <- Objects
  Order <- Sorted
  None = None
INVARIANTS Verdict LoadedAsWritten PreparedAsWritten LogIsClosest
PROPERTY PrepareEnds
CHECK_DEADLOCK FALSE
