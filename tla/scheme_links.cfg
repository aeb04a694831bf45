SPECIFICATION Spec
CONSTANTS
  Inputs <- ThroughLinks
  Plugin <- Objects
  Order <- Sorted
  None = None
INVARIANT AcceptsWhatIsSound
CHECK_DEADLOCK FALSE
