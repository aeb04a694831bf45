SPECIFICATION Spec
CONSTANTS
  Grammar <- Schemes
  Begins <- BeginsOf
  Size <- SizeOf
  None = "none"
  MaxArgs = 4
  MoreArgs = 2
INVARIANTS AcceptedIsDocumented DocumentedIsAccepted SuggestionsLeadToCommands NothingHidden
CHECK_DEADLOCK FALSE
