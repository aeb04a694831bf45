SPECIFICATION Spec
CONSTANTS
  Grammar <- SeqInSwitch
  Begins <- BeginsOf
  Size <- SizeOf
  None = "none"
  MaxArgs = 4
  MoreArgs = 0
INVARIANT AcceptedIsDocumented
CHECK_DEADLOCK FALSE
