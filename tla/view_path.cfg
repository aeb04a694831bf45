SPECIFICATION Spec
CONSTANTS
  View <- Views
  Start = "main"
  Common <- Views
  Transparent = {"main", "sub", "leaf"}
  Command <- Commands
  Process = Process
  PromptOf <- AllPrompts
  NoPrompt = "none"
  DefaultPrompt = "$"
  HotkeysOf <- AllHotkeys
  Key <- Keys
  NoHotkey = "none"
  MaxDepth = 4
INVARIANTS PathNeverEmpty PromptFollowsPath HotkeysFollowPath
PROPERTY RestoreToHome
CHECK_DEADLOCK FALSE
