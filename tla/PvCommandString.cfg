SPECIFICATION Spec
CONSTANTS
  down = down
  up = up
  None = None
  MaxAsked = 3
  Kinds = {"scroll", "plain", "string"}
  Keys = {down, up}
  MaxLines = 2
  MaxScrolls = 1
  StrLen = 2
  MaxBlocks = 2
  Habits <- Strings
CHECK_DEADLOCK FALSE
INVARIANT OwnString
