SPECIFICATION FairSpec
CONSTANTS
  down = down
  up = up
  None = None
  MaxAsked = 3
  Kinds = {"scroll", "plain", "string"}
  Keys = {down, up}
  MaxLines = 2
  MaxScrolls = 1
  StrLen = 1
  MaxBlocks = 2
  Habits <- MCHabits
CHECK_DEADLOCK FALSE
INVARIANTS
  TypeOK
  OwnArgument
PROPERTIES
  NotOverwritten
  ImplementsFifo
  Carried
