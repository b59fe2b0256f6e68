SPECIFICATION Spec
CONSTANTS
  Viewports <- Windows
  MaxChanges = 1
  MaxCommands = 1
CHECK_DEADLOCK FALSE
INVARIANT WindowsStays
