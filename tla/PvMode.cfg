SPECIFICATION FairSpec
CONSTANTS
  Viewports <- Windows
  MaxChanges = 1
  MaxCommands = 2
CHECK_DEADLOCK FALSE
INVARIANTS
  TypeOK
  WholeSize
  MetricsFollow
PROPERTIES
  Settles
