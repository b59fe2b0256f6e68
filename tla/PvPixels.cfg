SPECIFICATION FairSpec
CONSTANTS
  Height = 3
  MaxPaints = 2
  MaxScreens = 2
  MaxQueue = 2
  Paths = {"shared", "bitmap"}
CHECK_DEADLOCK FALSE
INVARIANTS
  TypeOK
  NoRowForgotten
PROPERTIES
  CatchesUp
