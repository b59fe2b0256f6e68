SPECIFICATION FairSpec
CONSTANTS
  t1 = t1
  t2 = t2
  NoTarget = NoTarget
  Zero = Zero
  NoCall = NoCall
  OutCap = 8
  Tasks = {t1}
  NSlots = 1
  MaxInst = 2
  MaxRefs = 1
  RxCap = 1
  MaxReply = 1
  MaxLen = 1
  Habits <- Waiting
  ContractHost = FALSE
CHECK_DEADLOCK FALSE
PROPERTY ReadAnnounced
