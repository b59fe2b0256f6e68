SPECIFICATION FairSpec
CONSTANTS
  t1 = t1
  t2 = t2
  NoTarget = NoTarget
  Zero = Zero
  NoCall = NoCall
  OutCap = 8
  Tasks = {t1}
  NSlots = 1
  MaxInst = 2
  MaxRefs = 1
  RxCap = 1
  MaxReply = 2
  MaxLen = 1
  Habits <- MCHabits
  ContractHost = FALSE
CHECK_DEADLOCK FALSE
INVARIANTS
  TypeOK
  EndMeansDelivered
  LatchMeansData
  LatchMeansMessage
PROPERTIES
  AsyncReads
  MessagesAnnounced
  WaitedOnIsKept
  WaitEnds
