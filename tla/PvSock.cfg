SPECIFICATION MCSpec
CONSTANTS
  h1 = h1
  h2 = h2
  NoTarget = NoTarget
  Zero = Zero
  OutCap = 8
  Handles = {h1, h2}
  MaxConns = 2
  ReqLen = 2
  MaxSend = 2
  MaxReply = 2
  Block = 2
  ContractHost = TRUE
CHECK_DEADLOCK FALSE
INVARIANTS
  TypeOK
  InOrder
  StagedIsThere
  NoCrossTalk
  EofMeansWhole
  RequestIntact
PROPERTY Answered
