SPECIFICATION Spec
CONSTANTS
  h1 = h1
  h2 = h2
  NoTarget = NoTarget
  Zero = Zero
  OutCap = 8
  Handles = {h1, h2}
  MaxConns = 2
  ReqLen = 1
  MaxSend = 1
  MaxReply = 2
  Block = 2
  ContractHost = FALSE
CHECK_DEADLOCK FALSE
INVARIANT OwnReply
