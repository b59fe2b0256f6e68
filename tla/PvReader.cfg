SPECIFICATION FairSpec
CONSTANTS
  Heights <- MCHeights
  ClipOf <- MCClipOf
  HandleOf <- MCHandleOf
  Casts <- MCCasts
  Programs = {"fetch", "page", "dial"}
  NoTarget = NoTarget
  Zero = Zero
  OutCap = 8
  Pad = 1
  MaxBlocks = 2
  MaxPos = 4
  ClockWrap = 12
  MaxReqs = 3
  HdrMax = 2
  Block = 3
  Chunk = 2
  PumpBlocks = 2
  BufMax = 7
  ContractHost = TRUE
CHECK_DEADLOCK FALSE
INVARIANTS
  TypeOK
  OwnBytes
  WholeUnlessCut
  ShownIsSent
  PictureIsFrame
  PlayingIsVisible

PROPERTIES
  Ends
  KeepsPlaying
