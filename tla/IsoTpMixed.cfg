\* A queue of one frame: the second first frame meets the first one in it.
CONSTANTS
  long = long
  short = short
  single = single
  Messages = {long, short}
  Pieces <- MCPieces
  BlockSizes = {0}
  SnModulus = 16
  Depth = 1
  NoMessage = NoMessage
SPECIFICATION Spec
INVARIANT ReturnsOriginal
CHECK_DEADLOCK FALSE
