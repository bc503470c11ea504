CONSTANTS
  long = long
  short = short
  single = single
  Messages = {long, short, single}
  Pieces <- MCPieces
  BlockSizes = {0, 1, 2, 3}
  SnModulus = 2
  Depth = 2
  NoMessage = NoMessage
SPECIFICATION Spec
INVARIANTS
  TypeOK
  WindowRespected
  NoStandstill
PROPERTIES
  ImplementsMessageChannel
  CallsReturn
  SentIsReceived
CHECK_DEADLOCK FALSE
