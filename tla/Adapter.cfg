\* Five frames through a queue of one behind a channel of two: each can
\* overflow while the other waits.
CONSTANTS
  Depth = 1
  MaxFrames = 5
  NoMsg = NoMsg
SPECIFICATION Spec
INVARIANTS
  TypeOK
  LossFollowsPolicy
PROPERTIES
  StreamEnds
CHECK_DEADLOCK FALSE
