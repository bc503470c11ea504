\* One task on the receiver, as subscribe() hands it out; two closers: the bus
\* and the owner of the receiver.
CONSTANTS
  Receivers = {r1}
  Closers = {bus, owner}
  Capacity = 2
  RateLimit = 2
  MaxFrames = 5
SPECIFICATION Spec
INVARIANTS
  TypeOK
  FifoDelivery
  LossOnlyByEviction
  NoLostWakeup
  EndOfStreamDrained
PROPERTIES
  WaitingFrameIsTaken
  CloseEndsRecv
