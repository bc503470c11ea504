\* The documented claim about close(): one task, one close, no frame needed.
CONSTANTS
  Receivers = {r1}
  Closers = {bus}
  Capacity = 1
  RateLimit = 0
  MaxFrames = 1
SPECIFICATION Spec
PROPERTY CloseUnblocksReceivers
