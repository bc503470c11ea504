\* One subscribe() and one close().
CONSTANTS
  Senders = {s1}
  a = a
  b = b
  bad = bad
  Frames = {a}
  Invalid = {}
  Subs = {"latest"}
  Wants <- MCWants
  Policy <- MCPolicy
  Depth <- MCDepth
  Limited <- MCLimited
  Closers = {c1}
  NoTask = NoTask
  NoFrame = NoFrame
SPECIFICATION Spec
INVARIANTS
  NoOrphan
CHECK_DEADLOCK FALSE
