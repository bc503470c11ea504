\* Two senders, a subscriber and a closer compete for the list.
CONSTANTS
  Senders = {s1, s2}
  a = a
  b = b
  bad = bad
  Frames = {a, b, bad}
  Invalid = {bad}
  Subs = {"latest"}
  Wants <- MCWants
  Policy <- MCPolicy
  Depth <- MCDepth
  Limited <- MCLimited
  Closers = {c1}
  NoTask = NoTask
  NoFrame = NoFrame
SPECIFICATION Spec
PROPERTIES
  SendReturns
  CloseReturns
  CloseReachesMembers
CHECK_DEADLOCK FALSE
