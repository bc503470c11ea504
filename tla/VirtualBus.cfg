\* Two senders, so that broadcasts compete; two closers, so that a close meets
\* a close, a drain or a drain's close.
CONSTANTS
  Senders = {s1, s2}
  a = a
  b = b
  bad = bad
  Frames = {a, b}
  Invalid = {}
  Subs = {"latest", "filtered"}
  Wants <- MCWants
  Policy <- MCPolicy
  Depth <- MCDepth
  Limited <- MCLimited
  Closers = {c1, c2}
  NoTask = NoTask
  NoFrame = NoFrame
SPECIFICATION Spec
SYMMETRY AnyTask
INVARIANTS
  TypeOK
  MetricsBalance
  DrainDelivers
PROPERTIES
  BusClosedStaysSilent
  ImplementsBroadcast
CHECK_DEADLOCK FALSE
