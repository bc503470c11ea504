\* The controller goes off while frames come and go.
CONSTANTS
  Reader = reader
  Injectors = {i1}
  Subs = {"latest"}
  Policy <- MCPolicy
  Depth <- MCDepth
  Closers = {c1}
  NoTask = NoTask
  MaxArrivals = 2
SPECIFICATION Spec
PROPERTIES
  BusOffDetected
CHECK_DEADLOCK FALSE
