CONSTANTS
  Reader = reader
  Injectors = {i1, i2}
  Subs = {"latest", "first"}
  Policy <- MCPolicy
  Depth <- MCDepth
  Closers = {c1}
  NoTask = NoTask
  MaxArrivals = 2
SPECIFICATION Spec
INVARIANTS
  TypeOK
PROPERTIES
  EndReachesMembers
  EventIsHeard
  ImplementsBroadcast
CHECK_DEADLOCK FALSE
