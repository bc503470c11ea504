\* Three calls, so that one answered late is followed by one that is answered
\* late in turn; two pending answers, and a third to give up on.
CONSTANTS
  Calls <- MCCalls
  MaxCalls = 3
  MaxPending = 2
  MaxInbox = 3
SPECIFICATION Spec
INVARIANTS
  TypeOK
PROPERTIES
  InStep
  CallsEnd
CHECK_DEADLOCK FALSE
