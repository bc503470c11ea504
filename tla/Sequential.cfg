\* Limiter: three ticks to the second, four windows.  E2E: four counter values
\* and six messages, so that the counter wraps, and a restart of the sender.
SPECIFICATION Spec
CONSTANTS
  Limit = 2
  TicksPerSecond = 3
  MaxTime = 11
  MaxArrivals = 9
  Modulus = 4
  MaxRestarts = 1
  MaxCalls = 6
  MaxChecks = 4
  LogFrames <- MCLogFrames
  Speeds <- MCSpeeds
  MaxLines = 3
  MaxStamp = 2
  Texts <- MCTexts
  Ids = {1, 2}
  Payloads <- MCPayloads
  WordSize = 8
  MantissaBits = 6
  Bytes <- MCBytes
  Patterns <- MCPatterns
  IdBytes = 1
  HeaderBytes = 3
  MaxBytes = 5
  SomeFrames <- MCSomeFrames
  J1939Frames <- MCJ1939Frames
  PgnFilters <- MCPgnFilters
  Node = 37
INVARIANTS
  AtMostTwiceTheLimit
  TypeOK
  DisorderDetected
  AlarmJustified
  DamageDetected
  FrameSurvives
  ReplayFaithful
  SignalsDecoded
PROPERTY RefusalJustified
CHECK_DEADLOCK FALSE
