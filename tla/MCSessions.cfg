CONSTANTS
  SessionId = {"s", "t"}
  RequestId = {"first", "second"}
  Message = {"buy", "sell"}
  NoId = "none"
  Reads = "read"
  Requests <- ClientRequests
  MaxSessions = 1
  IdleTtl = 1
  TurnsPerMinute = 1
  MaxSessionTurns = 2
  Minute = 2
  Remembered = 1
  MaxRequests = 3
  MaxTime = 2
SPECIFICATION Spec
INVARIANTS
  TurnsAreOrderly
  RetriesAreSafe
PROPERTIES
  EveryRequestEnds
CHECK_DEADLOCK FALSE
