CONSTANTS
  Uri = {"book"}
  ToolName = {"place"}
  Catalog = {"place"}
  CalledName = {"place", "buy_now"}
  Version = {"2025-11-25"}
  Latest = "2025-11-25"
  HostLines <- Lines
  Completions <- Replies
  Setups <- Services
  Gated = TRUE
  Outcomes = {"ok", "error"}
  MaxNews = 3
  MaxLines = 2
  MaxEnds = 1
  MaxAttempts = 2
  MaxTurns = 2
  MaxIterations = 2
  MaxLost = 1
SPECIFICATION Spec
INVARIANTS
  RequestsKeepForm
  ResultsAreTrue
PROPERTIES
  HostCatchesUp
  TurnsReturn
CHECK_DEADLOCK FALSE
