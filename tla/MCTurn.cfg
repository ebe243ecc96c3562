CONSTANTS
  Setups <- AllSetups
  Threshold = 2
  MaxIterations = 2
SPECIFICATION Spec
INVARIANTS
  OneActionEach
  ActionsKeepToWords
  UndoesUnrequested
PROPERTIES
  TurnEnds
CHECK_DEADLOCK FALSE
