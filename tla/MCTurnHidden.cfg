CONSTANTS
  Setups <- OnlyCancels
  Threshold = 2
  MaxIterations = 2
SPECIFICATION Spec
INVARIANTS CancelsAreAsked
CHECK_DEADLOCK FALSE
