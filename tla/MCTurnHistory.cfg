CONSTANTS
  Setups <- OneOrder
  Threshold = 2
  MaxIterations = 2
SPECIFICATION Spec
PROPERTIES CallsAreAnswered
CHECK_DEADLOCK FALSE
