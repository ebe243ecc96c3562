CONSTANTS
  Configs <- MCConfigs
  Minute = 1
  Call = {1, 2, 3}
  MaxPlacements <- MCMaxPlacements
  Keys = {7}
  Orders <- MCOrders
  Markets <- MCMarkets
  QueueRoom = 2
  MaxListed = 1
  MaxClock = 2
SPECIFICATION Spec
INVARIANTS
  ChargesCoverOrders
  KeepsToLimits
PROPERTIES
  CallsReturn
CHECK_DEADLOCK FALSE
