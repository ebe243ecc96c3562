CONSTANTS
  Setups <- AllSetups
  MaxCommands = 4
  Inode = {1, 2, 3}
  CompactPieces = 3
  Funds = 1
  Capacity = 2
  MaxBatch = 2
SPECIFICATION Spec
INVARIANTS
  BookIsJournal
  EventsBetween
PROPERTIES
  ImplementsDurableLog
  RestartServes
  EveryRequestAnswered
CHECK_DEADLOCK FALSE
