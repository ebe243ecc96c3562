CONSTANTS
  Setups <- SyncedJournal
  MaxCommands = 3
  Inode = {1, 2, 3}
  CompactPieces = 0
  Funds = 0
  Capacity = 1
  MaxBatch = 1
SPECIFICATION Spec
INVARIANTS ToldIsReadable
CHECK_DEADLOCK FALSE
