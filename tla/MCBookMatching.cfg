CONSTANTS
  alice = alice
  bob = bob
  None = None
  Account = {alice, bob}
  ClientId <- MatchingIds
  Requests <- MatchingRequests
  Fund <- NoFund
  EnforceBalances = FALSE
  MaxOpenOrders = 9
  MaxOpenNotional = 99
  KeepClosed = 1
  KeepTrades = 1
  MaxAge = 1
  MaxOrders = 4
  MaxMoves = 0
  Time = {0, 2}
  Price = {1, 2}
  Qty = {1, 2, 3}
  Amount = {}
  PriceDecimals = 1
  QtyDecimals = 1
  NotionalDecimals = 2
  MaxWord = 99
SPECIFICATION Spec
INVARIANTS
  QueuesAreExact
  NotCrossed
  RetryTellsOriginal
  MemoryIsExact
  FeedTellsTheBook
  SnapshotRebuilds
  ListingsAreTrue
PROPERTIES
  ImplementsPriceTime
