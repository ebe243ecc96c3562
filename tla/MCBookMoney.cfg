CONSTANTS
  alice = alice
  bob = bob
  None = None
  Account = {alice, bob}
  ClientId <- MoneyIds
  Requests <- MoneyRequests
  Fund <- TightFund
  EnforceBalances = TRUE
  MaxOpenOrders = 2
  MaxOpenNotional = 5
  KeepClosed = 9
  KeepTrades = 9
  MaxAge = 0
  MaxOrders = 5
  MaxMoves = 1
  Time = {0}
  Price = {2, 3}
  Qty = {1, 2}
  Amount = {0, 2}
  PriceDecimals = 1
  QtyDecimals = 1
  NotionalDecimals = 2
  MaxWord = 99
SPECIFICATION Spec
INVARIANTS
  TypeOK
  CommitmentsAreExact
  WalletMatchesLedger
  LedgerAddsUp
  AnswersAddUp
PROPERTIES
  EveryCommandReturns
  ClosedOrdersAreFinal
