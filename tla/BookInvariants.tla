--------------------------- MODULE BookInvariants ---------------------------
(***************************************************************************)
(* What must always hold of the order book of Book.tla. The first group is *)
(* the structural audit the code runs in its tests (check_invariants), the *)
(* second is what the engine promises its clients; last, the book          *)
(* implements price-time priority.                                         *)
(***************************************************************************)
EXTENDS Book, Functions

OrdersOf(a) == {id \in LiveIds : orders[id].account = a}
OnSide(a, side) == {id \in OrdersOf(a) : orders[id].side = side}

(* What a live order has to be backed with: money for a buy, lots for a    *)
(* sell.                                                                   *)
Notional(o) == o.price * o.remaining
Notionals == [id \in LiveIds |-> Notional(orders[id])]
Lots == [id \in LiveIds |-> orders[id].remaining]

(* The order being placed is in no lookup yet but is already backed.       *)
Taking(a, side) == pc = "match" /\ cur.account = a /\ cur.side = side

LiveEntries(s, p) ==
  {i \in DOMAIN level[s][p].queue : level[s][p].queue[i] \in LiveIds}

-----------------------------------------------------------------------------
(* Every variable has its type; orders and the records kept of them carry  *)
(* quantities that matching never takes below zero.                        *)
TypeOK ==
  /\ keys \in [Side -> SUBSET Price]
  /\ level \in [Side -> [Price -> Level]]
  /\ orders \in [OrderId -> Order \cup {None}]
  /\ placed \in [OrderId -> PlaceReply \cup {None}]
  /\ byAccount \in [Account -> SUBSET OrderId]
  /\ byClientId \in [Account -> [ClientId -> {0} \cup OrderId]]
  /\ fillIds \in [OrderId -> FillList]
  /\ closed \in Seq(ClosedOrder)
  /\ trades \in Seq(Trade)
  /\ tradesOf \in [Account -> SUBSET Nat]
  /\ lastPrice \in {0} \cup Price
  /\ nextOrder \in {0} \cup OrderId
  /\ nextTrade \in Nat /\ nextSeq \in Nat /\ lastNow \in Nat /\ moves \in Nat
  /\ balances \in [Account -> Wallet]
  /\ ledgers \in [Account -> Ledger]
  /\ exposure \in [Account -> Exposure]
  /\ pc \in {"idle", "match", "cancelAll"}
  /\ cur \in Order \cup {None}
  /\ curFills \in Seq(Nat)
  /\ selfTrade \in BOOLEAN
  /\ doomed \in [ids : SUBSET OrderId, now : Nat]
  /\ feed \in Seq(Event)
  /\ mirror \in [OrderId -> Int]

(* No subtraction the code makes on its unsigned amounts underflows: what  *)
(* a level shows, what a wallet holds or has reserved, what a ledger       *)
(* counts (realised P&L alone may be negative) and what a subscriber adds  *)
(* up from the events.                                                     *)
NothingUnderflows ==
  /\ \A s \in Side, p \in Price : level[s][p].total >= 0 /\ level[s][p].live >= 0
  /\ \A a \in Account :
       /\ \A f \in DOMAIN balances[a] : balances[a][f] >= 0
       /\ \A f \in DOMAIN ledgers[a] \ {"pnl"} : ledgers[a][f] >= 0
  /\ \A id \in OrderId : mirror[id] >= 0 /\ fillIds[id].filled >= 0

(* A level shows exactly what its queue holds, although a cancel leaves    *)
(* its entry in the queue: total and order count are those of the live     *)
(* entries, and a level without a live order is not kept, so that the      *)
(* level the matcher looks at always has a front.                          *)
LevelsMatchQueues ==
  \A s \in Side, p \in Price :
    /\ level[s][p].live = Cardinality(LiveEntries(s, p))
    /\ level[s][p].total =
         SumFunction([i \in LiveEntries(s, p) |->
                        orders[level[s][p].queue[i]].remaining])
    /\ p \in keys[s] <=> level[s][p].total > 0
    /\ p \notin keys[s] => level[s][p] = EmptyLevel

(* A live order rests in exactly one queue, of its own side and price, in  *)
(* arrival order behind every older live order there.                      *)
RestsOnceInOrder ==
  /\ \A id \in LiveIds :
       id \in {level[orders[id].side][orders[id].price].queue[i] :
                 i \in DOMAIN level[orders[id].side][orders[id].price].queue}
  /\ \A s \in Side, p \in Price : \A i, j \in DOMAIN level[s][p].queue :
       /\ i < j => level[s][p].queue[i] < level[s][p].queue[j]
       /\ level[s][p].queue[i] \in LiveIds =>
            orders[level[s][p].queue[i]].side = s
            /\ orders[level[s][p].queue[i]].price = p

(* The queues are what the matcher takes them for: levels, lazily          *)
(* cancelled entries and arrival order together, between any two steps.    *)
QueuesAreExact == LevelsMatchQueues /\ RestsOnceInOrder

(* The best bid is below the best ask, between any two steps of matching.  *)
NotCrossed == \A pb \in keys["buy"], pa \in keys["sell"] : pb < pa

(* Every reserved amount backs a live order or the one being placed, and   *)
(* every such order is backed: nothing leaks when fills, price             *)
(* improvements, self-trade stops and cancels release funds.               *)
ReservationsBackOrders ==
  EnforceBalances =>
    \A a \in Account :
      /\ balances[a].usdcReserved =
           SumFunctionOnSet(Notionals, OnSide(a, "buy"))
             + IF Taking(a, "buy") THEN Notional(cur) ELSE 0
      /\ balances[a].ethReserved =
           SumFunctionOnSet(Lots, OnSide(a, "sell"))
             + IF Taking(a, "sell") THEN cur.remaining ELSE 0

(* Each wallet is explained by its ledger: what it holds, available and    *)
(* reserved, is deposits minus withdrawals plus receipts minus payments.   *)
WalletMatchesLedger ==
  EnforceBalances =>
    \A a \in Account :
      /\ balances[a].usdc + balances[a].usdcReserved =
           ledgers[a].depositsUsdc - ledgers[a].withdrawalsUsdc
           + ledgers[a].received - ledgers[a].paid
      /\ balances[a].eth + balances[a].ethReserved =
           ledgers[a].depositsEth - ledgers[a].withdrawalsEth
           + ledgers[a].bought - ledgers[a].sold

(* Average-cost accounting keeps its books: every lot bought is still in   *)
(* inventory or was sold from it, no cost stays behind when the inventory  *)
(* is gone (the division rounds), and cost and P&L add up to the money.    *)
LedgerAddsUp ==
  \A a \in Account :
    LET l == ledgers[a]
    IN /\ l.inventory + l.sold = l.bought + l.soldFromDeposits
       /\ l.inventory = 0 => l.cost = 0
       /\ l.soldFromDeposits = 0 => l.cost + l.received = l.paid + l.pnl

(* The exposure counters are those of the live orders.                     *)
ExposureMatchesOrders ==
  \A a \in Account :
    /\ exposure[a].open = Cardinality(OrdersOf(a))
    /\ exposure[a].notional = SumFunctionOnSet(Notionals, OrdersOf(a))

(* No account ever rests more than its limits allow.                       *)
ExposureWithinLimits ==
  \A a \in Account :
    /\ Cardinality(OrdersOf(a)) <= MaxOpenOrders
    /\ SumFunctionOnSet(Notionals, OrdersOf(a)) <= MaxOpenNotional

(* What an account has committed, in its wallet and against its limits, is *)
(* what its live orders commit, however they were filled, improved, cut    *)
(* short or cancelled, and no amount underflows on the way there.          *)
CommitmentsAreExact ==
  /\ NothingUnderflows
  /\ ReservationsBackOrders
  /\ ExposureMatchesOrders
  /\ ExposureWithinLimits

(* A retry is answered as the placement was, whatever happened to the      *)
(* order since (fills as a maker, a cancel by the user): same fields, same *)
(* remainder, status and reason. Only fills that left the retained window  *)
(* are missing from the list, and they are the oldest.                     *)
RetryTellsOriginal ==
  pc = "idle" =>
    \A id \in InMemory :
      /\ OriginalReply(id).order = placed[id].order
      /\ \E k \in 1 .. Len(placed[id].fills) + 1 :
           OriginalReply(id).fills =
             SubSeq(placed[id].fills, k, Len(placed[id].fills))

(* The idempotency index and the account index name exactly the orders in  *)
(* memory, and each order under its own key.                               *)
IndexesExact ==
  pc # "match" =>
    /\ \A a \in Account :
         byAccount[a] = {id \in InMemory : orders[id].account = a}
    /\ \A a \in Account, c \in ClientId :
         LET named == {id \in InMemory :
                         orders[id].account = a /\ orders[id].cid = c}
         IN named = IF byClientId[a][c] = 0 THEN {} ELSE {byClientId[a][c]}
    /\ \A id \in OrderId : orders[id] = None => fillIds[id] = NoFills

(* Archiving forgets closed orders only, oldest closed first, and keeps    *)
(* within its bounds; trade ids in memory stay contiguous, which the       *)
(* lookup by id relies on, and the per-account lists name exactly them.    *)
RetentionExact ==
  pc = "idle" =>
    /\ Len(closed) <= KeepClosed /\ Len(trades) <= KeepTrades
    /\ {closed[i].id : i \in DOMAIN closed} = InMemory \ LiveIds
    /\ \A i, j \in DOMAIN closed : closed[i].id = closed[j].id => i = j
    /\ \A i \in DOMAIN trades : trades[i].id = nextTrade - Len(trades) + i
    /\ \A a \in Account :
         tradesOf[a] = {trades[i].id : i \in {j \in DOMAIN trades :
                          a \in {trades[j].makerAccount, trades[j].takerAccount}}}

(* Nothing is lost or left behind when orders and trades are archived.     *)
MemoryIsExact == IndexesExact /\ RetentionExact

(* The event feed misses nothing and repeats nothing: each sequence number *)
(* belongs to one event, in order, up to the last one assigned.            *)
FeedIsContiguous ==
  \A i \in DOMAIN feed : feed[i].seq = nextSeq - Len(feed) + i

(* A client that applies the events alone, none of which is missing or     *)
(* told twice, knows what rests in the book.                               *)
FeedTellsTheBook ==
  /\ FeedIsContiguous
  /\ pc # "match" =>
       \A id \in OrderId :
         mirror[id] = IF id \in LiveIds THEN orders[id].remaining ELSE 0

-----------------------------------------------------------------------------
(* Once closed, an order's record never changes until it is archived.      *)
ClosedOrdersAreFinal ==
  [][\A id \in InMemory \ LiveIds :
       orders'[id] = orders[id] \/ orders'[id] = None]_vars

(* Every placement and every cancel-all returns: the matching loop does    *)
(* not spin on stale queue entries.                                        *)
EveryCommandReturns == pc # "idle" ~> pc = "idle"

-----------------------------------------------------------------------------
(* The order book implements price-time priority: its live orders are the  *)
(* resting orders, the order its thread is placing is the incoming one.    *)
Resting ==
  {[id |-> id, account |-> orders[id].account, side |-> orders[id].side,
    price |-> orders[id].price, remaining |-> orders[id].remaining] :
     id \in LiveIds}

(* "None" stands for no incoming order, so no incoming order is None.      *)
ASSUME NoneAssumption ==
  None \notin [id : OrderId, account : Account, side : Side, price : Price,
               remaining : Nat, tif : Tif]

Taker ==
  IF pc # "match" THEN None
  ELSE [id |-> nextOrder, account |-> cur.account, side |-> cur.side,
        price |-> cur.price, remaining |-> cur.remaining, tif |-> cur.tif]

Abstract == INSTANCE PriceTime WITH
  resting <- Resting, taker <- Taker, lastId <- nextOrder,
  lastPrice <- lastPrice

(* Every step of the matcher is a step of price-time priority matching or  *)
(* invisible to it: lazy cancellation, level bookkeeping and archiving     *)
(* never change who trades with whom, at what price, or in what order. A   *)
(* fill-or-kill order, once it is let in, fills whole: the availability    *)
(* walk agrees with what matching then does, own orders and stale entries  *)
(* in the way included.                                                    *)
ImplementsPriceTime == Abstract!Spec

=============================================================================
