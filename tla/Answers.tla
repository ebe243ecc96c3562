------------------------------ MODULE Answers ------------------------------
(***************************************************************************)
(* What people and models are told of the book: the book's own queries     *)
(* (engine/src/book.rs, sequencer.rs), their translation by the server     *)
(* (engine-server/src/lib.rs) and what the reading tools make of it        *)
(* (mcp-server/src/tools.rs). Operators only. A tool that calls the engine *)
(* twice is answered from one book here.                                   *)
(***************************************************************************)
EXTENDS Book, Units, TLC

LOCAL Seqs == INSTANCE SequencesExt

MaxList == 10000     \* MAX_LIST
MaxDepth == 200      \* MAX_DEPTH, QUOTE_DEPTH and the published depth

Nobody == None

FirstOf(s, n) == SubSeq(s, 1, Min({n, Len(s)}))
NewestFirst(ids) == Seqs!SetToSortSeq(ids, >)
Each(s, f(_)) == [i \in DOMAIN s |-> f(s[i])]

-----------------------------------------------------------------------------
(* The book's queries.                                                     *)

OrdersFor(a, wanted(_), n) ==
  FirstOf(NewestFirst({id \in byAccount[a] : wanted(orders[id])}), n)

OpenOrdersFor(a) ==
  Seqs!SetToSortSeq({id \in byAccount[a] : Live(orders[id])}, <)

(* Retained trades are looked up by their distance to the oldest.          *)
TradeById(id) ==
  LET i == IF trades = <<>> THEN 0 ELSE id - trades[1].id + 1
  IN IF i \in DOMAIN trades THEN trades[i] ELSE None

(* The ids are counted before the lookup drops any.                        *)
TradesFor(a, n) ==
  SelectSeq(Each(FirstOf(NewestFirst(tradesOf[a]), n), TradeById),
            LAMBDA t : t # None)

AllTrades(n) == FirstOf(Seqs!Reverse(trades), n)

(* The side on which an account took part in a trade.                      *)
SideFor(t, a) ==
  CASE t.takerAccount = a -> t.takerSide
    [] t.takerAccount # a /\ t.makerAccount = a -> Opposite(t.takerSide)
    [] OTHER -> Nobody

LevelView(side, px) ==
  [price |-> px, qty |-> level[side][px].total, orders |-> level[side][px].live]

BestFirst(side) ==
  Seqs!SetToSortSeq(keys[side], LAMBDA p, q : p # q /\ AtLeastAsGood(side, p, q))

Snapshot(depth) ==
  [bids |-> FirstOf(Each(BestFirst("buy"), LAMBDA p : LevelView("buy", p)), depth),
   asks |-> FirstOf(Each(BestFirst("sell"), LAMBDA p : LevelView("sell", p)), depth),
   last |-> lastPrice, seq |-> nextSeq]

BestOf(levels) == IF levels = <<>> THEN Nothing ELSE levels[1].price

OpenQuantity == MapThenSumSet(LAMBDA id : orders[id].remaining, LiveIds)

-----------------------------------------------------------------------------
(* The server's translation.                                               *)

Limit(n) == IF n = 0 THEN 10 ELSE Min({n, MaxList})

OrderShown(id) ==
  [orders[id] EXCEPT !.price = Clamp(@), !.qty = Clamp(@), !.remaining = Clamp(@)]
    @@ [id |-> id]

(* The other party of a trade is left out of a listing of one account.     *)
TradeShown(t, viewer) ==
  LET show(a) == IF viewer \in {Nobody, a} THEN a ELSE Nobody
  IN [t EXCEPT !.makerAccount = show(@), !.takerAccount = show(@),
               !.price = Clamp(@), !.qty = Clamp(@)]

LevelShown(l) == [l EXCEPT !.price = Clamp(@), !.qty = Clamp(@)]

GetOrder(a, id) ==
  CASE orders[id] = None -> [code |-> "NOT_FOUND"]
    [] orders[id] # None -> IF orders[id].account = a
                            THEN [code |-> "OK", order |-> OrderShown(id)]
                            ELSE [code |-> "PERMISSION_DENIED"]

(* OPEN stands for every live order, no status for any.                    *)
OrdersAnswer(a, status, n) ==
  Each(OrdersFor(a, LAMBDA o : \/ status = "open" /\ Live(o)
                               \/ status # "open" /\ status \in {"all", o.status}, Limit(n)),
       OrderShown)

TradesAnswer(a, n) ==
  IF a = Nobody THEN Each(AllTrades(Limit(n)), LAMBDA t : TradeShown(t, Nobody))
  ELSE Each(TradesFor(a, Limit(n)), LAMBDA t : TradeShown(t, a))

OrderBook(depth) ==
  LET n == IF depth = 0 THEN 5 ELSE Min({depth, MaxDepth})
      shown == Snapshot(MaxDepth)
  IN [bids |-> Each(FirstOf(shown.bids, n), LevelShown),
      asks |-> Each(FirstOf(shown.asks, n), LevelShown), seq |-> shown.seq]

Market ==
  LET shown == Snapshot(MaxDepth)
  IN [bid |-> Clamp(BestOf(shown.bids)), ask |-> Clamp(BestOf(shown.asks)),
      last |-> Clamp(shown.last), seq |-> shown.seq]

StatementShown(a) ==
  LET l == ledgers[a]
  IN [f \in DOMAIN l |-> IF l[f] < 0 THEN -Clamp(-l[f]) ELSE Clamp(l[f])]

BalancesShown(a) ==
  [f \in DOMAIN balances[a] |-> Clamp(balances[a][f])] @@ [enforced |-> EnforceBalances]

-----------------------------------------------------------------------------
(* The reading tools.                                                      *)

IfQuoted(price, text) == IF price = Nothing THEN Nobody ELSE text

MidOf(bid, ask) == IF Nothing \in {bid, ask} THEN Nobody ELSE Mid(bid, ask)
SpreadOf(bid, ask) ==
  IF Nothing \in {bid, ask} THEN Nobody ELSE Usdc(SaturatingSub(ask, bid))

MarketSummary ==
  LET m == Market
  IN [bid |-> IfQuoted(m.bid, Usdc(m.bid)), ask |-> IfQuoted(m.ask, Usdc(m.ask)),
      mid |-> MidOf(m.bid, m.ask), spread |-> SpreadOf(m.bid, m.ask),
      last |-> IfQuoted(m.last, Usdc(m.last)), seq |-> m.seq]

LevelLine(l) == [price |-> Usdc(l.price), qty |-> Eth(l.qty), orders |-> l.orders]

BookTool(depth) ==
  LET b == OrderBook(depth)
  IN IF depth \notin 1 .. 20 THEN Nobody
     ELSE [bids |-> Each(b.bids, LevelLine), asks |-> Each(b.asks, LevelLine),
           spread |-> SpreadOf(BestOf(b.bids), BestOf(b.asks)),
           mid |-> MidOf(BestOf(b.bids), BestOf(b.asks)), seq |-> b.seq]

TakeLevel_Whole(q, l) ==
  IF q.remaining = 0 THEN q
  ELSE [remaining |-> SaturatingSub(q.remaining, l.qty),
        notional |-> q.notional + l.qty * l.price,
        consumed |-> q.consumed + 1, worst |-> l.price]

TakeLevel(q, l) ==
  IF q.remaining = 0 THEN q
  ELSE LET take == SmallerOf(q.remaining, l.qty)
       IN [remaining |-> q.remaining - take, notional |-> q.notional + take * l.price,
           consumed |-> q.consumed + 1, worst |-> l.price]

(* What buying or selling "wanted" lots at once would take.                *)
Quote(side, wanted) ==
  LET b == OrderBook(MaxDepth)
      q == Seqs!FoldLeft(TakeLevel,
             [remaining |-> wanted, notional |-> 0, consumed |-> 0, worst |-> Nothing],
             IF side = "buy" THEN b.asks ELSE b.bids)
      filled == wanted - q.remaining
      average == AveragePrice(q.notional, filled)
  IN [fillable |-> Eth(filled), full |-> q.remaining = 0,
      average |-> IfQuoted(average, Usdc(average)),
      worst |-> IfQuoted(q.worst, Usdc(q.worst)),
      notional |-> UsdcFromMicro(q.notional), consumed |-> q.consumed]

Unrealised(l, reference) == l.inventory * reference - l.cost

Statement(a) ==
  LET l == StatementShown(a)
      reference == ReferencePrice(Market)
      average == AveragePrice(l.cost, l.inventory)
  IN [paid |-> UsdcFromMicro(l.paid), received |-> UsdcFromMicro(l.received),
      inventory |-> Eth(l.inventory), averageCost |-> IfQuoted(average, Usdc(average)),
      realised |-> SignedUsdcFromMicro(l.pnl),
      reference |-> IfQuoted(reference, Usdc(reference)),
      unrealised |-> IfQuoted(reference, SignedUsdcFromMicro(Unrealised(l, reference)))]

Balances(a) ==
  LET w == BalancesShown(a)
  IN [usdc |-> UsdcFromMicro(w.usdc), usdcReserved |-> UsdcFromMicro(w.usdcReserved),
      eth |-> Eth(w.eth), ethReserved |-> Eth(w.ethReserved), enforced |-> w.enforced]

OrderLine(o) ==
  [o EXCEPT !.price = Usdc(@), !.qty = Eth(@), !.remaining = Eth(@)]

ListOrders(a, status, n) ==
  IF n \notin 1 .. 50 THEN Nobody ELSE Each(OrdersAnswer(a, status, n), OrderLine)

TradeLine_TakerSide(t, a) ==
  [id |-> t.id, side |-> t.takerSide,
   role |-> IF t.takerAccount = a THEN "taker" ELSE "maker",
   price |-> Usdc(t.price), qty |-> Eth(t.qty),
   order |-> IF t.takerAccount = a THEN t.taker ELSE t.maker]

(* A line of the account's own trades: one of the two accounts is it, the  *)
(* other is blank.                                                         *)
TradeLine(t, a) ==
  [id |-> t.id,
   side |-> IF t.takerAccount = a THEN t.takerSide ELSE Opposite(t.takerSide),
   role |-> IF t.takerAccount = a THEN "taker" ELSE "maker",
   price |-> Usdc(t.price), qty |-> Eth(t.qty),
   order |-> IF t.takerAccount = a THEN t.taker ELSE t.maker]

ListTrades(a, n) ==
  IF n \notin 1 .. 50 THEN Nobody
  ELSE Each(TradesAnswer(a, n), LAMBDA t : TradeLine(t, a))

-----------------------------------------------------------------------------
(* Is a decimal text the amount n/d of a cent, to within half a cent?      *)
Cents(t) == (IF t.negative THEN -1 ELSE 1) * (t.whole * Pow10(PriceDecimals) + Number(t.digits))
Tells(t, n, d) == 2 * n - d <= 2 * d * Cents(t) /\ 2 * d * Cents(t) <= 2 * n + d

Resters(side) == {id \in LiveIds : orders[id].side = side}

(* Every way to take lots from those resting orders.                       *)
Takings(side, lots) ==
  {f \in [Resters(side) -> 0 .. lots] :
     /\ \A id \in DOMAIN f : f[id] <= orders[id].remaining
     /\ MapThenSumSet(LAMBDA id : f[id], DOMAIN f) = lots}
Cost(f) == MapThenSumSet(LAMBDA id : f[id] * orders[id].price, DOMAIN f)

(* The money the tools speak of is right to the cent: a quote names the    *)
(* most that can be had and the best price for it of all the ways to take  *)
(* it from the orders that rest, so no order the account then sends can do *)
(* better or should do worse; and of an account that sold no deposits,     *)
(* realised and unrealised profit together are what its trades brought in  *)
(* and what it still holds is worth.                                       *)
AnswersAddUp ==
  pc = "idle" =>
    /\ \A side \in Side, wanted \in Qty :
         LET q == Quote(side, wanted)
             resting == MapThenSumSet(LAMBDA id : orders[id].remaining, Resters(Opposite(side)))
             lots == SmallerOf(wanted, resting)
             costs == {Cost(f) : f \in Takings(Opposite(side), lots)}
             best == IF side = "buy" THEN Min(costs) ELSE Max(costs)
         IN /\ q.full <=> resting >= wanted
            /\ q.fillable = Eth(lots)
            /\ Tells(q.notional, best, Pow10(QtyDecimals))
            /\ lots > 0 => Tells(q.average, best, lots)
    /\ \A a \in Account :
         LET l == ledgers[a]
             reference == ReferencePrice(Market)
             s == Statement(a)
         IN reference > 0 /\ l.soldFromDeposits = 0 =>
              \E pnl \in -99 .. 99 :
                /\ Tells(s.realised, pnl, Pow10(QtyDecimals))
                /\ Tells(s.unrealised,
                         l.received - l.paid + l.inventory * reference - pnl,
                         Pow10(QtyDecimals))

(* Listings are of the account they are for and tell it its own part: each *)
(* of its retained trades once, newest first, on the side it traded and    *)
(* with its own order; its open orders, which with everybody else's are    *)
(* the displayed depth; no price or quantity changes on its way to a text  *)
(* and back; and other accounts' orders stay theirs.                       *)
ListingsAreTrue ==
  pc = "idle" =>
    /\ \A a \in Account :
         LET own == SelectSeq(Seqs!Reverse(trades), LAMBDA t : SideFor(t, a) # Nobody)
             lines == ListTrades(a, 50)
         IN /\ Len(lines) = Len(own)
            /\ \A i \in DOMAIN lines :
                 /\ lines[i].id = own[i].id
                 /\ lines[i].side = SideFor(own[i], a)
                 /\ ParsePrice(lines[i].price) = own[i].price
                 /\ ParseQty(lines[i].qty) = own[i].qty
                 /\ lines[i].order \in InMemory =>
                      /\ orders[lines[i].order].account = a
                      /\ orders[lines[i].order].side = lines[i].side
            /\ \A i \in DOMAIN TradesAnswer(a, 50) :
                 LET t == TradesAnswer(a, 50)[i]
                 IN {t.makerAccount, t.takerAccount} = {a, Nobody}
            /\ \A id \in OrderId :
                 GetOrder(a, id).code = "OK" <=> id \in byAccount[a]
    /\ LET shown == BookTool(20)
           depth(levels) == Seqs!FoldLeft(LAMBDA n, l : n + ParseQty(l.qty), 0, levels)
           open(a) == Seqs!FoldLeft(LAMBDA n, o : n + ParseQty(o.remaining), 0,
                                    ListOrders(a, "open", 50))
       IN /\ depth(shown.bids) + depth(shown.asks) = OpenQuantity
          /\ MapThenSumSet(open, Account) = OpenQuantity
=============================================================================
