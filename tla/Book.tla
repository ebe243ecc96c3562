-------------------------------- MODULE Book --------------------------------
(***************************************************************************)
(* The matching engine: one order book for one instrument, owned by one    *)
(* thread (engine/src/book.rs).                                            *)
(*                                                                         *)
(* Deposits, withdrawals and refusals are one step. A placement is several *)
(* steps, one per iteration of the code's matching loop, and so is a       *)
(* cancel-all; "pc" is where the thread is. No other command runs while    *)
(* pc # "idle".                                                            *)
(*                                                                         *)
(* A call the code answers with an error before it changes anything (an    *)
(* invalid request, a used client id, missing funds) is a stuttering step  *)
(* and has no action. A cancel that is refused still moves the clock.      *)
(***************************************************************************)
EXTENDS Accounts, Sequences, FiniteSets, FiniteSetsExt

CONSTANTS
  Account,          \* accounts
  ClientId,         \* client order ids: the idempotency keys
  Price,            \* prices in ticks
  Qty,              \* quantities in lots
  Time,             \* wall-clock readings a command may carry
  Requests,         \* the placements clients may ask for
  Amount,           \* amounts a deposit or a withdrawal may move
  Fund,             \* what fund_at_start deposits, per account
  EnforceBalances,  \* must every order be backed by the wallet?
  MaxOpenOrders,    \* ExposureLimits.max_open_orders
  MaxOpenNotional,  \* ExposureLimits.max_open_notional
  KeepClosed,       \* Retention.closed_orders
  KeepTrades,       \* Retention.trades
  MaxAge,           \* Retention.max_age_ns; 0 disables the bound
  MaxOrders,        \* bound: orders ever given an id
  MaxMoves,         \* bound: deposits and withdrawals after the funding
  None              \* no order

Tif == {"gtc", "ioc", "fok"}
Status == {"open", "partial", "filled", "cancelled", "rejected"}
Reason == {"none", "user", "ioc", "fok", "stp", "exposure"}

OrderId == 1 .. MaxOrders

Request == [account : Account, cid : ClientId, side : Side,
            price : Price, qty : Qty, tif : Tif]

Order == [account : Account, cid : ClientId, side : Side, price : Price,
          qty : Qty, remaining : Nat, status : Status, reason : Reason,
          seq : Nat, at : Time, tif : Tif]

Trade == [id : Nat, maker : OrderId, taker : OrderId,
          makerAccount : Account, takerAccount : Account, takerSide : Side,
          price : Price, qty : Nat, seq : Nat, at : Time]

ClosedOrder == [id : OrderId, at : Time]
FillList == [filled : Int, ids : Seq(Nat)]
PlaceReply == [order : Order, fills : Seq(Nat)]

(* "id" is the order an event is about (the taker of a trade); "maker" is  *)
(* 0 in every event but a trade.                                           *)
Event == [kind : {"accepted", "traded", "cancelled", "rejected", "funds"},
          id : 0 .. MaxOrders, maker : 0 .. MaxOrders, qty : Int, seq : Nat]

ASSUME BookAssumption ==
  /\ IsFiniteSet(Account)
  /\ Price \subseteq Nat \ {0} /\ Qty \subseteq Nat \ {0}
  /\ Time \subseteq Nat /\ Amount \subseteq Nat
  /\ Requests \subseteq Request
  /\ Fund \in [Account -> [usdc : Nat, eth : Nat]]
  /\ EnforceBalances \in BOOLEAN
  /\ {MaxOpenOrders, MaxOpenNotional, KeepClosed, KeepTrades, MaxAge,
      MaxOrders, MaxMoves} \subseteq Nat
  /\ None \notin Order

VARIABLES
  keys,         \* the prices that have a level, per side: the maps' keys
  level,        \* per side and price: displayed quantity, orders, id queue
  orders,       \* orders in memory, None for an id unused or archived
  byAccount,    \* ids in memory per account
  byClientId,   \* the idempotency index, 0 for no entry
  fillIds,      \* per order filled at placement: quantity and trade ids
  closed,       \* closed orders with their closing time, oldest first
  trades,       \* retained trades, oldest first
  tradesOf,     \* retained trade ids per account
  lastPrice,    \* last trade price, 0 before the first trade
  nextOrder, nextTrade, nextSeq,
  balances, ledgers, exposure,
  lastNow,      \* the clock of the last command
  pc,           \* "idle", "match" or "cancelAll"
  cur,          \* the order being placed; its id is nextOrder
  curFills,     \* ids of the trades it made
  selfTrade,    \* it met an order of its own account
  doomed,       \* ids cancel_all has yet to cancel, with its clock
  moves,        \* deposits and withdrawals so far (bound)
  feed,         \* events of the last command that changed the book
  mirror,       \* history: open quantity per order, told by the events alone
  placed        \* history: the reply each order in memory got when placed

levelVars == <<keys, level>>
indexVars == <<orders, byAccount, byClientId, fillIds, closed, placed>>
tradeVars == <<trades, tradesOf, lastPrice, nextTrade>>
moneyVars == <<balances, ledgers>>
placeVars == <<cur, curFills, selfTrade>>
eventVars == <<feed, mirror>>

vars == <<levelVars, indexVars, tradeVars, moneyVars, exposure, nextOrder,
          nextSeq, lastNow, pc, placeVars, doomed, moves, eventVars>>

-----------------------------------------------------------------------------
(* Reading the book.                                                       *)

Level == [total : Int, live : Int, queue : Seq(OrderId)]
EmptyLevel == [total |-> 0, live |-> 0, queue |-> <<>>]

Live(o) == o.status \in {"open", "partial"}
InMemory == {id \in OrderId : orders[id] # None}
LiveIds == {id \in InMemory : Live(orders[id])}

Crosses_StrictlyBetter(side, price, px) ==
  IF side = "buy" THEN px < price ELSE px > price

(* Does a limit of "side" at "price" reach a resting price px?             *)
Crosses(side, price, px) == IF side = "buy" THEN px <= price ELSE px >= price

AtLeastAsGood_Ascending(restingSide, px, py) == px <= py

(* Is px at least as good as py for someone taking from that side?         *)
AtLeastAsGood(restingSide, px, py) ==
  IF restingSide = "sell" THEN px <= py ELSE px >= py

Best(restingSide, px) ==
  /\ px \in keys[restingSide]
  /\ \A py \in keys[restingSide] : AtLeastAsGood(restingSide, px, py)

(* Where a live order is met by the walk of available(): by price, then by *)
(* place in the queue.                                                     *)
MetBefore(restingSide, p, i, q, j) ==
  \/ p # q /\ AtLeastAsGood(restingSide, p, q)
  \/ p = q /\ i < j

(* The live queue entries an order at this limit would walk over.          *)
Reachable(side, price) ==
  LET opp == Opposite(side)
  IN UNION {{<<px, i>> : i \in {j \in DOMAIN level[opp][px].queue :
                                   level[opp][px].queue[j] \in LiveIds}} :
              px \in {p \in keys[opp] : Crosses(side, price, p)}}

EntryAt(restingSide, e) == orders[level[restingSide][e[1]].queue[e[2]]]

Available_IgnoresOwn(side, price, account) ==
  LET opp == Opposite(side)
  IN MapThenSumSet(LAMBDA e : EntryAt(opp, e).remaining, Reachable(side, price))

(* What the order could take now: everything ahead of the first resting    *)
(* order of its own account, where matching would stop.                    *)
Available(side, price, account) ==
  LET opp == Opposite(side)
      own == {e \in Reachable(side, price) : EntryAt(opp, e).account = account}
      ahead == {e \in Reachable(side, price) \ own :
                  \A f \in own : MetBefore(opp, e[1], e[2], f[1], f[2])}
  IN MapThenSumSet(LAMBDA e : EntryAt(opp, e).remaining, ahead)

ExposureAllows_BeforeAdding(account, price, qty) ==
  /\ exposure[account].open < MaxOpenOrders
  /\ exposure[account].notional < MaxOpenNotional

ExposureAllows(account, price, qty) ==
  /\ exposure[account].open < MaxOpenOrders
  /\ exposure[account].notional + price * qty <= MaxOpenNotional

(* The reply an order got when it was placed, rebuilt from its record and  *)
(* the fills still retained. A later cancel by the user is not part of it. *)
AtPlacement(reason) == reason \in {"ioc", "fok", "stp", "exposure"}

RetainedIds == {trades[i].id : i \in DOMAIN trades}

(* The ids of a list that are in a set, in the order of the list.          *)
OnlyIn(ids, S) ==
  LET kept[n \in 0 .. Len(ids)] ==
        IF n = 0 THEN <<>>
        ELSE IF ids[n] \in S THEN Append(kept[n - 1], ids[n]) ELSE kept[n - 1]
  IN kept[Len(ids)]

OriginalReply_KeepsReason(id) ==
  LET o == orders[id]
      rest == o.qty - fillIds[id].filled
      status == IF rest = 0 THEN "filled"
                ELSE IF o.reason # "none" THEN "cancelled"
                ELSE IF fillIds[id].filled > 0 THEN "partial" ELSE "open"
  IN [order |-> IF o.status = "rejected" THEN o
                ELSE [o EXCEPT !.remaining = rest, !.status = status],
      fills |-> OnlyIn(fillIds[id].ids, RetainedIds)]

OriginalReply(id) ==
  LET o == orders[id]
      rest == o.qty - fillIds[id].filled
      reason == IF AtPlacement(o.reason) THEN o.reason ELSE "none"
      status == IF rest = 0 THEN "filled"
                ELSE IF reason # "none" THEN "cancelled"
                ELSE IF fillIds[id].filled > 0 THEN "partial" ELSE "open"
  IN [order |-> IF o.status = "rejected" THEN o
                ELSE [o EXCEPT !.remaining = rest, !.reason = reason,
                               !.status = status],
      fills |-> OnlyIn(fillIds[id].ids, RetainedIds)]

-----------------------------------------------------------------------------
(* Events.                                                                 *)

EventOf(kind, id, maker, qty, seq) ==
  [kind |-> kind, id |-> id, maker |-> maker, qty |-> qty, seq |-> seq]

Told(m, e) ==
  CASE e.kind = "accepted" -> [m EXCEPT ![e.id] = e.qty]
    [] e.kind = "traded" ->
         [id \in OrderId |-> IF id \in {e.id, e.maker} THEN m[id] - e.qty
                                                       ELSE m[id]]
    [] e.kind = "cancelled" -> [m EXCEPT ![e.id] = 0]
    [] OTHER -> m

(* bump_seq and record_into: the first event of a command, and one that    *)
(* follows within it.                                                      *)
EmitFirst(kind, id, qty) ==
  LET e == EventOf(kind, id, 0, qty, nextSeq + 1)
  IN nextSeq' = nextSeq + 1 /\ feed' = <<e>> /\ mirror' = Told(mirror, e)

EmitNext_OnlyTrades(kind, id, maker, qty) ==
  LET e == EventOf(kind, id, maker, qty, nextSeq + 1)
  IN /\ nextSeq' = nextSeq + 1
     /\ IF kind = "traded"
        THEN feed' = Append(feed, e) /\ mirror' = Told(mirror, e)
        ELSE UNCHANGED eventVars

EmitNext_SameNumber(kind, id, maker, qty) ==
  LET e == EventOf(kind, id, maker, qty, nextSeq)
  IN nextSeq' = nextSeq /\ feed' = Append(feed, e) /\ mirror' = Told(mirror, e)

EmitNext(kind, id, maker, qty) ==
  LET e == EventOf(kind, id, maker, qty, nextSeq + 1)
  IN nextSeq' = nextSeq + 1 /\ feed' = Append(feed, e) /\ mirror' = Told(mirror, e)

-----------------------------------------------------------------------------
(* Retention and archiving.                                                *)

TooOld(at, now) == MaxAge > 0 /\ at + MaxAge < now

PopsFront_KeepsOneMore(s, keep, now, k) ==
  /\ \A i \in 1 .. k : Len(s) - i > keep \/ TooOld(s[i].at, now)
  /\ k < Len(s) => ~(Len(s) - (k + 1) > keep \/ TooOld(s[k + 1].at, now))

(* k elements are popped while the front is over the count or too old.     *)
PopsFront(s, keep, now, k) ==
  /\ \A i \in 1 .. k : Len(s) - (i - 1) > keep \/ TooOld(s[i].at, now)
  /\ k < Len(s) => ~(Len(s) - k > keep \/ TooOld(s[k + 1].at, now))

Without(f, gone, none) == [id \in OrderId |-> IF id \in gone THEN none ELSE f[id]]

NoFills == [filled |-> 0, ids |-> <<>>]

ForgetClientId_Keeps(index, os, gone) == index

(* archive() removes the client id of the order from its account's index.  *)
ForgetClientId(index, os, gone) ==
  [a \in Account |-> [c \in ClientId |->
     IF \E id \in gone : os[id].account = a /\ os[id].cid = c
     THEN 0 ELSE index[a][c]]]

(* Per-account trade ids are kept in id order and popped from the front    *)
(* only: an id leaves when every smaller one of the account leaves too.    *)
DropTrades(a, gone) ==
  tradesOf[a] \ {t \in gone : \A u \in tradesOf[a] : u < t => u \in gone}

(* enforce_retention(), at the end of every command that closes an order,  *)
(* applied to the state that command leaves.                               *)
EnforceRetention(os, accountIds, clientIds, fi, cl, pl, now) ==
  \E k \in 0 .. Len(cl), n \in 0 .. Len(trades) :
    LET gone == {cl[i].id : i \in 1 .. k}
        goneTrades == {trades[i].id : i \in 1 .. n}
    IN /\ PopsFront(cl, KeepClosed, now, k)
       /\ PopsFront(trades, KeepTrades, now, n)
       /\ orders' = Without(os, gone, None)
       /\ byAccount' = [a \in Account |-> accountIds[a] \ gone]
       /\ byClientId' = ForgetClientId(clientIds, os, gone)
       /\ fillIds' = Without(fi, gone, NoFills)
       /\ placed' = Without(pl, gone, None)
       /\ closed' = SubSeq(cl, k + 1, Len(cl))
       /\ trades' = SubSeq(trades, n + 1, Len(trades))
       /\ tradesOf' = [a \in Account |-> DropTrades(a, goneTrades)]

Closing(id, now) == [id |-> id, at |-> now]

-----------------------------------------------------------------------------
(* Deposits and withdrawals.                                               *)

MoveFunds(a, wallet, ledger) ==
  /\ pc = "idle"
  /\ moves < MaxMoves
  /\ balances' = [balances EXCEPT ![a] = wallet]
  /\ ledgers' = [ledgers EXCEPT ![a] = ledger]
  /\ EmitFirst("funds", 0, 0)
  /\ moves' = moves + 1
  /\ UNCHANGED <<levelVars, indexVars, tradeVars, exposure, nextOrder,
                 lastNow, pc, placeVars, doomed>>

Deposit(a, usdc, eth) ==
  MoveFunds(a,
            [balances[a] EXCEPT !.usdc = @ + usdc, !.eth = @ + eth],
            [ledgers[a] EXCEPT !.depositsUsdc = @ + usdc,
                               !.depositsEth = @ + eth])

(* Only what is available can be withdrawn; reserved amounts cannot.       *)
Withdraw(a, usdc, eth) ==
  /\ balances[a].usdc >= usdc
  /\ balances[a].eth >= eth
  /\ MoveFunds(a,
               [balances[a] EXCEPT !.usdc = @ - usdc, !.eth = @ - eth],
               [ledgers[a] EXCEPT !.withdrawalsUsdc = @ + usdc,
                                  !.withdrawalsEth = @ + eth])

-----------------------------------------------------------------------------
(* Placing an order: intake.                                               *)

Intake_NoFundsCheck(r) ==
  /\ pc = "idle"
  /\ nextOrder < MaxOrders
  /\ byClientId[r.account][r.cid] = 0

(* The checks before anything changes. A known client id is answered with  *)
(* OriginalReply or AlreadyExists and changes nothing.                     *)
Intake(r) ==
  /\ pc = "idle"
  /\ nextOrder < MaxOrders
  /\ byClientId[r.account][r.cid] = 0
  /\ EnforceBalances => Covers(balances[r.account], r.side, r.price, r.qty)

NewOrder(r, now) ==
  [account |-> r.account, cid |-> r.cid, side |-> r.side, price |-> r.price,
   qty |-> r.qty, remaining |-> r.qty, status |-> "open", reason |-> "none",
   seq |-> nextSeq + 1, at |-> now, tif |-> r.tif]

WithAccountId(id, a) == [byAccount EXCEPT ![a] = @ \cup {id}]
WithClientId(id, a, c) == [byClientId EXCEPT ![a][c] = id]

Fillable(r) ==
  r.tif = "fok" => Available(r.side, r.price, r.account) >= r.qty

(* A fill-or-kill order that cannot fill whole is rejected before any step *)
(* of matching.                                                            *)
RejectOrder(r, now) ==
  LET id == nextOrder + 1
      o == [NewOrder(r, now) EXCEPT !.status = "rejected"]
  IN /\ Intake(r)
     /\ ~Fillable(r)
     /\ lastNow' = now
     /\ nextOrder' = id
     /\ EmitFirst("rejected", id, 0)
     /\ EnforceRetention([orders EXCEPT ![id] = o],
                         WithAccountId(id, r.account),
                         WithClientId(id, r.account, r.cid), fillIds,
                         Append(closed, Closing(id, now)),
                         [placed EXCEPT ![id] = [order |-> o, fills |-> <<>>]],
                         now)
     /\ UNCHANGED <<levelVars, lastPrice, nextTrade, moneyVars, exposure, pc,
                    placeVars, doomed, moves>>

AcceptOrder(r, now) ==
  LET id == nextOrder + 1
      o == NewOrder(r, now)
  IN /\ Intake(r)
     /\ Fillable(r)
     /\ lastNow' = now
     /\ nextOrder' = id
     /\ byAccount' = WithAccountId(id, r.account)
     /\ byClientId' = WithClientId(id, r.account, r.cid)
     /\ EmitFirst("accepted", id, r.qty)
     /\ balances' = IF EnforceBalances
                    THEN [balances EXCEPT
                            ![r.account] = Reserve(@, r.side, r.price, r.qty)]
                    ELSE balances
     /\ pc' = "match"
     /\ cur' = o
     /\ curFills' = <<>>
     /\ selfTrade' = FALSE
     /\ UNCHANGED <<levelVars, orders, fillIds, closed, placed, tradeVars,
                    ledgers, exposure, doomed, moves>>

-----------------------------------------------------------------------------
(* Placing an order: one action per branch of the matching loop. The code  *)
(* also removes a best level whose queue is empty; no level in keys is     *)
(* (LevelsMatchQueues in BookInvariants.tla), so that branch is no action. *)

(* The loop goes on with the best opposite level.                          *)
Matching(px) ==
  /\ pc = "match"
  /\ cur.remaining > 0
  /\ ~selfTrade
  /\ Best(Opposite(cur.side), px)
  /\ Crosses(cur.side, cur.price, px)

FrontEntry(px) == Head(level[Opposite(cur.side)][px].queue)

RemoveLevel(side, px) ==
  /\ keys' = [keys EXCEPT ![side] = @ \ {px}]
  /\ level' = [level EXCEPT ![side][px] = EmptyLevel]

DropStale_LeavesEntry(px) ==
  /\ Matching(px)
  /\ level[Opposite(cur.side)][px].queue # <<>>
  /\ FrontEntry(px) \notin LiveIds
  /\ UNCHANGED vars

(* A cancelled or archived order is dropped from the queue when reached.   *)
DropStale(px) ==
  /\ Matching(px)
  /\ level[Opposite(cur.side)][px].queue # <<>>
  /\ FrontEntry(px) \notin LiveIds
  /\ level' = [level EXCEPT ![Opposite(cur.side)][px].queue = Tail(@)]
  /\ UNCHANGED <<keys, indexVars, tradeVars, moneyVars, exposure, nextOrder,
                 nextSeq, lastNow, pc, placeVars, doomed, moves, eventVars>>

StopAtOwn(px) ==
  /\ Matching(px)
  /\ level[Opposite(cur.side)][px].queue # <<>>
  /\ FrontEntry(px) \in LiveIds
  /\ orders[FrontEntry(px)].account = cur.account
  /\ selfTrade' = TRUE
  /\ UNCHANGED <<levelVars, indexVars, tradeVars, moneyVars, exposure,
                 nextOrder, nextSeq, lastNow, pc, cur, curFills, doomed,
                 moves, eventVars>>

LevelAfterFill(lv, q, makerDone) ==
  [total |-> lv.total - q,
   live |-> IF makerDone THEN lv.live - 1 ELSE lv.live,
   queue |-> IF makerDone THEN Tail(lv.queue) ELSE lv.queue]

PutLevel(side, px, lv) ==
  IF lv.total = 0
  THEN RemoveLevel(side, px)
  ELSE level' = [level EXCEPT ![side][px] = lv] /\ UNCHANGED keys

MakerAfterFill_TakerRemaining(m, q) ==
  [m EXCEPT !.remaining = @ - cur.remaining,
            !.status = IF m.remaining = q THEN "filled" ELSE "partial"]

MakerAfterFill(m, q) ==
  [m EXCEPT !.remaining = @ - q,
            !.status = IF m.remaining = q THEN "filled" ELSE "partial"]

SettleFill(maker, px, q) ==
  IF EnforceBalances
  THEN balances' =
         [balances EXCEPT
            ![cur.account] = SettleTaker(@, cur.side, cur.price, px, q),
            ![maker] = SettleMaker(@, cur.side, px, q)]
  ELSE UNCHANGED balances

RecordFill(maker, px, q) ==
  ledgers' = IF cur.side = "buy"
             THEN [ledgers EXCEPT ![cur.account] = RecordBuy(@, px, q),
                                  ![maker] = RecordSell(@, px, q)]
             ELSE [ledgers EXCEPT ![maker] = RecordBuy(@, px, q),
                                  ![cur.account] = RecordSell(@, px, q)]

(* One trade, at the maker's price, with the front order of the best level.*)
Fill(px) ==
  LET opp == Opposite(cur.side)
      mid == FrontEntry(px)
      m == orders[mid]
      q == SmallerOf(cur.remaining, m.remaining)
      done == m.remaining = q
      t == nextTrade + 1
  IN /\ Matching(px)
     /\ level[opp][px].queue # <<>>
     /\ mid \in LiveIds
     /\ m.account # cur.account
     /\ orders' = [orders EXCEPT ![mid] = MakerAfterFill(m, q)]
     /\ cur' = [cur EXCEPT !.remaining = @ - q]
     /\ PutLevel(opp, px, LevelAfterFill(level[opp][px], q, done))
     /\ closed' = IF done THEN Append(closed, Closing(mid, cur.at)) ELSE closed
     /\ exposure' = [exposure EXCEPT ![m.account] = ExposureSub(@, px, q, done)]
     /\ SettleFill(m.account, px, q)
     /\ RecordFill(m.account, px, q)
     /\ nextTrade' = t
     /\ lastPrice' = px
     /\ trades' = Append(trades,
                    [id |-> t, maker |-> mid, taker |-> nextOrder,
                     makerAccount |-> m.account, takerAccount |-> cur.account,
                     takerSide |-> cur.side, price |-> px, qty |-> q,
                     seq |-> nextSeq + 1, at |-> cur.at])
     /\ tradesOf' = [tradesOf EXCEPT ![m.account] = @ \cup {t},
                                     ![cur.account] = @ \cup {t}]
     /\ curFills' = Append(curFills, t)
     /\ EmitNext("traded", nextOrder, mid, q)
     /\ UNCHANGED <<byAccount, byClientId, fillIds, placed, nextOrder, lastNow,
                    pc, selfTrade, doomed, moves>>

-----------------------------------------------------------------------------
(* Placing an order: what happens to the remainder.                        *)

MatchingDone ==
  /\ pc = "match"
  /\ \/ cur.remaining = 0
     \/ selfTrade
     \/ \A px \in keys[Opposite(cur.side)] : ~Crosses(cur.side, cur.price, px)

(* The order enters the lookups with its final status, "extra" (its own    *)
(* closing, if it closed) is noted, and the reply is what it is now.       *)
Conclude(o, extra) ==
  /\ EnforceRetention([orders EXCEPT ![nextOrder] = o], byAccount, byClientId,
                      IF curFills = <<>> THEN fillIds
                      ELSE [fillIds EXCEPT ![nextOrder] =
                              [filled |-> o.qty - o.remaining, ids |-> curFills]],
                      closed \o extra,
                      [placed EXCEPT ![nextOrder] =
                              [order |-> o, fills |-> curFills]],
                      lastNow)
  /\ pc' = "idle"
  /\ cur' = None
  /\ curFills' = <<>>
  /\ selfTrade' = FALSE
  /\ UNCHANGED <<lastPrice, nextTrade, ledgers, nextOrder, lastNow, doomed,
                 moves>>

FinishFilled ==
  /\ MatchingDone
  /\ cur.remaining = 0
  /\ Conclude([cur EXCEPT !.status = "filled"],
              <<Closing(nextOrder, cur.at)>>)
  /\ UNCHANGED <<levelVars, balances, exposure, nextSeq, eventVars>>

LevelWith_AtFront(lv, id, qty) ==
  [total |-> lv.total + qty, live |-> lv.live + 1, queue |-> <<id>> \o lv.queue]

LevelWith(lv, id, qty) ==
  [total |-> lv.total + qty, live |-> lv.live + 1, queue |-> Append(lv.queue, id)]

RestingStatus(o) == IF o.remaining < o.qty THEN "partial" ELSE "open"

FinishResting ==
  /\ MatchingDone
  /\ cur.remaining > 0
  /\ ~selfTrade
  /\ cur.tif = "gtc"
  /\ ExposureAllows(cur.account, cur.price, cur.remaining)
  /\ keys' = [keys EXCEPT ![cur.side] = @ \cup {cur.price}]
  /\ level' = [level EXCEPT ![cur.side][cur.price] =
                 LevelWith(@, nextOrder, cur.remaining)]
  /\ exposure' = [exposure EXCEPT ![cur.account] =
                    ExposureAdd(@, cur.price, cur.remaining)]
  /\ Conclude([cur EXCEPT !.status = RestingStatus(cur)], <<>>)
  /\ UNCHANGED <<balances, nextSeq, eventVars>>

(* Why the remainder does not rest.                                        *)
Refusal ==
  IF selfTrade THEN "stp" ELSE IF cur.tif = "gtc" THEN "exposure" ELSE cur.tif

ReleaseFunds(a, side, price, remaining) ==
  balances' = IF EnforceBalances
              THEN [balances EXCEPT ![a] = Release(@, side, price, remaining)]
              ELSE balances

FinishCancelled ==
  /\ MatchingDone
  /\ cur.remaining > 0
  /\ selfTrade \/ cur.tif # "gtc"
       \/ ~ExposureAllows(cur.account, cur.price, cur.remaining)
  /\ ReleaseFunds(cur.account, cur.side, cur.price, cur.remaining)
  /\ EmitNext("cancelled", nextOrder, 0, 0)
  /\ Conclude([cur EXCEPT !.status = "cancelled", !.reason = Refusal],
              <<Closing(nextOrder, cur.at)>>)
  /\ UNCHANGED <<levelVars, exposure>>

-----------------------------------------------------------------------------
(* Cancelling.                                                             *)

TakeFromLevel_ForgetsLive(lv, remaining) ==
  [lv EXCEPT !.total = @ - remaining]

(* The level is adjusted at once; the queue entry stays until reached.     *)
TakeFromLevel(lv, remaining) ==
  [lv EXCEPT !.total = @ - remaining, !.live = @ - 1]

CancelLive(id, now) ==
  LET o == orders[id]
  IN /\ exposure' = [exposure EXCEPT ![o.account] =
                       ExposureSub(@, o.price, o.remaining, TRUE)]
     /\ ReleaseFunds(o.account, o.side, o.price, o.remaining)
     /\ IF o.price \in keys[o.side]
        THEN PutLevel(o.side, o.price,
                      TakeFromLevel(level[o.side][o.price], o.remaining))
        ELSE UNCHANGED levelVars
     /\ lastNow' = now
     /\ EnforceRetention([orders EXCEPT ![id].status = "cancelled",
                                        ![id].reason = "user"],
                         byAccount, byClientId, fillIds,
                         Append(closed, Closing(id, now)), placed, now)
     /\ UNCHANGED <<lastPrice, nextTrade, ledgers, nextOrder, placeVars, moves>>

Cancel_AnyStatus(a, id, now) ==
  /\ pc = "idle"
  /\ id \in InMemory
  /\ orders[id].account = a
  /\ CancelLive(id, now)
  /\ EmitFirst("cancelled", id, 0)
  /\ UNCHANGED <<pc, doomed>>

Cancel(a, id, now) ==
  /\ pc = "idle"
  /\ id \in LiveIds
  /\ orders[id].account = a
  /\ CancelLive(id, now)
  /\ EmitFirst("cancelled", id, 0)
  /\ UNCHANGED <<pc, doomed>>

(* Not found, another account's, or no longer live: only the clock moves.  *)
CancelRefused(a, id, now) ==
  /\ pc = "idle"
  /\ ~(id \in LiveIds /\ orders[id].account = a)
  /\ lastNow' = now
  /\ UNCHANGED <<levelVars, indexVars, tradeVars, moneyVars, exposure,
                 nextOrder, nextSeq, pc, placeVars, doomed, moves, eventVars>>

CancelAll(a, now) ==
  /\ pc = "idle"
  /\ byAccount[a] \cap LiveIds # {}
  /\ pc' = "cancelAll"
  /\ doomed' = [ids |-> byAccount[a] \cap LiveIds, now |-> now]
  /\ feed' = <<>>
  /\ UNCHANGED <<levelVars, indexVars, tradeVars, moneyVars, exposure,
                 nextOrder, nextSeq, lastNow, placeVars, moves, mirror>>

(* Oldest first.                                                           *)
CancelNext ==
  /\ pc = "cancelAll"
  /\ \E id \in doomed.ids :
       /\ \A other \in doomed.ids : id <= other
       /\ CancelLive(id, doomed.now)
       /\ EmitNext("cancelled", id, 0, 0)
       /\ doomed' = [doomed EXCEPT !.ids = @ \ {id}]
       /\ pc' = IF doomed.ids = {id} THEN "idle" ELSE "cancelAll"

-----------------------------------------------------------------------------
Funding(a) ==
  [EmptyWallet EXCEPT !.usdc = Fund[a].usdc, !.eth = Fund[a].eth]

(* The book as serve() hands it to the matcher: empty, after the deposits  *)
(* of fund_at_start, one per account.                                      *)
Init ==
  /\ keys = [s \in Side |-> {}]
  /\ level = [s \in Side |-> [p \in Price |-> EmptyLevel]]
  /\ orders = [id \in OrderId |-> None]
  /\ byAccount = [a \in Account |-> {}]
  /\ byClientId = [a \in Account |-> [c \in ClientId |-> 0]]
  /\ fillIds = [id \in OrderId |-> NoFills]
  /\ closed = <<>>
  /\ trades = <<>>
  /\ tradesOf = [a \in Account |-> {}]
  /\ lastPrice = 0
  /\ nextOrder = 0 /\ nextTrade = 0 /\ nextSeq = Cardinality(Account)
  /\ balances = [a \in Account |-> Funding(a)]
  /\ ledgers = [a \in Account |->
                  [EmptyLedger EXCEPT !.depositsUsdc = Fund[a].usdc,
                                      !.depositsEth = Fund[a].eth]]
  /\ exposure = [a \in Account |-> NoExposure]
  /\ lastNow = 0
  /\ pc = "idle" /\ cur = None /\ curFills = <<>> /\ selfTrade = FALSE
  /\ doomed = [ids |-> {}, now |-> 0]
  /\ moves = 0
  /\ feed = <<>>
  /\ mirror = [id \in OrderId |-> 0]
  /\ placed = [id \in OrderId |-> None]

Command ==
  \/ \E a \in Account, x \in Amount, y \in Amount :
       Deposit(a, x, y) \/ Withdraw(a, x, y)
  \/ \E r \in Requests, now \in Time : RejectOrder(r, now) \/ AcceptOrder(r, now)
  \/ \E a \in Account, id \in OrderId, now \in Time :
       Cancel(a, id, now) \/ CancelRefused(a, id, now)
  \/ \E a \in Account, now \in Time : CancelAll(a, now)

(* The rest of a placement or of a cancel-all, once it started.            *)
Work ==
  \/ \E px \in Price :
       DropStale(px) \/ StopAtOwn(px) \/ Fill(px)
  \/ FinishFilled \/ FinishResting \/ FinishCancelled
  \/ CancelNext

Next == Command \/ Work

(* The thread does not stop inside a command; commands need not arrive.    *)
Spec == Init /\ [][Next]_vars /\ WF_vars(Work)

=============================================================================
