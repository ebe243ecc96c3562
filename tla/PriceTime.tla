----------------------------- MODULE PriceTime ------------------------------
(***************************************************************************)
(* What a limit order book promises, without levels, queues or indexes: a  *)
(* set of resting orders and at most one incoming order, which trades with *)
(* the best-priced and, at one price, the oldest resting order, at that    *)
(* order's price, one trade at a time. Book.tla implements it (see         *)
(* BookInvariants.tla); stale queue entries, retention and money are       *)
(* invisible here.                                                         *)
(***************************************************************************)
EXTENDS Integers

CONSTANTS Account, Price, Qty, OrderId, None

VARIABLES
  resting,    \* resting orders
  taker,      \* the incoming order, or None
  lastId,     \* ids are given out in arrival order
  lastPrice   \* price of the last trade, 0 before the first

vars == <<resting, taker, lastId, lastPrice>>

Crossing ==
  {m \in resting : /\ m.side # taker.side
                   /\ IF taker.side = "buy" THEN m.price <= taker.price
                                            ELSE m.price >= taker.price}

(* Price first, then arrival.                                              *)
Precedes(m, n) ==
  \/ m.price = n.price /\ m.id < n.id
  \/ IF m.side = "sell" THEN m.price < n.price ELSE m.price > n.price

First(m) == m \in Crossing /\ \A n \in Crossing \ {m} : Precedes(m, n)

Init == resting = {} /\ taker = None /\ lastId = 0 /\ lastPrice = 0

(* An order refused at the door takes an id and nothing else.              *)
TurnAway ==
  /\ taker = None
  /\ lastId + 1 \in OrderId
  /\ lastId' = lastId + 1
  /\ UNCHANGED <<resting, taker, lastPrice>>

Arrive ==
  /\ taker = None
  /\ lastId + 1 \in OrderId
  /\ \E a \in Account, s \in {"buy", "sell"}, p \in Price, q \in Qty,
        t \in {"gtc", "ioc", "fok"} :
       taker' = [id |-> lastId + 1, account |-> a, side |-> s, price |-> p,
                 remaining |-> q, tif |-> t]
  /\ lastId' = lastId + 1
  /\ UNCHANGED <<resting, lastPrice>>

TradeOnce ==
  /\ taker # None
  /\ taker.remaining > 0
  /\ \E m \in resting :
       LET q == IF m.remaining < taker.remaining THEN m.remaining
                                                 ELSE taker.remaining
       IN /\ First(m)
          /\ m.account # taker.account
          /\ taker' = [taker EXCEPT !.remaining = @ - q]
          /\ resting' = (resting \ {m}) \cup
               (IF m.remaining = q THEN {}
                ELSE {[m EXCEPT !.remaining = @ - q]})
          /\ lastPrice' = m.price
  /\ UNCHANGED lastId

AsResting(o) ==
  [id |-> o.id, account |-> o.account, side |-> o.side, price |-> o.price,
   remaining |-> o.remaining]

Leave == taker' = None /\ UNCHANGED <<lastId, lastPrice>>

Complete ==
  /\ taker # None /\ taker.remaining = 0
  /\ Leave
  /\ UNCHANGED resting

(* Only good-till-cancelled orders rest, and only when nothing crosses.    *)
Rest ==
  /\ taker # None /\ taker.remaining > 0
  /\ taker.tif = "gtc"
  /\ Crossing = {}
  /\ resting' = resting \cup {AsResting(taker)}
  /\ Leave

(* A remainder is dropped at an order of its own account, or when nothing  *)
(* is left to trade with; never the remainder of a fill-or-kill order.     *)
Discard ==
  /\ taker # None /\ taker.remaining > 0
  /\ taker.tif # "fok"
  /\ Crossing = {} \/ \E m \in resting : First(m) /\ m.account = taker.account
  /\ Leave
  /\ UNCHANGED resting

CancelOne ==
  /\ taker = None
  /\ \E m \in resting : resting' = resting \ {m}
  /\ UNCHANGED <<taker, lastId, lastPrice>>

Next == TurnAway \/ Arrive \/ TradeOnce \/ Complete \/ Rest \/ Discard
          \/ CancelOne

Spec == Init /\ [][Next]_vars

=============================================================================
