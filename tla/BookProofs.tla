----------------------------- MODULE BookProofs -----------------------------
(***************************************************************************)
(* The order book of Book.tla, for every value of its constants. In the    *)
(* order of the parts:                                                     *)
(* - what the operators of Accounts.tla return;                            *)
(* - the inductive invariant TypeInv: types, with what a command in        *)
(*   progress relies on, and that archiving takes closed orders only;      *)
(* - what rests on these: the book never crosses, each wallet is explained *)
(*   by its ledger, each ledger adds up, the event feed has no gap, and a  *)
(*   closed order's record is final;                                       *)
(* - the exact invariant BookExact: levels, queues, reservations, exposure *)
(*   and the feed, which are sums over the orders;                         *)
(* - the order memory with its indexes, what a retry is told, and the      *)
(*   refinement of PriceTime.tla.                                          *)
(***************************************************************************)
EXTENDS BookInvariants, SequenceLemmas

(* A wallet explained by a ledger: what it holds, available and reserved,  *)
(* is what came in minus what went out.                                    *)
UsdcExplained(w, l) ==
  w.usdc + w.usdcReserved =
    l.depositsUsdc - l.withdrawalsUsdc + l.received - l.paid

EthExplained(w, l) ==
  w.eth + w.ethReserved =
    l.depositsEth - l.withdrawalsEth + l.bought - l.sold

Explained(w, l) == UsdcExplained(w, l) /\ EthExplained(w, l)

-----------------------------------------------------------------------------
(* A notional is an integer.                                               *)
LEMMA NotionalType ==
  ASSUME NEW p \in Int, NEW q \in Int
  PROVE  p * q \in Int
  OBVIOUS

(* The smaller of two is one of them and no larger than either.            *)
LEMMA SmallerOfTwo ==
  ASSUME NEW x \in Int, NEW y \in Int
  PROVE  /\ SmallerOf(x, y) \in Int
         /\ SmallerOf(x, y) <= x
         /\ SmallerOf(x, y) <= y
         /\ SmallerOf(x, y) \in {x, y}
  BY DEF SmallerOf

(* Reserving and releasing move an amount within a wallet.                 *)
SameHoldings(v, w) ==
  /\ v.usdc + v.usdcReserved = w.usdc + w.usdcReserved
  /\ v.eth + v.ethReserved = w.eth + w.ethReserved

LEMMA SameHoldingsExplained ==
  ASSUME NEW v, NEW w, NEW l, SameHoldings(v, w), Explained(w, l)
  PROVE  Explained(v, l)
  BY DEF SameHoldings, Explained, UsdcExplained, EthExplained

LEMMA ReserveIsInternal ==
  ASSUME NEW w \in Wallet, NEW side \in Side, NEW price \in Int, NEW qty \in Int
  PROVE  /\ Reserve(w, side, price, qty) \in Wallet
         /\ SameHoldings(Reserve(w, side, price, qty), w)
  <1> DEFINE n == price * qty
             a == w.usdc - n
             b == w.usdcReserved + n
             c == w.eth - qty
             d == w.ethReserved + qty
  <1>1. n \in Int
    BY NotionalType
  <1>2. Reserve(w, side, price, qty) =
          IF side = "buy" THEN [w EXCEPT !.usdc = a, !.usdcReserved = b]
          ELSE [w EXCEPT !.eth = c, !.ethReserved = d]
    BY DEF Reserve
  <1> HIDE DEF n
  <1>3. /\ a \in Int /\ b \in Int /\ c \in Int /\ d \in Int
        /\ a + b = w.usdc + w.usdcReserved /\ c + d = w.eth + w.ethReserved
    BY <1>1 DEF Wallet
  <1> HIDE DEF a, b, c, d
  <1>4. QED
    BY <1>2, <1>3 DEF Wallet, SameHoldings

LEMMA ReleaseIsInternal ==
  ASSUME NEW w \in Wallet, NEW side \in Side, NEW price \in Int, NEW qty \in Int
  PROVE  /\ Release(w, side, price, qty) \in Wallet
         /\ SameHoldings(Release(w, side, price, qty), w)
  <1> DEFINE n == price * qty
             a == w.usdcReserved - n
             b == w.usdc + n
             c == w.ethReserved - qty
             d == w.eth + qty
  <1>1. n \in Int
    BY NotionalType
  <1>2. Release(w, side, price, qty) =
          IF side = "buy" THEN [w EXCEPT !.usdcReserved = a, !.usdc = b]
          ELSE [w EXCEPT !.ethReserved = c, !.eth = d]
    BY DEF Release
  <1> HIDE DEF n
  <1>3. /\ a \in Int /\ b \in Int /\ c \in Int /\ d \in Int
        /\ b + a = w.usdc + w.usdcReserved /\ d + c = w.eth + w.ethReserved
    BY <1>1 DEF Wallet
  <1> HIDE DEF a, b, c, d
  <1>4. QED
    BY <1>2, <1>3 DEF Wallet, SameHoldings

-----------------------------------------------------------------------------
(* The cost relieved by a sale is an integer: the division is reached only *)
(* with something in the inventory.                                        *)
LEMMA CostRemovedType ==
  ASSUME NEW l \in Ledger, NEW n \in Int, n <= l.inventory
  PROVE  CostRemoved(l, n) \in Int
  <1> DEFINE c == l.cost * n
  <1>1. l.cost \in Int /\ l.inventory \in Int
    BY DEF Ledger
  <1>2. c \in Int
    BY <1>1, NotionalType
  <1> HIDE DEF c
  <1>3. n > 0 => c \div l.inventory \in Int
    BY <1>1, <1>2
  <1>4. QED
    BY <1>3 DEF CostRemoved, c

(* What a purchase and a sale change in a ledger.                          *)
LEMMA RecordBuyFields ==
  ASSUME NEW l \in Ledger, NEW px \in Int, NEW q \in Int
  PROVE  LET b == RecordBuy(l, px, q)
         IN /\ b \in Ledger
            /\ b.paid = l.paid + px * q /\ b.bought = l.bought + q
            /\ b.received = l.received /\ b.sold = l.sold
            /\ b.depositsUsdc = l.depositsUsdc
            /\ b.depositsEth = l.depositsEth
            /\ b.withdrawalsUsdc = l.withdrawalsUsdc
            /\ b.withdrawalsEth = l.withdrawalsEth
  <1> DEFINE n == px * q
             v1 == l.bought + q
             v2 == l.paid + n
             v3 == l.inventory + q
             v4 == l.cost + n
             v5 == l.trades + 1
  <1>1. n \in Int
    BY NotionalType
  <1>2. RecordBuy(l, px, q) =
          [l EXCEPT !.bought = v1, !.paid = v2, !.inventory = v3,
                    !.cost = v4, !.trades = v5]
    BY DEF RecordBuy
  <1> HIDE DEF n
  <1>3. /\ v1 \in Int /\ v2 \in Int /\ v3 \in Int /\ v4 \in Int /\ v5 \in Int
        /\ v1 = l.bought + q /\ v2 = l.paid + n
    BY <1>1 DEF Ledger
  <1> HIDE DEF v1, v2, v3, v4, v5
  <1>4. QED
    BY <1>2, <1>3, ZenonT(60) DEF Ledger, n

LEMMA RecordSellFields ==
  ASSUME NEW l \in Ledger, NEW px \in Int, NEW q \in Int
  PROVE  LET s == RecordSell(l, px, q)
         IN /\ s \in Ledger
            /\ s.received = l.received + px * q /\ s.sold = l.sold + q
            /\ s.paid = l.paid /\ s.bought = l.bought
            /\ s.depositsUsdc = l.depositsUsdc
            /\ s.depositsEth = l.depositsEth
            /\ s.withdrawalsUsdc = l.withdrawalsUsdc
            /\ s.withdrawalsEth = l.withdrawalsEth
  <1> DEFINE n == px * q
             k == SmallerOf(q, l.inventory)
             removed == CostRemoved(l, k)
             gain == px * k
             v1 == l.sold + q
             v2 == l.received + n
             v3 == l.trades + 1
             v4 == l.pnl + (gain - removed)
             v5 == l.cost - removed
             v6 == l.inventory - k
             v7 == l.soldFromDeposits + (q - k)
  <1>1. l.inventory \in Int
    BY DEF Ledger
  <1>2. k \in Int /\ k <= l.inventory
    BY <1>1, SmallerOfTwo
  <1>3. n \in Int /\ gain \in Int
    BY <1>2, NotionalType
  <1>4. removed \in Int
    BY <1>2, CostRemovedType
  <1>5. RecordSell(l, px, q) =
          [l EXCEPT !.sold = v1, !.received = v2, !.trades = v3, !.pnl = v4,
                    !.cost = v5, !.inventory = v6, !.soldFromDeposits = v7]
    BY Zenon DEF RecordSell
  <1> HIDE DEF n, k, removed, gain
  <1>6. /\ v1 \in Int /\ v2 \in Int /\ v3 \in Int /\ v4 \in Int /\ v5 \in Int
        /\ v6 \in Int /\ v7 \in Int
    BY <1>2, <1>3, <1>4 DEF Ledger
  <1>7. v1 = l.sold + q /\ v2 = l.received + px * q
    BY DEF n
  <1> HIDE DEF v1, v2, v3, v4, v5, v6, v7
  <1>8. [l EXCEPT !.sold = v1, !.received = v2, !.trades = v3, !.pnl = v4,
                  !.cost = v5, !.inventory = v6, !.soldFromDeposits = v7]
          \in Ledger
    BY <1>6 DEF Ledger
  <1>9. QED
    BY <1>5, <1>7, <1>8 DEF Ledger

-----------------------------------------------------------------------------
(* What comes in or goes out is recorded one to one.                       *)
LEMMA UsdcIn ==
  ASSUME NEW w \in Wallet, NEW l \in Ledger, NEW v \in Wallet, NEW k \in Ledger,
         NEW x \in Int, UsdcExplained(w, l),
         v.usdc + v.usdcReserved = w.usdc + w.usdcReserved + x,
         k.received = l.received + x, k.paid = l.paid,
         k.depositsUsdc = l.depositsUsdc, k.withdrawalsUsdc = l.withdrawalsUsdc
  PROVE  UsdcExplained(v, k)
  BY DEF UsdcExplained, Wallet, Ledger

LEMMA UsdcOut ==
  ASSUME NEW w \in Wallet, NEW l \in Ledger, NEW v \in Wallet, NEW k \in Ledger,
         NEW x \in Int, UsdcExplained(w, l),
         v.usdc + v.usdcReserved = w.usdc + w.usdcReserved - x,
         k.received = l.received, k.paid = l.paid + x,
         k.depositsUsdc = l.depositsUsdc, k.withdrawalsUsdc = l.withdrawalsUsdc
  PROVE  UsdcExplained(v, k)
  BY DEF UsdcExplained, Wallet, Ledger

LEMMA EthIn ==
  ASSUME NEW w \in Wallet, NEW l \in Ledger, NEW v \in Wallet, NEW k \in Ledger,
         NEW x \in Int, EthExplained(w, l),
         v.eth + v.ethReserved = w.eth + w.ethReserved + x,
         k.bought = l.bought + x, k.sold = l.sold,
         k.depositsEth = l.depositsEth, k.withdrawalsEth = l.withdrawalsEth
  PROVE  EthExplained(v, k)
  BY DEF EthExplained, Wallet, Ledger

LEMMA EthOut ==
  ASSUME NEW w \in Wallet, NEW l \in Ledger, NEW v \in Wallet, NEW k \in Ledger,
         NEW x \in Int, EthExplained(w, l),
         v.eth + v.ethReserved = w.eth + w.ethReserved - x,
         k.bought = l.bought, k.sold = l.sold + x,
         k.depositsEth = l.depositsEth, k.withdrawalsEth = l.withdrawalsEth
  PROVE  EthExplained(v, k)
  BY DEF EthExplained, Wallet, Ledger

(* A fill moves both wallets exactly as it is recorded in both ledgers,    *)
(* whichever side the taker is on and whatever it gains over its limit.    *)
LEMMA FillIsExplained ==
  ASSUME NEW w \in Wallet, NEW l \in Ledger, NEW side \in Side,
         NEW limit \in Int, NEW px \in Int, NEW q \in Int
  PROVE  /\ SettleTaker(w, side, limit, px, q) \in Wallet
         /\ SettleMaker(w, side, px, q) \in Wallet
         /\ Explained(w, l) =>
              /\ side = "buy" =>
                   /\ Explained(SettleTaker(w, side, limit, px, q), RecordBuy(l, px, q))
                   /\ Explained(SettleMaker(w, side, px, q), RecordSell(l, px, q))
              /\ side = "sell" =>
                   /\ Explained(SettleTaker(w, side, limit, px, q), RecordSell(l, px, q))
                   /\ Explained(SettleMaker(w, side, px, q), RecordBuy(l, px, q))
  <1> DEFINE n == px * q
             r == limit * q
             b == RecordBuy(l, px, q)
             s == RecordSell(l, px, q)
             a1 == w.usdcReserved - r
             a2 == w.usdc + (r - n)
             a3 == w.eth + q
             a4 == w.ethReserved - q
             a5 == w.usdc + n
             a6 == w.usdcReserved - n
  <1>1. n \in Int /\ r \in Int
    BY NotionalType
  <1>2. /\ b \in Ledger
        /\ b.paid = l.paid + n /\ b.bought = l.bought + q
        /\ b.received = l.received /\ b.sold = l.sold
        /\ b.depositsUsdc = l.depositsUsdc /\ b.depositsEth = l.depositsEth
        /\ b.withdrawalsUsdc = l.withdrawalsUsdc
        /\ b.withdrawalsEth = l.withdrawalsEth
    BY RecordBuyFields
  <1>3. /\ s \in Ledger
        /\ s.received = l.received + n /\ s.sold = l.sold + q
        /\ s.paid = l.paid /\ s.bought = l.bought
        /\ s.depositsUsdc = l.depositsUsdc /\ s.depositsEth = l.depositsEth
        /\ s.withdrawalsUsdc = l.withdrawalsUsdc
        /\ s.withdrawalsEth = l.withdrawalsEth
    BY RecordSellFields
  <1>4. SettleTaker(w, side, limit, px, q) =
          IF side = "buy"
          THEN [w EXCEPT !.usdcReserved = a1, !.usdc = a2, !.eth = a3]
          ELSE [w EXCEPT !.ethReserved = a4, !.usdc = a5]
    BY DEF SettleTaker
  <1>5. SettleMaker(w, side, px, q) =
          IF side = "buy"
          THEN [w EXCEPT !.ethReserved = a4, !.usdc = a5]
          ELSE [w EXCEPT !.usdcReserved = a6, !.eth = a3]
    BY DEF SettleMaker
  <1> HIDE DEF n, r, b, s
  <1>6. /\ a1 \in Int /\ a2 \in Int /\ a3 \in Int /\ a4 \in Int /\ a5 \in Int
        /\ a6 \in Int
        /\ a2 + a1 = w.usdc + w.usdcReserved - n
        /\ a5 + w.usdcReserved = w.usdc + w.usdcReserved + n
        /\ w.usdc + a6 = w.usdc + w.usdcReserved - n
        /\ a3 + w.ethReserved = w.eth + w.ethReserved + q
        /\ w.eth + a4 = w.eth + w.ethReserved - q
    BY <1>1 DEF Wallet
  <1> HIDE DEF a1, a2, a3, a4, a5, a6
  <1>7. /\ SettleTaker(w, side, limit, px, q) \in Wallet
        /\ SettleMaker(w, side, px, q) \in Wallet
    BY <1>4, <1>5, <1>6 DEF Wallet, Side
  <1> DEFINE t == SettleTaker(w, side, limit, px, q)
             m == SettleMaker(w, side, px, q)
  <1>a. t \in Wallet /\ m \in Wallet
    BY <1>7
  <1>8. ASSUME side = "buy"
        PROVE  /\ t.usdc + t.usdcReserved = w.usdc + w.usdcReserved - n
               /\ t.eth + t.ethReserved = w.eth + w.ethReserved + q
               /\ m.usdc + m.usdcReserved = w.usdc + w.usdcReserved + n
               /\ m.eth + m.ethReserved = w.eth + w.ethReserved - q
    BY <1>4, <1>5, <1>6, <1>8 DEF Wallet
  <1>9. ASSUME side = "sell"
        PROVE  /\ t.usdc + t.usdcReserved = w.usdc + w.usdcReserved + n
               /\ t.eth + t.ethReserved = w.eth + w.ethReserved - q
               /\ m.usdc + m.usdcReserved = w.usdc + w.usdcReserved - n
               /\ m.eth + m.ethReserved = w.eth + w.ethReserved + q
    BY <1>4, <1>5, <1>6, <1>9 DEF Wallet
  <1> HIDE DEF t, m
  <1>10. ASSUME Explained(w, l), side = "buy"
         PROVE  Explained(t, b) /\ Explained(m, s)
    BY <1>1, <1>2, <1>3, <1>8, <1>10, <1>a, UsdcOut, EthIn, UsdcIn, EthOut DEF Explained
  <1>11. ASSUME Explained(w, l), side = "sell"
         PROVE  Explained(t, s) /\ Explained(m, b)
    BY <1>1, <1>2, <1>3, <1>9, <1>11, <1>a, UsdcIn, EthOut, UsdcOut, EthIn DEF Explained
  <1>12. QED
    BY <1>7, <1>10, <1>11 DEF b, s, t, m

-----------------------------------------------------------------------------
(* Average-cost accounting: LedgerAddsUp for one ledger, and what it needs *)
(* to be inductive: nothing is relieved that is not there.                 *)
LedgerSound(l) ==
  /\ l.inventory >= 0 /\ l.soldFromDeposits >= 0
  /\ l.inventory + l.sold = l.bought + l.soldFromDeposits
  /\ l.inventory = 0 => l.cost = 0
  /\ l.soldFromDeposits = 0 => l.cost + l.received = l.paid + l.pnl

LEMMA BuyKeepsLedgerSound ==
  ASSUME NEW l \in Ledger, NEW px \in Int, NEW q \in Nat, LedgerSound(l)
  PROVE  LedgerSound(RecordBuy(l, px, q))
  <1> DEFINE n == px * q
             b == RecordBuy(l, px, q)
  <1>1. n \in Int /\ (q = 0 => n = 0)
    BY NotionalType
  <1>2. /\ b.inventory = l.inventory + q /\ b.cost = l.cost + n
        /\ b.bought = l.bought + q /\ b.paid = l.paid + n
        /\ b.sold = l.sold /\ b.received = l.received
        /\ b.pnl = l.pnl /\ b.soldFromDeposits = l.soldFromDeposits
    BY DEF RecordBuy, Ledger
  <1>3. /\ l.inventory \in Int /\ l.cost \in Int /\ l.bought \in Int /\ l.paid \in Int
        /\ l.sold \in Int /\ l.received \in Int /\ l.pnl \in Int
        /\ l.soldFromDeposits \in Int
    BY DEF Ledger
  <1> HIDE DEF n, b
  <1>4. LedgerSound(b)
    BY <1>1, <1>2, <1>3 DEF LedgerSound
  <1>5. QED
    BY <1>4 DEF b

(* Selling the whole inventory relieves the whole cost: the division is    *)
(* exact there, so rounding never leaves a cost without inventory.         *)
LEMMA WholeInventoryWholeCost ==
  ASSUME NEW c \in Int, NEW n \in Int, n > 0
  PROVE  (c * n) \div n = c
  OBVIOUS

LEMMA SellKeepsLedgerSound ==
  ASSUME NEW l \in Ledger, NEW px \in Int, NEW q \in Nat, LedgerSound(l)
  PROVE  LedgerSound(RecordSell(l, px, q))
  <1> DEFINE n == px * q
             k == SmallerOf(q, l.inventory)
             removed == CostRemoved(l, k)
             gain == px * k
             s == RecordSell(l, px, q)
  <1>1. /\ l.inventory \in Int /\ l.cost \in Int /\ l.bought \in Int /\ l.paid \in Int
        /\ l.sold \in Int /\ l.received \in Int /\ l.pnl \in Int
        /\ l.soldFromDeposits \in Int
    BY DEF Ledger
  <1>0. /\ l.inventory >= 0 /\ l.soldFromDeposits >= 0
        /\ l.inventory + l.sold = l.bought + l.soldFromDeposits
        /\ l.soldFromDeposits = 0 => l.cost + l.received = l.paid + l.pnl
    BY DEF LedgerSound
  <1>2. k \in Int /\ k <= l.inventory /\ k <= q /\ k >= 0
    <2>1. k \in Int /\ k <= l.inventory /\ k <= q /\ k \in {q, l.inventory}
      <3>1. l.inventory \in Int /\ q \in Int
        BY <1>1
      <3>2. QED
        BY <3>1, SmallerOfTwo
    <2>2. QED
      BY <1>0, <2>1
  <1>3. n \in Int /\ gain \in Int /\ (k = q => gain = n)
    BY <1>2, NotionalType
  <1>4. removed \in Int
    BY <1>2, CostRemovedType
  <1>5. k = l.inventory => removed = l.cost
    BY <1>1, WholeInventoryWholeCost DEF LedgerSound, CostRemoved
  <1>6. /\ s.sold = l.sold + q /\ s.received = l.received + n
        /\ s.pnl = l.pnl + (gain - removed) /\ s.cost = l.cost - removed
        /\ s.inventory = l.inventory - k
        /\ s.soldFromDeposits = l.soldFromDeposits + (q - k)
        /\ s.bought = l.bought /\ s.paid = l.paid
    <2> DEFINE v1 == l.sold + q
               v2 == l.received + n
               v3 == l.trades + 1
               v4 == l.pnl + (gain - removed)
               v5 == l.cost - removed
               v6 == l.inventory - k
               v7 == l.soldFromDeposits + (q - k)
    <2>1. s = [l EXCEPT !.sold = v1, !.received = v2, !.trades = v3, !.pnl = v4,
                        !.cost = v5, !.inventory = v6, !.soldFromDeposits = v7]
      BY Zenon DEF RecordSell
    <2> HIDE DEF v1, v2, v3, v4, v5, v6, v7, s
    <2>2. /\ s.sold = v1 /\ s.received = v2 /\ s.pnl = v4 /\ s.cost = v5
          /\ s.inventory = v6 /\ s.soldFromDeposits = v7
          /\ s.bought = l.bought /\ s.paid = l.paid
      BY <2>1 DEF Ledger
    <2>3. QED
      BY <2>2 DEF v1, v2, v4, v5, v6, v7
  <1> HIDE DEF n, k, removed, gain, s
  <1>7. /\ s.inventory >= 0 /\ s.soldFromDeposits >= 0
        /\ s.inventory + s.sold = s.bought + s.soldFromDeposits
    BY <1>0, <1>1, <1>2, <1>6
  <1>8. s.inventory = 0 => s.cost = 0
    BY <1>1, <1>2, <1>4, <1>5, <1>6
  <1>9. s.soldFromDeposits = 0 => s.cost + s.received = s.paid + s.pnl
    <2>1. s.soldFromDeposits = 0 => l.soldFromDeposits = 0 /\ gain = n
      BY <1>0, <1>1, <1>2, <1>3, <1>6
    <2>2. ASSUME l.soldFromDeposits = 0, gain = n
          PROVE  s.cost + s.received = s.paid + s.pnl
      <3>1. l.cost + l.received = l.paid + l.pnl
        BY <1>0, <2>2
      <3>2. (l.cost - removed) + (l.received + n) = l.paid + (l.pnl + (n - removed))
        BY <1>1, <1>3, <1>4, <3>1
      <3>3. QED
        BY <1>6, <2>2, <3>2
    <2>3. QED
      BY <2>1, <2>2
  <1>10. LedgerSound(s)
    BY <1>7, <1>8, <1>9 DEF LedgerSound
  <1>11. QED
    BY <1>10 DEF s

-----------------------------------------------------------------------------
(* What a command in progress may rely on: the order being placed has an   *)
(* id nobody else has, and the orders cancel_all has yet to cancel live.   *)
InProgress ==
  /\ pc = "match" => /\ cur \in Order
                     /\ nextOrder \in OrderId
                     /\ orders[nextOrder] = None
  /\ pc = "cancelAll" => doomed.now \in Time /\ doomed.ids \subseteq LiveIds

FreshIds == \A id \in OrderId : id > nextOrder => orders[id] = None

(* The retention window lists orders that are closed, so archiving never   *)
(* takes one that lives.                                                   *)
Listed(s) == {s[i] : i \in DOMAIN s}

ClosedAreDead ==
  \A c \in Listed(closed) :
    /\ c.id \notin LiveIds
    /\ c.id <= nextOrder
    /\ pc = "match" => c.id # nextOrder

TypeInv == TypeOK /\ InProgress /\ FreshIds /\ ClosedAreDead

-----------------------------------------------------------------------------
(* Constants.                                                              *)
LEMMA OrderIsNotNone == \A o \in Order : o # None
  BY BookAssumption

LEMMA OrderIdsAreInts == OrderId \subseteq Nat \ {0}
  BY BookAssumption DEF OrderId

LEMMA PricesAreInts == \A p \in Price : p \in Int
  BY BookAssumption

LEMMA QtysAreInts == \A q \in Qty : q \in Int
  BY BookAssumption

LEMMA LiveOrders ==
  ASSUME TypeOK, NEW id \in LiveIds
  PROVE  id \in OrderId /\ orders[id] \in Order /\ Live(orders[id])
  BY DEF TypeOK, LiveIds, InMemory

-----------------------------------------------------------------------------
(* Archiving: what is left is what was there, or gone.                     *)
LEMMA RetentionKeepsTypes ==
  ASSUME trades \in Seq(Trade),
         tradesOf \in [Account -> SUBSET Nat],
         NEW os \in [OrderId -> Order \cup {None}],
         NEW accountIds \in [Account -> SUBSET OrderId],
         NEW clientIds \in [Account -> [ClientId -> {0} \cup OrderId]],
         NEW fi \in [OrderId -> FillList],
         NEW cl \in Seq(ClosedOrder),
         NEW pl \in [OrderId -> PlaceReply \cup {None}],
         NEW now,
         EnforceRetention(os, accountIds, clientIds, fi, cl, pl, now)
  PROVE  /\ orders' \in [OrderId -> Order \cup {None}]
         /\ byAccount' \in [Account -> SUBSET OrderId]
         /\ byClientId' \in [Account -> [ClientId -> {0} \cup OrderId]]
         /\ fillIds' \in [OrderId -> FillList]
         /\ closed' \in Seq(ClosedOrder)
         /\ placed' \in [OrderId -> PlaceReply \cup {None}]
         /\ trades' \in Seq(Trade)
         /\ tradesOf' \in [Account -> SUBSET Nat]
         /\ \A id \in OrderId : orders'[id] \in {os[id], None}
         /\ \A id \in OrderId :
              orders'[id] # os[id] => \E c \in Listed(cl) : c.id = id
         /\ Listed(closed') \subseteq Listed(cl)
  <1>1. PICK k \in 0 .. Len(cl), n \in 0 .. Len(trades) :
          LET gone == {cl[i].id : i \in 1 .. k}
              goneTrades == {trades[i].id : i \in 1 .. n}
          IN /\ orders' = Without(os, gone, None)
             /\ byAccount' = [a \in Account |-> accountIds[a] \ gone]
             /\ byClientId' = ForgetClientId(clientIds, os, gone)
             /\ fillIds' = Without(fi, gone, NoFills)
             /\ placed' = Without(pl, gone, None)
             /\ closed' = SubSeq(cl, k + 1, Len(cl))
             /\ trades' = SubSeq(trades, n + 1, Len(trades))
             /\ tradesOf' = [a \in Account |-> DropTrades(a, goneTrades)]
    BY DEF EnforceRetention
  <1> DEFINE gone == {cl[i].id : i \in 1 .. k}
  <1>2. /\ Len(cl) \in Nat /\ k \in Nat /\ k <= Len(cl) /\ DOMAIN cl = 1 .. Len(cl)
        /\ Len(trades) \in Nat /\ n \in Nat
        /\ DOMAIN trades = 1 .. Len(trades)
    BY LenProperties
  <1>3. \A id \in gone : \E c \in Listed(cl) : c.id = id
    <2>1. ASSUME NEW i \in 1 .. k
          PROVE  cl[i] \in Listed(cl)
      <3>1. i \in DOMAIN cl
        BY <1>2
      <3>2. QED
        BY <3>1, Zenon DEF Listed
    <2>2. QED
      BY <2>1
  <1>4. \A id \in OrderId : orders'[id] = IF id \in gone THEN None ELSE os[id]
    BY <1>1 DEF Without
  <1>5. orders' \in [OrderId -> Order \cup {None}]
    BY <1>1 DEF Without
  <1>6. byAccount' \in [Account -> SUBSET OrderId]
    BY <1>1
  <1>7. byClientId' \in [Account -> [ClientId -> {0} \cup OrderId]]
    BY <1>1 DEF ForgetClientId
  <1>8. NoFills \in FillList
    BY EmptySeq DEF NoFills, FillList
  <1>9. fillIds' \in [OrderId -> FillList]
    BY <1>1, <1>8 DEF Without
  <1>10. placed' \in [OrderId -> PlaceReply \cup {None}]
    BY <1>1 DEF Without
  <1>11. /\ closed' \in Seq(ClosedOrder)
         /\ \A i \in DOMAIN closed' : \E j \in DOMAIN cl : closed'[i] = cl[j]
    <2>1. \A i \in k + 1 .. Len(cl) : cl[i] \in ClosedOrder
      BY <1>2, ElementOfSeq
    <2>2. /\ SubSeq(cl, k + 1, Len(cl)) \in Seq(ClosedOrder)
          /\ Len(SubSeq(cl, k + 1, Len(cl))) =
               IF k + 1 <= Len(cl) THEN Len(cl) - (k + 1) + 1 ELSE 0
          /\ \A i \in 1 .. Len(cl) - (k + 1) + 1 :
               SubSeq(cl, k + 1, Len(cl))[i] = cl[k + 1 + i - 1]
      BY <1>2, <2>1, SubSeqProperties
    <2>3. ASSUME NEW i \in DOMAIN closed'
          PROVE  \E j \in DOMAIN cl : closed'[i] = cl[j]
      <3>1. DOMAIN closed' = 1 .. Len(closed')
        BY <1>1, <2>2
      <3>2. i \in 1 .. Len(cl) - (k + 1) + 1
        <4>1. Len(closed') = IF k + 1 <= Len(cl) THEN Len(cl) - (k + 1) + 1 ELSE 0
          BY <1>1, <2>2, Zenon
        <4>2. i \in 1 .. Len(closed')
          BY <3>1
        <4> DEFINE left == Len(closed')
                   all == Len(cl)
        <4>3. /\ left = IF k + 1 <= all THEN all - (k + 1) + 1 ELSE 0
              /\ i \in 1 .. left /\ all \in Nat /\ k \in Nat
          BY <1>2, <4>1, <4>2, Zenon
        <4> HIDE DEF left, all
        <4>4. i \in 1 .. all - (k + 1) + 1
          BY <4>3
        <4>5. QED
          BY <4>4 DEF all
      <3>3. closed'[i] = cl[k + 1 + i - 1] /\ k + 1 + i - 1 \in DOMAIN cl
        <4>1. k + 1 + i - 1 \in DOMAIN cl
          BY <1>2, <3>2
        <4>2. closed'[i] = cl[k + 1 + i - 1]
          BY <1>1, <1>2, <2>2, <3>2
        <4>3. QED
          BY <4>1, <4>2
      <3>4. QED
        BY <3>3
    <2>4. QED
      BY <1>1, <2>2, <2>3
  <1>12. trades' \in Seq(Trade)
    BY <1>1, <1>2, ElementOfSeq, SubSeqProperties
  <1>13. tradesOf' \in [Account -> SUBSET Nat]
    BY <1>1 DEF DropTrades
  <1>14. Listed(closed') \subseteq Listed(cl)
    BY <1>11 DEF Listed
  <1>15. QED
    BY <1>3, <1>4, <1>5, <1>6, <1>7, <1>9, <1>10, <1>11, <1>12, <1>13, <1>14

LEMMA ClosedIds ==
  ASSUME NEW cl \in Seq(ClosedOrder)
  PROVE  \A c \in Listed(cl) : c \in ClosedOrder /\ c.id \in OrderId /\ c.id \in Nat
  <1>1. \A i \in DOMAIN cl : cl[i] \in ClosedOrder
    BY ElementOfSeq, LenProperties
  <1>2. QED
    BY <1>1, OrderIdsAreInts DEF ClosedOrder, Listed

(* Noting one more closed order.                                           *)
LEMMA OneMoreClosed ==
  ASSUME NEW cl \in Seq(ClosedOrder), NEW id \in OrderId, NEW now \in Time
  PROVE  /\ Append(cl, Closing(id, now)) \in Seq(ClosedOrder)
         /\ Closing(id, now).id = id
         /\ Listed(Append(cl, Closing(id, now))) = Listed(cl) \cup {Closing(id, now)}
  <1> DEFINE c == Closing(id, now)
             more == Append(cl, c)
  <1>1. c \in ClosedOrder /\ c.id = id
    BY DEF Closing, ClosedOrder
  <1> HIDE DEF c
  <1>2. /\ more \in Seq(ClosedOrder)
        /\ Len(more) = Len(cl) + 1
        /\ \A j \in 1 .. Len(cl) : more[j] = cl[j]
        /\ more[Len(cl) + 1] = c
    BY <1>1
  <1>3. /\ DOMAIN more = 1 .. Len(cl) + 1
        /\ DOMAIN cl = 1 .. Len(cl) /\ Len(cl) \in Nat
    BY <1>2, LenProperties
  <1> HIDE DEF more
  <1>4. Listed(more) = Listed(cl) \cup {c}
    BY <1>2, <1>3 DEF Listed
  <1>5. QED
    BY <1>1, <1>2, <1>4 DEF c, more

(* What the window lists stays dead when it held only dead orders.         *)
LEMMA RetentionKeepsDead ==
  ASSUME NEW os, NEW cl \in Seq(ClosedOrder), NEW n,
         \A id \in OrderId : orders'[id] \in {os[id], None},
         Listed(closed') \subseteq Listed(cl),
         \A c \in Listed(cl) : /\ c.id <= n
                               /\ os[c.id] = None \/ ~Live(os[c.id])
  PROVE  \A c \in Listed(closed') : c.id <= n /\ c.id \notin LiveIds'
  <1>1. ASSUME NEW c \in Listed(closed')
        PROVE  c.id <= n /\ c.id \notin LiveIds'
    BY ClosedIds DEF LiveIds, InMemory, Live
  <1>2. QED
    BY <1>1

-----------------------------------------------------------------------------
(* Events.                                                                 *)
Kinds == {"accepted", "traded", "cancelled", "rejected", "funds"}

LEMMA ExceptType ==
  ASSUME NEW S, NEW T, NEW f \in [S -> T], NEW x, x \in S => f[x] \in T,
         NEW v, x \in S => v \in T
  PROVE  [f EXCEPT ![x] = v] \in [S -> T]
  OBVIOUS

LEMMA ToldType ==
  ASSUME NEW m \in [OrderId -> Int], NEW e \in Event
  PROVE  Told(m, e) \in [OrderId -> Int]
  <1> DEFINE i == e.id
             q == e.qty
             f == [id \in OrderId |-> IF id \in {e.id, e.maker} THEN m[id] - q
                                                              ELSE m[id]]
  <1>1. q \in Int
    BY DEF Event
  <1>2. Told(m, e) = CASE e.kind = "accepted" -> [m EXCEPT ![i] = q]
                       [] e.kind = "traded" -> f
                       [] e.kind = "cancelled" -> [m EXCEPT ![i] = 0]
                       [] OTHER -> m
    BY DEF Told
  <1> HIDE DEF i, q
  <1>3. f \in [OrderId -> Int]
    BY <1>1
  <1>4. [m EXCEPT ![i] = 0] \in [OrderId -> Int]
    BY ExceptType
  <1>5. [m EXCEPT ![i] = q] \in [OrderId -> Int]
    BY <1>1, ExceptType
  <1> HIDE DEF f
  <1>6. QED
    BY <1>2, <1>3, <1>4, <1>5

LEMMA EventType ==
  ASSUME NEW kind \in Kinds, NEW id \in 0 .. MaxOrders, NEW maker \in 0 .. MaxOrders,
         NEW qty \in Int, NEW seq \in Nat
  PROVE  EventOf(kind, id, maker, qty, seq) \in Event
  BY DEF EventOf, Event, Kinds

LEMMA EmitFirstTypes ==
  ASSUME TypeOK, NEW kind \in Kinds, NEW id \in 0 .. MaxOrders, NEW qty \in Int,
         EmitFirst(kind, id, qty)
  PROVE  nextSeq' \in Nat /\ feed' \in Seq(Event) /\ mirror' \in [OrderId -> Int]
  <1> DEFINE e == EventOf(kind, id, 0, qty, nextSeq + 1)
  <1>1. nextSeq' = nextSeq + 1 /\ feed' = <<e>> /\ mirror' = Told(mirror, e)
    BY DEF EmitFirst
  <1>2. nextSeq \in Nat /\ mirror \in [OrderId -> Int] /\ 0 \in 0 .. MaxOrders
    BY BookAssumption DEF TypeOK
  <1>3. e \in Event
    BY <1>2, EventType
  <1> HIDE DEF e
  <1>4. QED
    BY <1>1, <1>2, <1>3, ToldType

LEMMA EmitNextTypes ==
  ASSUME TypeOK, NEW kind \in Kinds, NEW id \in 0 .. MaxOrders,
         NEW maker \in 0 .. MaxOrders, NEW qty \in Int,
         EmitNext(kind, id, maker, qty)
  PROVE  nextSeq' \in Nat /\ feed' \in Seq(Event) /\ mirror' \in [OrderId -> Int]
  <1> DEFINE e == EventOf(kind, id, maker, qty, nextSeq + 1)
  <1>1. nextSeq' = nextSeq + 1 /\ feed' = Append(feed, e) /\ mirror' = Told(mirror, e)
    BY DEF EmitNext
  <1>2. nextSeq \in Nat /\ mirror \in [OrderId -> Int] /\ feed \in Seq(Event)
    BY DEF TypeOK
  <1>3. e \in Event
    BY <1>2, EventType
  <1> HIDE DEF e
  <1>4. QED
    BY <1>1, <1>2, <1>3, ToldType

-----------------------------------------------------------------------------
(* Every action keeps TypeInv.                                             *)
LEMMA CancelRefusedTypes ==
  ASSUME TypeInv, NEW a \in Account, NEW id \in OrderId, NEW now \in Time,
         CancelRefused(a, id, now)
  PROVE  TypeInv'
  <1>1. TypeOK'
    BY BookAssumption DEF TypeInv, TypeOK, CancelRefused, levelVars, indexVars,
       tradeVars, moneyVars, placeVars, eventVars
  <1>2. (InProgress /\ FreshIds /\ ClosedAreDead)'
    BY DEF TypeInv, TypeOK, InProgress, FreshIds, ClosedAreDead, LiveIds, InMemory, Live,
       CancelRefused, levelVars, indexVars, tradeVars, placeVars
  <1>3. QED
    BY <1>1, <1>2 DEF TypeInv

LEMMA StopAtOwnTypes ==
  ASSUME TypeInv, NEW px \in Price, StopAtOwn(px)
  PROVE  TypeInv'
  <1>1. TypeOK'
    BY DEF TypeInv, TypeOK, StopAtOwn, levelVars, indexVars,
       tradeVars, moneyVars, placeVars, eventVars
  <1>2. (InProgress /\ FreshIds /\ ClosedAreDead)'
    BY DEF TypeInv, TypeOK, InProgress, FreshIds, ClosedAreDead, LiveIds, InMemory, Live,
       StopAtOwn, levelVars, indexVars, tradeVars, placeVars
  <1>3. QED
    BY <1>1, <1>2 DEF TypeInv

LEMMA LevelWithTypes ==
  ASSUME TypeOK, NEW s \in Side, NEW px \in Price, NEW lv \in Level
  PROVE  [level EXCEPT ![s][px] = lv] \in [Side -> [Price -> Level]]
  BY DEF TypeOK

LEMMA DropStaleTypes ==
  ASSUME TypeInv, NEW px \in Price, DropStale(px)
  PROVE  TypeInv'
  <1> DEFINE s == Opposite(cur.side)
             lv == level[s][px]
  <1>1. s \in Side
    BY DEF Opposite, Side
  <1>2. lv \in Level /\ lv.queue # <<>>
    BY <1>1 DEF TypeInv, TypeOK, DropStale
  <1>3. Tail(lv.queue) \in Seq(OrderId)
    BY <1>2, HeadTailProperties DEF Level
  <1>4. [lv EXCEPT !.queue = Tail(lv.queue)] \in Level
    BY <1>2, <1>3 DEF Level
  <1>5. level' \in [Side -> [Price -> Level]]
    BY <1>1, <1>4, LevelWithTypes DEF DropStale, TypeInv
  <1>6. TypeOK'
    BY <1>5 DEF TypeInv, TypeOK, DropStale, indexVars,
       tradeVars, moneyVars, placeVars, eventVars
  <1>7. (InProgress /\ FreshIds /\ ClosedAreDead)'
    BY DEF TypeInv, TypeOK, InProgress, FreshIds, ClosedAreDead, LiveIds, InMemory, Live,
       DropStale, indexVars, tradeVars, placeVars
  <1>8. QED
    BY <1>6, <1>7 DEF TypeInv

LEMMA MoveFundsTypes ==
  ASSUME TypeInv, NEW a \in Account, NEW w \in Wallet, NEW l \in Ledger,
         MoveFunds(a, w, l)
  PROVE  TypeInv'
  <1>1. nextSeq' \in Nat /\ feed' \in Seq(Event) /\ mirror' \in [OrderId -> Int]
    BY EmitFirstTypes, BookAssumption DEF MoveFunds, TypeInv, Kinds
  <1>2. TypeOK'
    BY <1>1 DEF TypeInv, TypeOK, MoveFunds, levelVars, indexVars, tradeVars, placeVars
  <1>3. (InProgress /\ FreshIds /\ ClosedAreDead)'
    BY DEF TypeInv, TypeOK, InProgress, FreshIds, ClosedAreDead, LiveIds, InMemory, Live,
       MoveFunds, indexVars, placeVars
  <1>4. QED
    BY <1>2, <1>3 DEF TypeInv

(* What a deposit and a withdrawal put in place.                           *)
LEMMA DepositMoves ==
  ASSUME TypeOK, NEW a \in Account, NEW x \in Amount, NEW y \in Amount, Deposit(a, x, y)
  PROVE  \E w \in Wallet, l \in Ledger :
           /\ MoveFunds(a, w, l)
           /\ Explained(balances[a], ledgers[a]) => Explained(w, l)
  <1>1. x \in Int /\ y \in Int /\ balances[a] \in Wallet /\ ledgers[a] \in Ledger
    BY BookAssumption DEF TypeOK
  <1> DEFINE w0 == balances[a]
             l0 == ledgers[a]
             w == [w0 EXCEPT !.usdc = @ + x, !.eth = @ + y]
             l == [l0 EXCEPT !.depositsUsdc = @ + x, !.depositsEth = @ + y]
             w1 == w0.usdc + x
             w2 == w0.eth + y
             l1 == l0.depositsUsdc + x
             l2 == l0.depositsEth + y
  <1>2. MoveFunds(a, w, l)
    BY DEF Deposit
  <1>3. w1 \in Int /\ w2 \in Int /\ l1 \in Int /\ l2 \in Int
    BY <1>1 DEF Wallet, Ledger
  <1>4. /\ w = [w0 EXCEPT !.usdc = w1, !.eth = w2]
        /\ l = [l0 EXCEPT !.depositsUsdc = l1, !.depositsEth = l2]
    OBVIOUS
  <1>5. Explained(w0, l0) => Explained(w, l)
    BY <1>1 DEF Wallet, Ledger, Explained, UsdcExplained, EthExplained
  <1> HIDE DEF w1, w2, l1, l2, w0, l0
  <1>6. w0 \in Wallet /\ l0 \in Ledger
    BY <1>1 DEF w0, l0
  <1>7. w \in Wallet /\ l \in Ledger
    BY <1>3, <1>4, <1>6 DEF Wallet, Ledger
  <1> HIDE DEF w, l
  <1>8. QED
    BY <1>2, <1>5, <1>7 DEF w0, l0

LEMMA WithdrawMoves ==
  ASSUME TypeOK, NEW a \in Account, NEW x \in Amount, NEW y \in Amount, Withdraw(a, x, y)
  PROVE  \E w \in Wallet, l \in Ledger :
           /\ MoveFunds(a, w, l)
           /\ Explained(balances[a], ledgers[a]) => Explained(w, l)
  <1>1. x \in Int /\ y \in Int /\ balances[a] \in Wallet /\ ledgers[a] \in Ledger
    BY BookAssumption DEF TypeOK
  <1> DEFINE w0 == balances[a]
             l0 == ledgers[a]
             w == [w0 EXCEPT !.usdc = @ - x, !.eth = @ - y]
             l == [l0 EXCEPT !.withdrawalsUsdc = @ + x, !.withdrawalsEth = @ + y]
             w1 == w0.usdc - x
             w2 == w0.eth - y
             l1 == l0.withdrawalsUsdc + x
             l2 == l0.withdrawalsEth + y
  <1>2. MoveFunds(a, w, l)
    BY DEF Withdraw
  <1>3. w1 \in Int /\ w2 \in Int /\ l1 \in Int /\ l2 \in Int
    BY <1>1 DEF Wallet, Ledger
  <1>4. /\ w = [w0 EXCEPT !.usdc = w1, !.eth = w2]
        /\ l = [l0 EXCEPT !.withdrawalsUsdc = l1, !.withdrawalsEth = l2]
    OBVIOUS
  <1>5. Explained(w0, l0) => Explained(w, l)
    <2>1. /\ w.usdc = w0.usdc - x /\ w.usdcReserved = w0.usdcReserved
          /\ w.eth = w0.eth - y /\ w.ethReserved = w0.ethReserved
      BY <1>1 DEF Wallet
    <2>2. /\ l.withdrawalsUsdc = l0.withdrawalsUsdc + x
          /\ l.withdrawalsEth = l0.withdrawalsEth + y
          /\ l.depositsUsdc = l0.depositsUsdc /\ l.depositsEth = l0.depositsEth
          /\ l.received = l0.received /\ l.paid = l0.paid
          /\ l.bought = l0.bought /\ l.sold = l0.sold
      BY <1>1 DEF Ledger
    <2> HIDE DEF w, l
    <2>4. /\ w0.usdc \in Int /\ w0.usdcReserved \in Int /\ w0.eth \in Int
          /\ w0.ethReserved \in Int
          /\ l0.withdrawalsUsdc \in Int /\ l0.withdrawalsEth \in Int
          /\ l0.depositsUsdc \in Int /\ l0.depositsEth \in Int
          /\ l0.received \in Int /\ l0.paid \in Int /\ l0.bought \in Int
          /\ l0.sold \in Int
      BY <1>1 DEF Wallet, Ledger
    <2> HIDE DEF w0, l0
    <2>5. UsdcExplained(w0, l0) => UsdcExplained(w, l)
      <3>1. SUFFICES ASSUME UsdcExplained(w0, l0)
                     PROVE  UsdcExplained(w, l)
        OBVIOUS
      <3>2. w0.usdc + w0.usdcReserved =
              l0.depositsUsdc - l0.withdrawalsUsdc + l0.received - l0.paid
        BY <3>1 DEF UsdcExplained
      <3>3. (w0.usdc - x) + w0.usdcReserved =
              l0.depositsUsdc - (l0.withdrawalsUsdc + x) + l0.received - l0.paid
        BY <1>1, <2>4, <3>2
      <3>4. QED
        BY <2>1, <2>2, <3>3 DEF UsdcExplained
    <2>6. EthExplained(w0, l0) => EthExplained(w, l)
      BY <1>1, <2>1, <2>2, <2>4 DEF EthExplained
    <2>3. QED
      BY <2>5, <2>6 DEF Explained
  <1> HIDE DEF w1, w2, l1, l2, w0, l0
  <1>6. w0 \in Wallet /\ l0 \in Ledger
    BY <1>1 DEF w0, l0
  <1>7. w \in Wallet /\ l \in Ledger
    BY <1>3, <1>4, <1>6 DEF Wallet, Ledger
  <1> HIDE DEF w, l
  <1>8. QED
    BY <1>2, <1>5, <1>7 DEF w0, l0

-----------------------------------------------------------------------------
(* Intake.                                                                 *)
LEMMA IntakeGivesFreshId ==
  ASSUME TypeInv, NEW r \in Requests, Intake(r)
  PROVE  /\ nextOrder + 1 \in OrderId /\ nextOrder + 1 \in 0 .. MaxOrders
         /\ nextOrder \in Nat /\ orders[nextOrder + 1] = None
  <1>1. nextOrder \in Nat /\ MaxOrders \in Nat /\ nextOrder < MaxOrders
    <2>1. nextOrder \in {0} \cup OrderId
      BY DEF TypeInv, TypeOK
    <2>2. nextOrder < MaxOrders
      BY DEF Intake
    <2>3. MaxOrders \in Nat
      BY BookAssumption
    <2>4. QED
      BY <2>1, <2>2, <2>3, OrderIdsAreInts
  <1>2. nextOrder + 1 \in OrderId
    BY <1>1 DEF OrderId
  <1>3. QED
    BY <1>1, <1>2 DEF TypeInv, FreshIds

LEMMA NewOrderType ==
  ASSUME TypeOK, NEW r \in Requests, NEW now \in Time
  PROVE  /\ NewOrder(r, now) \in Order
         /\ [NewOrder(r, now) EXCEPT !.status = "rejected"] \in Order
         /\ ~Live([NewOrder(r, now) EXCEPT !.status = "rejected"])
         /\ r.account \in Account /\ r.cid \in ClientId /\ r.side \in Side
         /\ r.price \in Nat /\ r.qty \in Nat
  <1>1. /\ r.account \in Account /\ r.cid \in ClientId /\ r.side \in Side
        /\ r.price \in Price /\ r.qty \in Qty /\ r.tif \in Tif
    BY BookAssumption DEF Request
  <1>2. r.price \in Nat /\ r.qty \in Nat
    BY <1>1, BookAssumption
  <1>3. nextSeq + 1 \in Nat
    BY DEF TypeOK
  <1>4. NewOrder(r, now) \in Order
    BY <1>1, <1>2, <1>3 DEF NewOrder, Order, Status, Reason
  <1>5. [NewOrder(r, now) EXCEPT !.status = "rejected"] \in Order
    BY <1>4 DEF Order, Status
  <1>6. ~Live([NewOrder(r, now) EXCEPT !.status = "rejected"])
    BY DEF Live, NewOrder
  <1>7. QED
    BY <1>1, <1>2, <1>4, <1>5, <1>6

LEMMA IndexedTypes ==
  ASSUME TypeOK, NEW id \in OrderId, NEW a \in Account, NEW c \in ClientId
  PROVE  /\ WithAccountId(id, a) \in [Account -> SUBSET OrderId]
         /\ WithClientId(id, a, c) \in [Account -> [ClientId -> {0} \cup OrderId]]
  BY DEF TypeOK, WithAccountId, WithClientId

LEMMA AcceptOrderTypes ==
  ASSUME TypeInv, NEW r \in Requests, NEW now \in Time, AcceptOrder(r, now)
  PROVE  TypeInv'
  <1> DEFINE id == nextOrder + 1
  <1>1. /\ id \in OrderId /\ id \in 0 .. MaxOrders /\ nextOrder \in Nat
        /\ orders[id] = None
    BY IntakeGivesFreshId DEF AcceptOrder
  <1>2. /\ NewOrder(r, now) \in Order
        /\ r.account \in Account /\ r.cid \in ClientId /\ r.side \in Side
        /\ r.price \in Nat /\ r.qty \in Nat
    BY NewOrderType DEF TypeInv
  <1>3. nextSeq' \in Nat /\ feed' \in Seq(Event) /\ mirror' \in [OrderId -> Int]
    BY <1>1, <1>2, EmitFirstTypes DEF AcceptOrder, TypeInv, Kinds
  <1>4. balances' \in [Account -> Wallet]
    BY <1>2, ReserveIsInternal DEF TypeInv, TypeOK, AcceptOrder
  <1>5. /\ byAccount' \in [Account -> SUBSET OrderId]
        /\ byClientId' \in [Account -> [ClientId -> {0} \cup OrderId]]
    BY <1>1, <1>2, IndexedTypes DEF AcceptOrder, TypeInv
  <1>6. lastNow' \in Nat /\ curFills' \in Seq(Nat)
    BY BookAssumption, EmptySeq DEF AcceptOrder
  <1>7. TypeOK'
    BY <1>1, <1>2, <1>3, <1>4, <1>5, <1>6
       DEF TypeInv, TypeOK, AcceptOrder, levelVars, tradeVars
  <1>8. InProgress'
    BY <1>1, <1>2 DEF InProgress, AcceptOrder
  <1>9. FreshIds'
    BY <1>1, OrderIdsAreInts DEF TypeInv, FreshIds, AcceptOrder
  <1>10. ClosedAreDead'
    BY <1>1, ClosedIds DEF TypeInv, TypeOK, AcceptOrder, LiveIds, InMemory, ClosedAreDead
  <1>11. QED
    BY <1>7, <1>8, <1>9, <1>10 DEF TypeInv

LEMMA RejectOrderTypes ==
  ASSUME TypeInv, NEW r \in Requests, NEW now \in Time, RejectOrder(r, now)
  PROVE  TypeInv'
  <1> DEFINE id == nextOrder + 1
             o == [NewOrder(r, now) EXCEPT !.status = "rejected"]
             os == [orders EXCEPT ![id] = o]
             accountIds == WithAccountId(id, r.account)
             clientIds == WithClientId(id, r.account, r.cid)
             cl == Append(closed, Closing(id, now))
             pl == [placed EXCEPT ![id] = [order |-> o, fills |-> <<>>]]
  <1>1. /\ id \in OrderId /\ id \in 0 .. MaxOrders /\ nextOrder \in Nat
        /\ orders[id] = None
    BY IntakeGivesFreshId DEF RejectOrder
  <1>2. /\ o \in Order /\ ~Live(o)
        /\ r.account \in Account /\ r.cid \in ClientId
    BY NewOrderType DEF TypeInv
  <1>3. EnforceRetention(os, accountIds, clientIds, fillIds, cl, pl, now)
    BY DEF RejectOrder
  <1>4. /\ trades \in Seq(Trade) /\ tradesOf \in [Account -> SUBSET Nat]
        /\ fillIds \in [OrderId -> FillList] /\ closed \in Seq(ClosedOrder)
        /\ orders \in [OrderId -> Order \cup {None}]
    BY DEF TypeInv, TypeOK
  <1>5. pc' = "idle"
    BY DEF RejectOrder, Intake
  <1>6. nextSeq' \in Nat /\ feed' \in Seq(Event) /\ mirror' \in [OrderId -> Int]
    BY <1>1, EmitFirstTypes DEF RejectOrder, TypeInv, Kinds
  <1> HIDE DEF o
  <1>7. os \in [OrderId -> Order \cup {None}]
    BY <1>2, <1>4
  <1>8. /\ accountIds \in [Account -> SUBSET OrderId]
        /\ clientIds \in [Account -> [ClientId -> {0} \cup OrderId]]
    BY <1>1, <1>2, IndexedTypes DEF TypeInv
  <1>9. pl \in [OrderId -> PlaceReply \cup {None}]
    BY <1>2, EmptySeq DEF PlaceReply, TypeInv, TypeOK
  <1>10. cl \in Seq(ClosedOrder)
    BY <1>1, <1>4, OneMoreClosed
  <1>11. \A c \in Listed(cl) : /\ c.id <= id
                               /\ os[c.id] = None \/ ~Live(os[c.id])
    <2>1. ASSUME NEW c \in Listed(closed)
          PROVE  c.id <= id /\ (os[c.id] = None \/ ~Live(os[c.id]))
      BY <1>1, <1>4, ClosedIds DEF TypeInv, ClosedAreDead, LiveIds, InMemory
    <2>2. os[id] = o /\ id <= id
      BY <1>1, <1>4
    <2>3. Listed(cl) = Listed(closed) \cup {Closing(id, now)} /\ Closing(id, now).id = id
      BY <1>1, <1>4, OneMoreClosed
    <2> HIDE DEF id, os, cl
    <2>4. QED
      BY <1>2, <2>1, <2>2, <2>3
  <1> HIDE DEF os, accountIds, clientIds, cl, pl
  <1>12. /\ orders' \in [OrderId -> Order \cup {None}]
         /\ byAccount' \in [Account -> SUBSET OrderId]
         /\ byClientId' \in [Account -> [ClientId -> {0} \cup OrderId]]
         /\ fillIds' \in [OrderId -> FillList]
         /\ closed' \in Seq(ClosedOrder)
         /\ placed' \in [OrderId -> PlaceReply \cup {None}]
         /\ trades' \in Seq(Trade)
         /\ tradesOf' \in [Account -> SUBSET Nat]
         /\ \A i \in OrderId : orders'[i] \in {os[i], None}
         /\ Listed(closed') \subseteq Listed(cl)
    BY <1>3, <1>4, <1>7, <1>8, <1>9, <1>10, RetentionKeepsTypes
  <1>13. TypeOK'
    BY <1>1, <1>6, <1>12, BookAssumption
       DEF TypeInv, TypeOK, RejectOrder, levelVars, moneyVars, placeVars
  <1>14. InProgress'
    BY <1>5 DEF InProgress
  <1>15. FreshIds'
    BY <1>1, <1>4, <1>12, OrderIdsAreInts DEF os, TypeInv, FreshIds, RejectOrder
  <1>16. ClosedAreDead'
    BY <1>5, <1>10, <1>11, <1>12, RetentionKeepsDead DEF ClosedAreDead, RejectOrder
  <1>17. QED
    BY <1>13, <1>14, <1>15, <1>16 DEF TypeInv

-----------------------------------------------------------------------------
(* Fills.                                                                  *)
LEMMA PutLevelTypes ==
  ASSUME TypeOK, NEW s \in Side, NEW px \in Price, NEW lv \in Level,
         PutLevel(s, px, lv)
  PROVE  /\ keys' \in [Side -> SUBSET Price]
         /\ \A x \in Side : keys'[x] \subseteq keys[x]
         /\ level' \in [Side -> [Price -> Level]]
  <1>1. EmptyLevel \in Level
    BY EmptySeq DEF EmptyLevel, Level
  <1>2. level' \in [Side -> [Price -> Level]]
    BY <1>1, LevelWithTypes DEF PutLevel, RemoveLevel
  <1>3. keys' \in [Side -> SUBSET Price] /\ \A x \in Side : keys'[x] \subseteq keys[x]
    <2>1. keys' = keys \/ keys' = [keys EXCEPT ![s] = keys[s] \ {px}]
      BY DEF PutLevel, RemoveLevel
    <2>2. keys \in [Side -> SUBSET Price]
      BY DEF TypeOK
    <2>3. QED
      BY <2>1, <2>2
  <1>4. QED
    BY <1>2, <1>3

LEMMA ExposureTypes ==
  ASSUME NEW e \in Exposure, NEW price \in Int, NEW qty \in Int, NEW done
  PROVE  /\ ExposureAdd(e, price, qty) \in Exposure
         /\ ExposureSub(e, price, qty, done) \in Exposure
  <1> DEFINE n == price * qty
  <1>1. n \in Int
    BY NotionalType
  <1> HIDE DEF n
  <1>2. /\ ExposureAdd(e, price, qty) = [open |-> e.open + 1, notional |-> e.notional + n]
        /\ ExposureSub(e, price, qty, done) =
             [open |-> IF done THEN SaturatingSub(e.open, 1) ELSE e.open,
              notional |-> SaturatingSub(e.notional, n)]
    BY DEF ExposureAdd, ExposureSub, n
  <1>3. e.open \in Int /\ e.notional \in Int
    BY DEF Exposure
  <1>4. SaturatingSub(e.open, 1) \in Int /\ SaturatingSub(e.notional, n) \in Int
    BY <1>1, <1>3 DEF SaturatingSub
  <1>5. QED
    BY <1>1, <1>2, <1>3, <1>4 DEF Exposure

(* What a fill works on.                                                   *)
LEMMA FillContext ==
  ASSUME TypeInv, NEW px \in Price, Fill(px)
  PROVE  LET opp == Opposite(cur.side)
             mid == FrontEntry(px)
             m == orders[mid]
             q == SmallerOf(cur.remaining, m.remaining)
         IN /\ pc = "match" /\ cur \in Order /\ nextOrder \in OrderId
            /\ cur.account \in Account /\ cur.side \in Side /\ cur.price \in Int
            /\ cur.remaining \in Nat /\ cur.at \in Time
            /\ opp \in Side /\ level[opp][px] \in Level
            /\ level[opp][px].queue # <<>>
            /\ mid \in OrderId /\ mid \in LiveIds /\ m \in Order /\ m.account \in Account
            /\ m.remaining \in Nat /\ m.account # cur.account
            /\ q \in Nat /\ q <= cur.remaining /\ q <= m.remaining
            /\ px \in Int
            /\ mid # nextOrder /\ mid <= nextOrder
  <1> DEFINE opp == Opposite(cur.side)
             mid == FrontEntry(px)
             m == orders[mid]
             q == SmallerOf(cur.remaining, m.remaining)
  <1>1. /\ pc = "match" /\ mid \in LiveIds /\ level[opp][px].queue # <<>>
        /\ m.account # cur.account
    BY DEF Fill, Matching
  <1>2. cur \in Order /\ nextOrder \in OrderId /\ orders[nextOrder] = None
    BY <1>1 DEF TypeInv, InProgress
  <1>3. mid \in OrderId /\ m \in Order
    BY <1>1, LiveOrders DEF TypeInv
  <1>4. /\ cur.account \in Account /\ cur.side \in Side /\ cur.price \in Price
        /\ cur.remaining \in Nat /\ cur.at \in Time
    BY <1>2 DEF Order
  <1>5. m.account \in Account /\ m.remaining \in Nat
    BY <1>3 DEF Order
  <1>6. cur.price \in Int /\ px \in Int
    BY <1>4, PricesAreInts
  <1>7. opp \in Side
    BY DEF Opposite, Side
  <1>8. level[opp][px] \in Level
    BY <1>7 DEF TypeInv, TypeOK
  <1>9. q \in Nat /\ q <= cur.remaining /\ q <= m.remaining
    BY <1>4, <1>5 DEF SmallerOf
  <1>10. mid # nextOrder
    BY <1>2, <1>3, OrderIsNotNone
  <1>11. mid <= nextOrder
    <2>1. mid \in Nat /\ nextOrder \in Nat
      BY <1>2, <1>3, OrderIdsAreInts
    <2>2. ~(mid > nextOrder)
      BY <1>3, OrderIsNotNone DEF TypeInv, FreshIds
    <2>3. QED
      BY <2>1, <2>2
  <1>12. QED
    BY <1>1, <1>2, <1>3, <1>4, <1>5, <1>6, <1>7, <1>8, <1>9, <1>10, <1>11

(* Every fill leaves well-typed wallets and ledgers, and moves each        *)
(* account's wallet as its ledger records.                                 *)
LEMMA FillMoney ==
  ASSUME TypeInv, NEW px \in Price, Fill(px)
  PROVE  /\ balances' \in [Account -> Wallet]
         /\ ledgers' \in [Account -> Ledger]
         /\ EnforceBalances =>
              \A a \in Account : Explained(balances[a], ledgers[a]) =>
                                   Explained(balances'[a], ledgers'[a])
  <1> DEFINE me == cur.account
             mid == FrontEntry(px)
             m == orders[mid]
             other == m.account
             q == SmallerOf(cur.remaining, m.remaining)
             side == cur.side
             limit == cur.price
             tw == SettleTaker(balances[me], side, limit, px, q)
             mw == SettleMaker(balances[other], side, px, q)
             tl == IF side = "buy" THEN RecordBuy(ledgers[me], px, q)
                                   ELSE RecordSell(ledgers[me], px, q)
             ml == IF side = "buy" THEN RecordSell(ledgers[other], px, q)
                                   ELSE RecordBuy(ledgers[other], px, q)
  <1>1. /\ me \in Account /\ other \in Account /\ other # me
        /\ side \in Side /\ limit \in Int /\ px \in Int /\ q \in Int
    BY FillContext
  <1>2. balances \in [Account -> Wallet] /\ ledgers \in [Account -> Ledger]
    BY DEF TypeInv, TypeOK
  <1>3. SettleFill(other, px, q) /\ RecordFill(other, px, q)
    BY DEF Fill
  <1>4. EnforceBalances =>
          balances' = [balances EXCEPT ![me] = tw, ![other] = mw]
    BY <1>1, <1>2, <1>3 DEF SettleFill
  <1>5. ~EnforceBalances => balances' = balances
    BY <1>3 DEF SettleFill
  <1>6. ledgers' = [ledgers EXCEPT ![me] = tl, ![other] = ml]
    BY <1>1, <1>2, <1>3 DEF RecordFill
  <1> HIDE DEF me, mid, m, other, q, side, limit
  <1>7. /\ tw \in Wallet /\ mw \in Wallet /\ tl \in Ledger /\ ml \in Ledger
    BY <1>1, <1>2, FillIsExplained, RecordBuyFields, RecordSellFields
  <1>8. /\ Explained(balances[me], ledgers[me]) => Explained(tw, tl)
        /\ Explained(balances[other], ledgers[other]) => Explained(mw, ml)
    BY <1>1, <1>2, FillIsExplained DEF Side
  <1> HIDE DEF tw, mw, tl, ml
  <1>9. balances' \in [Account -> Wallet] /\ ledgers' \in [Account -> Ledger]
    BY <1>1, <1>2, <1>4, <1>5, <1>6, <1>7
  <1>10. ASSUME EnforceBalances, NEW a \in Account,
                Explained(balances[a], ledgers[a])
         PROVE  Explained(balances'[a], ledgers'[a])
    BY <1>1, <1>2, <1>4, <1>6, <1>8, <1>10
  <1>11. QED
    BY <1>9, <1>10

(* Every fill keeps the records well typed.                                *)
LEMMA FillTypes ==
  ASSUME TypeInv, NEW px \in Price, Fill(px)
  PROVE  TypeInv'
  <1> DEFINE opp == Opposite(cur.side)
             mid == FrontEntry(px)
             m == orders[mid]
             q == SmallerOf(cur.remaining, m.remaining)
             done == m.remaining = q
             maker == MakerAfterFill(m, q)
             lv == LevelAfterFill(level[opp][px], q, done)
             t == nextTrade + 1
             trade == [id |-> t, maker |-> mid, taker |-> nextOrder,
                       makerAccount |-> m.account, takerAccount |-> cur.account,
                       takerSide |-> cur.side, price |-> px, qty |-> q,
                       seq |-> nextSeq + 1, at |-> cur.at]
  <1>1. /\ pc = "match" /\ cur \in Order /\ nextOrder \in OrderId
        /\ cur.account \in Account /\ cur.side \in Side /\ cur.price \in Int
        /\ cur.remaining \in Nat /\ cur.at \in Time
        /\ opp \in Side /\ level[opp][px] \in Level
        /\ level[opp][px].queue # <<>>
        /\ mid \in OrderId /\ mid \in LiveIds /\ m \in Order /\ m.account \in Account
        /\ m.remaining \in Nat
        /\ q \in Nat /\ q <= cur.remaining /\ q <= m.remaining
        /\ px \in Int /\ mid # nextOrder /\ mid <= nextOrder
    BY FillContext
  <1>2. /\ orders \in [OrderId -> Order \cup {None}] /\ closed \in Seq(ClosedOrder)
        /\ exposure \in [Account -> Exposure] /\ trades \in Seq(Trade)
        /\ tradesOf \in [Account -> SUBSET Nat] /\ curFills \in Seq(Nat)
        /\ nextTrade \in Nat /\ nextSeq \in Nat
    BY DEF TypeInv, TypeOK
  <1>3. /\ orders' = [orders EXCEPT ![mid] = maker]
        /\ cur' = [cur EXCEPT !.remaining = cur.remaining - q]
        /\ PutLevel(opp, px, lv)
        /\ closed' = IF done THEN Append(closed, Closing(mid, cur.at)) ELSE closed
        /\ exposure' = [exposure EXCEPT ![m.account] =
                          ExposureSub(exposure[m.account], px, q, done)]
        /\ nextTrade' = t /\ lastPrice' = px
        /\ trades' = Append(trades, trade)
        /\ tradesOf' = [tradesOf EXCEPT ![m.account] = @ \cup {t},
                                        ![cur.account] = @ \cup {t}]
        /\ curFills' = Append(curFills, t)
        /\ EmitNext("traded", nextOrder, mid, q)
        /\ UNCHANGED <<byAccount, byClientId, fillIds, placed, nextOrder, lastNow,
                       pc, selfTrade, doomed, moves>>
    BY DEF Fill
  <1>4. /\ maker \in Order
        /\ Live(maker) => ~done
    <2>1. m.remaining - q \in Nat
      BY <1>1
    <2>2. maker = [m EXCEPT !.remaining = m.remaining - q,
                            !.status = IF done THEN "filled" ELSE "partial"]
      BY DEF MakerAfterFill
    <2>3. maker \in Order
      BY <1>1, <2>1, <2>2 DEF Order, Status
    <2>4. maker.status = IF done THEN "filled" ELSE "partial"
      BY <1>1, <2>2 DEF Order
    <2>5. QED
      BY <2>3, <2>4 DEF Live
  <1>5. orders' \in [OrderId -> Order \cup {None}] /\ orders'[mid] = maker
    <2>1. mid \in OrderId
      BY <1>1
    <2>2. maker \in Order
      BY <1>4
    <2>3. orders' = [orders EXCEPT ![mid] = maker]
      BY <1>3
    <2> HIDE DEF maker, mid
    <2>4. QED
      BY <1>2, <2>1, <2>2, <2>3
  <1>6. cur' \in Order
    <2>1. cur.remaining - q \in Nat
      BY <1>1
    <2>2. QED
      BY <1>1, <1>3, <2>1 DEF Order
  <1>7. lv \in Level
    BY <1>1, HeadTailProperties DEF Level, LevelAfterFill
  <1>8. keys' \in [Side -> SUBSET Price] /\ level' \in [Side -> [Price -> Level]]
    BY <1>1, <1>3, <1>7, PutLevelTypes DEF TypeInv
  <1>9. closed' \in Seq(ClosedOrder)
    BY <1>1, <1>2, <1>3, OneMoreClosed
  <1>10. exposure' \in [Account -> Exposure]
    <2>1. ExposureSub(exposure[m.account], px, q, done) \in Exposure
      BY <1>1, <1>2, ExposureTypes
    <2>2. QED
      BY <1>1, <1>2, <1>3, <2>1
  <1>11. balances' \in [Account -> Wallet] /\ ledgers' \in [Account -> Ledger]
    BY FillMoney
  <1>12. trade \in Trade
    BY <1>1, <1>2 DEF Trade
  <1>13. /\ trades' \in Seq(Trade) /\ curFills' \in Seq(Nat)
         /\ tradesOf' \in [Account -> SUBSET Nat] /\ nextTrade' \in Nat
    <2>1. trades' \in Seq(Trade)
      BY <1>2, <1>3, <1>12
    <2>2. curFills' \in Seq(Nat) /\ t \in Nat
      BY <1>2, <1>3
    <2>3. tradesOf' \in [Account -> SUBSET Nat]
      BY <1>1, <1>2, <1>3, <2>2
    <2>4. QED
      BY <1>3, <2>1, <2>2, <2>3
  <1>14. nextSeq' \in Nat /\ feed' \in Seq(Event) /\ mirror' \in [OrderId -> Int]
    <2>1. nextOrder \in 0 .. MaxOrders /\ mid \in 0 .. MaxOrders
      BY <1>1, BookAssumption DEF OrderId
    <2>2. QED
      BY <1>1, <1>3, <2>1, EmitNextTypes DEF TypeInv, Kinds
  <1>15. TypeOK'
    BY <1>3, <1>5, <1>6, <1>8, <1>9, <1>10, <1>11, <1>13, <1>14
       DEF TypeInv, TypeOK
  <1>16. InProgress'
    BY <1>1, <1>3, <1>6 DEF InProgress, TypeInv
  <1>17. FreshIds'
    BY <1>1, <1>2, <1>3, OrderIsNotNone DEF TypeInv, FreshIds
  <1>18. ClosedAreDead'
    <2>1. /\ \A c \in Listed(closed) :
               c.id \in OrderId /\ c.id \notin LiveIds /\ c.id <= nextOrder /\ c.id # nextOrder
      BY <1>1, <1>2, ClosedIds DEF TypeInv, ClosedAreDead
    <2>2. \A id \in OrderId : id \in LiveIds' => id \in LiveIds
      BY <1>1, <1>2, <1>3, <1>4 DEF LiveIds, InMemory, Live
    <2>3. done => mid \notin LiveIds'
      <3> HIDE DEF maker, mid, m, q, done
      <3>1. QED
        BY <1>4, <1>5 DEF LiveIds, InMemory, Live
    <2>4. CASE done
      <3>1. /\ Listed(closed') = Listed(closed) \cup {Closing(mid, cur.at)}
            /\ Closing(mid, cur.at).id = mid
        BY <1>1, <1>2, <1>3, <2>4, OneMoreClosed
      <3> HIDE DEF mid, m, q, done
      <3>2. QED
        BY <1>1, <1>3, <2>1, <2>2, <2>3, <2>4, <3>1 DEF ClosedAreDead
    <2>5. CASE ~done
      BY <1>3, <2>1, <2>2, <2>5 DEF ClosedAreDead
    <2>6. QED
      BY <2>4, <2>5
  <1>19. QED
    BY <1>15, <1>16, <1>17, <1>18 DEF TypeInv

-----------------------------------------------------------------------------
(* The end of a placement.                                                 *)
LEMMA ListedOneAndNone ==
  /\ \A c : Listed(<<c>>) = {c}
  /\ Listed(<<>>) = {}
  BY DEF Listed

LEMMA ListedConcat ==
  ASSUME NEW S, NEW s \in Seq(S), NEW t \in Seq(S)
  PROVE  Listed(s \o t) \subseteq Listed(s) \cup Listed(t)
  <1> DEFINE st == s \o t
  <1>1. /\ st \in Seq(S) /\ Len(st) = Len(s) + Len(t)
        /\ \A i \in 1 .. Len(s) + Len(t) :
             st[i] = IF i <= Len(s) THEN s[i] ELSE t[i - Len(s)]
    BY ConcatProperties
  <1>2. /\ DOMAIN s = 1 .. Len(s) /\ DOMAIN t = 1 .. Len(t)
        /\ Len(s) \in Nat /\ Len(t) \in Nat
    BY LenProperties
  <1>3. DOMAIN st = 1 .. Len(s) + Len(t)
    BY <1>1, LenProperties
  <1> HIDE DEF st
  <1>4. ASSUME NEW i \in DOMAIN st
        PROVE  st[i] \in Listed(s) \cup Listed(t)
    <2>1. CASE i <= Len(s)
      BY <1>1, <1>2, <1>3, <2>1 DEF Listed
    <2>2. CASE ~(i <= Len(s))
      <3>1. i - Len(s) \in DOMAIN t /\ st[i] = t[i - Len(s)]
        BY <1>1, <1>2, <1>3, <2>2
      <3>2. QED
        BY <3>1 DEF Listed
    <2>3. QED
      BY <2>1, <2>2
  <1>5. QED
    BY <1>4 DEF Listed, st

LEMMA ConcludeTypes ==
  ASSUME TypeInv, pc = "match", NEW o \in Order, NEW extra \in Seq(ClosedOrder),
         Conclude(o, extra),
         \A c \in Listed(extra) : c.id = nextOrder /\ ~Live(o)
  PROVE  /\ orders' \in [OrderId -> Order \cup {None}]
         /\ byAccount' \in [Account -> SUBSET OrderId]
         /\ byClientId' \in [Account -> [ClientId -> {0} \cup OrderId]]
         /\ fillIds' \in [OrderId -> FillList]
         /\ closed' \in Seq(ClosedOrder)
         /\ placed' \in [OrderId -> PlaceReply \cup {None}]
         /\ trades' \in Seq(Trade)
         /\ tradesOf' \in [Account -> SUBSET Nat]
         /\ curFills' \in Seq(Nat)
         /\ InProgress' /\ FreshIds' /\ ClosedAreDead'
         /\ \A id \in OrderId \ {nextOrder} : orders'[id] \in {orders[id], None}
  <1> DEFINE os == [orders EXCEPT ![nextOrder] = o]
             reply == [order |-> o, fills |-> curFills]
             fl == [filled |-> o.qty - o.remaining, ids |-> curFills]
             fi == IF curFills = <<>> THEN fillIds
                   ELSE [fillIds EXCEPT ![nextOrder] = fl]
             cl == closed \o extra
             pl == [placed EXCEPT ![nextOrder] = reply]
  <1>1. EnforceRetention(os, byAccount, byClientId, fi, cl, pl, lastNow)
    BY DEF Conclude
  <1>2. nextOrder \in OrderId /\ orders[nextOrder] = None
    BY DEF TypeInv, InProgress
  <1>3. /\ orders \in [OrderId -> Order \cup {None}]
        /\ closed \in Seq(ClosedOrder) /\ curFills \in Seq(Nat)
        /\ fillIds \in [OrderId -> FillList]
        /\ placed \in [OrderId -> PlaceReply \cup {None}]
        /\ trades \in Seq(Trade) /\ tradesOf \in [Account -> SUBSET Nat]
        /\ byAccount \in [Account -> SUBSET OrderId]
        /\ byClientId \in [Account -> [ClientId -> {0} \cup OrderId]]
    BY DEF TypeInv, TypeOK
  <1>4. os \in [OrderId -> Order \cup {None}]
    BY <1>2, <1>3
  <1>5. fi \in [OrderId -> FillList]
    <2>1. o.qty \in Int /\ o.remaining \in Int
      BY QtysAreInts DEF Order
    <2>2. fl \in FillList
      BY <1>3, <2>1 DEF FillList
    <2> HIDE DEF fl
    <2>3. QED
      BY <1>2, <1>3, <2>2
  <1>6. cl \in Seq(ClosedOrder)
    BY <1>3, ConcatProperties
  <1>7. pl \in [OrderId -> PlaceReply \cup {None}]
    <2>1. reply \in PlaceReply
      BY <1>3 DEF PlaceReply
    <2> HIDE DEF reply
    <2>2. QED
      BY <1>2, <1>3, <2>1
  <1>8. \A c \in Listed(cl) : /\ c.id <= nextOrder
                              /\ os[c.id] = None \/ ~Live(os[c.id])
    <2>1. ASSUME NEW c \in Listed(closed)
          PROVE  c.id <= nextOrder /\ (os[c.id] = None \/ ~Live(os[c.id]))
      BY <1>3, ClosedIds DEF TypeInv, ClosedAreDead, LiveIds, InMemory
    <2>2. ASSUME NEW c \in Listed(extra)
          PROVE  c.id <= nextOrder /\ (os[c.id] = None \/ ~Live(os[c.id]))
      BY <1>2, <1>3, OrderIdsAreInts
    <2>3. Listed(cl) \subseteq Listed(closed) \cup Listed(extra)
      BY <1>3, ListedConcat
    <2> HIDE DEF cl, os
    <2>4. QED
      BY <2>1, <2>2, <2>3
  <1> HIDE DEF os, fi, cl, pl
  <1>9. /\ orders' \in [OrderId -> Order \cup {None}]
        /\ byAccount' \in [Account -> SUBSET OrderId]
        /\ byClientId' \in [Account -> [ClientId -> {0} \cup OrderId]]
        /\ fillIds' \in [OrderId -> FillList]
        /\ closed' \in Seq(ClosedOrder)
        /\ placed' \in [OrderId -> PlaceReply \cup {None}]
        /\ trades' \in Seq(Trade)
        /\ tradesOf' \in [Account -> SUBSET Nat]
        /\ \A i \in OrderId : orders'[i] \in {os[i], None}
        /\ Listed(closed') \subseteq Listed(cl)
    BY <1>1, <1>3, <1>4, <1>5, <1>6, <1>7, RetentionKeepsTypes
  <1>10. pc' = "idle" /\ nextOrder' = nextOrder /\ curFills' = <<>>
    BY DEF Conclude
  <1>11. InProgress'
    BY <1>10 DEF InProgress
  <1>12. \A id \in OrderId \ {nextOrder} : orders'[id] \in {orders[id], None}
    BY <1>3, <1>9 DEF os
  <1>13. FreshIds'
    <2>1. ASSUME NEW id \in OrderId, id > nextOrder
          PROVE  orders'[id] = None
      BY <1>2, <1>12, <2>1, OrderIdsAreInts DEF TypeInv, FreshIds
    <2>2. QED
      BY <1>10, <2>1 DEF FreshIds
  <1>14. ClosedAreDead'
    BY <1>6, <1>8, <1>9, <1>10, RetentionKeepsDead DEF ClosedAreDead
  <1>15. curFills' \in Seq(Nat)
    BY <1>10, EmptySeq
  <1>16. QED
    BY <1>9, <1>11, <1>12, <1>13, <1>14, <1>15

LEMMA MatchedOrder ==
  ASSUME TypeInv, pc = "match"
  PROVE  /\ cur \in Order /\ nextOrder \in OrderId /\ nextOrder \in 0 .. MaxOrders
         /\ cur.account \in Account /\ cur.side \in Side /\ cur.price \in Price
         /\ cur.remaining \in Nat /\ cur.qty \in Qty /\ cur.at \in Time
         /\ cur.tif \in Tif
         /\ closed \in Seq(ClosedOrder) /\ selfTrade \in BOOLEAN
  BY DEF TypeInv, InProgress, OrderId, Order, TypeOK

(* The one closing noted when an order ends with its placement.            *)
LEMMA OwnClosing ==
  ASSUME TypeInv, pc = "match"
  PROVE  /\ <<Closing(nextOrder, cur.at)>> \in Seq(ClosedOrder)
         /\ \A c \in Listed(<<Closing(nextOrder, cur.at)>>) : c.id = nextOrder
  BY MatchedOrder, ListedOneAndNone DEF Closing, ClosedOrder

LEMMA FinishFilledTypes ==
  ASSUME TypeInv, FinishFilled
  PROVE  TypeInv'
  <1> DEFINE o == [cur EXCEPT !.status = "filled"]
             extra == <<Closing(nextOrder, cur.at)>>
  <1>1. pc = "match" /\ Conclude(o, extra)
    BY DEF FinishFilled, MatchingDone
  <1>2. /\ o \in Order
        /\ ~Live(o)
    BY <1>1, MatchedOrder DEF Order, Status, Live
  <1>3. extra \in Seq(ClosedOrder) /\ \A c \in Listed(extra) : c.id = nextOrder
    BY <1>1, OwnClosing
  <1> HIDE DEF o, extra
  <1>4. /\ orders' \in [OrderId -> Order \cup {None}]
        /\ byAccount' \in [Account -> SUBSET OrderId]
        /\ byClientId' \in [Account -> [ClientId -> {0} \cup OrderId]]
        /\ fillIds' \in [OrderId -> FillList]
        /\ closed' \in Seq(ClosedOrder)
        /\ placed' \in [OrderId -> PlaceReply \cup {None}]
        /\ trades' \in Seq(Trade)
        /\ tradesOf' \in [Account -> SUBSET Nat]
        /\ curFills' \in Seq(Nat)
        /\ InProgress' /\ FreshIds' /\ ClosedAreDead'
    BY <1>1, <1>2, <1>3, ConcludeTypes
  <1>5. TypeOK'
    BY <1>1, <1>4 DEF TypeInv, TypeOK, FinishFilled, Conclude, levelVars, eventVars
  <1>6. QED
    BY <1>4, <1>5 DEF TypeInv

LEMMA FinishRestingTypes ==
  ASSUME TypeInv, FinishResting
  PROVE  TypeInv'
  <1> DEFINE o == [cur EXCEPT !.status = RestingStatus(cur)]
             extra == <<>>
             lv == LevelWith(level[cur.side][cur.price], nextOrder, cur.remaining)
             ex == ExposureAdd(exposure[cur.account], cur.price, cur.remaining)
  <1>1. /\ pc = "match" /\ Conclude(o, extra)
        /\ keys' = [keys EXCEPT ![cur.side] = @ \cup {cur.price}]
        /\ level' = [level EXCEPT ![cur.side][cur.price] = lv]
        /\ exposure' = [exposure EXCEPT ![cur.account] = ex]
    BY DEF FinishResting, MatchingDone
  <1>2. o \in Order
    BY <1>1, MatchedOrder DEF Order, Status, RestingStatus
  <1>3. extra \in Seq(ClosedOrder) /\ \A c \in Listed(extra) : c.id = nextOrder /\ ~Live(o)
    BY EmptySeq, ListedOneAndNone
  <1> HIDE DEF o, extra
  <1>4. /\ orders' \in [OrderId -> Order \cup {None}]
        /\ byAccount' \in [Account -> SUBSET OrderId]
        /\ byClientId' \in [Account -> [ClientId -> {0} \cup OrderId]]
        /\ fillIds' \in [OrderId -> FillList]
        /\ closed' \in Seq(ClosedOrder)
        /\ placed' \in [OrderId -> PlaceReply \cup {None}]
        /\ trades' \in Seq(Trade)
        /\ tradesOf' \in [Account -> SUBSET Nat]
        /\ curFills' \in Seq(Nat)
        /\ InProgress' /\ FreshIds' /\ ClosedAreDead'
    BY <1>1, <1>2, <1>3, ConcludeTypes
  <1>a. lv \in Level
    <2>1. level[cur.side][cur.price] \in Level
      BY <1>1, MatchedOrder DEF TypeInv, TypeOK
    <2>2. Append(level[cur.side][cur.price].queue, nextOrder) \in Seq(OrderId)
      BY <1>1, <2>1, MatchedOrder DEF Level
    <2>3. ASSUME NEW l \in Level, NEW q \in Nat, NEW i, Append(l.queue, i) \in Seq(OrderId)
          PROVE  LevelWith(l, i, q) \in Level
      BY <2>3 DEF LevelWith, Level
    <2>4. cur.remaining \in Nat
      BY <1>1, MatchedOrder
    <2>5. QED
      BY <2>1, <2>2, <2>3, <2>4
  <1>b. ex \in Exposure
    <2>1. exposure[cur.account] \in Exposure
      BY <1>1, MatchedOrder DEF TypeInv, TypeOK
    <2>2. cur.price \in Int /\ cur.remaining \in Int
      BY <1>1, MatchedOrder, PricesAreInts
    <2>3. \A done : ExposureAdd(exposure[cur.account], cur.price, cur.remaining) \in Exposure
      BY <2>1, <2>2, ExposureTypes
    <2>4. QED
      BY <2>3
  <1> HIDE DEF lv, ex
  <1>c. /\ level' \in [Side -> [Price -> Level]]
        /\ exposure' \in [Account -> Exposure]
        /\ keys' \in [Side -> SUBSET Price]
    BY <1>1, <1>a, <1>b, MatchedOrder, LevelWithTypes DEF TypeInv, TypeOK
  <1>5. TypeOK'
    BY <1>1, <1>4, <1>c DEF TypeInv, TypeOK, FinishResting, Conclude, eventVars
  <1>6. QED
    BY <1>4, <1>5 DEF TypeInv

LEMMA FinishCancelledTypes ==
  ASSUME TypeInv, FinishCancelled
  PROVE  TypeInv'
  <1> DEFINE o == [cur EXCEPT !.status = "cancelled", !.reason = Refusal]
             extra == <<Closing(nextOrder, cur.at)>>
             w == Release(balances[cur.account], cur.side, cur.price, cur.remaining)
  <1>1. /\ pc = "match" /\ Conclude(o, extra)
        /\ ReleaseFunds(cur.account, cur.side, cur.price, cur.remaining)
        /\ EmitNext("cancelled", nextOrder, 0, 0)
    BY DEF FinishCancelled, MatchingDone
  <1>2. /\ o \in Order
        /\ ~Live(o)
    BY <1>1, MatchedOrder DEF Refusal, Reason, Tif, Order, Status, Live
  <1>3. extra \in Seq(ClosedOrder) /\ \A c \in Listed(extra) : c.id = nextOrder
    BY <1>1, OwnClosing
  <1> HIDE DEF o, extra
  <1>4. /\ orders' \in [OrderId -> Order \cup {None}]
        /\ byAccount' \in [Account -> SUBSET OrderId]
        /\ byClientId' \in [Account -> [ClientId -> {0} \cup OrderId]]
        /\ fillIds' \in [OrderId -> FillList]
        /\ closed' \in Seq(ClosedOrder)
        /\ placed' \in [OrderId -> PlaceReply \cup {None}]
        /\ trades' \in Seq(Trade)
        /\ tradesOf' \in [Account -> SUBSET Nat]
        /\ curFills' \in Seq(Nat)
        /\ InProgress' /\ FreshIds' /\ ClosedAreDead'
    BY <1>1, <1>2, <1>3, ConcludeTypes
  <1>a. w \in Wallet
    BY <1>1, MatchedOrder, PricesAreInts, ReleaseIsInternal DEF TypeInv, TypeOK
  <1>b. balances' \in [Account -> Wallet]
    BY <1>1, <1>a, MatchedOrder DEF ReleaseFunds, TypeInv, TypeOK
  <1>c. nextSeq' \in Nat /\ feed' \in Seq(Event) /\ mirror' \in [OrderId -> Int]
    BY <1>1, BookAssumption, MatchedOrder, EmitNextTypes DEF TypeInv, Kinds
  <1>5. TypeOK'
    BY <1>1, <1>4, <1>b, <1>c DEF TypeInv, TypeOK, FinishCancelled, Conclude, levelVars
  <1>6. QED
    BY <1>4, <1>5 DEF TypeInv

-----------------------------------------------------------------------------
(* Cancels.                                                                *)
LEMMA TakeFromLevelTypes ==
  ASSUME NEW lv \in Level, NEW rest \in Nat
  PROVE  TakeFromLevel(lv, rest) \in Level
  <1> DEFINE total == lv.total - rest
             live == lv.live - 1
  <1>1. total \in Int /\ live \in Int
    BY DEF Level
  <1>2. TakeFromLevel(lv, rest) = [lv EXCEPT !.total = total, !.live = live]
    BY DEF TakeFromLevel, Level
  <1> HIDE DEF total, live
  <1>3. QED
    BY <1>1, <1>2 DEF Level

LEMMA CancelLiveTypes ==
  ASSUME TypeInv, pc # "match", NEW id \in LiveIds, NEW now \in Time,
         CancelLive(id, now)
  PROVE  /\ keys' \in [Side -> SUBSET Price]
         /\ \A x \in Side : keys'[x] \subseteq keys[x]
         /\ level' \in [Side -> [Price -> Level]]
         /\ orders' \in [OrderId -> Order \cup {None}]
         /\ byAccount' \in [Account -> SUBSET OrderId]
         /\ byClientId' \in [Account -> [ClientId -> {0} \cup OrderId]]
         /\ fillIds' \in [OrderId -> FillList]
         /\ closed' \in Seq(ClosedOrder)
         /\ placed' \in [OrderId -> PlaceReply \cup {None}]
         /\ trades' \in Seq(Trade)
         /\ tradesOf' \in [Account -> SUBSET Nat]
         /\ exposure' \in [Account -> Exposure]
         /\ balances' \in [Account -> Wallet]
         /\ \A a \in Account : SameHoldings(balances'[a], balances[a])
         /\ lastNow' \in Nat
         /\ FreshIds'
         /\ \A c \in Listed(closed') : c.id <= nextOrder /\ c.id \notin LiveIds'
         /\ \A other \in LiveIds \ {id} : other \in LiveIds'
         /\ \A other \in OrderId \ {id} : orders'[other] \in {orders[other], None}
  <1> DEFINE o == orders[id]
             os == [orders EXCEPT ![id].status = "cancelled", ![id].reason = "user"]
             dead == [o EXCEPT !.status = "cancelled", !.reason = "user"]
             cl == Append(closed, Closing(id, now))
             lv == TakeFromLevel(level[o.side][o.price], o.remaining)
             ex == ExposureSub(exposure[o.account], o.price, o.remaining, TRUE)
             w == Release(balances[o.account], o.side, o.price, o.remaining)
  <1>1. id \in OrderId /\ o \in Order
    BY LiveOrders DEF TypeInv
  <1>2. /\ o.account \in Account /\ o.side \in Side /\ o.price \in Price
        /\ o.price \in Int /\ o.remaining \in Nat
    BY <1>1, PricesAreInts DEF Order
  <1>3. /\ orders \in [OrderId -> Order \cup {None}]
        /\ closed \in Seq(ClosedOrder)
        /\ fillIds \in [OrderId -> FillList]
        /\ placed \in [OrderId -> PlaceReply \cup {None}]
        /\ trades \in Seq(Trade) /\ tradesOf \in [Account -> SUBSET Nat]
        /\ byAccount \in [Account -> SUBSET OrderId]
        /\ byClientId \in [Account -> [ClientId -> {0} \cup OrderId]]
        /\ keys \in [Side -> SUBSET Price]
        /\ level \in [Side -> [Price -> Level]]
        /\ exposure \in [Account -> Exposure] /\ balances \in [Account -> Wallet]
        /\ now \in Nat /\ nextOrder \in Nat
    <2>1. nextOrder \in {0} \cup OrderId
      BY DEF TypeInv, TypeOK
    <2>2. nextOrder \in Nat
      BY <2>1, OrderIdsAreInts
    <2>3. now \in Nat
      BY BookAssumption
    <2>4. QED
      BY <2>2, <2>3, Zenon DEF TypeInv, TypeOK
  <1>4. /\ EnforceRetention(os, byAccount, byClientId, fillIds, cl, placed, now)
        /\ exposure' = [exposure EXCEPT ![o.account] = ex]
        /\ ReleaseFunds(o.account, o.side, o.price, o.remaining)
        /\ nextOrder' = nextOrder /\ lastNow' = now
        /\ IF o.price \in keys[o.side] THEN PutLevel(o.side, o.price, lv)
                                     ELSE UNCHANGED levelVars
    BY DEF CancelLive
  <1>5. os = [orders EXCEPT ![id] = dead] /\ dead \in Order /\ ~Live(dead)
    BY <1>1, <1>3 DEF Order, Status, Reason, Live
  <1> HIDE DEF o, os, dead
  <1>6. os \in [OrderId -> Order \cup {None}] /\ os[id] = dead
    BY <1>1, <1>3, <1>5
  <1>7. /\ cl \in Seq(ClosedOrder)
        /\ Closing(id, now).id = id
        /\ Listed(cl) = Listed(closed) \cup {Closing(id, now)}
    BY <1>1, <1>3, OneMoreClosed
  <1>8. ASSUME NEW c \in Listed(closed)
        PROVE  c.id <= nextOrder /\ c.id \in OrderId /\ c.id \notin LiveIds /\ c.id # id
    BY <1>3, ClosedIds DEF TypeInv, ClosedAreDead
  <1>9. id <= nextOrder
    BY <1>1, <1>3, OrderIsNotNone, OrderIdsAreInts DEF TypeInv, FreshIds, o
  <1>10. \A c \in Listed(cl) : c.id <= nextOrder /\ (os[c.id] = None \/ ~Live(os[c.id]))
    <2>1. ASSUME NEW c \in Listed(closed)
          PROVE  os[c.id] = None \/ ~Live(os[c.id])
      BY <1>3, <1>5, <1>8 DEF LiveIds, InMemory
    <2> HIDE DEF cl
    <2>2. QED
      BY <1>5, <1>6, <1>7, <1>8, <1>9, <2>1
  <1> HIDE DEF cl
  <1>11. /\ orders' \in [OrderId -> Order \cup {None}]
         /\ byAccount' \in [Account -> SUBSET OrderId]
         /\ byClientId' \in [Account -> [ClientId -> {0} \cup OrderId]]
         /\ fillIds' \in [OrderId -> FillList]
         /\ closed' \in Seq(ClosedOrder)
         /\ placed' \in [OrderId -> PlaceReply \cup {None}]
         /\ trades' \in Seq(Trade)
         /\ tradesOf' \in [Account -> SUBSET Nat]
         /\ \A i \in OrderId : orders'[i] \in {os[i], None}
         /\ \A i \in OrderId :
              orders'[i] # os[i] => \E c \in Listed(cl) : c.id = i
         /\ Listed(closed') \subseteq Listed(cl)
    BY <1>3, <1>4, <1>6, <1>7, RetentionKeepsTypes
  <1>12. \A c \in Listed(closed') : c.id <= nextOrder /\ c.id \notin LiveIds'
    BY <1>7, <1>10, <1>11, RetentionKeepsDead
  <1>13. \A other \in OrderId \ {id} :
           os[other] = orders[other] /\ orders'[other] \in {orders[other], None}
    BY <1>3, <1>5, <1>11
  <1>14. ASSUME NEW other \in LiveIds \ {id}
         PROVE  other \in LiveIds'
    <2>1. other \in OrderId /\ orders[other] # None /\ Live(orders[other])
      BY DEF LiveIds, InMemory
    <2>2. \A c \in Listed(cl) : c.id # other
      BY <1>7, <1>8
    <2>3. orders'[other] = orders[other]
      BY <1>11, <1>13, <2>1, <2>2
    <2>4. QED
      BY <2>1, <2>3 DEF LiveIds, InMemory, Live
  <1>15. FreshIds'
    <2>1. ASSUME NEW i \in OrderId, i > nextOrder
          PROVE  orders'[i] = None
      <3>1. i # id
        BY <1>1, <1>3, <1>9, <2>1, OrderIdsAreInts
      <3>2. QED
        BY <1>13, <2>1, <3>1 DEF TypeInv, FreshIds
    <2>2. QED
      BY <1>4, <2>1 DEF FreshIds
  <1>16. /\ keys' \in [Side -> SUBSET Price]
         /\ \A x \in Side : keys'[x] \subseteq keys[x]
         /\ level' \in [Side -> [Price -> Level]]
    <2>1. CASE o.price \in keys[o.side]
      BY <1>2, <1>3, <1>4, <2>1, TakeFromLevelTypes, PutLevelTypes DEF TypeInv
    <2>2. CASE o.price \notin keys[o.side]
      BY <1>3, <1>4, <2>2 DEF levelVars
    <2>3. QED
      BY <2>1, <2>2
  <1>17. exposure' \in [Account -> Exposure]
    <2>1. exposure[o.account] \in Exposure /\ o.remaining \in Int
      BY <1>2, <1>3
    <2>2. ex \in Exposure
      <3> DEFINE e == exposure[o.account]
                 price == o.price
                 rest == o.remaining
      <3>1. e \in Exposure /\ price \in Int /\ rest \in Int
        BY <1>2, <2>1
      <3> HIDE DEF e, price, rest
      <3>2. ExposureSub(e, price, rest, TRUE) \in Exposure
        BY <3>1, ExposureTypes
      <3>3. QED
        BY <3>2 DEF e, price, rest
    <2> HIDE DEF ex
    <2>3. QED
      BY <1>2, <1>3, <1>4, <2>2
  <1>18. /\ balances' \in [Account -> Wallet]
         /\ \A a \in Account : SameHoldings(balances'[a], balances[a])
    <2>1. w \in Wallet /\ SameHoldings(w, balances[o.account])
      BY <1>2, <1>3, ReleaseIsInternal
    <2>2. \A a \in Account : SameHoldings(balances[a], balances[a])
      BY DEF SameHoldings
    <2>3. balances' = balances \/ balances' = [balances EXCEPT ![o.account] = w]
      BY <1>4 DEF ReleaseFunds
    <2> HIDE DEF w
    <2>4. balances \in [Account -> Wallet] /\ o.account \in Account
      BY <1>2, <1>3
    <2>5. CASE balances' = balances
      BY <2>2, <2>4, <2>5
    <2>6. CASE balances' = [balances EXCEPT ![o.account] = w]
      BY <2>1, <2>2, <2>4, <2>6
    <2>7. QED
      BY <2>3, <2>5, <2>6
  <1>19. QED
    BY <1>3, <1>4, <1>11, <1>12, <1>13, <1>14, <1>15, <1>16, <1>17, <1>18

LEMMA CancelTypes ==
  ASSUME TypeInv, NEW a \in Account, NEW id \in OrderId, NEW now \in Time,
         Cancel(a, id, now)
  PROVE  TypeInv'
  <1>1. /\ pc = "idle" /\ id \in LiveIds /\ CancelLive(id, now)
        /\ EmitFirst("cancelled", id, 0) /\ pc' = pc /\ doomed' = doomed
        /\ lastPrice' = lastPrice /\ nextTrade' = nextTrade /\ ledgers' = ledgers
        /\ nextOrder' = nextOrder /\ moves' = moves
        /\ cur' = cur /\ curFills' = curFills /\ selfTrade' = selfTrade
    BY DEF Cancel, CancelLive, placeVars
  <1>2. nextSeq' \in Nat /\ feed' \in Seq(Event) /\ mirror' \in [OrderId -> Int]
    BY <1>1, BookAssumption, EmitFirstTypes DEF OrderId, Kinds, TypeInv
  <1>3. /\ keys' \in [Side -> SUBSET Price]
        /\ level' \in [Side -> [Price -> Level]]
        /\ orders' \in [OrderId -> Order \cup {None}]
        /\ byAccount' \in [Account -> SUBSET OrderId]
        /\ byClientId' \in [Account -> [ClientId -> {0} \cup OrderId]]
        /\ fillIds' \in [OrderId -> FillList]
        /\ closed' \in Seq(ClosedOrder)
        /\ placed' \in [OrderId -> PlaceReply \cup {None}]
        /\ trades' \in Seq(Trade)
        /\ tradesOf' \in [Account -> SUBSET Nat]
        /\ exposure' \in [Account -> Exposure]
        /\ balances' \in [Account -> Wallet]
        /\ lastNow' \in Nat
        /\ FreshIds'
        /\ \A c \in Listed(closed') : c.id <= nextOrder /\ c.id \notin LiveIds'
    BY <1>1, CancelLiveTypes
  <1>4. TypeOK'
    BY <1>1, <1>2, <1>3 DEF TypeInv, TypeOK
  <1>5. InProgress' /\ ClosedAreDead'
    BY <1>1, <1>3 DEF InProgress, ClosedAreDead
  <1>6. QED
    BY <1>3, <1>4, <1>5 DEF TypeInv

LEMMA CancelNextTypes ==
  ASSUME TypeInv, CancelNext
  PROVE  TypeInv'
  <1>1. PICK id \in doomed.ids :
          /\ CancelLive(id, doomed.now)
          /\ EmitNext("cancelled", id, 0, 0)
          /\ doomed' = [doomed EXCEPT !.ids = @ \ {id}]
          /\ pc' = IF doomed.ids = {id} THEN "idle" ELSE "cancelAll"
    BY DEF CancelNext
  <1>2. /\ pc = "cancelAll" /\ doomed.now \in Time /\ doomed.ids \subseteq LiveIds
        /\ id \in LiveIds /\ id \in OrderId
        /\ doomed \in [ids : SUBSET OrderId, now : Nat]
    BY DEF CancelNext, TypeInv, TypeOK, InProgress
  <1>3. /\ lastPrice' = lastPrice /\ nextTrade' = nextTrade /\ ledgers' = ledgers
        /\ nextOrder' = nextOrder /\ moves' = moves
        /\ cur' = cur /\ curFills' = curFills /\ selfTrade' = selfTrade
    BY <1>1 DEF CancelLive, placeVars
  <1>4. nextSeq' \in Nat /\ feed' \in Seq(Event) /\ mirror' \in [OrderId -> Int]
    <2>1. id \in 0 .. MaxOrders /\ 0 \in 0 .. MaxOrders /\ "cancelled" \in Kinds
      BY <1>2, BookAssumption DEF OrderId, Kinds
    <2>2. QED
      BY <1>1, <2>1, EmitNextTypes DEF TypeInv
  <1>5. /\ keys' \in [Side -> SUBSET Price]
        /\ level' \in [Side -> [Price -> Level]]
        /\ orders' \in [OrderId -> Order \cup {None}]
        /\ byAccount' \in [Account -> SUBSET OrderId]
        /\ byClientId' \in [Account -> [ClientId -> {0} \cup OrderId]]
        /\ fillIds' \in [OrderId -> FillList]
        /\ closed' \in Seq(ClosedOrder)
        /\ placed' \in [OrderId -> PlaceReply \cup {None}]
        /\ trades' \in Seq(Trade)
        /\ tradesOf' \in [Account -> SUBSET Nat]
        /\ exposure' \in [Account -> Exposure]
        /\ balances' \in [Account -> Wallet]
        /\ lastNow' \in Nat
        /\ FreshIds'
        /\ \A c \in Listed(closed') : c.id <= nextOrder /\ c.id \notin LiveIds'
        /\ \A other \in LiveIds \ {id} : other \in LiveIds'
    <2>1. pc # "match"
      BY <1>2
    <2>2. QED
      BY <1>1, <1>2, <2>1, CancelLiveTypes
  <1>6. doomed'.ids = doomed.ids \ {id} /\ doomed'.now = doomed.now
    BY <1>1, <1>2
  <1>7. TypeOK'
    BY <1>1, <1>2, <1>3, <1>4, <1>5 DEF TypeInv, TypeOK
  <1>8. InProgress'
    <2>1. pc' # "match"
      BY <1>1
    <2>2. QED
      BY <1>2, <1>5, <1>6, <2>1 DEF InProgress
  <1>9. ClosedAreDead'
    BY <1>1, <1>3, <1>5 DEF ClosedAreDead
  <1>10. QED
    BY <1>5, <1>7, <1>8, <1>9 DEF TypeInv

LEMMA CancelAllTypes ==
  ASSUME TypeInv, NEW a \in Account, NEW now \in Time, CancelAll(a, now)
  PROVE  TypeInv'
  <1>1. /\ UNCHANGED <<levelVars, indexVars, tradeVars, moneyVars, exposure,
                       nextOrder, nextSeq, lastNow, placeVars, moves, mirror>>
        /\ pc' = "cancelAll" /\ feed' = <<>>
        /\ doomed' = [ids |-> byAccount[a] \cap LiveIds, now |-> now]
    BY DEF CancelAll
  <1>2. feed' \in Seq(Event) /\ doomed' \in [ids : SUBSET OrderId, now : Nat]
    BY <1>1, EmptySeq, BookAssumption DEF LiveIds, InMemory
  <1>3. TypeOK'
    BY <1>1, <1>2 DEF TypeInv, TypeOK, levelVars, indexVars, tradeVars, moneyVars,
                      placeVars
  <1>4. LiveIds' = LiveIds
    BY <1>1 DEF indexVars, LiveIds, InMemory
  <1>5. InProgress' /\ ClosedAreDead' /\ FreshIds'
    BY <1>1, <1>4 DEF TypeInv, InProgress, ClosedAreDead, FreshIds, indexVars, Listed
  <1>6. QED
    BY <1>3, <1>5 DEF TypeInv

-----------------------------------------------------------------------------
(* The empty book, and every step.                                         *)
LEMMA InitTypes == Init => TypeInv
  <1> SUFFICES ASSUME Init
               PROVE  TypeInv
    OBVIOUS
  <1>1. /\ EmptyLevel \in Level /\ NoFills \in FillList /\ NoExposure \in Exposure
        /\ <<>> \in Seq(ClosedOrder) /\ <<>> \in Seq(Trade)
        /\ <<>> \in Seq(Nat) /\ <<>> \in Seq(Event)
    BY EmptySeq DEF EmptyLevel, Level, NoFills, FillList, NoExposure, Exposure
  <1>2. nextSeq \in Nat
    BY BookAssumption, FS_CardinalityType DEF Init
  <1>3. ASSUME NEW a \in Account
        PROVE  /\ Funding(a) \in Wallet
               /\ [EmptyLedger EXCEPT !.depositsUsdc = Fund[a].usdc,
                                      !.depositsEth = Fund[a].eth] \in Ledger
    <2> DEFINE u == Fund[a].usdc
               e == Fund[a].eth
    <2>1. u \in Int /\ e \in Int
      BY BookAssumption
    <2> HIDE DEF u, e
    <2>2. \A w \in Wallet : [w EXCEPT !.usdc = u, !.eth = e] \in Wallet
      BY <2>1 DEF Wallet
    <2>3. \A l \in Ledger :
            [l EXCEPT !.depositsUsdc = u, !.depositsEth = e] \in Ledger
      BY <2>1 DEF Ledger
    <2>4. EmptyWallet \in Wallet /\ EmptyLedger \in Ledger
      BY DEF EmptyWallet, Wallet, EmptyLedger, Ledger
    <2>5. QED
      BY <2>2, <2>3, <2>4 DEF Funding, u, e
  <1>4. balances \in [Account -> Wallet] /\ ledgers \in [Account -> Ledger]
    BY <1>3 DEF Init
  <1>5. TypeOK
    <2>1. /\ keys \in [Side -> SUBSET Price]
          /\ level \in [Side -> [Price -> Level]]
          /\ exposure \in [Account -> Exposure]
      BY <1>1 DEF Init
    <2>2. /\ orders \in [OrderId -> Order \cup {None}]
          /\ placed \in [OrderId -> PlaceReply \cup {None}]
      BY DEF Init
    <2>8. byAccount \in [Account -> SUBSET OrderId]
      BY DEF Init
    <2>9. tradesOf \in [Account -> SUBSET Nat]
      BY DEF Init
    <2>10. mirror \in [OrderId -> Int]
      <3>1. mirror = [id \in OrderId |-> 0]
        BY DEF Init
      <3>2. QED
        BY <3>1
    <2>6. fillIds \in [OrderId -> FillList]
      BY <1>1 DEF Init
    <2>7. byClientId \in [Account -> [ClientId -> {0} \cup OrderId]]
      BY DEF Init
    <2>3. /\ closed \in Seq(ClosedOrder) /\ trades \in Seq(Trade)
          /\ curFills \in Seq(Nat) /\ feed \in Seq(Event)
          /\ doomed \in [ids : SUBSET OrderId, now : Nat]
      BY <1>1 DEF Init
    <2>4. /\ lastPrice = 0 /\ nextOrder = 0 /\ nextTrade = 0 /\ lastNow = 0
          /\ moves = 0 /\ pc = "idle" /\ cur = None /\ selfTrade = FALSE
      BY DEF Init
    <2>5. QED
      BY <1>2, <1>4, <2>1, <2>2, <2>3, <2>4, <2>6, <2>7, <2>8,
         <2>9, <2>10 DEF TypeOK
  <1>6. InProgress /\ FreshIds /\ ClosedAreDead
    <2>1. /\ pc = "idle" /\ closed = <<>> /\ \A id \in OrderId : orders[id] = None
      BY DEF Init
    <2>2. Listed(closed) = {}
      BY <2>1 DEF Listed
    <2>3. QED
      BY <2>1, <2>2 DEF InProgress, FreshIds, ClosedAreDead
  <1>7. QED
    BY <1>5, <1>6 DEF TypeInv

LEMMA StepTypes == TypeInv /\ [Next]_vars => TypeInv'
  <1> SUFFICES ASSUME TypeInv, [Next]_vars
               PROVE  TypeInv'
    OBVIOUS
  <1>1. ASSUME NEW a \in Account, NEW x \in Amount, NEW y \in Amount,
               Deposit(a, x, y) \/ Withdraw(a, x, y)
        PROVE  TypeInv'
    BY <1>1, DepositMoves, WithdrawMoves, MoveFundsTypes DEF TypeInv
  <1>2. ASSUME NEW r \in Requests, NEW now \in Time,
               RejectOrder(r, now) \/ AcceptOrder(r, now)
        PROVE  TypeInv'
    BY <1>2, RejectOrderTypes, AcceptOrderTypes
  <1>3. ASSUME NEW a \in Account, NEW id \in OrderId, NEW now \in Time,
               Cancel(a, id, now) \/ CancelRefused(a, id, now)
        PROVE  TypeInv'
    BY <1>3, CancelTypes, CancelRefusedTypes
  <1>4. ASSUME NEW a \in Account, NEW now \in Time, CancelAll(a, now)
        PROVE  TypeInv'
    BY <1>4, CancelAllTypes
  <1>5. ASSUME NEW px \in Price, DropStale(px) \/ StopAtOwn(px) \/ Fill(px)
        PROVE  TypeInv'
    BY <1>5, DropStaleTypes, StopAtOwnTypes, FillTypes
  <1>6. CASE FinishFilled \/ FinishResting \/ FinishCancelled \/ CancelNext
    BY <1>6, FinishFilledTypes, FinishRestingTypes, FinishCancelledTypes,
       CancelNextTypes
  <1>7. CASE UNCHANGED vars
    <2>1. TypeOK'
      BY <1>7 DEF TypeInv, TypeOK, vars, levelVars, indexVars, tradeVars, moneyVars,
                  placeVars, eventVars
    <2>2. InProgress' /\ FreshIds' /\ ClosedAreDead'
      BY <1>7 DEF TypeInv, InProgress, FreshIds, ClosedAreDead, Listed, LiveIds,
                  InMemory, vars, indexVars, placeVars
    <2>3. QED
      BY <2>1, <2>2 DEF TypeInv
  <1>8. QED
    BY <1>1, <1>2, <1>3, <1>4, <1>5, <1>6, <1>7 DEF Next, Command, Work

(* Every variable of the book keeps its type, in every reachable state and *)
(* whatever accounts, prices, limits and retention it is built with.       *)
THEOREM TypeInvariant == Spec => []TypeInv
  <1>1. QED
    BY InitTypes, StepTypes, PTL DEF Spec

THEOREM TypeCorrect == Spec => []TypeOK
  <1>1. TypeInv => TypeOK
    BY DEF TypeInv
  <1>2. QED
    BY <1>1, TypeInvariant, PTL

-----------------------------------------------------------------------------
(* The steps that leave the levels alone, and those that only remove some. *)
LEMMA FewerLevels ==
  ASSUME NotCrossed, \A x \in Side : keys'[x] \subseteq keys[x]
  PROVE  NotCrossed'
  BY DEF Side, NotCrossed

LEMMA FillShrinks ==
  ASSUME TypeInv, NEW px \in Price, Fill(px)
  PROVE  \A x \in Side : keys'[x] \subseteq keys[x]
  <1> DEFINE opp == Opposite(cur.side)
             m == orders[FrontEntry(px)]
             q == SmallerOf(cur.remaining, m.remaining)
             lv == LevelAfterFill(level[opp][px], q, m.remaining = q)
  <1>1. /\ opp \in Side /\ level[opp][px] \in Level /\ level[opp][px].queue # <<>>
        /\ q \in Nat
    BY FillContext
  <1>2. PutLevel(opp, px, lv)
    BY DEF Fill
  <1>3. lv \in Level
    BY <1>1, HeadTailProperties DEF Level, LevelAfterFill
  <1> HIDE DEF opp, lv
  <1>4. QED
    BY <1>1, <1>2, <1>3, PutLevelTypes DEF TypeInv

(* The remainder that comes to rest reaches no opposite price: matching    *)
(* ended for lack of one.                                                  *)
LEMMA RestingDoesNotCross ==
  ASSUME TypeInv, NotCrossed, FinishResting
  PROVE  NotCrossed'
  <1>1. /\ pc = "match" /\ cur.remaining > 0 /\ ~selfTrade
        /\ keys' = [keys EXCEPT ![cur.side] = @ \cup {cur.price}]
        /\ \/ cur.remaining = 0
           \/ selfTrade
           \/ \A px \in keys[Opposite(cur.side)] : ~Crosses(cur.side, cur.price, px)
    BY DEF FinishResting, MatchingDone
  <1>2. cur.side \in Side /\ cur.price \in Int /\ cur.remaining \in Nat
    BY <1>1, MatchedOrder, PricesAreInts
  <1>3. keys \in [Side -> SUBSET Price] /\ \A s \in Side : keys[s] \subseteq Int
    BY PricesAreInts DEF TypeInv, TypeOK
  <1>4. \A px \in keys[Opposite(cur.side)] : ~Crosses(cur.side, cur.price, px)
    BY <1>1, <1>2
  <1>5. CASE cur.side = "buy"
    BY <1>1, <1>2, <1>3, <1>4, <1>5 DEF Side, Opposite, Crosses, NotCrossed
  <1>6. CASE cur.side = "sell"
    BY <1>1, <1>2, <1>3, <1>4, <1>6 DEF Side, Opposite, Crosses, NotCrossed
  <1>7. QED
    BY <1>2, <1>5, <1>6 DEF Side

LEMMA StepDoesNotCross == TypeInv /\ NotCrossed /\ [Next]_vars => NotCrossed'
  <1> SUFFICES ASSUME TypeInv, NotCrossed, [Next]_vars
               PROVE  NotCrossed'
    OBVIOUS
  <1>1. ASSUME keys' = keys
        PROVE  NotCrossed'
    BY <1>1 DEF NotCrossed
  <1>2. ASSUME NEW a \in Account, NEW x \in Amount, NEW y \in Amount,
               Deposit(a, x, y) \/ Withdraw(a, x, y)
        PROVE  NotCrossed'
    BY <1>1, <1>2, DepositMoves, WithdrawMoves DEF TypeInv, MoveFunds, levelVars
  <1>3. ASSUME NEW r \in Requests, NEW now \in Time,
               RejectOrder(r, now) \/ AcceptOrder(r, now)
        PROVE  NotCrossed'
    BY <1>1, <1>3 DEF RejectOrder, AcceptOrder, levelVars
  <1>4. ASSUME NEW a \in Account, NEW id \in OrderId, NEW now \in Time,
               Cancel(a, id, now)
        PROVE  NotCrossed'
    BY <1>4, CancelLiveTypes, FewerLevels DEF Cancel
  <1>5. ASSUME NEW a \in Account, NEW id \in OrderId, NEW now \in Time,
               CancelRefused(a, id, now)
        PROVE  NotCrossed'
    BY <1>1, <1>5 DEF CancelRefused, levelVars
  <1>6. ASSUME NEW a \in Account, NEW now \in Time, CancelAll(a, now)
        PROVE  NotCrossed'
    BY <1>1, <1>6 DEF CancelAll, levelVars
  <1>7. ASSUME NEW px \in Price, DropStale(px) \/ StopAtOwn(px)
        PROVE  NotCrossed'
    BY <1>1, <1>7 DEF DropStale, StopAtOwn, levelVars
  <1>8. ASSUME NEW px \in Price, Fill(px)
        PROVE  NotCrossed'
    BY <1>8, FillShrinks, FewerLevels
  <1>9. CASE FinishFilled \/ FinishCancelled \/ UNCHANGED vars
    BY <1>1, <1>9 DEF FinishFilled, FinishCancelled, levelVars, vars
  <1>10. CASE FinishResting
    BY <1>10, RestingDoesNotCross
  <1>11. CASE CancelNext
    <2>1. PICK id \in doomed.ids : CancelLive(id, doomed.now)
      BY <1>11 DEF CancelNext
    <2>2. pc # "match" /\ id \in LiveIds /\ doomed.now \in Time
      BY <1>11 DEF CancelNext, TypeInv, InProgress
    <2>3. QED
      BY <2>1, <2>2, CancelLiveTypes, FewerLevels
  <1>12. QED
    BY <1>2, <1>3, <1>4, <1>5, <1>6, <1>7, <1>8, <1>9, <1>10, <1>11
       DEF Next, Command, Work

(* The best bid stays below the best ask, also between two iterations of   *)
(* the matching loop: place_order rests a remainder only when no opposite  *)
(* price is left within its limit.                                         *)
THEOREM NeverCrossed == Spec => []NotCrossed
  <1>1. Init => NotCrossed
    BY DEF Init, NotCrossed, Side
  <1>2. QED
    BY <1>1, StepDoesNotCross, TypeInvariant, PTL DEF Spec

-----------------------------------------------------------------------------
(* Money.                                                                  *)
LEMMA SameMoney ==
  ASSUME WalletMatchesLedger, ledgers' = ledgers,
         \A a \in Account : SameHoldings(balances'[a], balances[a])
  PROVE  WalletMatchesLedger'
  BY SameHoldingsExplained
     DEF WalletMatchesLedger, Explained, UsdcExplained, EthExplained

LEMMA MoneyUntouched ==
  ASSUME WalletMatchesLedger, ledgers' = ledgers, balances' = balances
  PROVE  WalletMatchesLedger'
  BY DEF WalletMatchesLedger

LEMMA MovesAreExplained ==
  ASSUME TypeInv, WalletMatchesLedger, NEW a \in Account,
         NEW w \in Wallet, NEW l \in Ledger, MoveFunds(a, w, l),
         Explained(balances[a], ledgers[a]) => Explained(w, l)
  PROVE  WalletMatchesLedger'
  BY DEF MoveFunds, TypeInv, TypeOK, WalletMatchesLedger, Explained, UsdcExplained, EthExplained

LEMMA FillsAreExplained ==
  ASSUME TypeInv, WalletMatchesLedger, NEW px \in Price, Fill(px)
  PROVE  WalletMatchesLedger'
  BY FillMoney DEF WalletMatchesLedger, Explained, UsdcExplained, EthExplained

LEMMA ReservesAndReleasesAreExplained ==
  ASSUME TypeInv, WalletMatchesLedger, ledgers' = ledgers,
         NEW a \in Account, NEW w, SameHoldings(w, balances[a]),
         balances' = balances \/ balances' = [balances EXCEPT ![a] = w]
  PROVE  WalletMatchesLedger'
  BY SameMoney DEF TypeInv, TypeOK, SameHoldings

LEMMA AcceptIsExplained ==
  ASSUME TypeInv, WalletMatchesLedger, NEW r \in Requests, NEW now \in Time,
         AcceptOrder(r, now)
  PROVE  WalletMatchesLedger'
  <1> DEFINE w == Reserve(balances[r.account], r.side, r.price, r.qty)
  <1>1. /\ r.account \in Account /\ r.side \in Side
        /\ r.price \in Int /\ r.qty \in Int /\ balances[r.account] \in Wallet
    <2>1. now \in Time /\ r.account \in Account /\ r.side \in Side
      BY NewOrderType DEF TypeInv
    <2>2. r.price \in Nat /\ r.qty \in Nat
      BY NewOrderType DEF TypeInv
    <2>3. QED
      BY <2>1, <2>2 DEF TypeInv, TypeOK
  <1>2. SameHoldings(w, balances[r.account])
    BY <1>1, ReserveIsInternal
  <1>3. /\ ledgers' = ledgers
        /\ balances' = balances \/ balances' = [balances EXCEPT ![r.account] = w]
    BY DEF AcceptOrder
  <1> HIDE DEF w
  <1>4. QED
    BY <1>1, <1>2, <1>3, ReservesAndReleasesAreExplained

LEMMA FinishCancelledIsExplained ==
  ASSUME TypeInv, WalletMatchesLedger, FinishCancelled
  PROVE  WalletMatchesLedger'
  <1> DEFINE w == Release(balances[cur.account], cur.side, cur.price, cur.remaining)
  <1>1. pc = "match"
    BY DEF FinishCancelled, MatchingDone
  <1>2. /\ cur.account \in Account /\ cur.side \in Side /\ cur.price \in Int
        /\ cur.remaining \in Int /\ balances[cur.account] \in Wallet
    BY <1>1, MatchedOrder, PricesAreInts DEF TypeInv, TypeOK
  <1>3. SameHoldings(w, balances[cur.account])
    BY <1>2, ReleaseIsInternal
  <1>4. /\ ledgers' = ledgers
        /\ balances' = balances \/ balances' = [balances EXCEPT ![cur.account] = w]
    BY DEF FinishCancelled, Conclude, ReleaseFunds
  <1> HIDE DEF w
  <1>5. QED
    BY <1>2, <1>3, <1>4, ReservesAndReleasesAreExplained

LEMMA StepIsExplained ==
  TypeInv /\ WalletMatchesLedger /\ [Next]_vars => WalletMatchesLedger'
  <1> SUFFICES ASSUME TypeInv, WalletMatchesLedger, [Next]_vars
               PROVE  WalletMatchesLedger'
    OBVIOUS
  <1>1. ASSUME NEW a \in Account, NEW x \in Amount, NEW y \in Amount,
               Deposit(a, x, y) \/ Withdraw(a, x, y)
        PROVE  WalletMatchesLedger'
    BY <1>1, DepositMoves, WithdrawMoves, MovesAreExplained DEF TypeInv
  <1>2. ASSUME NEW r \in Requests, NEW now \in Time, RejectOrder(r, now)
        PROVE  WalletMatchesLedger'
    BY <1>2, MoneyUntouched DEF RejectOrder, moneyVars
  <1>3. ASSUME NEW r \in Requests, NEW now \in Time, AcceptOrder(r, now)
        PROVE  WalletMatchesLedger'
    BY <1>3, AcceptIsExplained
  <1>4. ASSUME NEW a \in Account, NEW id \in OrderId, NEW now \in Time,
               Cancel(a, id, now)
        PROVE  WalletMatchesLedger'
    BY <1>4, CancelLiveTypes, SameMoney DEF Cancel, CancelLive
  <1>5. ASSUME NEW a \in Account, NEW id \in OrderId, NEW now \in Time,
               CancelRefused(a, id, now)
        PROVE  WalletMatchesLedger'
    BY <1>5, MoneyUntouched DEF CancelRefused, moneyVars
  <1>6. ASSUME NEW a \in Account, NEW now \in Time, CancelAll(a, now)
        PROVE  WalletMatchesLedger'
    BY <1>6, MoneyUntouched DEF CancelAll, moneyVars
  <1>7. ASSUME NEW px \in Price, DropStale(px) \/ StopAtOwn(px)
        PROVE  WalletMatchesLedger'
    BY <1>7, MoneyUntouched DEF DropStale, StopAtOwn, moneyVars
  <1>8. ASSUME NEW px \in Price, Fill(px)
        PROVE  WalletMatchesLedger'
    BY <1>8, FillsAreExplained
  <1>9. CASE FinishFilled \/ FinishResting \/ UNCHANGED vars
    BY <1>9, MoneyUntouched DEF FinishFilled, FinishResting, Conclude, moneyVars, vars
  <1>10. CASE FinishCancelled
    BY <1>10, FinishCancelledIsExplained
  <1>11. CASE CancelNext
    <2>1. PICK id \in doomed.ids : CancelLive(id, doomed.now)
      BY <1>11 DEF CancelNext
    <2>2. pc # "match" /\ id \in LiveIds /\ doomed.now \in Time
      BY <1>11 DEF CancelNext, TypeInv, InProgress
    <2>3. ledgers' = ledgers
      BY <2>1 DEF CancelLive
    <2>4. QED
      BY <2>1, <2>2, <2>3, CancelLiveTypes, SameMoney
  <1>12. QED
    BY <1>1, <1>2, <1>3, <1>4, <1>5, <1>6, <1>7, <1>8, <1>9, <1>10, <1>11
       DEF Next, Command, Work

(* What a wallet holds, available and reserved, is deposits minus          *)
(* withdrawals plus receipts minus payments: settle, reserve, release and  *)
(* record_fill keep Balances and Ledger in step through every fill, price  *)
(* improvement, stop and cancel.                                           *)
THEOREM WalletsExplained == Spec => []WalletMatchesLedger
  <1>1. Init => WalletMatchesLedger
    <2> SUFFICES ASSUME Init, NEW a \in Account
                 PROVE  Explained(balances[a], ledgers[a])
      BY DEF WalletMatchesLedger, Explained, UsdcExplained, EthExplained
    <2> DEFINE u == Fund[a].usdc
               e == Fund[a].eth
    <2>1. u \in Int /\ e \in Int
      BY BookAssumption
    <2>2. /\ balances[a] = [EmptyWallet EXCEPT !.usdc = u, !.eth = e]
          /\ ledgers[a] = [EmptyLedger EXCEPT !.depositsUsdc = u, !.depositsEth = e]
      BY DEF Init, Funding
    <2> HIDE DEF u, e
    <2>3. /\ balances[a].usdc = u /\ balances[a].usdcReserved = 0
          /\ balances[a].eth = e /\ balances[a].ethReserved = 0
      BY <2>2 DEF EmptyWallet
    <2>4. /\ ledgers[a].depositsUsdc = u /\ ledgers[a].withdrawalsUsdc = 0
          /\ ledgers[a].depositsEth = e /\ ledgers[a].withdrawalsEth = 0
          /\ ledgers[a].received = 0 /\ ledgers[a].paid = 0
          /\ ledgers[a].bought = 0 /\ ledgers[a].sold = 0
      BY <2>2 DEF EmptyLedger
    <2>5. QED
      BY <2>1, <2>3, <2>4 DEF Explained, UsdcExplained, EthExplained
  <1>2. QED
    BY <1>1, StepIsExplained, TypeInvariant, PTL DEF Spec

-----------------------------------------------------------------------------
(* Ledgers.                                                                *)
AllLedgersSound == \A a \in Account : LedgerSound(ledgers[a])

LEMMA MovesKeepLedgersSound ==
  ASSUME TypeInv, AllLedgersSound, NEW a \in Account,
         NEW x \in Amount, NEW y \in Amount, Deposit(a, x, y) \/ Withdraw(a, x, y)
  PROVE  AllLedgersSound'
  <1>1. ledgers \in [Account -> Ledger] /\ ledgers[a] \in Ledger
    BY DEF TypeInv, TypeOK
  <1> DEFINE l == ledgers'[a]
  <1>2. /\ l.inventory = ledgers[a].inventory /\ l.sold = ledgers[a].sold
        /\ l.bought = ledgers[a].bought /\ l.cost = ledgers[a].cost
        /\ l.soldFromDeposits = ledgers[a].soldFromDeposits
        /\ l.received = ledgers[a].received /\ l.paid = ledgers[a].paid
        /\ l.pnl = ledgers[a].pnl
        /\ \A b \in Account \ {a} : ledgers'[b] = ledgers[b]
    <2>1. CASE Deposit(a, x, y)
      BY <1>1, <2>1 DEF Deposit, MoveFunds, Ledger
    <2>2. CASE Withdraw(a, x, y)
      BY <1>1, <2>2 DEF Withdraw, MoveFunds, Ledger
    <2>3. QED
      BY <2>1, <2>2
  <1> HIDE DEF l
  <1>3. LedgerSound(l)
    BY <1>2 DEF AllLedgersSound, LedgerSound
  <1>4. QED
    BY <1>2, <1>3 DEF AllLedgersSound, l

LEMMA FillKeepsLedgersSound ==
  ASSUME TypeInv, AllLedgersSound, NEW px \in Price, Fill(px)
  PROVE  AllLedgersSound'
  <1> DEFINE me == cur.account
             other == orders[FrontEntry(px)].account
             q == SmallerOf(cur.remaining, orders[FrontEntry(px)].remaining)
             side == cur.side
  <1>1. /\ me \in Account /\ other \in Account /\ other # me
        /\ px \in Int /\ q \in Nat
    BY FillContext
  <1>2. ledgers \in [Account -> Ledger]
    BY DEF TypeInv, TypeOK
  <1>3. RecordFill(other, px, q)
    BY DEF Fill
  <1>4. /\ ledgers'[me] \in {RecordBuy(ledgers[me], px, q), RecordSell(ledgers[me], px, q)}
        /\ ledgers'[other] \in {RecordBuy(ledgers[other], px, q),
                                RecordSell(ledgers[other], px, q)}
        /\ \A b \in Account \ {me, other} : ledgers'[b] = ledgers[b]
    BY <1>1, <1>2, <1>3 DEF RecordFill
  <1> HIDE DEF me, other, q
  <1>5. ASSUME NEW b \in Account
        PROVE  /\ LedgerSound(RecordBuy(ledgers[b], px, q))
               /\ LedgerSound(RecordSell(ledgers[b], px, q))
    BY <1>1, <1>2, BuyKeepsLedgerSound, SellKeepsLedgerSound DEF AllLedgersSound
  <1>6. LedgerSound(ledgers'[me]) /\ LedgerSound(ledgers'[other])
    BY <1>1, <1>4, <1>5
  <1>7. QED
    BY <1>4, <1>6 DEF AllLedgersSound

LEMMA StepKeepsLedgersSound == TypeInv /\ AllLedgersSound /\ [Next]_vars => AllLedgersSound'
  <1> SUFFICES ASSUME TypeInv, AllLedgersSound, [Next]_vars
               PROVE  AllLedgersSound'
    OBVIOUS
  <1>1. ASSUME ledgers' = ledgers
        PROVE  AllLedgersSound'
    BY <1>1 DEF AllLedgersSound
  <1>2. ASSUME NEW a \in Account, NEW x \in Amount, NEW y \in Amount,
               Deposit(a, x, y) \/ Withdraw(a, x, y)
        PROVE  AllLedgersSound'
    BY <1>2, MovesKeepLedgersSound
  <1>3. ASSUME NEW r \in Requests, NEW now \in Time,
               RejectOrder(r, now) \/ AcceptOrder(r, now)
        PROVE  AllLedgersSound'
    BY <1>1, <1>3 DEF RejectOrder, AcceptOrder, moneyVars
  <1>4. ASSUME NEW a \in Account, NEW id \in OrderId, NEW now \in Time,
               Cancel(a, id, now) \/ CancelRefused(a, id, now)
        PROVE  AllLedgersSound'
    BY <1>1, <1>4 DEF Cancel, CancelLive, CancelRefused, moneyVars
  <1>5. ASSUME NEW a \in Account, NEW now \in Time, CancelAll(a, now)
        PROVE  AllLedgersSound'
    BY <1>1, <1>5 DEF CancelAll, moneyVars
  <1>6. ASSUME NEW px \in Price, DropStale(px) \/ StopAtOwn(px)
        PROVE  AllLedgersSound'
    BY <1>1, <1>6 DEF DropStale, StopAtOwn, moneyVars
  <1>7. ASSUME NEW px \in Price, Fill(px)
        PROVE  AllLedgersSound'
    BY <1>7, FillKeepsLedgersSound
  <1>8. CASE FinishFilled \/ FinishResting \/ FinishCancelled \/ UNCHANGED vars
    BY <1>1, <1>8 DEF FinishFilled, FinishResting, FinishCancelled, Conclude,
                      moneyVars, vars
  <1>9. CASE CancelNext
    BY <1>1, <1>9 DEF CancelNext, CancelLive
  <1>10. QED
    BY <1>2, <1>3, <1>4, <1>5, <1>6, <1>7, <1>8, <1>9 DEF Next, Command, Work

(* Average-cost accounting keeps its books whatever the prices, sizes and  *)
(* roundings: record_fill loses no lot, leaves no cost behind an empty     *)
(* inventory, and its cost and P&L add up to the money that changed hands. *)
THEOREM LedgersAddUp == Spec => []LedgerAddsUp
  <1>1. Init => AllLedgersSound
    <2> SUFFICES ASSUME Init, NEW a \in Account
                 PROVE  LedgerSound(ledgers[a])
      BY DEF AllLedgersSound
    <2>1. ledgers[a] = [EmptyLedger EXCEPT !.depositsUsdc = Fund[a].usdc,
                                           !.depositsEth = Fund[a].eth]
      BY DEF Init
    <2>2. QED
      BY <2>1 DEF EmptyLedger, LedgerSound
  <1>2. AllLedgersSound => LedgerAddsUp
    BY DEF AllLedgersSound, LedgerSound, LedgerAddsUp
  <1>3. QED
    BY <1>1, <1>2, StepKeepsLedgersSound, TypeInvariant, PTL DEF Spec

-----------------------------------------------------------------------------
(* The event feed.                                                         *)
LEMMA FirstEventFollows ==
  ASSUME TypeInv, NEW kind, NEW id, NEW qty, EmitFirst(kind, id, qty)
  PROVE  FeedIsContiguous'
  <1> DEFINE e == EventOf(kind, id, 0, qty, nextSeq + 1)
  <1>1. nextSeq' = nextSeq + 1 /\ feed' = <<e>> /\ e.seq = nextSeq + 1 /\ nextSeq \in Nat
    BY DEF EmitFirst, EventOf, TypeInv, TypeOK
  <1> HIDE DEF e
  <1>2. QED
    BY <1>1 DEF FeedIsContiguous

LEMMA NextEventFollows ==
  ASSUME TypeInv, FeedIsContiguous, NEW kind, NEW id, NEW maker, NEW qty,
         EmitNext(kind, id, maker, qty), EventOf(kind, id, maker, qty, nextSeq + 1) \in Event
  PROVE  FeedIsContiguous'
  <1> DEFINE e == EventOf(kind, id, maker, qty, nextSeq + 1)
  <1>1. /\ nextSeq' = nextSeq + 1 /\ feed' = Append(feed, e) /\ e.seq = nextSeq + 1
        /\ e \in Event /\ nextSeq \in Nat /\ feed \in Seq(Event)
    BY DEF EmitNext, EventOf, TypeInv, TypeOK
  <1> HIDE DEF e
  <1>2. /\ Len(feed) \in Nat /\ Len(feed') = Len(feed) + 1
        /\ DOMAIN feed = 1 .. Len(feed) /\ DOMAIN feed' = 1 .. Len(feed')
        /\ \A i \in 1 .. Len(feed) : feed'[i] = feed[i]
        /\ feed'[Len(feed) + 1] = e
    BY <1>1, AppendProperties, LenProperties
  <1>3. SUFFICES ASSUME NEW i \in 1 .. Len(feed')
                 PROVE  feed'[i].seq = nextSeq' - Len(feed') + i
    BY <1>2 DEF FeedIsContiguous
  <1>4. CASE i = Len(feed) + 1
    BY <1>1, <1>2, <1>4
  <1>5. CASE i \in 1 .. Len(feed)
    BY <1>1, <1>2, <1>5 DEF FeedIsContiguous
  <1>6. QED
    BY <1>2, <1>3, <1>4, <1>5

LEMMA FeedUntouched ==
  ASSUME FeedIsContiguous, feed' = feed, nextSeq' = nextSeq
  PROVE  FeedIsContiguous'
  BY DEF FeedIsContiguous

LEMMA StepIsContiguous == TypeInv /\ FeedIsContiguous /\ [Next]_vars => FeedIsContiguous'
  <1> SUFFICES ASSUME TypeInv, FeedIsContiguous, [Next]_vars
               PROVE  FeedIsContiguous'
    OBVIOUS
  <1>1. ASSUME NEW a \in Account, NEW x \in Amount, NEW y \in Amount,
               Deposit(a, x, y) \/ Withdraw(a, x, y)
        PROVE  FeedIsContiguous'
    BY <1>1, FirstEventFollows DEF Deposit, Withdraw, MoveFunds
  <1>2. ASSUME NEW r \in Requests, NEW now \in Time,
               RejectOrder(r, now) \/ AcceptOrder(r, now)
        PROVE  FeedIsContiguous'
    BY <1>2, FirstEventFollows DEF RejectOrder, AcceptOrder
  <1>3. ASSUME NEW a \in Account, NEW id \in OrderId, NEW now \in Time,
               Cancel(a, id, now)
        PROVE  FeedIsContiguous'
    BY <1>3, FirstEventFollows DEF Cancel
  <1>4. ASSUME NEW a \in Account, NEW id \in OrderId, NEW now \in Time,
               CancelRefused(a, id, now)
        PROVE  FeedIsContiguous'
    BY <1>4, FeedUntouched DEF CancelRefused, eventVars
  <1>5. ASSUME NEW a \in Account, NEW now \in Time, CancelAll(a, now)
        PROVE  FeedIsContiguous'
    BY <1>5 DEF CancelAll, FeedIsContiguous
  <1>6. ASSUME NEW px \in Price, DropStale(px) \/ StopAtOwn(px)
        PROVE  FeedIsContiguous'
    BY <1>6, FeedUntouched DEF DropStale, StopAtOwn, eventVars
  <1>7. ASSUME NEW px \in Price, Fill(px)
        PROVE  FeedIsContiguous'
    <2> DEFINE mid == FrontEntry(px)
               q == SmallerOf(cur.remaining, orders[mid].remaining)
    <2>1. EmitNext("traded", nextOrder, mid, q)
      BY <1>7 DEF Fill
    <2>2. /\ nextOrder \in 0 .. MaxOrders /\ mid \in 0 .. MaxOrders /\ q \in Int
          /\ nextSeq + 1 \in Nat
      <3>1. nextOrder \in OrderId /\ mid \in OrderId /\ q \in Nat
        BY <1>7, FillContext
      <3>2. \A i \in OrderId : i \in 0 .. MaxOrders
        BY BookAssumption DEF OrderId
      <3>3. nextSeq + 1 \in Nat
        BY DEF TypeInv, TypeOK
      <3>4. QED
        BY <3>1, <3>2, <3>3
    <2> HIDE DEF mid, q
    <2>3. EventOf("traded", nextOrder, mid, q, nextSeq + 1) \in Event
      BY <2>2 DEF EventOf, Event
    <2>4. QED
      BY <2>1, <2>3, NextEventFollows
  <1>8. CASE FinishFilled \/ FinishResting \/ UNCHANGED vars
    BY <1>8, FeedUntouched DEF FinishFilled, FinishResting, eventVars, vars
  <1>9. CASE FinishCancelled \/ CancelNext
    <2>1. PICK id \in 0 .. MaxOrders : EmitNext("cancelled", id, 0, 0)
      <3>1. ASSUME FinishCancelled
            PROVE  \E id \in 0 .. MaxOrders : EmitNext("cancelled", id, 0, 0)
        BY <3>1, MatchedOrder DEF FinishCancelled, MatchingDone
      <3>2. ASSUME CancelNext
            PROVE  \E id \in 0 .. MaxOrders : EmitNext("cancelled", id, 0, 0)
        <4>1. PICK id \in doomed.ids : EmitNext("cancelled", id, 0, 0)
          BY <3>2 DEF CancelNext
        <4>2. id \in 0 .. MaxOrders
          BY BookAssumption DEF TypeInv, TypeOK, OrderId
        <4>3. QED
          BY <4>1, <4>2
      <3>3. QED
        BY <1>9, <3>1, <3>2
    <2>2. EventOf("cancelled", id, 0, 0, nextSeq + 1) \in Event
      BY BookAssumption DEF TypeInv, TypeOK, EventOf, Event
    <2>3. QED
      BY <2>1, <2>2, NextEventFollows
  <1>10. QED
    BY <1>1, <1>2, <1>3, <1>4, <1>5, <1>6, <1>7, <1>8, <1>9 DEF Next, Command, Work

(* Every sequence number belongs to one event and the events of a command  *)
(* carry consecutive ones up to the last assigned: what bump_seq and       *)
(* record_into give a subscriber to detect a gap by.                       *)
THEOREM FeedHasNoGap == Spec => []FeedIsContiguous
  <1>1. Init => FeedIsContiguous
    <2>1. Init => feed = <<>>
      BY DEF Init
    <2>2. feed = <<>> => DOMAIN feed = {}
      OBVIOUS
    <2>3. QED
      BY <2>1, <2>2 DEF FeedIsContiguous
  <1>2. QED
    BY <1>1, StepIsContiguous, TypeInvariant, PTL DEF Spec

-----------------------------------------------------------------------------
(* Closed orders.                                                          *)
ClosedStay ==
  \A id \in InMemory \ LiveIds : orders'[id] = orders[id] \/ orders'[id] = None

LEMMA OnlyOneNew ==
  ASSUME NEW new, \A id \in OrderId \ {new} : orders'[id] \in {orders[id], None},
         new \in OrderId => orders[new] = None \/ new \in LiveIds
  PROVE  ClosedStay
  BY DEF ClosedStay, InMemory, LiveIds

LEMMA StepKeepsClosed == TypeInv /\ [Next]_vars => ClosedStay
  <1> SUFFICES ASSUME TypeInv, [Next]_vars
               PROVE  ClosedStay
    OBVIOUS
  <1>1. ASSUME orders' = orders
        PROVE  ClosedStay
    BY <1>1 DEF ClosedStay
  <1>2. ASSUME NEW a \in Account, NEW x \in Amount, NEW y \in Amount,
               Deposit(a, x, y) \/ Withdraw(a, x, y)
        PROVE  ClosedStay
    BY <1>1, <1>2 DEF Deposit, Withdraw, MoveFunds, indexVars
  <1>3. ASSUME NEW r \in Requests, NEW now \in Time, RejectOrder(r, now)
        PROVE  ClosedStay
    <2> DEFINE id == nextOrder + 1
    <2>1. id \in OrderId /\ orders[id] = None
      BY <1>3, IntakeGivesFreshId DEF RejectOrder
    <2>2. \E o : \E gone : orders' = Without([orders EXCEPT ![id] = o], gone, None)
      BY <1>3 DEF RejectOrder, EnforceRetention
    <2>3. \A other \in OrderId \ {id} : orders'[other] \in {orders[other], None}
      BY <2>1, <2>2 DEF Without, TypeInv, TypeOK
    <2> HIDE DEF id
    <2>4. QED
      BY <2>1, <2>3, OnlyOneNew
  <1>4. ASSUME NEW r \in Requests, NEW now \in Time, AcceptOrder(r, now)
        PROVE  ClosedStay
    BY <1>1, <1>4 DEF AcceptOrder
  <1>5. ASSUME NEW a \in Account, NEW id \in OrderId, NEW now \in Time,
               Cancel(a, id, now)
        PROVE  ClosedStay
    BY <1>5, CancelLiveTypes, OnlyOneNew DEF Cancel
  <1>6. ASSUME NEW a \in Account, NEW id \in OrderId, NEW now \in Time,
               CancelRefused(a, id, now)
        PROVE  ClosedStay
    BY <1>1, <1>6 DEF CancelRefused, indexVars
  <1>7. ASSUME NEW a \in Account, NEW now \in Time, CancelAll(a, now)
        PROVE  ClosedStay
    BY <1>1, <1>7 DEF CancelAll, indexVars
  <1>8. ASSUME NEW px \in Price, DropStale(px) \/ StopAtOwn(px)
        PROVE  ClosedStay
    BY <1>1, <1>8 DEF DropStale, StopAtOwn, indexVars
  <1>9. ASSUME NEW px \in Price, Fill(px)
        PROVE  ClosedStay
    <2> DEFINE mid == FrontEntry(px)
    <2>1. mid \in LiveIds
      BY <1>9 DEF Fill
    <2>2. \A other \in OrderId \ {mid} : orders'[other] = orders[other]
      BY <1>9 DEF Fill, TypeInv, TypeOK
    <2> HIDE DEF mid
    <2>3. QED
      BY <2>1, <2>2, OnlyOneNew
  <1>10. CASE FinishFilled \/ FinishResting \/ FinishCancelled
    <2>1. /\ pc = "match"
          /\ \E o, extra : Conclude(o, extra)
      BY <1>10 DEF FinishFilled, FinishResting, FinishCancelled, MatchingDone
    <2>2. nextOrder \in OrderId /\ orders[nextOrder] = None
      BY <2>1 DEF TypeInv, InProgress
    <2>3. \E o : \E gone : orders' = Without([orders EXCEPT ![nextOrder] = o], gone, None)
      <3>1. PICK o, extra : Conclude(o, extra)
        BY <2>1
      <3> DEFINE os == [orders EXCEPT ![nextOrder] = o]
                 fi == IF curFills = <<>> THEN fillIds
                       ELSE [fillIds EXCEPT ![nextOrder] =
                               [filled |-> o.qty - o.remaining, ids |-> curFills]]
                 pl == [placed EXCEPT ![nextOrder] =
                          [order |-> o, fills |-> curFills]]
      <3>2. EnforceRetention(os, byAccount, byClientId, fi, closed \o extra, pl,
                             lastNow)
        BY <3>1 DEF Conclude
      <3> HIDE DEF os, fi, pl
      <3>3. \E gone : orders' = Without(os, gone, None)
        BY <3>2 DEF EnforceRetention
      <3>4. QED
        BY <3>3 DEF os
    <2>4. \A other \in OrderId \ {nextOrder} : orders'[other] \in {orders[other], None}
      BY <2>2, <2>3 DEF Without, TypeInv, TypeOK
    <2>5. QED
      BY <2>2, <2>4, OnlyOneNew
  <1>11. CASE CancelNext
    <2>1. PICK id \in doomed.ids : CancelLive(id, doomed.now)
      BY <1>11 DEF CancelNext
    <2>2. pc # "match" /\ id \in LiveIds /\ doomed.now \in Time
      BY <1>11 DEF CancelNext, TypeInv, InProgress
    <2>3. QED
      BY <2>1, <2>2, CancelLiveTypes, OnlyOneNew
  <1>12. CASE UNCHANGED vars
    BY <1>1, <1>12 DEF vars, indexVars
  <1>13. QED
    BY <1>2, <1>3, <1>4, <1>5, <1>6, <1>7, <1>8, <1>9, <1>10, <1>11, <1>12
       DEF Next, Command, Work

(* Once filled, cancelled or rejected, an order's record does not change   *)
(* until retention archives it: matching and cancelling touch live orders  *)
(* only, and a new order never takes an id that is in use.                 *)
THEOREM ClosedAreFinal == Spec => ClosedOrdersAreFinal
  <1>1. TypeInv /\ [Next]_vars =>
          [\A id \in InMemory \ LiveIds :
             orders'[id] = orders[id] \/ orders'[id] = None]_vars
    BY StepKeepsClosed DEF ClosedStay
  <1>2. QED
    BY <1>1, TypeInvariant, PTL DEF Spec, ClosedOrdersAreFinal
-----------------------------------------------------------------------------
(* What lives: the book's orders without the closed ones. Archiving, and   *)
(* whatever else becomes of a closed order, is invisible here.             *)
AliveOf(os) == [id \in OrderId |-> IF os[id] # None /\ Live(os[id]) THEN os[id] ELSE None]
Alive == AliveOf(orders)
Living(o) == IF Live(o) THEN o ELSE None

LEMMA AliveFacts ==
  ASSUME TypeOK
  PROVE  /\ Alive \in [OrderId -> Order \cup {None}]
         /\ \A id \in OrderId : Alive[id] # None <=> id \in LiveIds
         /\ \A id \in LiveIds : id \in OrderId /\ Alive[id] = orders[id]
  BY DEF TypeOK, Alive, AliveOf, LiveIds, InMemory

LEMMA AliveChange ==
  ASSUME NEW os \in [OrderId -> Order \cup {None}], NEW x \in OrderId, NEW o \in Order
  PROVE  AliveOf([os EXCEPT ![x] = o]) = [AliveOf(os) EXCEPT ![x] = Living(o)]
  BY OrderIsNotNone DEF AliveOf, Living

LEMMA ArchivingKeepsAlive ==
  ASSUME TypeOK,
         NEW os \in [OrderId -> Order \cup {None}],
         NEW accountIds \in [Account -> SUBSET OrderId],
         NEW clientIds \in [Account -> [ClientId -> {0} \cup OrderId]],
         NEW fi \in [OrderId -> FillList],
         NEW cl \in Seq(ClosedOrder),
         NEW pl \in [OrderId -> PlaceReply \cup {None}],
         NEW now,
         EnforceRetention(os, accountIds, clientIds, fi, cl, pl, now),
         \A c \in Listed(cl) : os[c.id] = None \/ ~Live(os[c.id])
  PROVE  Alive' = AliveOf(os)
  <1>1. trades \in Seq(Trade) /\ tradesOf \in [Account -> SUBSET Nat]
    BY DEF TypeOK
  <1>2. /\ \A id \in OrderId : orders'[id] \in {os[id], None}
        /\ \A id \in OrderId : orders'[id] # os[id] => \E c \in Listed(cl) : c.id = id
    BY <1>1, RetentionKeepsTypes
  <1>3. ASSUME NEW id \in OrderId
        PROVE  (IF orders'[id] # None /\ Live(orders'[id]) THEN orders'[id] ELSE None)
                 = (IF os[id] # None /\ Live(os[id]) THEN os[id] ELSE None)
    <2>1. CASE orders'[id] = os[id]
      BY <2>1
    <2>2. CASE orders'[id] # os[id]
      BY <1>2, <2>2
    <2>3. QED
      BY <2>1, <2>2
  <1>4. AliveOf(orders') = AliveOf(os)
    BY <1>3 DEF AliveOf
  <1>5. QED
    BY <1>4 DEF Alive, AliveOf, Live

LEMMA ConcludeLeaves ==
  ASSUME TypeInv, pc = "match", NEW o \in Order, NEW extra \in Seq(ClosedOrder),
         Conclude(o, extra),
         \A c \in Listed(extra) : c.id = nextOrder /\ ~Live(o)
  PROVE  /\ Alive' = [Alive EXCEPT ![nextOrder] = Living(o)]
         /\ Alive[nextOrder] = None /\ nextOrder \in OrderId
  <1> DEFINE os == [orders EXCEPT ![nextOrder] = o]
             reply == [order |-> o, fills |-> curFills]
             fl == [filled |-> o.qty - o.remaining, ids |-> curFills]
             fi == IF curFills = <<>> THEN fillIds
                   ELSE [fillIds EXCEPT ![nextOrder] = fl]
             cl == closed \o extra
             pl == [placed EXCEPT ![nextOrder] = reply]
  <1>1. EnforceRetention(os, byAccount, byClientId, fi, cl, pl, lastNow)
    BY DEF Conclude
  <1>2. nextOrder \in OrderId /\ orders[nextOrder] = None
    BY DEF TypeInv, InProgress
  <1>3. /\ orders \in [OrderId -> Order \cup {None}]
        /\ closed \in Seq(ClosedOrder) /\ curFills \in Seq(Nat)
        /\ fillIds \in [OrderId -> FillList]
        /\ placed \in [OrderId -> PlaceReply \cup {None}]
        /\ byAccount \in [Account -> SUBSET OrderId]
        /\ byClientId \in [Account -> [ClientId -> {0} \cup OrderId]]
    BY DEF TypeInv, TypeOK
  <1>4. os \in [OrderId -> Order \cup {None}]
    BY <1>2, <1>3
  <1>5. fi \in [OrderId -> FillList]
    <2>1. o.qty \in Int /\ o.remaining \in Int
      BY QtysAreInts DEF Order
    <2>2. fl \in FillList
      BY <1>3, <2>1 DEF FillList
    <2> HIDE DEF fl
    <2>3. QED
      BY <1>2, <1>3, <2>2
  <1>6. cl \in Seq(ClosedOrder)
    BY <1>3, ConcatProperties
  <1>7. pl \in [OrderId -> PlaceReply \cup {None}]
    <2>1. reply \in PlaceReply
      BY <1>3 DEF PlaceReply
    <2> HIDE DEF reply
    <2>2. QED
      BY <1>2, <1>3, <2>1
  <1>8. \A c \in Listed(cl) : os[c.id] = None \/ ~Live(os[c.id])
    <2>1. ASSUME NEW c \in Listed(closed)
          PROVE  os[c.id] = None \/ ~Live(os[c.id])
      BY <1>3, ClosedIds DEF TypeInv, ClosedAreDead, LiveIds, InMemory
    <2>2. ASSUME NEW c \in Listed(extra)
          PROVE  ~Live(os[c.id])
      BY <1>2, <1>3
    <2>3. Listed(cl) \subseteq Listed(closed) \cup Listed(extra)
      BY <1>3, ListedConcat
    <2> HIDE DEF cl, os
    <2>4. QED
      BY <2>1, <2>2, <2>3
  <1>9. AliveOf(os) = [Alive EXCEPT ![nextOrder] = Living(o)]
    <2>1. AliveOf([orders EXCEPT ![nextOrder] = o])
            = [AliveOf(orders) EXCEPT ![nextOrder] = Living(o)]
      <3>1. orders \in [OrderId -> Order \cup {None}] /\ nextOrder \in OrderId
        BY <1>2, <1>3
      <3>2. QED
        BY <3>1, AliveChange, Zenon
    <2>2. QED
      BY <2>1 DEF Alive
  <1> HIDE DEF os, fi, cl, pl
  <1>10. Alive' = AliveOf(os)
    BY <1>1, <1>3, <1>4, <1>5, <1>6, <1>7, <1>8, ArchivingKeepsAlive DEF TypeInv
  <1>11. QED
    BY <1>2, <1>9, <1>10 DEF Alive, AliveOf

LEMMA RejectLeaves ==
  ASSUME TypeInv, NEW r \in Requests, NEW now \in Time, RejectOrder(r, now)
  PROVE  Alive' = Alive
  <1> DEFINE id == nextOrder + 1
             o == [NewOrder(r, now) EXCEPT !.status = "rejected"]
             os == [orders EXCEPT ![id] = o]
             accountIds == WithAccountId(id, r.account)
             clientIds == WithClientId(id, r.account, r.cid)
             cl == Append(closed, Closing(id, now))
             pl == [placed EXCEPT ![id] = [order |-> o, fills |-> <<>>]]
  <1>1. id \in OrderId /\ orders[id] = None
    BY IntakeGivesFreshId DEF RejectOrder
  <1>2. /\ o \in Order /\ ~Live(o)
        /\ r.account \in Account /\ r.cid \in ClientId
    BY NewOrderType DEF TypeInv
  <1>3. EnforceRetention(os, accountIds, clientIds, fillIds, cl, pl, now)
    BY DEF RejectOrder
  <1>4. /\ fillIds \in [OrderId -> FillList] /\ closed \in Seq(ClosedOrder)
        /\ orders \in [OrderId -> Order \cup {None}]
    BY DEF TypeInv, TypeOK
  <1> HIDE DEF o
  <1>5. os \in [OrderId -> Order \cup {None}] /\ os[id] = o
    BY <1>1, <1>2, <1>4
  <1>6. /\ accountIds \in [Account -> SUBSET OrderId]
        /\ clientIds \in [Account -> [ClientId -> {0} \cup OrderId]]
    BY <1>1, <1>2, IndexedTypes DEF TypeInv
  <1>7. pl \in [OrderId -> PlaceReply \cup {None}]
    BY <1>2, EmptySeq DEF PlaceReply, TypeInv, TypeOK
  <1>8. /\ cl \in Seq(ClosedOrder) /\ Closing(id, now).id = id
        /\ Listed(cl) = Listed(closed) \cup {Closing(id, now)}
    BY <1>1, <1>4, OneMoreClosed
  <1>9. AliveOf(os) = Alive
    <2>1. AliveOf([orders EXCEPT ![id] = o]) = [AliveOf(orders) EXCEPT ![id] = Living(o)]
      <3>1. orders \in [OrderId -> Order \cup {None}] /\ o \in Order /\ id \in OrderId
        BY <1>1, <1>2, <1>4
      <3> HIDE DEF id
      <3>2. QED
        BY <3>1, AliveChange, Zenon
    <2>2. Living(o) = None /\ AliveOf(orders)[id] = None
      BY <1>1, <1>2 DEF Living, AliveOf
    <2> HIDE DEF id
    <2>3. [AliveOf(orders) EXCEPT ![id] = None] = AliveOf(orders)
      BY <2>2 DEF AliveOf
    <2>4. QED
      BY <2>1, <2>2, <2>3 DEF Alive
  <1>10. \A c \in Listed(cl) : os[c.id] = None \/ ~Live(os[c.id])
    <2>1. ASSUME NEW c \in Listed(closed)
          PROVE  os[c.id] = None \/ ~Live(os[c.id])
      BY <1>2, <1>4, ClosedIds DEF TypeInv, ClosedAreDead, LiveIds, InMemory
    <2> HIDE DEF cl, os, id
    <2>2. QED
      BY <1>2, <1>5, <1>8, <2>1
  <1> HIDE DEF os, cl, pl, accountIds, clientIds
  <1>11. Alive' = AliveOf(os)
    BY <1>3, <1>4, <1>5, <1>6, <1>7, <1>8, <1>10, ArchivingKeepsAlive DEF TypeInv
  <1>12. QED
    BY <1>9, <1>11

LEMMA CancelLeaves ==
  ASSUME TypeInv, NEW id \in LiveIds, NEW now \in Time, CancelLive(id, now)
  PROVE  Alive' = [Alive EXCEPT ![id] = None]
  <1> DEFINE o == orders[id]
             os == [orders EXCEPT ![id].status = "cancelled", ![id].reason = "user"]
             dead == [o EXCEPT !.status = "cancelled", !.reason = "user"]
             cl == Append(closed, Closing(id, now))
  <1>1. id \in OrderId /\ o \in Order
    BY LiveOrders DEF TypeInv
  <1>2. /\ orders \in [OrderId -> Order \cup {None}]
        /\ closed \in Seq(ClosedOrder)
        /\ fillIds \in [OrderId -> FillList]
        /\ placed \in [OrderId -> PlaceReply \cup {None}]
        /\ byAccount \in [Account -> SUBSET OrderId]
        /\ byClientId \in [Account -> [ClientId -> {0} \cup OrderId]]
    BY DEF TypeInv, TypeOK
  <1>3. EnforceRetention(os, byAccount, byClientId, fillIds, cl, placed, now)
    BY DEF CancelLive
  <1>4. os = [orders EXCEPT ![id] = dead] /\ dead \in Order /\ ~Live(dead)
    BY <1>1, <1>2 DEF Order, Status, Reason, Live
  <1> HIDE DEF o, os, dead
  <1>5. os \in [OrderId -> Order \cup {None}] /\ os[id] = dead
    BY <1>1, <1>2, <1>4
  <1>6. /\ cl \in Seq(ClosedOrder)
        /\ Closing(id, now).id = id
        /\ Listed(cl) = Listed(closed) \cup {Closing(id, now)}
    BY <1>1, <1>2, OneMoreClosed
  <1>7. \A c \in Listed(cl) : os[c.id] = None \/ ~Live(os[c.id])
    <2>1. ASSUME NEW c \in Listed(closed)
          PROVE  os[c.id] = None \/ ~Live(os[c.id])
      BY <1>2, <1>4, ClosedIds DEF TypeInv, ClosedAreDead, LiveIds, InMemory
    <2> HIDE DEF cl
    <2>2. QED
      BY <1>4, <1>5, <1>6, <2>1
  <1> HIDE DEF cl
  <1>8. AliveOf(os) = [Alive EXCEPT ![id] = None]
    BY <1>1, <1>2, <1>4, AliveChange DEF Living, Alive
  <1>9. Alive' = AliveOf(os)
    BY <1>2, <1>3, <1>5, <1>6, <1>7, ArchivingKeepsAlive DEF TypeInv
  <1>10. QED
    BY <1>8, <1>9

LEMMA FillLeaves ==
  ASSUME TypeInv, NEW px \in Price, Fill(px)
  PROVE  LET m == orders[FrontEntry(px)]
             q == SmallerOf(cur.remaining, m.remaining)
         IN Alive' = [Alive EXCEPT ![FrontEntry(px)] =
                        IF q = m.remaining THEN None
                        ELSE [m EXCEPT !.remaining = m.remaining - q, !.status = "partial"]]
  <1> DEFINE mid == FrontEntry(px)
             m == orders[mid]
             q == SmallerOf(cur.remaining, m.remaining)
             o == MakerAfterFill(m, q)
  <1>1. mid \in OrderId /\ m \in Order /\ q \in Nat /\ m.remaining \in Nat
        /\ q <= m.remaining
    BY FillContext
  <1>2. orders' = [orders EXCEPT ![mid] = o]
    BY DEF Fill
  <1>3. orders \in [OrderId -> Order \cup {None}]
    BY DEF TypeInv, TypeOK
  <1> HIDE DEF mid, q
  <1>4. o \in Order
    <2>1. m.remaining - q \in Nat
      BY <1>1
    <2> HIDE DEF m
    <2>2. QED
      BY <1>1, <2>1 DEF MakerAfterFill, Order, Status
  <1>5. Living(o) = IF q = m.remaining THEN None
                    ELSE [m EXCEPT !.remaining = m.remaining - q, !.status = "partial"]
    <2> HIDE DEF m
    <2>1. o.status = IF m.remaining = q THEN "filled" ELSE "partial"
      BY <1>1 DEF MakerAfterFill, Order
    <2>2. q # m.remaining =>
            o = [m EXCEPT !.remaining = m.remaining - q, !.status = "partial"]
      BY DEF MakerAfterFill
    <2> HIDE DEF o
    <2>3. QED
      BY <2>1, <2>2 DEF Living, Live
  <1>6. AliveOf([orders EXCEPT ![mid] = o]) = [AliveOf(orders) EXCEPT ![mid] = Living(o)]
    BY <1>1, <1>3, <1>4, AliveChange, Zenon
  <1>7. Alive' = AliveOf(orders')
    BY DEF Alive, AliveOf, Live
  <1>8. QED
    BY <1>2, <1>5, <1>6, <1>7 DEF mid, q, Alive

-----------------------------------------------------------------------------
(* What the living orders of a group weigh: how many they are, their lots, *)
(* or their money.                                                         *)
Groups == [sides : SUBSET Side, prices : SUBSET Price, accounts : SUBSET Account]
Belongs(o, g) == o.side \in g.sides /\ o.price \in g.prices /\ o.account \in g.accounts

Worth(o, how) ==
  IF how = "count" THEN 1 ELSE IF how = "lots" THEN o.remaining ELSE Notional(o)

WeightOf(o, g, how) == IF o # None /\ Belongs(o, g) THEN Worth(o, how) ELSE 0
Weights(v, g, how) == [id \in OrderId |-> WeightOf(v[id], g, how)]
Weight(v, g, how) == SumFunctionOnSet(Weights(v, g, how), OrderId)

MaybeOrder == Order \cup {None}

LEMMA OrderIdsAreFinite == IsFiniteSet(OrderId)
  BY FS_Interval, BookAssumption DEF OrderId

LEMMA OrderFields ==
  ASSUME NEW o \in Order
  PROVE  /\ o.account \in Account /\ o.side \in Side /\ o.price \in Price
         /\ o.price \in Nat \ {0} /\ o.remaining \in Nat /\ o.qty \in Qty /\ o.qty \in Nat
         /\ o # None /\ Notional(o) \in Nat
  <1>1. /\ o.account \in Account /\ o.side \in Side /\ o.price \in Price
        /\ o.remaining \in Nat /\ o.qty \in Qty /\ o # None
    BY OrderIsNotNone DEF Order
  <1>2. o.price \in Nat \ {0} /\ o.qty \in Nat
    BY <1>1, BookAssumption
  <1>3. \A p, r \in Nat : p * r \in Nat
    OBVIOUS
  <1>4. Notional(o) \in Nat
    BY <1>1, <1>2, <1>3 DEF Notional
  <1>5. QED
    BY <1>1, <1>2, <1>4

LEMMA WeightsAreNaturals ==
  ASSUME NEW o \in MaybeOrder, NEW g, NEW how
  PROVE  WeightOf(o, g, how) \in Nat
  BY OrderFields DEF WeightOf, Worth, MaybeOrder

LEMMA WeightFacts ==
  ASSUME NEW v \in [OrderId -> MaybeOrder], NEW g, NEW how
  PROVE  /\ Weight(v, g, how) \in Nat
         /\ \A id \in OrderId : WeightOf(v[id], g, how) <= Weight(v, g, how)
  <1> DEFINE f == Weights(v, g, how)
  <1>1. \A id \in OrderId : f[id] = WeightOf(v[id], g, how) /\ f[id] \in Nat
    BY WeightsAreNaturals DEF Weights
  <1> HIDE DEF f
  <1>2. /\ SumFunctionOnSet(f, OrderId) \in Nat
        /\ \A id \in OrderId : f[id] <= SumFunctionOnSet(f, OrderId)
    BY <1>1, OrderIdsAreFinite, SumOfNaturals
  <1>3. QED
    BY <1>1, <1>2 DEF f, Weight

Put(v, x, o) == [v EXCEPT ![x] = o]

LEMMA PutFacts ==
  ASSUME NEW v \in [OrderId -> MaybeOrder], NEW x \in OrderId, NEW o \in MaybeOrder
  PROVE  /\ Put(v, x, o) \in [OrderId -> MaybeOrder]
         /\ Put(v, x, o)[x] = o
         /\ \A y \in OrderId \ {x} : Put(v, x, o)[y] = v[y]
  BY DEF Put

(* When one order changes, a group's weight changes by that order's.       *)
LEMMA WeightChange ==
  ASSUME NEW v \in [OrderId -> MaybeOrder], NEW x \in OrderId, NEW o \in MaybeOrder,
         NEW g, NEW how
  PROVE  Weight(Put(v, x, o), g, how)
           = (Weight(v, g, how) - WeightOf(v[x], g, how)) + WeightOf(o, g, how)
  <1> DEFINE w == Put(v, x, o)
             f == Weights(v, g, how)
             h == Weights(w, g, how)
  <1>1. w \in [OrderId -> MaybeOrder] /\ w[x] = o /\ \A y \in OrderId \ {x} : w[y] = v[y]
    BY PutFacts
  <1> HIDE DEF w
  <1>2. \A y \in OrderId : /\ f[y] = WeightOf(v[y], g, how) /\ f[y] \in Int
                           /\ h[y] = WeightOf(w[y], g, how) /\ h[y] \in Int
    BY <1>1, WeightsAreNaturals DEF Weights
  <1>3. \A y \in OrderId \ {x} : h[y] = f[y]
    BY <1>1, <1>2
  <1> HIDE DEF f, h
  <1>4. SumFunctionOnSet(h, OrderId) = (SumFunctionOnSet(f, OrderId) - f[x]) + h[x]
    BY <1>2, <1>3, OrderIdsAreFinite, SumChange
  <1>5. f[x] = WeightOf(v[x], g, how) /\ h[x] = WeightOf(o, g, how)
    BY <1>1, <1>2
  <1>6. QED
    BY <1>4, <1>5 DEF f, h, w, Weight

LEMMA NothingWeighsNothing ==
  ASSUME NEW v, \A id \in OrderId : v[id] = None, NEW g, NEW how
  PROVE  Weight(v, g, how) = 0
  <1> DEFINE f == Weights(v, g, how)
  <1>1. \A id \in OrderId : f[id] = 0
    BY DEF Weights, WeightOf
  <1> HIDE DEF f
  <1>2. SumFunctionOnSet(f, {}) = SumFunctionOnSet(f, OrderId)
    BY <1>1, OrderIdsAreFinite, SumOnPart
  <1>3. QED
    BY <1>2, SumOfNothing DEF f, Weight

-----------------------------------------------------------------------------
(* A level's queue.                                                        *)
Entries(queue) == {queue[i] : i \in DOMAIN queue}
Rising(queue) == \A i, j \in DOMAIN queue : i < j => queue[i] < queue[j]

LEMMA EmptyQueue == Entries(<<>>) = {} /\ Rising(<<>>)
  BY DEF Entries, Rising

LEMMA QueueAppend ==
  ASSUME NEW queue \in Seq(OrderId), NEW id \in OrderId, Rising(queue),
         \A e \in Entries(queue) : e < id
  PROVE  /\ Append(queue, id) \in Seq(OrderId)
         /\ Entries(Append(queue, id)) = Entries(queue) \cup {id}
         /\ Rising(Append(queue, id))
  <1> DEFINE more == Append(queue, id)
  <1>1. /\ more \in Seq(OrderId) /\ Len(more) = Len(queue) + 1
        /\ \A i \in 1 .. Len(queue) : more[i] = queue[i]
        /\ more[Len(queue) + 1] = id
    BY AppendProperties
  <1>2. /\ DOMAIN queue = 1 .. Len(queue) /\ Len(queue) \in Nat
        /\ DOMAIN more = 1 .. Len(queue) + 1
    BY <1>1, LenProperties
  <1> HIDE DEF more
  <1>3. Entries(more) = Entries(queue) \cup {id}
    BY <1>1, <1>2 DEF Entries
  <1>4. Rising(more)
    <2>1. SUFFICES ASSUME NEW i \in DOMAIN more, NEW j \in DOMAIN more, i < j
                   PROVE  more[i] < more[j]
      BY DEF Rising
    <2>2. i \in DOMAIN queue /\ more[i] = queue[i]
      BY <1>1, <1>2, <2>1
    <2>3. CASE j = Len(queue) + 1
      BY <1>1, <2>2, <2>3 DEF Entries
    <2>4. CASE j # Len(queue) + 1
      BY <1>1, <1>2, <2>1, <2>2, <2>4 DEF Rising
    <2>5. QED
      BY <2>3, <2>4
  <1>5. QED
    BY <1>1, <1>3, <1>4 DEF more

LEMMA QueueTail ==
  ASSUME NEW queue \in Seq(OrderId), queue # <<>>, Rising(queue)
  PROVE  /\ Head(queue) \in Entries(queue) /\ Tail(queue) \in Seq(OrderId)
         /\ Entries(Tail(queue)) = Entries(queue) \ {Head(queue)}
         /\ Rising(Tail(queue))
         /\ \A e \in Entries(queue) : Head(queue) <= e
  <1> DEFINE rest == Tail(queue)
             first == Head(queue)
  <1>1. /\ rest \in Seq(OrderId) /\ Len(rest) = Len(queue) - 1
        /\ \A i \in 1 .. Len(rest) : rest[i] = queue[i + 1]
        /\ first = queue[1]
    BY HeadTailProperties
  <1>2. /\ DOMAIN queue = 1 .. Len(queue) /\ Len(queue) \in Nat \ {0}
        /\ DOMAIN rest = 1 .. Len(queue) - 1
    BY <1>1, LenProperties, EmptySeq
  <1> HIDE DEF rest, first
  <1>3. \A i \in DOMAIN queue : queue[i] \in OrderId /\ queue[i] \in Nat
    BY OrderIdsAreInts, ElementOfSeq, <1>2
  <1>4. \A i \in DOMAIN queue : i # 1 => queue[i] > first
    BY <1>1, <1>2, <1>3 DEF Rising
  <1>5. first \in Entries(queue)
    BY <1>1, <1>2 DEF Entries
  <1>6. \A e \in Entries(queue) : first <= e
    BY <1>1, <1>2, <1>3, <1>4 DEF Entries
  <1>7. \A i \in DOMAIN rest : i + 1 \in DOMAIN queue /\ i + 1 # 1 /\ rest[i] = queue[i + 1]
    BY <1>1, <1>2
  <1>8. \A i \in DOMAIN queue : i # 1 => i - 1 \in DOMAIN rest /\ rest[i - 1] = queue[i]
    BY <1>1, <1>2
  <1>9. Entries(rest) = Entries(queue) \ {first}
    <2>1. ASSUME NEW i \in DOMAIN rest PROVE rest[i] \in Entries(queue) \ {first}
      <3>1. PICK k : k = i + 1
        OBVIOUS
      <3>2. k \in DOMAIN queue /\ k # 1 /\ rest[i] = queue[k]
        BY <1>7, <3>1
      <3>3. queue[k] > first /\ queue[k] \in Nat /\ first \in Nat
        BY <1>1, <1>2, <1>3, <1>4, <3>2
      <3>4. QED
        BY <3>2, <3>3 DEF Entries
    <2>2. ASSUME NEW e \in Entries(queue) \ {first} PROVE e \in Entries(rest)
      <3>1. PICK i \in DOMAIN queue : e = queue[i]
        BY <2>2 DEF Entries
      <3>2. i # 1
        BY <1>1, <2>2, <3>1
      <3>3. QED
        BY <1>8, <3>1, <3>2 DEF Entries
    <2>3. QED
      BY <2>1, <2>2 DEF Entries
  <1>10. Rising(rest)
    <2>1. SUFFICES ASSUME NEW i \in DOMAIN rest, NEW j \in DOMAIN rest, i < j
                   PROVE  rest[i] < rest[j]
      BY DEF Rising
    <2>2. PICK k, l : k = i + 1 /\ l = j + 1
      OBVIOUS
    <2>3. k \in DOMAIN queue /\ l \in DOMAIN queue /\ rest[i] = queue[k] /\ rest[j] = queue[l]
      BY <1>7, <2>2
    <2>4. k < l
      BY <1>2, <2>1, <2>2
    <2>5. QED
      BY <2>3, <2>4 DEF Rising
  <1>11. QED
    BY <1>1, <1>5, <1>6, <1>9, <1>10 DEF rest, first

-----------------------------------------------------------------------------
(* A level counts the living orders of its side and price, and they are in *)
(* its queue in the order of their ids.                                    *)
LevelGroup(s, p) == [sides |-> {s}, prices |-> {p}, accounts |-> Account]
At(o, s, p) == o # None /\ o.side = s /\ o.price = p
SomethingLeft(v) == \A id \in OrderId : v[id] # None => v[id].remaining > 0

LevelCounts(v, lv, s, p) ==
  /\ lv.live = Weight(v, LevelGroup(s, p), "count")
  /\ lv.total = Weight(v, LevelGroup(s, p), "lots")
  /\ Rising(lv.queue)
  /\ \A id \in Entries(lv.queue) : v[id] # None => At(v[id], s, p)
  /\ \A id \in OrderId : At(v[id], s, p) => id \in Entries(lv.queue)

LevelRight(v, held, lv, s, p) ==
  /\ LevelCounts(v, lv, s, p)
  /\ held <=> lv.total > 0
  /\ ~held => lv = EmptyLevel

LEMMA WeightOfAtLevel ==
  ASSUME NEW o \in MaybeOrder, NEW s, NEW p
  PROVE  /\ WeightOf(o, LevelGroup(s, p), "count") = IF At(o, s, p) THEN 1 ELSE 0
         /\ WeightOf(o, LevelGroup(s, p), "lots") = IF At(o, s, p) THEN o.remaining ELSE 0
  BY OrderFields DEF MaybeOrder, WeightOf, LevelGroup, Belongs, Worth, At

(* A level without lots is one without orders.                             *)
LEMMA NoLotsNoOrders ==
  ASSUME NEW v \in [OrderId -> MaybeOrder], SomethingLeft(v), NEW s, NEW p,
         Weight(v, LevelGroup(s, p), "lots") = 0
  PROVE  /\ \A id \in OrderId : ~At(v[id], s, p)
         /\ Weight(v, LevelGroup(s, p), "count") = 0
  <1>1. ASSUME NEW id \in OrderId PROVE ~At(v[id], s, p)
    <2>1. PICK o : o = v[id] /\ o \in MaybeOrder
      OBVIOUS
    <2>2. WeightOf(o, LevelGroup(s, p), "lots") <= 0
      BY <2>1, WeightFacts
    <2>3. o # None => o.remaining \in Nat /\ o.remaining > 0
      BY <2>1, OrderFields DEF SomethingLeft, MaybeOrder
    <2>4. WeightOf(o, LevelGroup(s, p), "lots") = IF At(o, s, p) THEN o.remaining ELSE 0
      BY <2>1, WeightOfAtLevel
    <2>5. QED
      BY <2>1, <2>2, <2>3, <2>4 DEF At
  <1> DEFINE f == Weights(v, LevelGroup(s, p), "count")
  <1>2. \A id \in OrderId : f[id] = 0
    BY <1>1, WeightOfAtLevel DEF Weights
  <1> HIDE DEF f
  <1>3. SumFunctionOnSet(f, {}) = SumFunctionOnSet(f, OrderId)
    BY <1>2, OrderIdsAreFinite, SumOnPart
  <1>4. QED
    BY <1>1, <1>3, SumOfNothing DEF f, Weight

(* A level that is put back when it has lots, and removed when it has none.*)
LEMMA LevelPut ==
  ASSUME NEW v \in [OrderId -> MaybeOrder], SomethingLeft(v), NEW s, NEW p, NEW lv,
         LevelCounts(v, lv, s, p)
  PROVE  /\ lv.total \in Nat
         /\ lv.total = 0 => LevelRight(v, FALSE, EmptyLevel, s, p)
         /\ lv.total # 0 => LevelRight(v, TRUE, lv, s, p)
  <1>1. lv.total \in Nat
    BY WeightFacts DEF LevelCounts
  <1>2. CASE lv.total = 0
    BY <1>1, <1>2, NoLotsNoOrders, EmptyQueue DEF LevelCounts, EmptyLevel, LevelRight
  <1>3. CASE lv.total # 0
    BY <1>1, <1>3 DEF LevelRight
  <1>4. QED
    BY <1>1, <1>2, <1>3

(* An order of another level changes, comes or goes.                       *)
LEMMA LevelElsewhere ==
  ASSUME NEW v \in [OrderId -> MaybeOrder], NEW x \in OrderId, NEW o \in MaybeOrder,
         NEW s, NEW p, NEW held, NEW lv, LevelRight(v, held, lv, s, p),
         Entries(lv.queue) \subseteq OrderId,
         ~At(v[x], s, p), ~At(o, s, p), o = None \/ x \notin Entries(lv.queue)
  PROVE  LevelRight(Put(v, x, o), held, lv, s, p)
  <1> DEFINE w == Put(v, x, o)
             g == LevelGroup(s, p)
  <1>1. /\ WeightOf(v[x], g, "count") = 0 /\ WeightOf(o, g, "count") = 0
        /\ WeightOf(v[x], g, "lots") = 0 /\ WeightOf(o, g, "lots") = 0
    BY WeightOfAtLevel
  <1>2. Weight(v, g, "count") \in Nat /\ Weight(v, g, "lots") \in Nat
    BY WeightFacts
  <1>3. \A how : Weight(w, g, how) = (Weight(v, g, how) - WeightOf(v[x], g, how))
                                       + WeightOf(o, g, how)
    BY WeightChange
  <1>4. /\ w[x] = o /\ \A y \in OrderId \ {x} : w[y] = v[y]
        /\ Entries(lv.queue) \subseteq OrderId
    BY PutFacts
  <1> HIDE DEF w, g
  <1>5. Weight(w, g, "count") = Weight(v, g, "count")
    BY <1>1, <1>2, <1>3
  <1>6. Weight(w, g, "lots") = Weight(v, g, "lots")
    BY <1>1, <1>2, <1>3
  <1>7. QED
    BY <1>4, <1>5, <1>6 DEF LevelRight, LevelCounts, w, g

-----------------------------------------------------------------------------
(* The levels are exact: between any two steps, and against every order    *)
(* that lives.                                                             *)
NextArrival == IF pc = "match" THEN nextOrder ELSE nextOrder + 1

QueuesBehind == \A s \in Side, p \in Price : \A e \in Entries(level[s][p].queue) : e < NextArrival

LevelsExact ==
  /\ SomethingLeft(Alive)
  /\ \A s \in Side, p \in Price : LevelRight(Alive, p \in keys[s], level[s][p], s, p)
  /\ QueuesBehind

LEMMA LevelTypes ==
  ASSUME TypeOK, NEW s \in Side, NEW p \in Price
  PROVE  /\ level[s][p] \in Level /\ level[s][p].queue \in Seq(OrderId)
         /\ Entries(level[s][p].queue) \subseteq OrderId
         /\ level[s][p].total \in Int /\ level[s][p].live \in Int
  BY ElementOfSeq, LenProperties DEF TypeOK, Level, Entries

(* Where a living order rests, and only there.                             *)
LEMMA RestsAtItsLevel ==
  ASSUME TypeInv, LevelsExact, NEW id \in LiveIds
  PROVE  LET s == orders[id].side
             p == orders[id].price
         IN /\ s \in Side /\ p \in Price /\ p \in keys[s]
            /\ At(Alive[id], s, p) /\ Alive[id] = orders[id] /\ id \in OrderId
            /\ orders[id].remaining > 0
            /\ id \in Entries(level[s][p].queue)
            /\ \A t \in Side, r \in Price : id \in Entries(level[t][r].queue) => t = s /\ r = p
  <1> DEFINE s == orders[id].side
             p == orders[id].price
  <1>1. /\ id \in OrderId /\ Alive[id] = orders[id] /\ Alive[id] # None
        /\ Alive[id] \in Order /\ Alive \in [OrderId -> MaybeOrder]
    BY AliveFacts, LiveOrders DEF TypeInv, MaybeOrder
  <1>2. s \in Side /\ p \in Price /\ At(Alive[id], s, p) /\ Alive[id].remaining > 0
    BY <1>1, OrderFields DEF At, LevelsExact, SomethingLeft
  <1> HIDE DEF s, p
  <1>3. LevelRight(Alive, p \in keys[s], level[s][p], s, p)
    BY <1>2 DEF LevelsExact
  <1>4. id \in Entries(level[s][p].queue)
    BY <1>1, <1>2, <1>3 DEF LevelRight, LevelCounts
  <1>5. p \in keys[s]
    BY <1>3, <1>4, EmptyQueue DEF EmptyLevel, LevelRight
  <1>6. ASSUME NEW t \in Side, NEW r \in Price, id \in Entries(level[t][r].queue)
        PROVE  t = s /\ r = p
    BY <1>1, <1>2, <1>6 DEF LevelsExact, LevelRight, LevelCounts, At
  <1>7. QED
    BY <1>1, <1>2, <1>4, <1>5, <1>6 DEF s, p

(* One level changes with the one order that rests there, came or went.    *)
LEMMA OneLevelChanges ==
  ASSUME TypeInv, LevelsExact, NEW x \in OrderId, NEW o \in MaybeOrder,
         NEW s \in Side, NEW p \in Price, NEW held \in BOOLEAN,
         Alive' = Put(Alive, x, o),
         Alive[x] = None \/ At(Alive[x], s, p),
         o # None => At(o, s, p) /\ o.remaining > 0,
         o # None /\ Alive[x] = None => ~(x < NextArrival),
         \A t \in Side, r \in Price : t # s \/ r # p =>
           level'[t][r] = level[t][r] /\ (r \in keys'[t] <=> r \in keys[t]),
         p \in keys'[s] <=> held,
         LevelRight(Put(Alive, x, o), held, level'[s][p], s, p),
         \A e \in Entries(level'[s][p].queue) : e < NextArrival',
         nextOrder \in Nat, NextArrival' \in {NextArrival, NextArrival + 1}
  PROVE  LevelsExact'
  <1>1. Alive \in [OrderId -> MaybeOrder]
    BY AliveFacts DEF TypeInv, MaybeOrder
  <1>2. SomethingLeft(Put(Alive, x, o))
    <2>1. SomethingLeft(Alive)
      BY DEF LevelsExact
    <2>2. /\ Put(Alive, x, o)[x] = o
          /\ \A y \in OrderId \ {x} : Put(Alive, x, o)[y] = Alive[y]
      BY <1>1, PutFacts
    <2>3. QED
      BY <2>1, <2>2 DEF SomethingLeft
  <1>3. ASSUME NEW t \in Side, NEW r \in Price
        PROVE  LevelRight(Put(Alive, x, o), r \in keys'[t], level'[t][r], t, r)
    <2>1. CASE t = s /\ r = p
      BY <2>1
    <2>2. CASE t # s \/ r # p
      <3>1. level'[t][r] = level[t][r] /\ (r \in keys'[t]) = (r \in keys[t])
        BY <2>2
      <3>2. LevelRight(Alive, r \in keys[t], level[t][r], t, r)
        BY DEF LevelsExact
      <3>3. ~At(Alive[x], t, r) /\ ~At(o, t, r)
        BY <2>2 DEF At
      <3>4. o = None \/ x \notin Entries(level[t][r].queue)
        BY <3>2, <3>3 DEF LevelsExact, QueuesBehind, LevelRight, LevelCounts
      <3>5. Entries(level[t][r].queue) \subseteq OrderId
        BY LevelTypes DEF TypeInv
      <3>6. LevelRight(Put(Alive, x, o), r \in keys[t], level[t][r], t, r)
        BY <1>1, <3>2, <3>3, <3>4, <3>5, LevelElsewhere
      <3>7. QED
        BY <3>1, <3>6
    <2>3. QED
      BY <2>1, <2>2
  <1>4. QueuesBehind'
    <2>1. NextArrival \in Nat
      BY DEF NextArrival
    <2>2. ASSUME NEW t \in Side, NEW r \in Price, NEW e \in Entries(level'[t][r].queue)
          PROVE  e < NextArrival'
      <3>1. CASE t = s /\ r = p
        BY <2>2, <3>1
      <3>2. CASE t # s \/ r # p
        <4>1. e \in Entries(level[t][r].queue)
          BY <2>2, <3>2
        <4>2. e < NextArrival /\ e \in Nat
          BY <4>1, LevelTypes, OrderIdsAreInts DEF LevelsExact, QueuesBehind, TypeInv
        <4>3. QED
          BY <2>1, <4>2
      <3>3. QED
        BY <3>1, <3>2
    <2>3. QED
      BY <2>2 DEF QueuesBehind, Entries
  <1>5. SomethingLeft(Alive)' /\ \A t \in Side, r \in Price :
            LevelRight(Alive, r \in keys[t], level[t][r], t, r)'
    BY <1>2, <1>3
  <1>6. QED
    BY <1>4, <1>5 DEF LevelsExact

(* Putting a level back, as PutLevel does.                                 *)
LEMMA PutLevelChanges ==
  ASSUME TypeOK, NEW s \in Side, NEW p \in Price, NEW lv \in Level, PutLevel(s, p, lv),
         p \in keys[s], lv.total \in Nat
  PROVE  /\ \A t \in Side, r \in Price : t # s \/ r # p =>
              level'[t][r] = level[t][r] /\ (r \in keys'[t] <=> r \in keys[t])
         /\ p \in keys'[s] <=> lv.total # 0
         /\ level'[s][p] = IF lv.total = 0 THEN EmptyLevel ELSE lv
  <1>1. level \in [Side -> [Price -> Level]] /\ keys \in [Side -> SUBSET Price]
    BY DEF TypeOK
  <1>2. CASE lv.total = 0
    BY <1>1, <1>2 DEF PutLevel, RemoveLevel
  <1>3. CASE lv.total # 0
    BY <1>1, <1>3 DEF PutLevel
  <1>4. QED
    BY <1>2, <1>3

LEMMA PutLevelIsExact ==
  ASSUME TypeInv, LevelsExact, NEW x \in OrderId, NEW o \in MaybeOrder,
         NEW s \in Side, NEW p \in Price, NEW lv \in Level,
         PutLevel(s, p, lv), p \in keys[s],
         Alive' = Put(Alive, x, o), At(Alive[x], s, p),
         o # None => At(o, s, p) /\ o.remaining > 0,
         LevelCounts(Put(Alive, x, o), lv, s, p),
         Entries(lv.queue) \subseteq Entries(level[s][p].queue),
         nextOrder \in Nat, NextArrival' = NextArrival
  PROVE  LevelsExact'
  <1>1. Alive \in [OrderId -> MaybeOrder] /\ TypeOK /\ SomethingLeft(Alive)
    BY AliveFacts DEF TypeInv, MaybeOrder, LevelsExact
  <1>2. Put(Alive, x, o) \in [OrderId -> MaybeOrder] /\ SomethingLeft(Put(Alive, x, o))
    <2>1. /\ Put(Alive, x, o)[x] = o /\ Put(Alive, x, o) \in [OrderId -> MaybeOrder]
          /\ \A y \in OrderId \ {x} : Put(Alive, x, o)[y] = Alive[y]
      BY <1>1, PutFacts
    <2>2. QED
      BY <1>1, <2>1 DEF SomethingLeft
  <1>3. /\ lv.total \in Nat
        /\ lv.total = 0 => LevelRight(Put(Alive, x, o), FALSE, EmptyLevel, s, p)
        /\ lv.total # 0 => LevelRight(Put(Alive, x, o), TRUE, lv, s, p)
    BY <1>2, LevelPut
  <1>4. /\ \A t \in Side, r \in Price : t # s \/ r # p =>
             level'[t][r] = level[t][r] /\ (r \in keys'[t] <=> r \in keys[t])
        /\ p \in keys'[s] <=> lv.total # 0
        /\ level'[s][p] = IF lv.total = 0 THEN EmptyLevel ELSE lv
    BY <1>1, <1>3, PutLevelChanges
  <1>5. \A e \in Entries(level'[s][p].queue) : e < NextArrival'
    BY <1>4, EmptyQueue DEF LevelsExact, QueuesBehind, EmptyLevel
  <1>6. Alive[x] # None
    BY DEF At
  <1>7. PICK held \in BOOLEAN : held = (lv.total # 0)
    OBVIOUS
  <1>8. /\ p \in keys'[s] <=> held
        /\ LevelRight(Put(Alive, x, o), held, level'[s][p], s, p)
    <2>1. CASE lv.total = 0
      BY <1>3, <1>4, <1>7, <2>1
    <2>2. CASE lv.total # 0
      BY <1>3, <1>4, <1>7, <2>2
    <2>3. QED
      BY <2>1, <2>2
  <1>9. QED
    BY <1>4, <1>5, <1>6, <1>8, OneLevelChanges

LeftOf(o) == IF o = None THEN 0 ELSE o.remaining
CountOf(o) == IF o = None THEN 0 ELSE 1

(* The order at a level changes, comes or goes, and so do the numbers.     *)
LEMMA LevelFollows ==
  ASSUME NEW v \in [OrderId -> MaybeOrder], NEW x \in OrderId, NEW o \in MaybeOrder,
         NEW s, NEW p, NEW lv, NEW lw,
         LevelCounts(v, lv, s, p), Entries(lv.queue) \subseteq OrderId,
         v[x] = None \/ At(v[x], s, p), o = None \/ At(o, s, p),
         lw.live = (lv.live - CountOf(v[x])) + CountOf(o),
         lw.total = (lv.total - LeftOf(v[x])) + LeftOf(o),
         Rising(lw.queue),
         Entries(lv.queue) \subseteq Entries(lw.queue) \cup {x},
         Entries(lw.queue) \subseteq Entries(lv.queue) \cup {x},
         o # None => x \in Entries(lw.queue)
  PROVE  LevelCounts(Put(v, x, o), lw, s, p)
  <1> DEFINE w == Put(v, x, o)
             g == LevelGroup(s, p)
  <1>1. /\ WeightOf(v[x], g, "count") = CountOf(v[x]) /\ WeightOf(o, g, "count") = CountOf(o)
        /\ WeightOf(v[x], g, "lots") = LeftOf(v[x]) /\ WeightOf(o, g, "lots") = LeftOf(o)
    BY WeightOfAtLevel DEF LeftOf, CountOf, At
  <1>2. /\ lv.live = Weight(v, g, "count")
        /\ lv.total = Weight(v, g, "lots")
        /\ \A id \in Entries(lv.queue) : v[id] # None => At(v[id], s, p)
        /\ \A id \in OrderId : At(v[id], s, p) => id \in Entries(lv.queue)
    BY DEF LevelCounts
  <1>3. \A how : Weight(w, g, how) = (Weight(v, g, how) - WeightOf(v[x], g, how))
                                       + WeightOf(o, g, how)
    BY WeightChange
  <1>4. /\ w[x] = o /\ \A y \in OrderId \ {x} : w[y] = v[y]
    BY PutFacts
  <1> HIDE DEF w, g
  <1>5. lw.live = Weight(w, g, "count")
    BY <1>1, <1>2, <1>3
  <1>6. lw.total = Weight(w, g, "lots")
    BY <1>1, <1>2, <1>3
  <1>7. ASSUME NEW id \in Entries(lw.queue), w[id] # None
        PROVE  At(w[id], s, p)
    <2>1. CASE id = x
      BY <1>4, <1>7, <2>1
    <2>2. CASE id # x
      BY <1>2, <1>4, <1>7, <2>2
    <2>3. QED
      BY <2>1, <2>2
  <1>8. ASSUME NEW id \in OrderId, At(w[id], s, p)
        PROVE  id \in Entries(lw.queue)
    BY <1>2, <1>4, <1>8 DEF At
  <1>9. QED
    BY <1>5, <1>6, <1>7, <1>8 DEF LevelCounts, w, g

(* A fill at the head of a queue.                                          *)
LEMMA LevelAfterFillCounts ==
  ASSUME NEW v \in [OrderId -> MaybeOrder], NEW s, NEW p, NEW lv \in Level,
         LevelCounts(v, lv, s, p), lv.queue # <<>>,
         NEW x, x = Head(lv.queue), At(v[x], s, p),
         NEW q \in Nat, NEW o \in MaybeOrder,
         o = None \/ At(o, s, p),
         LeftOf(o) = v[x].remaining - q,
         NEW lw, lw.total = lv.total - q,
         lw.live = IF o = None THEN lv.live - 1 ELSE lv.live,
         lw.queue = IF o = None THEN Tail(lv.queue) ELSE lv.queue
  PROVE  /\ LevelCounts(Put(v, x, o), lw, s, p)
         /\ Entries(lw.queue) \subseteq Entries(lv.queue)
  <1>1. /\ lv.queue \in Seq(OrderId) /\ lv.total \in Int /\ lv.live \in Int
        /\ Rising(lv.queue)
    BY DEF Level, LevelCounts
  <1>2. /\ x \in Entries(lv.queue) /\ Entries(Tail(lv.queue)) = Entries(lv.queue) \ {x}
        /\ Rising(Tail(lv.queue)) /\ Entries(lv.queue) \subseteq OrderId
    <2>1. Entries(lv.queue) \subseteq OrderId
      BY <1>1, ElementOfSeq, LenProperties DEF Entries
    <2>2. QED
      BY <1>1, <2>1, QueueTail
  <1>3. v[x].remaining \in Nat /\ v[x] # None
    <2>1. PICK m : m = v[x] /\ m \in MaybeOrder
      BY <1>2
    <2>2. m # None
      BY <2>1 DEF At
    <2>3. QED
      BY <2>1, <2>2, OrderFields DEF MaybeOrder
  <1>5. /\ lw.live = (lv.live - CountOf(v[x])) + CountOf(o)
        /\ lw.total = (lv.total - LeftOf(v[x])) + LeftOf(o)
    <2>1. LeftOf(o) = v[x].remaining - q /\ LeftOf(v[x]) = v[x].remaining /\ CountOf(v[x]) = 1
      BY <1>3 DEF LeftOf, CountOf
    <2>2. QED
      BY <1>1, <1>3, <2>1 DEF CountOf
  <1>6. /\ Rising(lw.queue)
        /\ Entries(lv.queue) \subseteq Entries(lw.queue) \cup {x}
        /\ Entries(lw.queue) \subseteq Entries(lv.queue)
        /\ o # None => x \in Entries(lw.queue)
    BY <1>1, <1>2
  <1>7. LevelCounts(Put(v, x, o), lw, s, p)
    BY <1>2, <1>5, <1>6, LevelFollows
  <1>8. QED
    BY <1>6, <1>7

(* A cancel at a level, which leaves its entry in the queue.               *)
LEMMA TakeFromLevelCounts ==
  ASSUME NEW v \in [OrderId -> MaybeOrder], NEW x \in OrderId, NEW s, NEW p, NEW lv \in Level,
         LevelCounts(v, lv, s, p), At(v[x], s, p)
  PROVE  LET lw == TakeFromLevel(lv, v[x].remaining)
         IN /\ LevelCounts(Put(v, x, None), lw, s, p)
            /\ Entries(lw.queue) \subseteq Entries(lv.queue)
  <1> DEFINE lw == TakeFromLevel(lv, v[x].remaining)
  <1>1. /\ lv.queue \in Seq(OrderId) /\ lv.total \in Int /\ lv.live \in Int
        /\ Rising(lv.queue)
    BY DEF Level, LevelCounts
  <1>2. Entries(lv.queue) \subseteq OrderId
    BY <1>1, ElementOfSeq, LenProperties DEF Entries
  <1>3. v[x].remaining \in Nat /\ v[x] # None
    <2>1. PICK m : m = v[x] /\ m \in MaybeOrder
      OBVIOUS
    <2>2. m # None
      BY <2>1 DEF At
    <2>3. QED
      BY <2>1, <2>2, OrderFields DEF MaybeOrder
  <1>4. /\ lw.total = lv.total - v[x].remaining
        /\ lw.live = lv.live - 1 /\ lw.queue = lv.queue
    BY DEF TakeFromLevel, Level
  <1> HIDE DEF lw
  <1>5. /\ lw.live = (lv.live - CountOf(v[x])) + CountOf(None)
        /\ lw.total = (lv.total - LeftOf(v[x])) + LeftOf(None)
    BY <1>1, <1>3, <1>4 DEF LeftOf, CountOf
  <1>6. /\ Rising(lw.queue)
        /\ Entries(lv.queue) \subseteq Entries(lw.queue) \cup {x}
        /\ Entries(lw.queue) \subseteq Entries(lv.queue) \cup {x}
        /\ Entries(lw.queue) \subseteq Entries(lv.queue)
    BY <1>1, <1>4
  <1>7. None \in MaybeOrder
    BY DEF MaybeOrder
  <1>8. LevelCounts(Put(v, x, None), lw, s, p)
    BY <1>2, <1>5, <1>6, <1>7, LevelFollows
  <1>9. QED
    BY <1>6, <1>8 DEF lw

(* A remainder that rests, behind everyone.                                *)
LEMMA LevelWithCounts ==
  ASSUME NEW v \in [OrderId -> MaybeOrder], NEW x \in OrderId, NEW o \in Order,
         NEW s, NEW p, NEW lv \in Level,
         LevelCounts(v, lv, s, p), v[x] = None, At(o, s, p),
         \A e \in Entries(lv.queue) : e < x,
         NEW lw, lw = LevelWith(lv, x, o.remaining)
  PROVE  /\ LevelCounts(Put(v, x, o), lw, s, p)
         /\ Entries(lw.queue) = Entries(lv.queue) \cup {x}
  <1>1. /\ lv.queue \in Seq(OrderId) /\ lv.total \in Int /\ lv.live \in Int
        /\ Rising(lv.queue)
    BY DEF Level, LevelCounts
  <1>2. Entries(lv.queue) \subseteq OrderId
    BY <1>1, ElementOfSeq, LenProperties DEF Entries
  <1>3. o.remaining \in Nat /\ o # None /\ o \in MaybeOrder
    BY OrderFields DEF MaybeOrder
  <1>4. /\ lw.total = lv.total + o.remaining
        /\ lw.live = lv.live + 1 /\ lw.queue = Append(lv.queue, x)
    BY DEF LevelWith
  <1>5. Entries(lw.queue) = Entries(lv.queue) \cup {x} /\ Rising(lw.queue)
    BY <1>1, <1>4, QueueAppend
  <1>6. /\ lw.live = (lv.live - CountOf(v[x])) + CountOf(o)
        /\ lw.total = (lv.total - LeftOf(v[x])) + LeftOf(o)
    BY <1>1, <1>3, <1>4 DEF LeftOf, CountOf
  <1>7. LevelCounts(Put(v, x, o), lw, s, p)
    BY <1>2, <1>3, <1>5, <1>6, LevelFollows
  <1>8. QED
    BY <1>5, <1>7

LEMMA LastOrderIsNatural == ASSUME TypeOK PROVE nextOrder \in Nat /\ NextArrival \in Nat
  BY OrderIdsAreInts DEF TypeOK, NextArrival

(* Steps that leave the levels and the living orders as they are.          *)
LEMMA SameLevels ==
  ASSUME TypeOK, LevelsExact, Alive' = Alive, keys' = keys, level' = level,
         NextArrival' \in {NextArrival, NextArrival + 1}
  PROVE  LevelsExact'
  <1>1. SomethingLeft(Alive)' /\ \A s \in Side, p \in Price :
            LevelRight(Alive, p \in keys[s], level[s][p], s, p)'
    BY DEF LevelsExact
  <1>2. ASSUME NEW s \in Side, NEW p \in Price, NEW e \in Entries(level'[s][p].queue)
        PROVE  e < NextArrival'
    <2>1. e \in Entries(level[s][p].queue)
      BY <1>2
    <2>2. e < NextArrival /\ e \in Nat /\ NextArrival \in Nat
      BY <2>1, LevelTypes, OrderIdsAreInts, LastOrderIsNatural DEF LevelsExact, QueuesBehind
    <2>3. QED
      BY <2>2
  <1>3. QueuesBehind'
    BY <1>2 DEF QueuesBehind, Entries
  <1>4. QED
    BY <1>1, <1>3 DEF LevelsExact

LEMMA FillKeepsLevelsExact ==
  ASSUME TypeInv, LevelsExact, NEW px \in Price, Fill(px)
  PROVE  LevelsExact'
  <1> DEFINE opp == Opposite(cur.side)
             mid == FrontEntry(px)
             m == orders[mid]
             q == SmallerOf(cur.remaining, m.remaining)
             o == IF q = m.remaining THEN None
                  ELSE [m EXCEPT !.remaining = m.remaining - q, !.status = "partial"]
             lv == level[opp][px]
             lw == LevelAfterFill(lv, q, m.remaining = q)
  <1>1. /\ pc = "match" /\ opp \in Side /\ lv \in Level /\ lv.queue # <<>>
        /\ mid \in OrderId /\ mid \in LiveIds /\ m \in Order
        /\ m.remaining \in Nat /\ q \in Nat /\ q <= m.remaining
    BY FillContext
  <1>2. /\ PutLevel(opp, px, lw) /\ px \in keys[opp] /\ pc' = pc /\ nextOrder' = nextOrder
    BY DEF Fill, Matching, Best
  <1>3. Alive' = Put(Alive, mid, o)
    BY FillLeaves DEF Put
  <1>4. /\ Alive \in [OrderId -> MaybeOrder] /\ Alive[mid] = m /\ Alive[mid] # None
        /\ LevelCounts(Alive, lv, opp, px)
    BY <1>1, AliveFacts DEF LevelsExact, TypeInv, MaybeOrder, LevelRight
  <1>5. mid = Head(lv.queue)
    BY DEF FrontEntry
  <1>6. mid \in Entries(lv.queue) /\ At(m, opp, px)
    <2>1. lv.queue \in Seq(OrderId) /\ Rising(lv.queue)
      BY <1>1, <1>4 DEF Level, LevelCounts
    <2>2. mid \in Entries(lv.queue)
      BY <1>1, <1>5, <2>1, QueueTail
    <2>3. QED
      BY <1>4, <2>2 DEF LevelCounts
  <1>7. /\ o \in MaybeOrder
        /\ o # None => At(o, opp, px) /\ o.remaining > 0
        /\ LeftOf(o) = m.remaining - q /\ ((o = None) <=> (m.remaining = q))
    <2>1. CASE q = m.remaining
      BY <1>1, <2>1 DEF MaybeOrder, LeftOf
    <2>2. CASE q # m.remaining
      <3>1. o = [m EXCEPT !.remaining = m.remaining - q, !.status = "partial"]
        BY <2>2
      <3>2. m.remaining - q \in Nat /\ m.remaining - q > 0
        BY <1>1, <2>2
      <3> HIDE DEF q, m
      <3>3. PICK r : r = m.remaining - q
        OBVIOUS
      <3>4. o = [m EXCEPT !.remaining = r, !.status = "partial"] /\ r \in Nat /\ r > 0
        BY <3>1, <3>2, <3>3
      <3> HIDE DEF o
      <3>5. o \in Order /\ o.remaining = r /\ o.side = m.side /\ o.price = m.price
        BY <1>1, <3>4 DEF Order, Status
      <3>6. o # None
        BY <3>5, OrderIsNotNone
      <3>7. At(o, opp, px) /\ LeftOf(o) = r
        BY <1>6, <3>5, <3>6 DEF At, LeftOf
      <3>8. QED
        BY <2>2, <3>3, <3>4, <3>5, <3>6, <3>7 DEF MaybeOrder
    <2>3. QED
      BY <2>1, <2>2
  <1> HIDE DEF o, mid, m, q, opp
  <1>8. /\ LevelCounts(Put(Alive, mid, o), lw, opp, px)
        /\ Entries(lw.queue) \subseteq Entries(lv.queue)
    <2>1. At(Alive[mid], opp, px) /\ LeftOf(o) = Alive[mid].remaining - q
          /\ (o = None \/ At(o, opp, px)) /\ o \in MaybeOrder
      BY <1>4, <1>6, <1>7
    <2>2. /\ lw.total = lv.total - q
          /\ lw.live = IF o = None THEN lv.live - 1 ELSE lv.live
          /\ lw.queue = IF o = None THEN Tail(lv.queue) ELSE lv.queue
      BY <1>7 DEF LevelAfterFill
    <2> HIDE DEF lv, lw
    <2>3. /\ Alive \in [OrderId -> MaybeOrder] /\ lv \in Level
          /\ LevelCounts(Alive, lv, opp, px) /\ lv.queue # <<>>
          /\ mid = Head(lv.queue) /\ q \in Nat
      BY <1>1, <1>4, <1>5
    <2>4. QED
      BY <2>1, <2>2, <2>3, LevelAfterFillCounts, Zenon
  <1>9. lw \in Level
    BY <1>1, HeadTailProperties DEF Level, LevelAfterFill
  <1>10. nextOrder \in Nat /\ NextArrival' = NextArrival
    BY <1>2, LastOrderIsNatural DEF TypeInv, NextArrival
  <1>11. At(Alive[mid], opp, px) /\ (o # None => At(o, opp, px) /\ o.remaining > 0) /\ o \in MaybeOrder
    BY <1>4, <1>6, <1>7
  <1>12. Entries(lw.queue) \subseteq Entries(level[opp][px].queue)
    BY <1>8
  <1> HIDE DEF lv, lw
  <1>13. QED
    BY <1>1, <1>2, <1>3, <1>8, <1>9, <1>10, <1>11, <1>12, PutLevelIsExact

LEMMA CancelKeepsLevelsExact ==
  ASSUME TypeInv, LevelsExact, pc # "match", NEW id \in LiveIds, NEW now \in Time,
         CancelLive(id, now), pc' # "match"
  PROVE  LevelsExact'
  <1> DEFINE s == orders[id].side
             p == orders[id].price
             lv == level[s][p]
             lw == TakeFromLevel(lv, orders[id].remaining)
  <1>1. /\ s \in Side /\ p \in Price /\ p \in keys[s] /\ id \in OrderId
        /\ At(Alive[id], s, p) /\ Alive[id] = orders[id]
    BY RestsAtItsLevel
  <1>2. PutLevel(s, p, lw) /\ nextOrder' = nextOrder
    BY <1>1 DEF CancelLive
  <1>3. Alive' = Put(Alive, id, None)
    BY CancelLeaves DEF Put
  <1>4. /\ Alive \in [OrderId -> MaybeOrder] /\ lv \in Level
        /\ LevelCounts(Alive, lv, s, p)
    BY <1>1, AliveFacts, LevelTypes DEF LevelsExact, TypeInv, MaybeOrder, LevelRight
  <1>5. orders[id].remaining \in Nat
    BY LiveOrders, OrderFields DEF TypeInv
  <1>6. lw \in Level
    BY <1>4, <1>5, TakeFromLevelTypes
  <1>7. lw = TakeFromLevel(lv, Alive[id].remaining)
    BY <1>1
  <1> HIDE DEF lv, lw, s, p
  <1>8. /\ LevelCounts(Put(Alive, id, None), lw, s, p)
        /\ Entries(lw.queue) \subseteq Entries(lv.queue)
    BY <1>1, <1>4, <1>7, TakeFromLevelCounts
  <1>9. Entries(lw.queue) \subseteq Entries(level[s][p].queue)
    BY <1>8 DEF lv
  <1>10. nextOrder \in Nat /\ NextArrival' = NextArrival
    BY <1>2, LastOrderIsNatural DEF TypeInv, NextArrival
  <1>11. None \in MaybeOrder
    BY DEF MaybeOrder
  <1>12. QED
    BY <1>1, <1>2, <1>3, <1>6, <1>8, <1>9, <1>10, <1>11, PutLevelIsExact

(* Entering the book: the order a placement ends with, if it lives.        *)
LEMMA FinishFacts ==
  ASSUME TypeInv, FinishFilled \/ FinishResting \/ FinishCancelled
  PROVE  /\ pc = "match" /\ pc' = "idle" /\ nextOrder' = nextOrder
         /\ cur \in Order /\ nextOrder \in OrderId /\ Alive[nextOrder] = None
         /\ FinishFilled \/ FinishCancelled => Alive' = Alive
         /\ FinishResting =>
              Alive' = Put(Alive, nextOrder, [cur EXCEPT !.status = RestingStatus(cur)])
  <1>1. pc = "match" /\ pc' = "idle" /\ nextOrder' = nextOrder
    BY DEF FinishFilled, FinishResting, FinishCancelled, MatchingDone, Conclude
  <1>2. /\ cur \in Order /\ nextOrder \in OrderId /\ Alive[nextOrder] = None
        /\ Alive \in [OrderId -> Order \cup {None}]
    BY <1>1, MatchedOrder, AliveFacts DEF TypeInv, InProgress, LiveIds, InMemory
  <1>3. [Alive EXCEPT ![nextOrder] = None] = Alive
    BY <1>2
  <1>4. CASE FinishFilled
    <2> DEFINE o == [cur EXCEPT !.status = "filled"]
               extra == <<Closing(nextOrder, cur.at)>>
    <2>1. Conclude(o, extra)
      BY <1>4 DEF FinishFilled
    <2>2. o \in Order /\ ~Live(o)
      BY <1>2 DEF Order, Status, Live
    <2>3. extra \in Seq(ClosedOrder) /\ \A c \in Listed(extra) : c.id = nextOrder
      BY <1>1, OwnClosing
    <2> HIDE DEF o, extra
    <2>4. Alive' = [Alive EXCEPT ![nextOrder] = Living(o)]
      BY <1>1, <2>1, <2>2, <2>3, ConcludeLeaves
    <2>5. QED
      BY <1>1, <1>2, <1>3, <1>4, <2>2, <2>4 DEF Living, FinishFilled, FinishResting
  <1>5. CASE FinishCancelled
    <2> DEFINE o == [cur EXCEPT !.status = "cancelled", !.reason = Refusal]
               extra == <<Closing(nextOrder, cur.at)>>
    <2>1. Conclude(o, extra)
      BY <1>5 DEF FinishCancelled
    <2>2. o \in Order /\ ~Live(o)
      BY <1>1, <1>2, MatchedOrder DEF Refusal, Reason, Tif, Order, Status, Live
    <2>3. extra \in Seq(ClosedOrder) /\ \A c \in Listed(extra) : c.id = nextOrder
      BY <1>1, OwnClosing
    <2> HIDE DEF o, extra
    <2>4. Alive' = [Alive EXCEPT ![nextOrder] = Living(o)]
      BY <1>1, <2>1, <2>2, <2>3, ConcludeLeaves
    <2>5. ~FinishResting
      BY <1>5 DEF FinishCancelled, FinishResting
    <2>6. QED
      BY <1>1, <1>2, <1>3, <1>5, <2>2, <2>4, <2>5 DEF Living
  <1>6. CASE FinishResting
    <2> DEFINE o == [cur EXCEPT !.status = RestingStatus(cur)]
    <2>1. Conclude(o, <<>>)
      BY <1>6 DEF FinishResting
    <2>2. o \in Order /\ Live(o)
      BY <1>2 DEF Order, Status, Live, RestingStatus
    <2>3. <<>> \in Seq(ClosedOrder) /\ Listed(<<>>) = {}
      BY EmptySeq, ListedOneAndNone
    <2> HIDE DEF o
    <2>4. Alive' = [Alive EXCEPT ![nextOrder] = Living(o)]
      BY <1>1, <2>1, <2>2, <2>3, ConcludeLeaves
    <2>5. Alive' = Put(Alive, nextOrder, o)
      BY <2>2, <2>4 DEF Living, Put
    <2>6. ~FinishCancelled /\ ~FinishFilled
      BY <1>6, MatchedOrder, <1>1 DEF FinishCancelled, FinishResting, FinishFilled
    <2>7. QED
      BY <1>1, <1>2, <2>5, <2>6 DEF o
  <1>7. QED
    BY <1>4, <1>5, <1>6

LEMMA RestingKeepsLevelsExact ==
  ASSUME TypeInv, LevelsExact, FinishResting
  PROVE  LevelsExact'
  <1> DEFINE s == cur.side
             p == cur.price
             x == nextOrder
             o == [cur EXCEPT !.status = RestingStatus(cur)]
             lv == level[s][p]
             lw == LevelWith(lv, x, cur.remaining)
  <1>1. /\ pc = "match" /\ pc' = "idle" /\ nextOrder' = nextOrder
        /\ cur \in Order /\ x \in OrderId /\ Alive[x] = None /\ Alive' = Put(Alive, x, o)
    BY FinishFacts
  <1>2. /\ s \in Side /\ p \in Price /\ cur.remaining \in Nat /\ cur.remaining > 0
        /\ keys' = [keys EXCEPT ![s] = @ \cup {p}]
        /\ level' = [level EXCEPT ![s][p] = lw]
        /\ level \in [Side -> [Price -> Level]] /\ keys \in [Side -> SUBSET Price]
    BY <1>1, OrderFields DEF FinishResting, TypeInv, TypeOK
  <1>3. o \in Order /\ At(o, s, p) /\ o.remaining = cur.remaining /\ o \in MaybeOrder
    BY <1>1, OrderIsNotNone DEF Order, Status, RestingStatus, At, MaybeOrder
  <1>4. /\ \A t \in Side, r \in Price : t # s \/ r # p =>
             level'[t][r] = level[t][r] /\ (r \in keys'[t] <=> r \in keys[t])
        /\ p \in keys'[s] /\ level'[s][p] = lw
    BY <1>2
  <1>5. /\ Alive \in [OrderId -> MaybeOrder] /\ lv \in Level
        /\ LevelCounts(Alive, lv, s, p)
        /\ \A e \in Entries(lv.queue) : e < x
    BY <1>1, <1>2, AliveFacts, LevelTypes DEF LevelsExact, QueuesBehind, NextArrival, TypeInv,
       MaybeOrder, LevelRight
  <1>6. lw = LevelWith(lv, x, o.remaining)
    BY <1>3
  <1>7. nextOrder \in Nat /\ NextArrival' = nextOrder + 1 /\ NextArrival = nextOrder
    BY <1>1, LastOrderIsNatural DEF NextArrival, TypeInv
  <1> HIDE DEF s, p, o, lv, lw
  <1>9. LevelCounts(Put(Alive, x, o), lw, s, p) /\ Entries(lw.queue) = Entries(lv.queue) \cup {x}
    BY <1>1, <1>3, <1>5, <1>6, LevelWithCounts
  <1>10. Put(Alive, x, o) \in [OrderId -> MaybeOrder] /\ SomethingLeft(Put(Alive, x, o))
    <2>1. /\ Put(Alive, x, o)[x] = o /\ Put(Alive, x, o) \in [OrderId -> MaybeOrder]
          /\ \A y \in OrderId \ {x} : Put(Alive, x, o)[y] = Alive[y]
      BY <1>1, <1>3, <1>5, PutFacts
    <2>2. SomethingLeft(Alive)
      BY DEF LevelsExact
    <2> HIDE DEF x
    <2>3. QED
      BY <1>2, <1>3, <2>1, <2>2 DEF SomethingLeft
  <1>11. lw.total \in Nat /\ lw.total # 0
    <2>1. lv.total \in Nat
      BY <1>5, WeightFacts DEF LevelCounts
    <2>2. lw.total = lv.total + o.remaining
      BY <1>6 DEF LevelWith
    <2>3. QED
      BY <1>2, <1>3, <2>1, <2>2
  <1>12. LevelRight(Put(Alive, x, o), TRUE, lw, s, p)
    BY <1>9, <1>10, <1>11, LevelPut
  <1>13. \A e \in Entries(lw.queue) : e < NextArrival'
    <2>1. \A e \in Entries(lv.queue) : e < nextOrder /\ e \in Nat
      BY <1>2, <1>5, LevelTypes, OrderIdsAreInts DEF TypeInv, lv
    <2>2. QED
      BY <1>7, <1>9, <2>1
  <1>8. PICK held \in BOOLEAN : held
    OBVIOUS
  <1>14. /\ LevelRight(Put(Alive, x, o), held, level'[s][p], s, p)
         /\ \A e \in Entries(level'[s][p].queue) : e < NextArrival'
         /\ p \in keys'[s] <=> held
         /\ o.remaining > 0 /\ x = NextArrival
    <2>1. held = TRUE
      BY <1>8
    <2>2. QED
      BY <1>2, <1>3, <1>4, <1>7, <1>12, <1>13, <2>1
  <1>15. ~(x < NextArrival)
    BY <1>7
  <1> HIDE DEF x
  <1>16. /\ Alive' = Put(Alive, x, o) /\ Alive[x] = None
         /\ s \in Side /\ p \in Price /\ x \in OrderId /\ o \in MaybeOrder /\ At(o, s, p)
         /\ \A t \in Side, r \in Price : t # s \/ r # p =>
              level'[t][r] = level[t][r] /\ (r \in keys'[t] <=> r \in keys[t])
         /\ nextOrder \in Nat /\ NextArrival' \in {NextArrival, NextArrival + 1}
    BY <1>1, <1>2, <1>3, <1>4, <1>7
  <1>17. QED
    BY <1>14, <1>15, <1>16, OneLevelChanges

LEMMA DropStaleKeepsLevelsExact ==
  ASSUME TypeInv, LevelsExact, NEW px \in Price, DropStale(px)
  PROVE  LevelsExact'
  <1> DEFINE s == Opposite(cur.side)
             lv == level[s][px]
             lw == [lv EXCEPT !.queue = Tail(@)]
             x == Head(lv.queue)
  <1>1. /\ pc' = pc /\ nextOrder' = nextOrder /\ keys' = keys /\ orders' = orders
        /\ level' = [level EXCEPT ![s][px].queue = Tail(@)] /\ px \in keys[s]
        /\ lv.queue # <<>> /\ x \notin LiveIds
    BY DEF DropStale, Matching, Best, FrontEntry, indexVars
  <1>2. s \in Side
    BY DEF Opposite, Side
  <1>3. /\ lv \in Level /\ lv.queue \in Seq(OrderId) /\ Entries(lv.queue) \subseteq OrderId
        /\ level \in [Side -> [Price -> Level]]
    BY <1>2, LevelTypes DEF TypeInv, TypeOK
  <1>4. /\ \A t \in Side, r \in Price : t # s \/ r # px => level'[t][r] = level[t][r]
        /\ level'[s][px] = lw
    BY <1>1, <1>2, <1>3
  <1>5. lw.total = lv.total /\ lw.live = lv.live /\ lw.queue = Tail(lv.queue)
    BY <1>3 DEF Level
  <1>6. LevelRight(Alive, px \in keys[s], lv, s, px)
    BY <1>2 DEF LevelsExact
  <1> HIDE DEF s, lv, lw, x
  <1>7. /\ Entries(lw.queue) = Entries(lv.queue) \ {x} /\ Rising(lw.queue)
        /\ x \in OrderId
    BY <1>1, <1>3, <1>5, <1>6, QueueTail DEF LevelRight, LevelCounts, x
  <1>8. Alive' = Alive /\ Alive[x] = None
    BY <1>1, <1>7, AliveFacts DEF Alive, AliveOf, Live, TypeInv
  <1>9. LevelCounts(Alive, lw, s, px)
    BY <1>5, <1>6, <1>7, <1>8 DEF At, LevelRight, LevelCounts
  <1>10. LevelRight(Alive, px \in keys[s], lw, s, px)
    BY <1>1, <1>5, <1>6, <1>9 DEF LevelRight
  <1>11. SomethingLeft(Alive)' /\ \A t \in Side, r \in Price :
            LevelRight(Alive, r \in keys[t], level[t][r], t, r)'
    <2>1. SomethingLeft(Alive') /\ \A t \in Side, r \in Price :
            LevelRight(Alive', r \in keys'[t], level'[t][r], t, r)
      <3>1. ASSUME NEW t \in Side, NEW r \in Price
            PROVE  LevelRight(Alive, r \in keys[t], level'[t][r], t, r)
        <4>1. CASE t = s /\ r = px
          BY <1>4, <1>10, <4>1
        <4>2. CASE t # s \/ r # px
          BY <1>4, <4>2 DEF LevelsExact
        <4>3. QED
          BY <4>1, <4>2
      <3>2. QED
        BY <1>1, <1>8, <3>1 DEF LevelsExact
    <2>2. QED
      BY <2>1
  <1>12. QueuesBehind'
    <2>1. NextArrival' = NextArrival
      BY <1>1 DEF NextArrival
    <2>2. ASSUME NEW t \in Side, NEW r \in Price, NEW e \in Entries(level'[t][r].queue)
          PROVE  e < NextArrival'
      <3>1. e \in Entries(level[t][r].queue)
        BY <1>4, <1>7, <2>2 DEF lv
      <3>2. QED
        BY <2>1, <3>1 DEF LevelsExact, QueuesBehind
    <2>3. QED
      BY <2>2 DEF QueuesBehind, Entries
  <1>13. QED
    BY <1>11, <1>12 DEF LevelsExact

LEMMA StepKeepsLevelsExact == TypeInv /\ LevelsExact /\ [Next]_vars => LevelsExact'
  <1> SUFFICES ASSUME TypeInv, LevelsExact, [Next]_vars
               PROVE  LevelsExact'
    OBVIOUS
  <1>1. TypeOK /\ nextOrder \in Nat
    BY LastOrderIsNatural DEF TypeInv
  <1>2. ASSUME orders' = orders, keys' = keys, level' = level, nextOrder' = nextOrder,
               (pc' = "match") <=> (pc = "match")
        PROVE  LevelsExact'
    BY <1>1, <1>2, SameLevels DEF Alive, AliveOf, Live, NextArrival
  <1>3. ASSUME NEW a \in Account, NEW x \in Amount, NEW y \in Amount,
               Deposit(a, x, y) \/ Withdraw(a, x, y)
        PROVE  LevelsExact'
    BY <1>2, <1>3 DEF Deposit, Withdraw, MoveFunds, levelVars, indexVars
  <1>4. ASSUME NEW r \in Requests, NEW now \in Time, RejectOrder(r, now)
        PROVE  LevelsExact'
    BY <1>1, <1>4, RejectLeaves, SameLevels DEF RejectOrder, Intake, levelVars, NextArrival
  <1>5. ASSUME NEW r \in Requests, NEW now \in Time, AcceptOrder(r, now)
        PROVE  LevelsExact'
    BY <1>1, <1>5, SameLevels DEF AcceptOrder, Intake, levelVars, NextArrival, Alive, AliveOf,
       Live
  <1>6. ASSUME NEW a \in Account, NEW id \in OrderId, NEW now \in Time, Cancel(a, id, now)
        PROVE  LevelsExact'
    BY <1>6, CancelKeepsLevelsExact DEF Cancel
  <1>7. ASSUME NEW a \in Account, NEW id \in OrderId, NEW now \in Time,
               CancelRefused(a, id, now)
        PROVE  LevelsExact'
    BY <1>2, <1>7 DEF CancelRefused, levelVars, indexVars
  <1>8. ASSUME NEW a \in Account, NEW now \in Time, CancelAll(a, now)
        PROVE  LevelsExact'
    BY <1>2, <1>8 DEF CancelAll, levelVars, indexVars
  <1>9. ASSUME NEW px \in Price, DropStale(px) \/ StopAtOwn(px)
        PROVE  LevelsExact'
    BY <1>2, <1>9, DropStaleKeepsLevelsExact DEF StopAtOwn, levelVars, indexVars
  <1>10. ASSUME NEW px \in Price, Fill(px)
         PROVE  LevelsExact'
    BY <1>10, FillKeepsLevelsExact
  <1>11. CASE FinishFilled \/ FinishCancelled
    BY <1>1, <1>11, FinishFacts, SameLevels DEF FinishFilled, FinishCancelled, levelVars,
       NextArrival
  <1>12. CASE FinishResting
    BY <1>12, RestingKeepsLevelsExact
  <1>13. CASE CancelNext
    <2>1. PICK id \in doomed.ids : CancelLive(id, doomed.now)
      BY <1>13 DEF CancelNext
    <2>2. pc # "match" /\ id \in LiveIds /\ doomed.now \in Time /\ pc' # "match"
      BY <1>13 DEF CancelNext, TypeInv, InProgress
    <2>3. QED
      BY <2>1, <2>2, CancelKeepsLevelsExact
  <1>14. CASE UNCHANGED vars
    BY <1>2, <1>14 DEF vars, levelVars, indexVars
  <1>15. QED
    BY <1>3, <1>4, <1>5, <1>6, <1>7, <1>8, <1>9, <1>10, <1>11, <1>12, <1>13, <1>14
       DEF Next, Command, Work

LEMMA InitLevelsExact == Init => LevelsExact
  <1> SUFFICES ASSUME Init
               PROVE  LevelsExact
    OBVIOUS
  <1>1. /\ keys = [s \in Side |-> {}]
        /\ level = [s \in Side |-> [p \in Price |-> EmptyLevel]]
        /\ orders = [id \in OrderId |-> None]
    BY DEF Init
  <1>2. \A id \in OrderId : Alive[id] = None
    BY <1>1 DEF Alive, AliveOf
  <1>3. Alive \in [OrderId -> MaybeOrder]
    BY InitTypes, AliveFacts DEF TypeInv, MaybeOrder
  <1>4. EmptyLevel.total = 0 /\ EmptyLevel.live = 0 /\ EmptyLevel.queue = <<>>
    BY DEF EmptyLevel
  <1>5. ASSUME NEW s \in Side, NEW p \in Price
        PROVE  LevelRight(Alive, p \in keys[s], level[s][p], s, p)
    BY <1>1, <1>2, <1>4, NothingWeighsNothing, EmptyQueue DEF LevelCounts, At, LevelRight
  <1>6. QueuesBehind
    BY <1>1, <1>4, EmptyQueue DEF QueuesBehind
  <1>7. QED
    BY <1>2, <1>5, <1>6 DEF LevelsExact, SomethingLeft

-----------------------------------------------------------------------------
(* What exact levels and weights say of the queues, entry by entry.        *)
Resters(v, s, p) == {id \in OrderId : At(v[id], s, p)}

LEMMA RestersWeigh ==
  ASSUME NEW v \in [OrderId -> MaybeOrder], NEW s, NEW p
  PROVE  LET R == Resters(v, s, p)
             g == LevelGroup(s, p)
         IN /\ IsFiniteSet(R)
            /\ Cardinality(R) = Weight(v, g, "count")
            /\ \A f : (\A id \in R : f[id] = v[id].remaining)
                        => SumFunctionOnSet(f, R) = Weight(v, g, "lots")
  <1> DEFINE R == Resters(v, s, p)
             g == LevelGroup(s, p)
             one == [id \in R |-> 1]
             counts == Weights(v, g, "count")
             lots == Weights(v, g, "lots")
  <1>1. R \in SUBSET OrderId /\ IsFiniteSet(R)
    BY OrderIdsAreFinite, FS_Subset DEF Resters
  <1>2. \A id \in OrderId :
          /\ counts[id] = IF At(v[id], s, p) THEN 1 ELSE 0
          /\ lots[id] = IF At(v[id], s, p) THEN v[id].remaining ELSE 0
    BY WeightOfAtLevel DEF Weights
  <1>3. \A id \in R : v[id].remaining \in Int
    <2>1. ASSUME NEW id \in R PROVE v[id].remaining \in Int
      <3>1. PICK o : o = v[id] /\ o \in MaybeOrder
        BY <1>1
      <3>2. o # None
        BY <3>1 DEF Resters, At
      <3>3. o.remaining \in Nat
        BY <3>1, <3>2, OrderFields DEF MaybeOrder
      <3>4. QED
        BY <3>1, <3>3
    <2>2. QED
      BY <2>1
  <1>4. \A id \in R : one[id] = 1
    OBVIOUS
  <1>5. /\ \A id \in R : counts[id] = 1 /\ lots[id] = v[id].remaining
        /\ \A id \in OrderId \ R : counts[id] = 0 /\ lots[id] = 0
    BY <1>2 DEF Resters
  <1> HIDE DEF one, counts, lots, R, g
  <1>6. Cardinality(R) = SumFunctionOnSet(one, R)
    BY <1>1, <1>4, CountIsASum
  <1>7. SumFunctionOnSet(one, R) = SumFunctionOnSet(counts, OrderId)
    BY <1>1, <1>4, <1>5, OrderIdsAreFinite, SumOnPart
  <1>8. ASSUME NEW f, \A id \in R : f[id] = v[id].remaining
        PROVE  SumFunctionOnSet(f, R) = SumFunctionOnSet(lots, OrderId)
    BY <1>1, <1>3, <1>5, <1>8, OrderIdsAreFinite, SumOnPart
  <1>9. QED
    BY <1>1, <1>6, <1>7, <1>8 DEF R, g, counts, lots, Weight

LEMMA QueuesFollow ==
  ASSUME TypeInv, LevelsExact
  PROVE  QueuesAreExact
  <1>1. /\ Alive \in [OrderId -> MaybeOrder] /\ TypeOK
        /\ \A id \in OrderId : Alive[id] # None <=> id \in LiveIds
        /\ \A id \in LiveIds : id \in OrderId /\ Alive[id] = orders[id]
    <2>1. TypeOK
      BY DEF TypeInv
    <2>2. QED
      BY ONLY <2>1, AliveFacts DEF MaybeOrder
  <1>2. ASSUME NEW s \in Side, NEW p \in Price
        PROVE  /\ level[s][p].live = Cardinality(LiveEntries(s, p))
               /\ level[s][p].total =
                    SumFunction([i \in LiveEntries(s, p) |->
                                   orders[level[s][p].queue[i]].remaining])
               /\ p \in keys[s] <=> level[s][p].total > 0
               /\ p \notin keys[s] => level[s][p] = EmptyLevel
               /\ Rising(level[s][p].queue)
               /\ \A i \in DOMAIN level[s][p].queue :
                    level[s][p].queue[i] \in LiveIds =>
                      /\ orders[level[s][p].queue[i]].side = s
                      /\ orders[level[s][p].queue[i]].price = p
    <2> DEFINE lv == level[s][p]
               queue == lv.queue
               E == LiveEntries(s, p)
               R == Resters(Alive, s, p)
               left == [i \in E |-> orders[queue[i]].remaining]
               leftOf == [id \in OrderId |-> orders[id].remaining]
    <2>1. /\ LevelRight(Alive, p \in keys[s], lv, s, p)
          /\ queue \in Seq(OrderId) /\ Entries(queue) \subseteq OrderId
      BY <1>1, LevelTypes DEF LevelsExact
    <2>2. DOMAIN queue = 1 .. Len(queue) /\ Len(queue) \in Nat
      BY <2>1, LenProperties
    <2>3. /\ lv.live = Weight(Alive, LevelGroup(s, p), "count")
          /\ lv.total = Weight(Alive, LevelGroup(s, p), "lots")
          /\ Rising(queue)
          /\ \A id \in Entries(queue) : Alive[id] # None => At(Alive[id], s, p)
          /\ \A id \in OrderId : At(Alive[id], s, p) => id \in Entries(queue)
          /\ p \in keys[s] <=> lv.total > 0
          /\ p \notin keys[s] => lv = EmptyLevel
      BY <2>1 DEF LevelRight, LevelCounts
    <2>4. E = {i \in DOMAIN queue : queue[i] \in LiveIds}
      BY DEF LiveEntries
    <2>5. IsFiniteSet(E)
      <3>1. IsFiniteSet(1 .. Len(queue))
        BY <2>2, FS_Interval
      <3>2. E \subseteq 1 .. Len(queue)
        BY <2>2, <2>4
      <3> HIDE DEF E
      <3>3. QED
        BY <3>1, <3>2, FS_Subset
    <2>6. {queue[i] : i \in E} = R
      <3>1. ASSUME NEW i \in E PROVE queue[i] \in R
        BY <1>1, <2>3, <2>4 DEF Entries, Resters
      <3>2. ASSUME NEW id \in R PROVE \E i \in E : id = queue[i]
        BY <1>1, <2>3, <2>4 DEF Resters, At, Entries
      <3>3. QED
        BY <3>1, <3>2
    <2>7. \A i, j \in E : queue[i] = queue[j] => i = j
      <3>1. ASSUME NEW i \in E, NEW j \in E, queue[i] = queue[j], i < j
            PROVE  FALSE
        <4>1. i \in DOMAIN queue /\ j \in DOMAIN queue
          BY <2>4
        <4>2. queue[i] < queue[j]
          BY <2>3, <3>1, <4>1 DEF Rising
        <4>3. queue[i] \in Nat
          BY <2>1, <4>1, OrderIdsAreInts DEF Entries
        <4>4. QED
          BY <3>1, <4>2, <4>3
      <3>2. \A i, j \in E : i < j \/ j < i \/ i = j
        BY <2>2, <2>4
      <3> HIDE DEF E, queue
      <3>3. QED
        BY <3>1, <3>2
    <2>8. \A i \in E : left[i] \in Int /\ left[i] = leftOf[queue[i]]
      <3>1. ASSUME NEW i \in E PROVE left[i] \in Int /\ left[i] = leftOf[queue[i]]
        BY <1>1, <2>4, LiveOrders, OrderFields
      <3>2. QED
        BY <3>1
    <2>9. \A id \in R : leftOf[id] = Alive[id].remaining
      BY <1>1 DEF Resters, At
    <2>10. DOMAIN left = E
      OBVIOUS
    <2> HIDE DEF E, left, leftOf, queue, lv, R
    <2>11. /\ SumFunctionOnSet(left, E) = SumFunctionOnSet(leftOf, R)
           /\ Cardinality(R) = Cardinality(E)
      <3>1. /\ \A i \in E : left[i] \in Int /\ left[i] = leftOf[queue[i]]
            /\ \A i, j \in E : queue[i] = queue[j] => i = j
        BY <2>7, <2>8
      <3>2. QED
        BY <2>5, <2>6, <3>1, SumByNames
    <2>12. /\ Cardinality(R) = Weight(Alive, LevelGroup(s, p), "count")
           /\ SumFunctionOnSet(leftOf, R) = Weight(Alive, LevelGroup(s, p), "lots")
      BY <1>1, <2>9, RestersWeigh DEF R
    <2>13. lv.live = Cardinality(E) /\ lv.total = SumFunctionOnSet(left, E)
      BY <2>3, <2>11, <2>12
    <2>14. SumFunction(left) = SumFunctionOnSet(left, E)
      BY <2>10, Zenon DEF SumFunction
    <2>15. \A i \in DOMAIN queue : queue[i] \in LiveIds =>
             orders[queue[i]].side = s /\ orders[queue[i]].price = p
      BY <1>1, <2>3 DEF Entries, At
    <2>16. lv.total = SumFunction(left)
      BY <2>13, <2>14
    <2>17. QED
      BY <2>3, <2>13, <2>15, <2>16, Zenon DEF lv, queue, E, left
  <1>3. ASSUME NEW id \in LiveIds
        PROVE  id \in {level[orders[id].side][orders[id].price].queue[i] :
                 i \in DOMAIN level[orders[id].side][orders[id].price].queue}
    BY RestsAtItsLevel DEF Entries
  <1>4. LevelsMatchQueues
    BY <1>2 DEF LevelsMatchQueues
  <1>5. RestsOnceInOrder
    <2>1. ASSUME NEW s \in Side, NEW p \in Price,
                 NEW i \in DOMAIN level[s][p].queue, NEW j \in DOMAIN level[s][p].queue
          PROVE  /\ i < j => level[s][p].queue[i] < level[s][p].queue[j]
                 /\ level[s][p].queue[i] \in LiveIds =>
                      orders[level[s][p].queue[i]].side = s
                      /\ orders[level[s][p].queue[i]].price = p
      <3>1. Rising(level[s][p].queue)
        BY <1>2
      <3>2. i < j => level[s][p].queue[i] < level[s][p].queue[j]
        BY <3>1 DEF Rising
      <3>3. \A k \in DOMAIN level[s][p].queue :
              level[s][p].queue[k] \in LiveIds =>
                      /\ orders[level[s][p].queue[k]].side = s
                      /\ orders[level[s][p].queue[k]].price = p
        BY <1>2
      <3>4. QED
        BY <3>2, <3>3, Zenon
    <2>2. QED
      BY <1>3, <2>1 DEF RestsOnceInOrder
  <1>6. QED
    BY <1>4, <1>5 DEF QueuesAreExact

(* Levels, queues and orders agree between any two steps of the matcher,   *)
(* for every instance: what a level shows is what its queue's live entries *)
(* add up to, no level without a live order is kept, and every live order  *)
(* is in the one queue of its price, in arrival order. place_order,        *)
(* cancel and the lazy removal of stale entries all keep it so.            *)
THEOREM QueuesExact == Spec => []QueuesAreExact
  <1>1. Spec => []LevelsExact
    BY InitLevelsExact, StepKeepsLevelsExact, TypeInvariant, PTL DEF Spec
  <1>2. QED
    BY <1>1, QueuesFollow, TypeInvariant, PTL

-----------------------------------------------------------------------------
(* What a fill does to the order it meets.                                 *)
Shrunk(o, m, q) ==
  /\ (o = None) <=> (q = m.remaining)
  /\ o # None => /\ o \in Order /\ o.remaining = m.remaining - q
                 /\ o.account = m.account /\ o.side = m.side /\ o.price = m.price

LEMMA FillStep ==
  ASSUME TypeInv, LevelsExact, NEW px \in Price, Fill(px)
  PROVE  \E o \in MaybeOrder, m \in Order, q \in Nat :
           /\ m = orders[FrontEntry(px)] /\ m = Alive[FrontEntry(px)] /\ FrontEntry(px) \in OrderId
           /\ FrontEntry(px) # nextOrder
           /\ m.price = px /\ m.side = Opposite(cur.side) /\ m.account # cur.account
           /\ q = SmallerOf(cur.remaining, m.remaining)
           /\ q > 0 /\ q <= m.remaining /\ q <= cur.remaining
           /\ Shrunk(o, m, q)
           /\ Alive' = Put(Alive, FrontEntry(px), o)
  <1> DEFINE mid == FrontEntry(px)
             m == orders[mid]
             q == SmallerOf(cur.remaining, m.remaining)
             o == IF q = m.remaining THEN None
                  ELSE [m EXCEPT !.remaining = m.remaining - q, !.status = "partial"]
             s == Opposite(cur.side)
  <1>1. /\ pc = "match" /\ s \in Side /\ level[s][px] \in Level /\ level[s][px].queue # <<>>
        /\ mid \in OrderId /\ mid \in LiveIds /\ m \in Order
        /\ m.remaining \in Nat /\ q \in Nat /\ q <= m.remaining /\ q <= cur.remaining
        /\ cur.remaining \in Nat /\ m.account # cur.account
    BY FillContext
  <1>2. /\ Alive[mid] = m /\ m.remaining > 0
        /\ \A t \in Side, r \in Price : mid \in Entries(level[t][r].queue) => t = m.side /\ r = m.price
    BY <1>1, RestsAtItsLevel
  <1>3. mid \in Entries(level[s][px].queue)
    <2>1. LevelRight(Alive, px \in keys[s], level[s][px], s, px)
      BY <1>1 DEF LevelsExact
    <2>2. level[s][px].queue \in Seq(OrderId) /\ Rising(level[s][px].queue)
      BY <1>1, <2>1 DEF Level, LevelRight, LevelCounts
    <2>3. mid = Head(level[s][px].queue)
      BY DEF FrontEntry
    <2> HIDE DEF mid, s
    <2>4. QED
      BY <1>1, <2>2, <2>3, QueueTail
  <1>4. m.price = px /\ m.side = s
    BY <1>1, <1>2, <1>3
  <1>5. cur.remaining > 0
    BY DEF Fill, Matching
  <1>6. q > 0
    BY <1>1, <1>2, <1>5 DEF SmallerOf
  <1>7. Alive' = Put(Alive, mid, o)
    BY FillLeaves DEF Put
  <1>8. mid # nextOrder
    BY <1>1 DEF TypeInv, InProgress, LiveIds, InMemory
  <1>9. Shrunk(o, m, q) /\ o \in MaybeOrder
    <2>1. CASE q = m.remaining
      BY <2>1 DEF MaybeOrder, Shrunk
    <2>2. CASE q # m.remaining
      <3>1. o = [m EXCEPT !.remaining = m.remaining - q, !.status = "partial"]
        BY <2>2
      <3>2. m.remaining - q \in Nat
        BY <1>1
      <3> HIDE DEF q, m
      <3>3. PICK r : r = m.remaining - q
        OBVIOUS
      <3>4. o = [m EXCEPT !.remaining = r, !.status = "partial"] /\ r \in Nat
        BY <3>1, <3>2, <3>3
      <3> HIDE DEF o
      <3>5. /\ o \in Order /\ o.remaining = r /\ o.side = m.side /\ o.price = m.price
            /\ o.account = m.account
        BY <1>1, <3>4 DEF Order, Status
      <3>6. o # None
        BY <3>5, OrderIsNotNone
      <3>7. QED
        BY <2>2, <3>3, <3>5, <3>6 DEF MaybeOrder, Shrunk
    <2>3. QED
      BY <2>1, <2>2
  <1> HIDE DEF o, m, q, mid, s
  <1>10. m = orders[mid] /\ q = SmallerOf(cur.remaining, m.remaining) /\ s = Opposite(cur.side)
         /\ mid = FrontEntry(px)
    BY DEF m, q, s, mid
  <1>11. QED
    BY <1>1, <1>2, <1>4, <1>6, <1>7, <1>8, <1>9, <1>10

-----------------------------------------------------------------------------
(* Exposure.                                                               *)
AccountGroup(a) == [sides |-> Side, prices |-> Price, accounts |-> {a}]

ExposureOf(v, e, a) ==
  /\ e.open = Weight(v, AccountGroup(a), "count")
  /\ e.notional = Weight(v, AccountGroup(a), "money")
  /\ e.open <= MaxOpenOrders
  /\ e.notional <= MaxOpenNotional

ExposureExact == \A a \in Account : ExposureOf(Alive, exposure[a], a)

LEMMA WeightOfAccount ==
  ASSUME NEW o \in MaybeOrder, NEW a
  PROVE  /\ WeightOf(o, AccountGroup(a), "count")
              = IF o # None /\ o.account = a THEN 1 ELSE 0
         /\ WeightOf(o, AccountGroup(a), "money")
              = IF o # None /\ o.account = a THEN Notional(o) ELSE 0
  BY OrderFields DEF MaybeOrder, WeightOf, AccountGroup, Belongs, Worth

LEMMA PartOfANotional ==
  ASSUME NEW p \in Nat, NEW r \in Nat, NEW q \in Nat, q <= r
  PROVE  p * (r - q) = p * r - p * q /\ p * q <= p * r /\ p * q \in Nat /\ p * r \in Nat
  OBVIOUS

(* The account of an order that changes, and every other.                  *)
LEMMA ExposureElsewhere ==
  ASSUME NEW v \in [OrderId -> MaybeOrder], NEW x \in OrderId, NEW o \in MaybeOrder,
         NEW a, NEW e, ExposureOf(v, e, a),
         v[x] # None => v[x].account # a, o # None => o.account # a
  PROVE  ExposureOf(Put(v, x, o), e, a)
  <1> DEFINE w == Put(v, x, o)
             g == AccountGroup(a)
  <1>1. /\ WeightOf(v[x], g, "count") = 0 /\ WeightOf(v[x], g, "money") = 0
        /\ WeightOf(o, g, "count") = 0 /\ WeightOf(o, g, "money") = 0
    BY WeightOfAccount
  <1>2. Weight(v, g, "count") \in Nat /\ Weight(v, g, "money") \in Nat
    BY WeightFacts
  <1>3. \A how : Weight(w, g, how) = (Weight(v, g, how) - WeightOf(v[x], g, how))
                                       + WeightOf(o, g, how)
    BY WeightChange
  <1> HIDE DEF w, g
  <1>4. Weight(w, g, "count") = Weight(v, g, "count")
    BY <1>1, <1>2, <1>3
  <1>5. Weight(w, g, "money") = Weight(v, g, "money")
    BY <1>1, <1>2, <1>3
  <1>6. QED
    BY <1>4, <1>5 DEF ExposureOf, w, g

LEMMA ExposureShrinks ==
  ASSUME NEW v \in [OrderId -> MaybeOrder], NEW x \in OrderId, NEW m \in Order, v[x] = m,
         NEW q \in Nat, q <= m.remaining, NEW o \in MaybeOrder, Shrunk(o, m, q),
         NEW e, ExposureOf(v, e, m.account),
         NEW d, d.open = IF o = None THEN SaturatingSub(e.open, 1) ELSE e.open,
         d.notional = SaturatingSub(e.notional, m.price * q)
  PROVE  ExposureOf(Put(v, x, o), d, m.account)
  <1> DEFINE w == Put(v, x, o)
             g == AccountGroup(m.account)
  <1>1. m.price \in Nat /\ m.remaining \in Nat /\ m # None /\ m \in MaybeOrder
    BY OrderFields DEF MaybeOrder
  <1>2. PICK all, part \in Nat : /\ all = Notional(m) /\ part = m.price * q /\ part <= all
                                 /\ m.price * (m.remaining - q) = all - part
    BY <1>1, PartOfANotional DEF Notional
  <1>3. /\ WeightOf(m, g, "count") = 1 /\ WeightOf(m, g, "money") = all
        /\ WeightOf(o, g, "count") = IF o = None THEN 0 ELSE 1
        /\ WeightOf(o, g, "money") = IF o = None THEN 0 ELSE all - part
    BY <1>1, <1>2, WeightOfAccount DEF Shrunk, Notional
  <1>4. o = None => part = all
    BY <1>2 DEF Shrunk, Notional
  <1>5. /\ Weight(v, g, "count") \in Nat /\ Weight(v, g, "money") \in Nat
        /\ WeightOf(v[x], g, "count") <= Weight(v, g, "count")
        /\ WeightOf(v[x], g, "money") <= Weight(v, g, "money")
    BY WeightFacts
  <1>6. \A how : Weight(w, g, how) = (Weight(v, g, how) - WeightOf(v[x], g, how))
                                       + WeightOf(o, g, how)
    BY WeightChange
  <1>7. /\ e.open = Weight(v, g, "count") /\ e.notional = Weight(v, g, "money")
        /\ e.open <= MaxOpenOrders /\ e.notional <= MaxOpenNotional
    BY DEF ExposureOf
  <1> HIDE DEF w, g
  <1>8. d.open = Weight(w, g, "count") /\ d.open <= e.open
    BY <1>3, <1>5, <1>6, <1>7 DEF SaturatingSub
  <1>9. d.notional = Weight(w, g, "money") /\ d.notional <= e.notional
    BY <1>2, <1>3, <1>4, <1>5, <1>6, <1>7 DEF SaturatingSub
  <1>10. /\ d.open \in Nat /\ d.notional \in Nat /\ e.open \in Nat /\ e.notional \in Nat
         /\ MaxOpenOrders \in Nat /\ MaxOpenNotional \in Nat
    <2>1. Weight(w, g, "count") \in Nat /\ Weight(w, g, "money") \in Nat
      BY PutFacts, WeightFacts DEF w
    <2>2. QED
      BY <1>5, <1>7, <1>8, <1>9, <2>1, BookAssumption
  <1>11. d.open <= MaxOpenOrders /\ d.notional <= MaxOpenNotional
    BY <1>7, <1>8, <1>9, <1>10
  <1>12. QED
    BY <1>8, <1>9, <1>11 DEF ExposureOf, w, g

LEMMA ExposureGrows ==
  ASSUME NEW v \in [OrderId -> MaybeOrder], NEW x \in OrderId, v[x] = None,
         NEW o \in Order, NEW e, ExposureOf(v, e, o.account),
         NEW d, d.open = e.open + 1, d.notional = e.notional + Notional(o),
         d.open <= MaxOpenOrders, d.notional <= MaxOpenNotional
  PROVE  ExposureOf(Put(v, x, o), d, o.account)
  <1> DEFINE w == Put(v, x, o)
             g == AccountGroup(o.account)
  <1>1. Notional(o) \in Nat /\ o # None /\ o \in MaybeOrder
    BY OrderFields DEF MaybeOrder
  <1>2. /\ WeightOf(v[x], g, "count") = 0 /\ WeightOf(v[x], g, "money") = 0
        /\ WeightOf(o, g, "count") = 1 /\ WeightOf(o, g, "money") = Notional(o)
    BY <1>1, WeightOfAccount
  <1>3. Weight(v, g, "count") \in Nat /\ Weight(v, g, "money") \in Nat
    BY WeightFacts
  <1>4. \A how : Weight(w, g, how) = (Weight(v, g, how) - WeightOf(v[x], g, how))
                                       + WeightOf(o, g, how)
    BY <1>1, WeightChange
  <1>5. e.open = Weight(v, g, "count") /\ e.notional = Weight(v, g, "money")
    BY DEF ExposureOf
  <1> HIDE DEF w, g
  <1>6. d.open = Weight(w, g, "count")
    BY <1>2, <1>3, <1>4, <1>5
  <1>7. d.notional = Weight(w, g, "money")
    BY <1>1, <1>2, <1>3, <1>4, <1>5
  <1>8. QED
    BY <1>6, <1>7 DEF ExposureOf, w, g

LEMMA CancelStep ==
  ASSUME TypeInv, NEW id \in LiveIds, NEW now \in Time, CancelLive(id, now)
  PROVE  \E m \in Order :
           /\ m = orders[id] /\ Alive[id] = m /\ id \in OrderId /\ None \in MaybeOrder
           /\ Shrunk(None, m, m.remaining)
           /\ Alive' = Put(Alive, id, None)
           /\ exposure' = [exposure EXCEPT ![m.account] = ExposureSub(@, m.price, m.remaining, TRUE)]
           /\ ReleaseFunds(m.account, m.side, m.price, m.remaining)
           /\ ledgers' = ledgers
  BY LiveOrders, AliveFacts, CancelLeaves DEF TypeInv, Put, Shrunk, MaybeOrder, CancelLive

LEMMA OneAccountsExposure ==
  ASSUME TypeInv, ExposureExact, NEW x \in OrderId, NEW o \in MaybeOrder, NEW b \in Account,
         Alive' = Put(Alive, x, o),
         Alive[x] # None => Alive[x].account = b, o # None => o.account = b,
         \A a \in Account \ {b} : exposure'[a] = exposure[a],
         ExposureOf(Put(Alive, x, o), exposure'[b], b)
  PROVE  ExposureExact'
  <1>1. Alive \in [OrderId -> MaybeOrder]
    BY AliveFacts DEF TypeInv, MaybeOrder
  <1>2. ASSUME NEW a \in Account
        PROVE  ExposureOf(Alive', exposure'[a], a)
    <2>1. CASE a = b
      BY <2>1
    <2>2. CASE a # b
      BY <1>1, <2>2, ExposureElsewhere DEF ExposureExact
    <2>3. QED
      BY <2>1, <2>2
  <1>3. (\A a \in Account : ExposureOf(Alive, exposure[a], a))'
    BY <1>2
  <1>4. QED
    BY <1>3 DEF ExposureExact

LEMMA SameExposure ==
  ASSUME ExposureExact, Alive' = Alive, exposure' = exposure
  PROVE  ExposureExact'
  BY DEF ExposureExact

LEMMA FillKeepsExposureExact ==
  ASSUME TypeInv, LevelsExact, ExposureExact, NEW px \in Price, Fill(px)
  PROVE  ExposureExact'
  <1> DEFINE mid == FrontEntry(px)
  <1>1. PICK o \in MaybeOrder, m \in Order, q \in Nat :
           /\ m = orders[mid] /\ m = Alive[mid] /\ mid \in OrderId
           /\ m.price = px /\ q = SmallerOf(cur.remaining, m.remaining)
           /\ q <= m.remaining /\ Shrunk(o, m, q) /\ Alive' = Put(Alive, mid, o)
    BY FillStep
  <1>2. exposure' = [exposure EXCEPT ![m.account] =
                       ExposureSub(@, px, q, m.remaining = q)]
    BY <1>1 DEF Fill
  <1>3. exposure \in [Account -> Exposure] /\ m.account \in Account
        /\ Alive \in [OrderId -> MaybeOrder]
    BY OrderFields, AliveFacts DEF TypeInv, TypeOK, MaybeOrder
  <1>4. /\ \A a \in Account \ {m.account} : exposure'[a] = exposure[a]
        /\ exposure'[m.account] = ExposureSub(exposure[m.account], px, q, m.remaining = q)
    BY <1>2, <1>3
  <1>5. PICK e, d : e = exposure[m.account] /\ d = exposure'[m.account]
    OBVIOUS
  <1>6. /\ d.open = IF o = None THEN SaturatingSub(e.open, 1) ELSE e.open
        /\ d.notional = SaturatingSub(e.notional, m.price * q)
    <2>1. d = ExposureSub(e, px, q, m.remaining = q)
      BY <1>4, <1>5
    <2>2. CASE m.remaining = q
      BY <1>1, <2>1, <2>2 DEF Shrunk, ExposureSub
    <2>3. CASE m.remaining # q
      BY <1>1, <2>1, <2>3 DEF Shrunk, ExposureSub
    <2>4. QED
      BY <2>2, <2>3
  <1>7. ExposureOf(Alive, e, m.account)
    BY <1>3, <1>5 DEF ExposureExact
  <1> HIDE DEF mid
  <1>8. Alive[mid] = m /\ q <= m.remaining /\ Shrunk(o, m, q) /\ mid \in OrderId
    BY <1>1
  <1>9. ExposureOf(Put(Alive, mid, o), d, m.account)
    BY <1>3, <1>6, <1>7, <1>8, ExposureShrinks
  <1>10. /\ Alive[mid] # None => Alive[mid].account = m.account
         /\ o # None => o.account = m.account
         /\ Alive' = Put(Alive, mid, o)
    BY <1>1 DEF Shrunk
  <1>11. QED
    BY <1>3, <1>4, <1>5, <1>8, <1>9, <1>10, OneAccountsExposure

LEMMA CancelKeepsExposureExact ==
  ASSUME TypeInv, ExposureExact, NEW id \in LiveIds, NEW now \in Time, CancelLive(id, now)
  PROVE  ExposureExact'
  <1>1. PICK m \in Order :
           /\ Alive[id] = m /\ id \in OrderId /\ None \in MaybeOrder
           /\ Shrunk(None, m, m.remaining)
           /\ Alive' = Put(Alive, id, None)
           /\ exposure' = [exposure EXCEPT ![m.account] = ExposureSub(@, m.price, m.remaining, TRUE)]
    BY CancelStep
  <1>2. exposure \in [Account -> Exposure] /\ m.account \in Account /\ m.remaining \in Nat
        /\ Alive \in [OrderId -> MaybeOrder]
    BY OrderFields, AliveFacts DEF TypeInv, TypeOK, MaybeOrder
  <1>3. PICK e, d : e = exposure[m.account] /\ d = exposure'[m.account]
    OBVIOUS
  <1>4. /\ \A a \in Account \ {m.account} : exposure'[a] = exposure[a]
        /\ d = ExposureSub(e, m.price, m.remaining, TRUE)
    BY <1>1, <1>2, <1>3
  <1>5. /\ d.open = IF None = None THEN SaturatingSub(e.open, 1) ELSE e.open
        /\ d.notional = SaturatingSub(e.notional, m.price * m.remaining)
    BY <1>4 DEF ExposureSub
  <1>6. ExposureOf(Alive, e, m.account) /\ m.remaining <= m.remaining
    BY <1>2, <1>3 DEF ExposureExact
  <1>7. ExposureOf(Put(Alive, id, None), d, m.account)
    BY <1>1, <1>2, <1>5, <1>6, ExposureShrinks
  <1>8. Alive[id] # None => Alive[id].account = m.account
    BY <1>1
  <1>9. QED
    BY <1>1, <1>2, <1>3, <1>4, <1>7, <1>8, OneAccountsExposure

LEMMA RestingKeepsExposureExact ==
  ASSUME TypeInv, ExposureExact, FinishResting
  PROVE  ExposureExact'
  <1> DEFINE x == nextOrder
             o == [cur EXCEPT !.status = RestingStatus(cur)]
  <1>1. /\ pc = "match" /\ cur \in Order /\ x \in OrderId /\ Alive[x] = None
        /\ Alive' = Put(Alive, x, o)
    BY FinishFacts
  <1>2. /\ o \in Order /\ o.account = cur.account /\ o.price = cur.price
        /\ o.remaining = cur.remaining
    BY <1>1 DEF Order, Status, RestingStatus
  <1>3. /\ ExposureAllows(cur.account, cur.price, cur.remaining)
        /\ exposure' = [exposure EXCEPT ![cur.account] =
                          ExposureAdd(@, cur.price, cur.remaining)]
    BY DEF FinishResting
  <1>4. /\ exposure \in [Account -> Exposure] /\ cur.account \in Account
        /\ Alive \in [OrderId -> MaybeOrder]
    BY <1>1, OrderFields, AliveFacts DEF TypeInv, TypeOK, MaybeOrder
  <1>5. PICK e, d : e = exposure[o.account] /\ d = exposure'[o.account]
    OBVIOUS
  <1> HIDE DEF o
  <1>6. /\ \A a \in Account \ {o.account} : exposure'[a] = exposure[a]
        /\ d = ExposureAdd(e, cur.price, cur.remaining) /\ e \in Exposure
    BY <1>2, <1>3, <1>4, <1>5
  <1>7. d.open = e.open + 1 /\ d.notional = e.notional + Notional(o)
    BY <1>2, <1>6 DEF ExposureAdd, Notional
  <1>8. /\ e.open < MaxOpenOrders /\ e.notional + Notional(o) <= MaxOpenNotional
    BY <1>2, <1>3, <1>5 DEF ExposureAllows, Notional
  <1>9. d.open <= MaxOpenOrders /\ d.notional <= MaxOpenNotional
    BY <1>6, <1>7, <1>8, BookAssumption DEF Exposure
  <1>10. ExposureOf(Alive, e, o.account)
    BY <1>2, <1>4, <1>5 DEF ExposureExact
  <1>11. ExposureOf(Put(Alive, x, o), d, o.account)
    BY <1>1, <1>2, <1>4, <1>7, <1>9, <1>10, ExposureGrows
  <1>12. o \in MaybeOrder /\ o.account \in Account
    BY <1>2, <1>4 DEF MaybeOrder
  <1>13. QED
    BY <1>1, <1>5, <1>6, <1>11, <1>12, OneAccountsExposure

LEMMA StepKeepsExposureExact ==
  TypeInv /\ LevelsExact /\ ExposureExact /\ [Next]_vars => ExposureExact'
  <1> SUFFICES ASSUME TypeInv, LevelsExact, ExposureExact, [Next]_vars
               PROVE  ExposureExact'
    OBVIOUS
  <1>1. ASSUME orders' = orders, exposure' = exposure
        PROVE  ExposureExact'
    BY <1>1, SameExposure DEF Alive, AliveOf, Live
  <1>2. ASSUME NEW a \in Account, NEW x \in Amount, NEW y \in Amount,
               Deposit(a, x, y) \/ Withdraw(a, x, y)
        PROVE  ExposureExact'
    BY <1>1, <1>2 DEF Deposit, Withdraw, MoveFunds, indexVars
  <1>3. ASSUME NEW r \in Requests, NEW now \in Time, RejectOrder(r, now)
        PROVE  ExposureExact'
    BY <1>3, RejectLeaves, SameExposure DEF RejectOrder
  <1>4. ASSUME NEW r \in Requests, NEW now \in Time, AcceptOrder(r, now)
        PROVE  ExposureExact'
    BY <1>1, <1>4 DEF AcceptOrder
  <1>5. ASSUME NEW a \in Account, NEW id \in OrderId, NEW now \in Time, Cancel(a, id, now)
        PROVE  ExposureExact'
    BY <1>5, CancelKeepsExposureExact DEF Cancel
  <1>6. ASSUME NEW a \in Account, NEW id \in OrderId, NEW now \in Time,
               CancelRefused(a, id, now)
        PROVE  ExposureExact'
    BY <1>1, <1>6 DEF CancelRefused, indexVars
  <1>7. ASSUME NEW a \in Account, NEW now \in Time, CancelAll(a, now)
        PROVE  ExposureExact'
    BY <1>1, <1>7 DEF CancelAll, indexVars
  <1>8. ASSUME NEW px \in Price, DropStale(px) \/ StopAtOwn(px)
        PROVE  ExposureExact'
    BY <1>1, <1>8 DEF DropStale, StopAtOwn, indexVars
  <1>9. ASSUME NEW px \in Price, Fill(px)
        PROVE  ExposureExact'
    BY <1>9, FillKeepsExposureExact
  <1>10. CASE FinishFilled \/ FinishCancelled
    BY <1>10, FinishFacts, SameExposure DEF FinishFilled, FinishCancelled
  <1>11. CASE FinishResting
    BY <1>11, RestingKeepsExposureExact
  <1>12. CASE CancelNext
    <2>1. PICK id \in doomed.ids : CancelLive(id, doomed.now)
      BY <1>12 DEF CancelNext
    <2>2. id \in LiveIds /\ doomed.now \in Time
      BY <1>12 DEF CancelNext, TypeInv, InProgress
    <2>3. QED
      BY <2>1, <2>2, CancelKeepsExposureExact
  <1>13. CASE UNCHANGED vars
    BY <1>1, <1>13 DEF vars, indexVars
  <1>14. QED
    BY <1>2, <1>3, <1>4, <1>5, <1>6, <1>7, <1>8, <1>9, <1>10, <1>11, <1>12, <1>13
       DEF Next, Command, Work

LEMMA InitExposureExact == Init => ExposureExact
  <1> SUFFICES ASSUME Init, NEW a \in Account
               PROVE  ExposureOf(Alive, exposure[a], a)
    BY DEF ExposureExact
  <1>1. \A id \in OrderId : Alive[id] = None
    BY DEF Init, Alive, AliveOf
  <1>2. exposure[a].open = 0 /\ exposure[a].notional = 0
    BY DEF Init, NoExposure
  <1>3. Weight(Alive, AccountGroup(a), "count") = 0 /\ Weight(Alive, AccountGroup(a), "money") = 0
    BY <1>1, NothingWeighsNothing
  <1>4. 0 <= MaxOpenOrders /\ 0 <= MaxOpenNotional
    BY BookAssumption
  <1>5. QED
    BY <1>2, <1>3, <1>4 DEF ExposureOf

-----------------------------------------------------------------------------
(* Reservations.                                                           *)
SideGroup(a, side) == [sides |-> {side}, prices |-> Price, accounts |-> {a}]

MoneyIn(side, price, q) == IF side = "buy" THEN price * q ELSE 0
LotsIn(side, q) == IF side = "sell" THEN q ELSE 0

MoneyOf(o, a) == IF o # None /\ o.account = a THEN MoneyIn(o.side, o.price, o.remaining) ELSE 0
LotsOf(o, a) == IF o # None /\ o.account = a THEN LotsIn(o.side, o.remaining) ELSE 0

(* What has to be behind an account: its living orders and the one being   *)
(* placed.                                                                 *)
MoneyBehind(v, i, a) == Weight(v, SideGroup(a, "buy"), "money") + MoneyOf(i, a)
LotsBehind(v, i, a) == Weight(v, SideGroup(a, "sell"), "lots") + LotsOf(i, a)

Incoming == IF pc = "match" THEN cur ELSE None

Backed(w, v, i, a) ==
  /\ w.usdcReserved = MoneyBehind(v, i, a)
  /\ w.ethReserved = LotsBehind(v, i, a)

Solvent(w) ==
  /\ w.usdc >= 0 /\ w.eth >= 0
  /\ ~EnforceBalances => w.usdcReserved = 0 /\ w.ethReserved = 0

WalletsExact ==
  /\ \A a \in Account : Solvent(balances[a])
  /\ EnforceBalances => \A a \in Account : Backed(balances[a], Alive, Incoming, a)

(* "o" is "m" with q lots less, or nothing when nothing is left of it.     *)
Less(o, m, q) ==
  \/ o = None /\ q = m.remaining
  \/ /\ o \in Order /\ o.remaining = m.remaining - q
     /\ o.account = m.account /\ o.side = m.side /\ o.price = m.price

LEMMA BackingType ==
  ASSUME NEW o \in MaybeOrder, NEW a
  PROVE  MoneyOf(o, a) \in Nat /\ LotsOf(o, a) \in Nat
  BY OrderFields DEF MaybeOrder, Notional, MoneyOf, LotsOf, MoneyIn, LotsIn

LEMMA WeightOfSide ==
  ASSUME NEW o \in MaybeOrder, NEW a
  PROVE  /\ WeightOf(o, SideGroup(a, "buy"), "money") = MoneyOf(o, a)
         /\ WeightOf(o, SideGroup(a, "sell"), "lots") = LotsOf(o, a)
  BY OrderFields DEF MaybeOrder, WeightOf, SideGroup, Belongs, Worth, MoneyOf, LotsOf, MoneyIn,
     LotsIn, Notional

LEMMA LessBacking ==
  ASSUME NEW o \in MaybeOrder, NEW m \in Order, NEW q \in Nat, q <= m.remaining, Less(o, m, q)
  PROVE  /\ \A a : a # m.account => MoneyOf(o, a) = 0 /\ LotsOf(o, a) = 0
                                    /\ MoneyOf(m, a) = 0 /\ LotsOf(m, a) = 0
         /\ MoneyOf(o, m.account) = MoneyOf(m, m.account) - MoneyIn(m.side, m.price, q)
         /\ LotsOf(o, m.account) = LotsOf(m, m.account) - LotsIn(m.side, q)
         /\ MoneyIn(m.side, m.price, q) \in Nat /\ LotsIn(m.side, q) \in Nat
  <1>1. m.price \in Nat /\ m.remaining \in Nat /\ m # None /\ m.side \in Side
    BY OrderFields
  <1>2. /\ m.price * q \in Nat /\ m.price * m.remaining \in Nat
        /\ m.price * (m.remaining - q) = m.price * m.remaining - m.price * q
    BY <1>1, PartOfANotional
  <1>3. CASE o = None /\ q = m.remaining
    BY <1>1, <1>2, <1>3 DEF MoneyOf, LotsOf, MoneyIn, LotsIn
  <1>4. CASE /\ o \in Order /\ o.remaining = m.remaining - q
             /\ o.account = m.account /\ o.side = m.side /\ o.price = m.price
    BY <1>1, <1>2, <1>4, OrderIsNotNone DEF MoneyOf, LotsOf, MoneyIn, LotsIn
  <1>5. QED
    BY <1>3, <1>4 DEF Less

(* The order being placed changes, or an order of the book.                *)
LEMMA IncomingChange ==
  ASSUME NEW v \in [OrderId -> MaybeOrder], NEW i \in MaybeOrder, NEW j \in MaybeOrder, NEW a
  PROVE  /\ MoneyBehind(v, i, a) \in Nat /\ LotsBehind(v, i, a) \in Nat
         /\ MoneyBehind(v, j, a) = (MoneyBehind(v, i, a) - MoneyOf(i, a)) + MoneyOf(j, a)
         /\ LotsBehind(v, j, a) = (LotsBehind(v, i, a) - LotsOf(i, a)) + LotsOf(j, a)
  BY BackingType, WeightFacts DEF MoneyBehind, LotsBehind

LEMMA BehindChange ==
  ASSUME NEW v \in [OrderId -> MaybeOrder], NEW x \in OrderId, NEW o \in MaybeOrder,
         NEW i \in MaybeOrder, NEW a
  PROVE  /\ MoneyBehind(v, i, a) \in Nat /\ LotsBehind(v, i, a) \in Nat
         /\ MoneyBehind(Put(v, x, o), i, a)
              = (MoneyBehind(v, i, a) - MoneyOf(v[x], a)) + MoneyOf(o, a)
         /\ LotsBehind(Put(v, x, o), i, a)
              = (LotsBehind(v, i, a) - LotsOf(v[x], a)) + LotsOf(o, a)
  <1> DEFINE w == Put(v, x, o)
             g == SideGroup(a, "buy")
             h == SideGroup(a, "sell")
  <1>1. /\ MoneyOf(i, a) \in Nat /\ LotsOf(i, a) \in Nat
        /\ MoneyOf(o, a) \in Nat /\ LotsOf(o, a) \in Nat
        /\ MoneyOf(v[x], a) \in Nat /\ LotsOf(v[x], a) \in Nat
    BY BackingType
  <1>2. Weight(v, g, "money") \in Nat /\ Weight(v, h, "lots") \in Nat
    BY WeightFacts
  <1>3. /\ WeightOf(v[x], g, "money") = MoneyOf(v[x], a) /\ WeightOf(v[x], h, "lots") = LotsOf(v[x], a)
        /\ WeightOf(o, g, "money") = MoneyOf(o, a) /\ WeightOf(o, h, "lots") = LotsOf(o, a)
    BY WeightOfSide
  <1>4. Weight(w, g, "money") = (Weight(v, g, "money") - WeightOf(v[x], g, "money"))
                                  + WeightOf(o, g, "money")
    BY WeightChange
  <1>5. Weight(w, h, "lots") = (Weight(v, h, "lots") - WeightOf(v[x], h, "lots"))
                                  + WeightOf(o, h, "lots")
    BY WeightChange
  <1> HIDE DEF w, g, h
  <1>6. /\ MoneyBehind(v, i, a) = Weight(v, g, "money") + MoneyOf(i, a)
        /\ MoneyBehind(w, i, a) = Weight(w, g, "money") + MoneyOf(i, a)
        /\ LotsBehind(v, i, a) = Weight(v, h, "lots") + LotsOf(i, a)
        /\ LotsBehind(w, i, a) = Weight(w, h, "lots") + LotsOf(i, a)
    BY DEF MoneyBehind, LotsBehind, g, h
  <1>7. MoneyBehind(w, i, a) = (MoneyBehind(v, i, a) - MoneyOf(v[x], a)) + MoneyOf(o, a)
    BY <1>1, <1>2, <1>3, <1>4, <1>6
  <1>8. LotsBehind(w, i, a) = (LotsBehind(v, i, a) - LotsOf(v[x], a)) + LotsOf(o, a)
    BY <1>1, <1>2, <1>3, <1>5, <1>6
  <1>9. MoneyBehind(v, i, a) \in Nat /\ LotsBehind(v, i, a) \in Nat
    BY <1>1, <1>2, <1>6
  <1>10. QED
    BY <1>7, <1>8, <1>9 DEF w

(* How wallets move.                                                       *)
LEMMA ReserveFields ==
  ASSUME NEW w \in Wallet, NEW side \in Side, NEW price \in Nat, NEW q \in Nat,
         NEW d, d = Reserve(w, side, price, q)
  PROVE  /\ d \in Wallet
         /\ d.usdcReserved = w.usdcReserved + MoneyIn(side, price, q)
         /\ d.ethReserved = w.ethReserved + LotsIn(side, q)
         /\ d.usdc = w.usdc - MoneyIn(side, price, q)
         /\ d.eth = w.eth - LotsIn(side, q)
  <1>1. PICK n \in Nat : n = price * q
    OBVIOUS
  <1>2. Reserve(w, side, price, q) \in Wallet
    BY ReserveIsInternal
  <1>3. QED
    BY <1>1, <1>2 DEF Reserve, Wallet, Side, MoneyIn, LotsIn

LEMMA ReleaseFields ==
  ASSUME NEW w \in Wallet, NEW side \in Side, NEW price \in Nat, NEW q \in Nat,
         NEW d, d = Release(w, side, price, q)
  PROVE  /\ d \in Wallet
         /\ d.usdcReserved = w.usdcReserved - MoneyIn(side, price, q)
         /\ d.ethReserved = w.ethReserved - LotsIn(side, q)
         /\ d.usdc = w.usdc + MoneyIn(side, price, q)
         /\ d.eth = w.eth + LotsIn(side, q)
  <1>1. PICK n \in Nat : n = price * q
    OBVIOUS
  <1>2. Release(w, side, price, q) \in Wallet
    BY ReleaseIsInternal
  <1>3. QED
    BY <1>1, <1>2 DEF Release, Wallet, Side, MoneyIn, LotsIn

LEMMA SettleTypes ==
  ASSUME NEW w \in Wallet, NEW side \in Side, NEW limit \in Nat, NEW px \in Nat, NEW q \in Nat
  PROVE  SettleTaker(w, side, limit, px, q) \in Wallet /\ SettleMaker(w, side, px, q) \in Wallet
  <1>1. EmptyLedger \in Ledger
    BY DEF EmptyLedger, Ledger
  <1>2. QED
    BY <1>1, FillIsExplained

LEMMA SettleTakerFields ==
  ASSUME NEW w \in Wallet, NEW side \in Side, NEW limit \in Nat, NEW px \in Nat, NEW q \in Nat,
         Crosses(side, limit, px), NEW d, d = SettleTaker(w, side, limit, px, q)
  PROVE  /\ d \in Wallet
         /\ d.usdcReserved = w.usdcReserved - MoneyIn(side, limit, q)
         /\ d.ethReserved = w.ethReserved - LotsIn(side, q)
         /\ d.usdc >= w.usdc /\ d.eth >= w.eth
  <1>1. PICK n \in Nat, l \in Nat : n = px * q /\ l = limit * q
    OBVIOUS
  <1>2. side = "buy" => n <= l
    BY <1>1 DEF Crosses
  <1>3. SettleTaker(w, side, limit, px, q) \in Wallet
    BY SettleTypes
  <1>4. QED
    BY <1>1, <1>2, <1>3 DEF SettleTaker, Wallet, Side, MoneyIn, LotsIn

LEMMA SettleMakerFields ==
  ASSUME NEW w \in Wallet, NEW side \in Side, NEW px \in Nat, NEW q \in Nat,
         NEW d, d = SettleMaker(w, side, px, q)
  PROVE  /\ d \in Wallet
         /\ d.usdcReserved = w.usdcReserved - MoneyIn(Opposite(side), px, q)
         /\ d.ethReserved = w.ethReserved - LotsIn(Opposite(side), q)
         /\ d.usdc >= w.usdc /\ d.eth >= w.eth
  <1>1. PICK n \in Nat : n = px * q
    OBVIOUS
  <1>2. SettleMaker(w, side, px, q) \in Wallet
    BY SettleTypes
  <1>3. QED
    BY <1>1, <1>2 DEF SettleMaker, Wallet, Side, Opposite, MoneyIn, LotsIn

(* A wallet that gives up what was reserved for q lots of m, if m is its   *)
(* account's.                                                              *)
Drained(d, w, m, q, a) ==
  /\ d.usdcReserved = w.usdcReserved - (IF a = m.account THEN MoneyIn(m.side, m.price, q) ELSE 0)
  /\ d.ethReserved = w.ethReserved - (IF a = m.account THEN LotsIn(m.side, q) ELSE 0)

LEMMA LessEverywhere ==
  ASSUME NEW o \in MaybeOrder, NEW m \in Order, NEW q \in Nat, q <= m.remaining, Less(o, m, q),
         NEW a
  PROVE  /\ m \in MaybeOrder
         /\ MoneyOf(m, a) \in Nat /\ LotsOf(m, a) \in Nat
         /\ MoneyOf(o, a) \in Nat /\ LotsOf(o, a) \in Nat
         /\ MoneyOf(o, a) = MoneyOf(m, a) - (IF a = m.account THEN MoneyIn(m.side, m.price, q) ELSE 0)
         /\ LotsOf(o, a) = LotsOf(m, a) - (IF a = m.account THEN LotsIn(m.side, q) ELSE 0)
         /\ MoneyIn(m.side, m.price, q) \in Nat /\ LotsIn(m.side, q) \in Nat
  BY BackingType, LessBacking DEF MaybeOrder

LEMMA IncomingShrinks ==
  ASSUME NEW v \in [OrderId -> MaybeOrder], NEW m \in Order, NEW j \in MaybeOrder,
         NEW q \in Nat, q <= m.remaining, Less(j, m, q),
         NEW a, NEW w, NEW d, Backed(w, v, m, a), Drained(d, w, m, q, a)
  PROVE  Backed(d, v, j, a)
  BY LessEverywhere, IncomingChange DEF Backed, Drained

LEMMA BookShrinks ==
  ASSUME NEW v \in [OrderId -> MaybeOrder], NEW x \in OrderId, NEW i \in MaybeOrder,
         NEW m \in Order, v[x] = m, NEW o \in MaybeOrder,
         NEW q \in Nat, q <= m.remaining, Less(o, m, q),
         NEW a, NEW w, NEW d, Backed(w, v, i, a), Drained(d, w, m, q, a)
  PROVE  Backed(d, Put(v, x, o), i, a)
  BY LessEverywhere, BehindChange DEF Backed, Drained

(* The order that was being placed enters the book as it is.               *)
LEMMA BookTakesIn ==
  ASSUME NEW v \in [OrderId -> MaybeOrder], NEW x \in OrderId, v[x] = None,
         NEW m \in Order, NEW o \in MaybeOrder, Less(o, m, 0), NEW a, NEW w, Backed(w, v, m, a)
  PROVE  Backed(w, Put(v, x, o), None, a)
  <1>1. None \in MaybeOrder /\ m \in MaybeOrder /\ 0 <= m.remaining
    BY OrderFields DEF MaybeOrder
  <1>2. /\ MoneyOf(m, a) \in Nat /\ LotsOf(m, a) \in Nat
        /\ MoneyOf(o, a) = MoneyOf(m, a) - (IF a = m.account THEN MoneyIn(m.side, m.price, 0) ELSE 0)
        /\ LotsOf(o, a) = LotsOf(m, a) - (IF a = m.account THEN LotsIn(m.side, 0) ELSE 0)
    BY <1>1, LessEverywhere
  <1>3. MoneyIn(m.side, m.price, 0) = 0 /\ LotsIn(m.side, 0) = 0
    BY OrderFields DEF MoneyIn, LotsIn
  <1>4. MoneyOf(None, a) = 0 /\ LotsOf(None, a) = 0
    BY DEF MoneyOf, LotsOf
  <1>5. /\ MoneyBehind(v, m, a) \in Nat /\ LotsBehind(v, m, a) \in Nat
        /\ MoneyBehind(v, None, a) \in Nat /\ LotsBehind(v, None, a) \in Nat
        /\ MoneyBehind(v, None, a) = (MoneyBehind(v, m, a) - MoneyOf(m, a)) + MoneyOf(None, a)
        /\ LotsBehind(v, None, a) = (LotsBehind(v, m, a) - LotsOf(m, a)) + LotsOf(None, a)
    BY <1>1, IncomingChange
  <1>6. /\ MoneyBehind(Put(v, x, o), None, a)
              = (MoneyBehind(v, None, a) - MoneyOf(v[x], a)) + MoneyOf(o, a)
        /\ LotsBehind(Put(v, x, o), None, a)
              = (LotsBehind(v, None, a) - LotsOf(v[x], a)) + LotsOf(o, a)
    BY <1>1, BehindChange
  <1>7. w.usdcReserved = MoneyBehind(v, m, a) /\ w.ethReserved = LotsBehind(v, m, a)
    BY DEF Backed
  <1>8. w.usdcReserved = MoneyBehind(Put(v, x, o), None, a)
    BY <1>2, <1>3, <1>4, <1>5, <1>6, <1>7
  <1>9. w.ethReserved = LotsBehind(Put(v, x, o), None, a)
    BY <1>2, <1>3, <1>4, <1>5, <1>6, <1>7
  <1>10. QED
    BY <1>8, <1>9 DEF Backed

(* A new order is reserved for.                                            *)
LEMMA IncomingStarts ==
  ASSUME NEW v \in [OrderId -> MaybeOrder], NEW m \in Order, NEW a, NEW w, NEW d,
         Backed(w, v, None, a),
         d.usdcReserved = w.usdcReserved
           + (IF a = m.account THEN MoneyIn(m.side, m.price, m.remaining) ELSE 0),
         d.ethReserved = w.ethReserved
           + (IF a = m.account THEN LotsIn(m.side, m.remaining) ELSE 0)
  PROVE  Backed(d, v, m, a)
  BY OrderFields, IncomingChange DEF MaybeOrder, MoneyOf, LotsOf, Backed

(* The lots of a trade leave the order being placed and the one it meets.  *)
LEMMA FillBacking ==
  ASSUME NEW v \in [OrderId -> MaybeOrder], NEW x \in OrderId, NEW i \in Order,
         NEW m \in Order, m = v[x], NEW o \in MaybeOrder, NEW j \in MaybeOrder,
         NEW q \in Nat, q <= m.remaining, q <= i.remaining, Less(o, m, q), Less(j, i, q),
         NEW a, NEW w, NEW e, NEW d,
         Backed(w, v, i, a), Drained(e, w, i, q, a), Drained(d, e, m, q, a)
  PROVE  Backed(d, Put(v, x, o), j, a)
  <1>1. Backed(e, v, j, a)
    BY IncomingShrinks
  <1>2. QED
    BY <1>1, BookShrinks

-----------------------------------------------------------------------------
(* The wallets, action by action.                                          *)
LEMMA WalletsFollow ==
  ASSUME \A a \in Account : Solvent(balances'[a]),
         EnforceBalances => \A a \in Account : Backed(balances'[a], Alive', Incoming', a)
  PROVE  WalletsExact'
  BY DEF WalletsExact

LEMMA SameWallets ==
  ASSUME WalletsExact, Alive' = Alive, Incoming' = Incoming, balances' = balances
  PROVE  WalletsExact'
  BY WalletsFollow DEF WalletsExact

LEMMA MatchedFacts ==
  ASSUME TypeInv, pc = "match"
  PROVE  /\ cur \in Order /\ Incoming = cur /\ cur.remaining \in Nat
         /\ cur.price \in Nat /\ cur.side \in Side /\ cur.account \in Account
         /\ Alive \in [OrderId -> MaybeOrder] /\ balances \in [Account -> Wallet]
         /\ None \in MaybeOrder
  BY MatchedOrder, OrderFields, AliveFacts DEF TypeInv, TypeOK, MaybeOrder, Incoming

LEMMA FillKeepsWalletsExact ==
  ASSUME TypeInv, LevelsExact, WalletsExact, NEW px \in Price, Fill(px)
  PROVE  WalletsExact'
  <1> DEFINE mid == FrontEntry(px)
  <1>1. PICK o \in MaybeOrder, m \in Order, q \in Nat :
           /\ m = orders[mid] /\ m = Alive[mid] /\ mid \in OrderId
           /\ m.price = px /\ m.side = Opposite(cur.side) /\ m.account # cur.account
           /\ q = SmallerOf(cur.remaining, m.remaining)
           /\ q <= m.remaining /\ q <= cur.remaining
           /\ Shrunk(o, m, q) /\ Alive' = Put(Alive, mid, o)
    BY FillStep
  <1>2. /\ pc = "match" /\ pc' = pc /\ cur' = [cur EXCEPT !.remaining = @ - q]
        /\ Crosses(cur.side, cur.price, px) /\ SettleFill(m.account, px, q)
    BY <1>1 DEF Fill, Matching
  <1>3. /\ cur \in Order /\ Incoming = cur /\ cur.remaining \in Nat
        /\ cur.price \in Nat /\ cur.side \in Side /\ cur.account \in Account
        /\ Alive \in [OrderId -> MaybeOrder] /\ balances \in [Account -> Wallet]
    BY <1>2, MatchedFacts
  <1> HIDE DEF mid
  <1>4. cur' \in Order /\ Less(cur', cur, q) /\ Incoming' = cur' /\ cur' \in MaybeOrder
    BY <1>1, <1>2, <1>3 DEF Order, Less, Incoming, MaybeOrder
  <1>5. Less(o, m, q)
    BY <1>1 DEF Shrunk, Less
  <1>6. m.account \in Account /\ px \in Nat /\ m.remaining \in Nat
    BY <1>1, OrderFields
  <1>7. CASE ~EnforceBalances
    BY <1>2, <1>7, WalletsFollow DEF SettleFill, WalletsExact
  <1>8. CASE EnforceBalances
    <2>1. balances' = [balances EXCEPT
             ![cur.account] = SettleTaker(@, cur.side, cur.price, px, q),
             ![m.account] = SettleMaker(@, cur.side, px, q)]
      BY <1>2, <1>8 DEF SettleFill
    <2>2. ASSUME NEW a \in Account
          PROVE  Solvent(balances'[a]) /\ Backed(balances'[a], Alive', Incoming', a)
      <3>1. PICK w, d : w = balances[a] /\ d = balances'[a] /\ w \in Wallet
        BY <1>3
      <3>2. Solvent(w) /\ Backed(w, Alive, cur, a)
        BY <1>3, <1>8, <3>1 DEF WalletsExact
      <3>3. w.usdc \in Int /\ w.eth \in Int /\ w.usdcReserved \in Int /\ w.ethReserved \in Int
        BY <3>1 DEF Wallet
      <3>4. CASE a = cur.account
        <4>1. d = SettleTaker(w, cur.side, cur.price, px, q) /\ a # m.account
          BY <1>1, <1>3, <1>6, <2>1, <3>1, <3>4
        <4>2. /\ d.usdcReserved = w.usdcReserved - MoneyIn(cur.side, cur.price, q)
              /\ d.ethReserved = w.ethReserved - LotsIn(cur.side, q)
              /\ d.usdc >= w.usdc /\ d.eth >= w.eth /\ d \in Wallet
          BY <1>2, <1>3, <1>6, <3>1, <4>1, SettleTakerFields
        <4>7. d.usdc \in Int /\ d.eth \in Int /\ d.usdcReserved \in Int /\ d.ethReserved \in Int
          BY <4>2 DEF Wallet
        <4>3. Solvent(d)
          BY <1>8, <3>2, <3>3, <4>2, <4>7 DEF Solvent
        <4>4. Drained(d, w, cur, q, a)
          BY <3>4, <4>2 DEF Drained
        <4>5. Drained(d, d, m, q, a)
          BY <4>1, <4>7 DEF Drained
        <4>6. QED
          BY <1>1, <1>3, <1>4, <1>5, <3>1, <3>2, <4>3, <4>4, <4>5, FillBacking
      <3>5. CASE a = m.account
        <4>1. d = SettleMaker(w, cur.side, px, q) /\ a # cur.account
          BY <1>1, <1>3, <1>6, <2>1, <3>1, <3>5
        <4>8. /\ d.usdcReserved = w.usdcReserved - MoneyIn(Opposite(cur.side), px, q)
              /\ d.ethReserved = w.ethReserved - LotsIn(Opposite(cur.side), q)
              /\ d.usdc >= w.usdc /\ d.eth >= w.eth /\ d \in Wallet
          <5>1. /\ w \in Wallet /\ cur.side \in Side /\ px \in Nat /\ q \in Nat
                /\ d = SettleMaker(w, cur.side, px, q)
            BY <1>3, <1>6, <3>1, <4>1
          <5>2. QED
            BY ONLY <5>1, SettleMakerFields, SMT
        <4>2. /\ d.usdcReserved = w.usdcReserved - MoneyIn(m.side, m.price, q)
              /\ d.ethReserved = w.ethReserved - LotsIn(m.side, q)
              /\ d.usdc >= w.usdc /\ d.eth >= w.eth /\ d \in Wallet
          BY <1>1, <4>8
        <4>7. d.usdc \in Int /\ d.eth \in Int
          BY <4>2 DEF Wallet
        <4>3. Solvent(d)
          BY <1>8, <3>2, <3>3, <4>2, <4>7 DEF Solvent
        <4>4. Drained(w, w, cur, q, a)
          BY <3>3, <4>1 DEF Drained
        <4>5. Drained(d, w, m, q, a)
          BY <3>5, <4>2 DEF Drained
        <4>6. QED
          BY <1>1, <1>3, <1>4, <1>5, <3>1, <3>2, <4>3, <4>4, <4>5, FillBacking
      <3>6. CASE a # cur.account /\ a # m.account
        BY <1>1, <1>3, <1>4, <1>5, <1>6, <2>1, <3>1, <3>2, <3>3, <3>6, FillBacking DEF Drained
      <3>7. QED
        BY <3>4, <3>5, <3>6
    <2>3. QED
      BY <2>2, WalletsFollow
  <1>9. QED
    BY <1>7, <1>8

LEMMA OrderReservedFor ==
  ASSUME NEW w \in Wallet, Solvent(w), NEW m \in Order,
         Covers(w, m.side, m.price, m.remaining),
         NEW d, d = Reserve(w, m.side, m.price, m.remaining), EnforceBalances
  PROVE  /\ Solvent(d)
         /\ d.usdcReserved = w.usdcReserved + MoneyIn(m.side, m.price, m.remaining)
         /\ d.ethReserved = w.ethReserved + LotsIn(m.side, m.remaining)
  <1>1. m.side \in Side /\ m.price \in Nat /\ m.remaining \in Nat
    BY OrderFields
  <1>2. /\ d \in Wallet
        /\ d.usdcReserved = w.usdcReserved + MoneyIn(m.side, m.price, m.remaining)
        /\ d.ethReserved = w.ethReserved + LotsIn(m.side, m.remaining)
        /\ d.usdc = w.usdc - MoneyIn(m.side, m.price, m.remaining)
        /\ d.eth = w.eth - LotsIn(m.side, m.remaining)
    BY <1>1, ReserveFields
  <1>3. /\ w.usdc \in Int /\ w.eth \in Int
        /\ w.usdc >= MoneyIn(m.side, m.price, m.remaining) /\ w.eth >= LotsIn(m.side, m.remaining)
        /\ MoneyIn(m.side, m.price, m.remaining) \in Int /\ LotsIn(m.side, m.remaining) \in Int
    <2>1. PICK n \in Nat : n = m.price * m.remaining
      BY <1>1
    <2>2. QED
      BY <1>1, <2>1 DEF Covers, MoneyIn, LotsIn, Wallet, Solvent
  <1>4. QED
    BY <1>2, <1>3 DEF Solvent

LEMMA AcceptKeepsWalletsExact ==
  ASSUME TypeInv, WalletsExact, NEW r \in Requests, NEW now \in Time, AcceptOrder(r, now)
  PROVE  WalletsExact'
  <1> DEFINE m == NewOrder(r, now)
  <1>1. /\ pc = "idle" /\ pc' = "match" /\ cur' = m /\ orders' = orders
        /\ EnforceBalances => Covers(balances[r.account], r.side, r.price, r.qty)
        /\ balances' = IF EnforceBalances
                       THEN [balances EXCEPT
                               ![r.account] = Reserve(@, r.side, r.price, r.qty)]
                       ELSE balances
    BY DEF AcceptOrder, Intake
  <1>2. /\ m \in Order /\ m.account = r.account /\ m.side = r.side /\ m.price = r.price
        /\ m.remaining = r.qty
    BY NewOrderType DEF NewOrder, TypeInv
  <1>3. Incoming = None /\ Incoming' = m /\ Alive' = Alive
    BY <1>1 DEF Incoming, Alive, AliveOf, Live
  <1>4. /\ Alive \in [OrderId -> MaybeOrder] /\ balances \in [Account -> Wallet]
        /\ m.account \in Account
    BY <1>2, AliveFacts, OrderFields DEF TypeInv, TypeOK, MaybeOrder
  <1> HIDE DEF m
  <1>5. CASE ~EnforceBalances
    BY <1>1, <1>5, WalletsFollow DEF WalletsExact
  <1>6. CASE EnforceBalances
    <2>1. balances' = [balances EXCEPT
             ![m.account] = Reserve(@, m.side, m.price, m.remaining)]
      BY <1>1, <1>2, <1>6
    <2>2. ASSUME NEW a \in Account
          PROVE  Solvent(balances'[a]) /\ Backed(balances'[a], Alive', Incoming', a)
      <3>1. PICK w, d : w = balances[a] /\ d = balances'[a] /\ w \in Wallet
        BY <1>4
      <3>2. Solvent(w) /\ Backed(w, Alive, None, a)
        BY <1>3, <1>6, <3>1 DEF WalletsExact
      <3>3. /\ Solvent(d)
            /\ d.usdcReserved = w.usdcReserved
                 + (IF a = m.account THEN MoneyIn(m.side, m.price, m.remaining) ELSE 0)
            /\ d.ethReserved = w.ethReserved
                 + (IF a = m.account THEN LotsIn(m.side, m.remaining) ELSE 0)
        <4>1. CASE a = m.account
          BY <1>1, <1>2, <1>4, <1>6, <2>1, <3>1, <3>2, <4>1, OrderReservedFor
        <4>2. CASE a # m.account
          BY <1>4, <2>1, <3>1, <3>2, <4>2 DEF Wallet
        <4>3. QED
          BY <4>1, <4>2
      <3>4. Backed(d, Alive, m, a)
        BY <1>2, <1>4, <3>2, <3>3, IncomingStarts
      <3>5. QED
        BY <1>3, <3>1, <3>3, <3>4
    <2>3. QED
      BY <2>2, WalletsFollow
  <1>7. QED
    BY <1>5, <1>6

(* Releasing what is left of an order empties its account's reservation    *)
(* for it.                                                                 *)
LEMMA ReleaseDrains ==
  ASSUME TypeInv, WalletsExact, EnforceBalances, NEW m \in Order,
         ReleaseFunds(m.account, m.side, m.price, m.remaining), NEW a \in Account
  PROVE  Solvent(balances'[a]) /\ Drained(balances'[a], balances[a], m, m.remaining, a)
  <1>1. m.side \in Side /\ m.price \in Nat /\ m.remaining \in Nat /\ m.account \in Account
    BY OrderFields
  <1>2. /\ balances \in [Account -> Wallet]
        /\ balances' = [balances EXCEPT ![m.account] = Release(@, m.side, m.price, m.remaining)]
    BY DEF ReleaseFunds, TypeInv, TypeOK
  <1>3. PICK w, d : w = balances[a] /\ d = balances'[a] /\ w \in Wallet
    BY <1>2
  <1>4. Solvent(w)
    BY <1>3 DEF WalletsExact
  <1>5. CASE a = m.account
    <2>1. d = Release(w, m.side, m.price, m.remaining)
      BY <1>1, <1>2, <1>3, <1>5
    <2>2. /\ d \in Wallet
          /\ d.usdcReserved = w.usdcReserved - MoneyIn(m.side, m.price, m.remaining)
          /\ d.ethReserved = w.ethReserved - LotsIn(m.side, m.remaining)
          /\ d.usdc = w.usdc + MoneyIn(m.side, m.price, m.remaining)
          /\ d.eth = w.eth + LotsIn(m.side, m.remaining)
      BY <1>1, <1>3, <2>1, ReleaseFields
    <2>3. MoneyIn(m.side, m.price, m.remaining) \in Nat /\ LotsIn(m.side, m.remaining) \in Nat
      <3>1. PICK n \in Nat : n = m.price * m.remaining
        BY <1>1
      <3>2. QED
        BY <1>1, <3>1 DEF MoneyIn, LotsIn
    <2>4. w.usdc \in Int /\ w.eth \in Int
      BY <1>3 DEF Wallet
    <2>5. Solvent(d)
      BY <1>4, <2>2, <2>3, <2>4 DEF Solvent
    <2>6. QED
      BY <1>3, <1>5, <2>2, <2>5 DEF Drained
  <1>6. CASE a # m.account
    BY <1>2, <1>3, <1>4, <1>6 DEF Wallet, Drained
  <1>7. QED
    BY <1>5, <1>6

LEMMA CancelKeepsWalletsExact ==
  ASSUME TypeInv, WalletsExact, pc # "match", pc' # "match",
         NEW id \in LiveIds, NEW now \in Time, CancelLive(id, now)
  PROVE  WalletsExact'
  <1>1. PICK m \in Order :
           /\ Alive[id] = m /\ id \in OrderId /\ None \in MaybeOrder
           /\ Alive' = Put(Alive, id, None)
           /\ ReleaseFunds(m.account, m.side, m.price, m.remaining)
    BY CancelStep
  <1>2. Incoming = None /\ Incoming' = None
    BY DEF Incoming
  <1>3. m.remaining \in Nat /\ m.remaining <= m.remaining /\ Less(None, m, m.remaining)
    BY OrderFields DEF Less
  <1>4. Alive \in [OrderId -> MaybeOrder]
    BY AliveFacts DEF TypeInv, MaybeOrder
  <1>5. CASE ~EnforceBalances
    BY <1>1, <1>5, WalletsFollow DEF ReleaseFunds, WalletsExact
  <1>6. CASE EnforceBalances
    <2>1. ASSUME NEW a \in Account
          PROVE  Solvent(balances'[a]) /\ Backed(balances'[a], Alive', Incoming', a)
      <3>1. Solvent(balances'[a]) /\ Drained(balances'[a], balances[a], m, m.remaining, a)
        BY <1>1, <1>6, ReleaseDrains
      <3>2. PICK w, d : w = balances[a] /\ d = balances'[a]
        OBVIOUS
      <3>3. Backed(w, Alive, None, a) /\ Drained(d, w, m, m.remaining, a)
        BY <1>2, <1>6, <3>1, <3>2 DEF WalletsExact
      <3>4. Backed(d, Put(Alive, id, None), None, a)
        BY <1>1, <1>3, <1>4, <3>3, BookShrinks
      <3>5. QED
        BY <1>1, <1>2, <3>1, <3>2, <3>4
    <2>2. QED
      BY <2>1, WalletsFollow
  <1>7. QED
    BY <1>5, <1>6

LEMMA FinishingKeepsWalletsExact ==
  ASSUME TypeInv, WalletsExact, FinishFilled \/ FinishResting \/ FinishCancelled
  PROVE  WalletsExact'
  <1>1. /\ pc = "match" /\ pc' = "idle" /\ cur \in Order
        /\ nextOrder \in OrderId /\ Alive[nextOrder] = None
        /\ FinishFilled \/ FinishCancelled => Alive' = Alive
        /\ FinishResting =>
              Alive' = Put(Alive, nextOrder, [cur EXCEPT !.status = RestingStatus(cur)])
    BY FinishFacts
  <1>2. /\ Incoming = cur /\ cur.remaining \in Nat /\ Alive \in [OrderId -> MaybeOrder]
        /\ None \in MaybeOrder
    BY <1>1, MatchedFacts
  <1>3. Incoming' = None
    BY <1>1 DEF Incoming
  <1>4. ASSUME FinishFilled \/ FinishResting, NEW a \in Account, EnforceBalances
        PROVE  Backed(balances'[a], Alive', None, a)
    <2>1. balances' = balances
      BY <1>4 DEF FinishFilled, FinishResting
    <2>2. PICK w : w = balances[a]
      OBVIOUS
    <2>3. Backed(w, Alive, cur, a)
      BY <1>2, <1>4, <2>2 DEF WalletsExact
    <2>4. CASE FinishFilled
      <3>1. cur.remaining = 0
        BY <2>4 DEF FinishFilled
      <3>2. 0 \in Nat /\ 0 <= cur.remaining /\ Less(None, cur, 0)
        BY <1>2, <3>1 DEF Less
      <3>3. Drained(w, w, cur, 0, a)
        <4>1. MoneyIn(cur.side, cur.price, 0) = 0 /\ LotsIn(cur.side, 0) = 0
          BY <1>1, OrderFields DEF MoneyIn, LotsIn
        <4>2. w.usdcReserved \in Int /\ w.ethReserved \in Int
          BY <2>2 DEF TypeInv, TypeOK, Wallet
        <4>3. QED
          BY <4>1, <4>2 DEF Drained
      <3>4. Backed(w, Alive, None, a)
        BY <1>1, <1>2, <2>3, <3>2, <3>3, IncomingShrinks
      <3>5. QED
        BY <1>1, <2>1, <2>2, <2>4, <3>4
    <2>5. CASE FinishResting
      <3> DEFINE o == [cur EXCEPT !.status = RestingStatus(cur)]
      <3>1. o \in MaybeOrder /\ Less(o, cur, 0) /\ Alive' = Put(Alive, nextOrder, o)
        BY <1>1, <1>2, <2>5 DEF Order, Status, RestingStatus, MaybeOrder, Less
      <3> HIDE DEF o
      <3>2. Backed(w, Put(Alive, nextOrder, o), None, a)
        BY <1>1, <1>2, <2>3, <3>1, BookTakesIn
      <3>3. QED
        BY <2>1, <2>2, <3>1, <3>2
    <2>6. QED
      BY <1>4, <2>4, <2>5
  <1>5. CASE FinishFilled \/ FinishResting
    BY <1>3, <1>4, <1>5, WalletsFollow DEF FinishFilled, FinishResting, WalletsExact
  <1>6. CASE FinishCancelled
    <2>1. ReleaseFunds(cur.account, cur.side, cur.price, cur.remaining) /\ Alive' = Alive
      BY <1>1, <1>6 DEF FinishCancelled
    <2>2. CASE ~EnforceBalances
      BY <2>1, <2>2, WalletsFollow DEF ReleaseFunds, WalletsExact
    <2>3. CASE EnforceBalances
      <3>1. cur.remaining <= cur.remaining /\ Less(None, cur, cur.remaining)
        BY <1>2 DEF Less
      <3>2. ASSUME NEW a \in Account
            PROVE  Solvent(balances'[a]) /\ Backed(balances'[a], Alive', Incoming', a)
        <4>1. Solvent(balances'[a]) /\ Drained(balances'[a], balances[a], cur, cur.remaining, a)
          BY <1>1, <2>1, <2>3, ReleaseDrains
        <4>2. PICK w, d : w = balances[a] /\ d = balances'[a]
          OBVIOUS
        <4>3. Backed(w, Alive, cur, a) /\ Drained(d, w, cur, cur.remaining, a)
          BY <1>2, <2>3, <4>1, <4>2 DEF WalletsExact
        <4>4. Backed(d, Alive, None, a)
          BY <1>1, <1>2, <3>1, <4>3, IncomingShrinks
        <4>5. QED
          BY <1>3, <2>1, <4>1, <4>2, <4>4
      <3>3. QED
        BY <3>2, WalletsFollow
    <2>4. QED
      BY <2>2, <2>3
  <1>7. QED
    BY <1>5, <1>6

(* Money that comes or goes is the available money only.                   *)
LEMMA MovesKeepWalletsExact ==
  ASSUME TypeInv, WalletsExact, NEW b \in Account, NEW x \in Amount, NEW y \in Amount,
         Deposit(b, x, y) \/ Withdraw(b, x, y)
  PROVE  WalletsExact'
  <1>1. /\ balances \in [Account -> Wallet] /\ x \in Nat /\ y \in Nat
    BY BookAssumption DEF TypeInv, TypeOK
  <1>2. Incoming' = Incoming /\ Alive' = Alive
    BY DEF Deposit, Withdraw, MoveFunds, Incoming, Alive, AliveOf, Live, indexVars, placeVars
  <1>3. ASSUME NEW a \in Account
        PROVE  /\ balances'[a].usdcReserved = balances[a].usdcReserved
               /\ balances'[a].ethReserved = balances[a].ethReserved
               /\ balances'[a].usdc >= 0 /\ balances'[a].eth >= 0
    <2>1. PICK w, d : w = balances[a] /\ d = balances'[a] /\ w \in Wallet
      BY <1>1
    <2>2. w.usdc >= 0 /\ w.eth >= 0 /\ w.usdc \in Int /\ w.eth \in Int
      BY <2>1 DEF WalletsExact, Solvent, Wallet
    <2>3. CASE a # b
      <3>1. d = w
        BY <1>1, <2>1, <2>3 DEF Deposit, Withdraw, MoveFunds
      <3>2. QED
        BY <2>1, <2>2, <3>1
    <2>4. CASE a = b /\ Deposit(b, x, y)
      BY <1>1, <2>1, <2>2, <2>4 DEF Deposit, MoveFunds, Wallet
    <2>5. CASE a = b /\ Withdraw(b, x, y)
      BY <1>1, <2>1, <2>2, <2>5 DEF Withdraw, MoveFunds, Wallet
    <2>6. QED
      BY <2>3, <2>4, <2>5
  <1>4. \A a \in Account : Solvent(balances'[a])
    BY <1>3 DEF WalletsExact, Solvent
  <1>5. EnforceBalances => \A a \in Account : Backed(balances'[a], Alive', Incoming', a)
    BY <1>2, <1>3 DEF WalletsExact, Backed
  <1>6. QED
    BY <1>4, <1>5, WalletsFollow

LEMMA StepKeepsWalletsExact ==
  TypeInv /\ LevelsExact /\ WalletsExact /\ [Next]_vars => WalletsExact'
  <1> SUFFICES ASSUME TypeInv, LevelsExact, WalletsExact, [Next]_vars
               PROVE  WalletsExact'
    OBVIOUS
  <1>1. ASSUME orders' = orders, balances' = balances, Incoming' = Incoming
        PROVE  WalletsExact'
    BY <1>1, SameWallets DEF Alive, AliveOf, Live
  <1>2. ASSUME NEW a \in Account, NEW x \in Amount, NEW y \in Amount,
               Deposit(a, x, y) \/ Withdraw(a, x, y)
        PROVE  WalletsExact'
    BY <1>2, MovesKeepWalletsExact
  <1>3. ASSUME NEW r \in Requests, NEW now \in Time, RejectOrder(r, now)
        PROVE  WalletsExact'
    BY <1>3, RejectLeaves, SameWallets DEF RejectOrder, moneyVars, placeVars, Incoming
  <1>4. ASSUME NEW r \in Requests, NEW now \in Time, AcceptOrder(r, now)
        PROVE  WalletsExact'
    BY <1>4, AcceptKeepsWalletsExact
  <1>5. ASSUME NEW a \in Account, NEW id \in OrderId, NEW now \in Time, Cancel(a, id, now)
        PROVE  WalletsExact'
    BY <1>5, CancelKeepsWalletsExact DEF Cancel
  <1>6. ASSUME NEW a \in Account, NEW id \in OrderId, NEW now \in Time,
               CancelRefused(a, id, now)
        PROVE  WalletsExact'
    BY <1>1, <1>6 DEF CancelRefused, indexVars, moneyVars, placeVars, Incoming
  <1>7. ASSUME NEW a \in Account, NEW now \in Time, CancelAll(a, now)
        PROVE  WalletsExact'
    BY <1>1, <1>7 DEF CancelAll, indexVars, moneyVars, placeVars, Incoming
  <1>8. ASSUME NEW px \in Price, DropStale(px) \/ StopAtOwn(px)
        PROVE  WalletsExact'
    BY <1>1, <1>8 DEF DropStale, StopAtOwn, indexVars, moneyVars, placeVars, Incoming
  <1>9. ASSUME NEW px \in Price, Fill(px)
        PROVE  WalletsExact'
    BY <1>9, FillKeepsWalletsExact
  <1>10. CASE FinishFilled \/ FinishResting \/ FinishCancelled
    BY <1>10, FinishingKeepsWalletsExact
  <1>11. CASE CancelNext
    <2>1. PICK id \in doomed.ids : CancelLive(id, doomed.now)
      BY <1>11 DEF CancelNext
    <2>2. id \in LiveIds /\ doomed.now \in Time /\ pc # "match" /\ pc' # "match"
      BY <1>11 DEF CancelNext, TypeInv, InProgress
    <2>3. QED
      BY <2>1, <2>2, CancelKeepsWalletsExact
  <1>12. CASE UNCHANGED vars
    BY <1>1, <1>12 DEF vars, indexVars, moneyVars, placeVars, Incoming
  <1>13. QED
    BY <1>2, <1>3, <1>4, <1>5, <1>6, <1>7, <1>8, <1>9, <1>10, <1>11, <1>12
       DEF Next, Command, Work

LEMMA InitWalletsExact == Init => WalletsExact
  <1> SUFFICES ASSUME Init, NEW a \in Account
               PROVE  Solvent(balances[a]) /\ Backed(balances[a], Alive, Incoming, a)
    BY DEF WalletsExact
  <1>1. \A id \in OrderId : Alive[id] = None
    BY DEF Init, Alive, AliveOf
  <1>2. Incoming = None /\ MoneyOf(None, a) = 0 /\ LotsOf(None, a) = 0
    BY DEF Init, Incoming, MoneyOf, LotsOf
  <1>3. /\ Weight(Alive, SideGroup(a, "buy"), "money") = 0
        /\ Weight(Alive, SideGroup(a, "sell"), "lots") = 0
    BY <1>1, NothingWeighsNothing
  <1>4. Fund[a].usdc \in Nat /\ Fund[a].eth \in Nat
    BY BookAssumption
  <1>5. /\ balances[a].usdc = Fund[a].usdc /\ balances[a].eth = Fund[a].eth
        /\ balances[a].usdcReserved = 0 /\ balances[a].ethReserved = 0
    BY DEF Init, Funding, EmptyWallet
  <1>6. QED
    BY <1>2, <1>3, <1>4, <1>5 DEF Solvent, Backed, MoneyBehind, LotsBehind

-----------------------------------------------------------------------------
(* No amount of a ledger but realised P&L goes below zero.                 *)
NothingOwed(l) ==
  /\ l.depositsUsdc >= 0 /\ l.depositsEth >= 0
  /\ l.withdrawalsUsdc >= 0 /\ l.withdrawalsEth >= 0
  /\ l.bought >= 0 /\ l.sold >= 0 /\ l.paid >= 0 /\ l.received >= 0
  /\ l.inventory >= 0 /\ l.cost >= 0 /\ l.soldFromDeposits >= 0 /\ l.trades >= 0

LedgersPositive == \A a \in Account : NothingOwed(ledgers[a])

LEMMA PartOfACost ==
  ASSUME NEW c \in Nat, NEW k \in Nat, NEW n \in Nat, 0 < n, k <= n
  PROVE  (c * k) \div n \in Nat /\ (c * k) \div n <= c
  <1>1. PICK p \in Nat, r \in Nat : p = c * k /\ r = c * n /\ p <= r /\ r \div n = c
    <2>1. c * k \in Nat /\ c * n \in Nat /\ c * k <= c * n
      OBVIOUS
    <2>2. (c * n) \div n = c
      BY WholeInventoryWholeCost
    <2>3. QED
      BY <2>1, <2>2
  <1>2. p \div n \in Nat /\ p \div n <= r \div n
    BY <1>1
  <1>3. QED
    BY <1>1, <1>2

LEMMA BuyKeepsPositive ==
  ASSUME NEW l \in Ledger, NEW px \in Nat, NEW q \in Nat, NothingOwed(l)
  PROVE  NothingOwed(RecordBuy(l, px, q))
  <1>1. PICK n \in Nat : n = px * q
    OBVIOUS
  <1>2. PICK b : b = RecordBuy(l, px, q)
    OBVIOUS
  <1>3. /\ b.inventory = l.inventory + q /\ b.cost = l.cost + n
        /\ b.bought = l.bought + q /\ b.paid = l.paid + n
        /\ b.sold = l.sold /\ b.received = l.received /\ b.trades = l.trades + 1
        /\ b.soldFromDeposits = l.soldFromDeposits
        /\ b.depositsUsdc = l.depositsUsdc /\ b.depositsEth = l.depositsEth
        /\ b.withdrawalsUsdc = l.withdrawalsUsdc /\ b.withdrawalsEth = l.withdrawalsEth
    BY <1>1, <1>2 DEF RecordBuy, Ledger
  <1>4. /\ l.inventory \in Int /\ l.cost \in Int /\ l.bought \in Int /\ l.paid \in Int
        /\ l.trades \in Int
    BY DEF Ledger
  <1>5. NothingOwed(b)
    BY <1>3, <1>4 DEF NothingOwed
  <1>6. QED
    BY <1>2, <1>5

LEMMA SellKeepsPositive ==
  ASSUME NEW l \in Ledger, NEW px \in Nat, NEW q \in Nat, NothingOwed(l)
  PROVE  NothingOwed(RecordSell(l, px, q))
  <1>1. /\ l.inventory \in Int /\ l.cost \in Int /\ l.sold \in Int /\ l.received \in Int
        /\ l.trades \in Int /\ l.soldFromDeposits \in Int
        /\ l.inventory >= 0 /\ l.cost >= 0
    BY DEF Ledger, NothingOwed
  <1>2. PICK n \in Nat, k \in Nat, removed \in Nat :
          /\ n = px * q /\ k = SmallerOf(q, l.inventory) /\ k <= q /\ k <= l.inventory
          /\ removed = CostRemoved(l, k) /\ removed <= l.cost
    <2>1. PICK k \in Nat : k = SmallerOf(q, l.inventory) /\ k <= q /\ k <= l.inventory
      BY <1>1 DEF SmallerOf
    <2>2. CostRemoved(l, k) \in Nat /\ CostRemoved(l, k) <= l.cost
      <3>1. CASE k > 0
        <4>1. PICK c \in Nat, i \in Nat : c = l.cost /\ i = l.inventory /\ 0 < i /\ k <= i
          BY <1>1, <2>1, <3>1
        <4>2. (c * k) \div i \in Nat /\ (c * k) \div i <= c
          BY <4>1, PartOfACost
        <4>3. CostRemoved(l, k) = (c * k) \div i
          BY <3>1, <4>1 DEF CostRemoved
        <4>4. QED
          BY <4>1, <4>2, <4>3
      <3>2. CASE ~(k > 0)
        BY <1>1, <3>2 DEF CostRemoved
      <3>3. QED
        BY <3>1, <3>2
    <2>3. px * q \in Nat
      OBVIOUS
    <2>4. QED
      BY <2>1, <2>2, <2>3
  <1>3. PICK s : s = RecordSell(l, px, q)
    OBVIOUS
  <1>4. /\ s.sold = l.sold + q /\ s.received = l.received + n /\ s.trades = l.trades + 1
        /\ s.cost = l.cost - removed /\ s.inventory = l.inventory - k
        /\ s.soldFromDeposits = l.soldFromDeposits + (q - k)
        /\ s.bought = l.bought /\ s.paid = l.paid
        /\ s.depositsUsdc = l.depositsUsdc /\ s.depositsEth = l.depositsEth
        /\ s.withdrawalsUsdc = l.withdrawalsUsdc /\ s.withdrawalsEth = l.withdrawalsEth
    <2> DEFINE v1 == l.sold + q
               v2 == l.received + n
               v3 == l.trades + 1
               v4 == l.pnl + (px * k - removed)
               v5 == l.cost - removed
               v6 == l.inventory - k
               v7 == l.soldFromDeposits + (q - k)
    <2>1. s = [l EXCEPT !.sold = v1, !.received = v2, !.trades = v3, !.pnl = v4,
                        !.cost = v5, !.inventory = v6, !.soldFromDeposits = v7]
      BY <1>2, <1>3, Zenon DEF RecordSell
    <2> HIDE DEF v1, v2, v3, v4, v5, v6, v7
    <2>2. /\ s.sold = v1 /\ s.received = v2 /\ s.trades = v3 /\ s.cost = v5
          /\ s.inventory = v6 /\ s.soldFromDeposits = v7
          /\ s.bought = l.bought /\ s.paid = l.paid
          /\ s.depositsUsdc = l.depositsUsdc /\ s.depositsEth = l.depositsEth
          /\ s.withdrawalsUsdc = l.withdrawalsUsdc /\ s.withdrawalsEth = l.withdrawalsEth
      BY <2>1 DEF Ledger
    <2>3. QED
      BY <2>2 DEF v1, v2, v3, v5, v6, v7
  <1>5. NothingOwed(s)
    BY <1>1, <1>2, <1>4 DEF NothingOwed
  <1>6. QED
    BY <1>3, <1>5

LEMMA MovesKeepPositive ==
  ASSUME TypeInv, LedgersPositive, NEW a \in Account, NEW x \in Amount, NEW y \in Amount,
         Deposit(a, x, y) \/ Withdraw(a, x, y)
  PROVE  LedgersPositive'
  <1>1. /\ ledgers \in [Account -> Ledger] /\ x \in Nat /\ y \in Nat
    BY BookAssumption DEF TypeInv, TypeOK
  <1>2. PICK l, d : l = ledgers[a] /\ d = ledgers'[a] /\ l \in Ledger /\ NothingOwed(l)
    BY <1>1 DEF LedgersPositive
  <1>3. \/ d = [l EXCEPT !.depositsUsdc = @ + x, !.depositsEth = @ + y]
        \/ d = [l EXCEPT !.withdrawalsUsdc = @ + x, !.withdrawalsEth = @ + y]
    BY <1>1, <1>2 DEF Deposit, Withdraw, MoveFunds
  <1>4. \A b \in Account \ {a} : ledgers'[b] = ledgers[b]
    BY <1>1 DEF Deposit, Withdraw, MoveFunds
  <1>5. NothingOwed(d)
    <2>1. /\ l.depositsUsdc \in Int /\ l.depositsEth \in Int
          /\ l.withdrawalsUsdc \in Int /\ l.withdrawalsEth \in Int
      BY <1>2 DEF Ledger
    <2>2. PICK p, r, u, v \in Int : p = l.depositsUsdc + x /\ r = l.depositsEth + y
                                    /\ u = l.withdrawalsUsdc + x /\ v = l.withdrawalsEth + y
      BY <1>1, <2>1
    <2>3. p >= 0 /\ r >= 0 /\ u >= 0 /\ v >= 0
      BY <1>1, <1>2, <2>1, <2>2 DEF NothingOwed
    <2>4. \/ d = [l EXCEPT !.depositsUsdc = p, !.depositsEth = r]
          \/ d = [l EXCEPT !.withdrawalsUsdc = u, !.withdrawalsEth = v]
      BY <1>3, <2>2
    <2>5. QED
      BY <1>2, <2>3, <2>4 DEF NothingOwed, Ledger
  <1>6. \A b \in Account : NothingOwed(ledgers'[b])
    BY <1>2, <1>4, <1>5 DEF LedgersPositive
  <1>7. QED
    BY <1>6 DEF LedgersPositive

LEMMA FillKeepsPositive ==
  ASSUME TypeInv, LedgersPositive, NEW px \in Price, Fill(px)
  PROVE  LedgersPositive'
  <1> DEFINE me == cur.account
             other == orders[FrontEntry(px)].account
             q == SmallerOf(cur.remaining, orders[FrontEntry(px)].remaining)
             side == cur.side
  <1>1. /\ me \in Account /\ other \in Account /\ other # me
        /\ px \in Nat /\ q \in Nat
    BY FillContext, BookAssumption
  <1>2. ledgers \in [Account -> Ledger]
    BY DEF TypeInv, TypeOK
  <1>3. RecordFill(other, px, q)
    BY DEF Fill
  <1>4. /\ ledgers'[me] \in {RecordBuy(ledgers[me], px, q), RecordSell(ledgers[me], px, q)}
        /\ ledgers'[other] \in {RecordBuy(ledgers[other], px, q),
                                RecordSell(ledgers[other], px, q)}
        /\ \A b \in Account \ {me, other} : ledgers'[b] = ledgers[b]
    BY <1>1, <1>2, <1>3 DEF RecordFill
  <1> HIDE DEF me, other, q
  <1>5. ASSUME NEW b \in Account
        PROVE  /\ NothingOwed(RecordBuy(ledgers[b], px, q))
               /\ NothingOwed(RecordSell(ledgers[b], px, q))
    BY <1>1, <1>2, BuyKeepsPositive, SellKeepsPositive DEF LedgersPositive
  <1>6. NothingOwed(ledgers'[me]) /\ NothingOwed(ledgers'[other])
    BY <1>1, <1>4, <1>5
  <1>7. QED
    BY <1>4, <1>6 DEF LedgersPositive

LEMMA StepKeepsPositive == TypeInv /\ LedgersPositive /\ [Next]_vars => LedgersPositive'
  <1> SUFFICES ASSUME TypeInv, LedgersPositive, [Next]_vars
               PROVE  LedgersPositive'
    OBVIOUS
  <1>1. ASSUME ledgers' = ledgers
        PROVE  LedgersPositive'
    BY <1>1 DEF LedgersPositive
  <1>2. ASSUME NEW a \in Account, NEW x \in Amount, NEW y \in Amount,
               Deposit(a, x, y) \/ Withdraw(a, x, y)
        PROVE  LedgersPositive'
    BY <1>2, MovesKeepPositive
  <1>3. ASSUME NEW r \in Requests, NEW now \in Time,
               RejectOrder(r, now) \/ AcceptOrder(r, now)
        PROVE  LedgersPositive'
    BY <1>1, <1>3 DEF RejectOrder, AcceptOrder, moneyVars
  <1>4. ASSUME NEW a \in Account, NEW id \in OrderId, NEW now \in Time,
               Cancel(a, id, now) \/ CancelRefused(a, id, now)
        PROVE  LedgersPositive'
    BY <1>1, <1>4 DEF Cancel, CancelLive, CancelRefused, moneyVars
  <1>5. ASSUME NEW a \in Account, NEW now \in Time, CancelAll(a, now)
        PROVE  LedgersPositive'
    BY <1>1, <1>5 DEF CancelAll, moneyVars
  <1>6. ASSUME NEW px \in Price, DropStale(px) \/ StopAtOwn(px)
        PROVE  LedgersPositive'
    BY <1>1, <1>6 DEF DropStale, StopAtOwn, moneyVars
  <1>7. ASSUME NEW px \in Price, Fill(px)
        PROVE  LedgersPositive'
    BY <1>7, FillKeepsPositive
  <1>8. CASE FinishFilled \/ FinishResting \/ FinishCancelled \/ UNCHANGED vars
    BY <1>1, <1>8 DEF FinishFilled, FinishResting, FinishCancelled, Conclude,
                      moneyVars, vars
  <1>9. CASE CancelNext
    BY <1>1, <1>9 DEF CancelNext, CancelLive
  <1>10. QED
    BY <1>2, <1>3, <1>4, <1>5, <1>6, <1>7, <1>8, <1>9 DEF Next, Command, Work

LEMMA InitPositive == Init => LedgersPositive
  <1> SUFFICES ASSUME Init, NEW a \in Account
               PROVE  NothingOwed(ledgers[a])
    BY DEF LedgersPositive
  <1>1. Fund[a].usdc \in Nat /\ Fund[a].eth \in Nat
    BY BookAssumption
  <1>2. ledgers[a] = [EmptyLedger EXCEPT !.depositsUsdc = Fund[a].usdc,
                                         !.depositsEth = Fund[a].eth]
    BY DEF Init
  <1>3. QED
    BY <1>1, <1>2 DEF NothingOwed, EmptyLedger

-----------------------------------------------------------------------------
(* The feed.                                                               *)
MirrorExact ==
  \A id \in OrderId :
    mirror[id] = IF pc = "match" /\ id = nextOrder THEN cur.remaining ELSE LeftOf(Alive[id])

LEMMA MirrorFollows ==
  ASSUME \A id \in OrderId :
           mirror'[id] = IF pc' = "match" /\ id = nextOrder' THEN cur'.remaining
                         ELSE LeftOf(Alive'[id])
  PROVE  MirrorExact'
  BY DEF MirrorExact

(* What a client makes of an event.                                        *)
LEMMA WhatIsTold ==
  ASSUME NEW m \in [OrderId -> Int], NEW id \in OrderId, NEW maker \in OrderId \cup {0},
         NEW q \in Int, NEW n
  PROVE  /\ Told(m, EventOf("accepted", id, maker, q, n)) = [m EXCEPT ![id] = q]
         /\ Told(m, EventOf("cancelled", id, maker, q, n)) = [m EXCEPT ![id] = 0]
         /\ Told(m, EventOf("traded", id, maker, q, n))
              = [x \in OrderId |-> IF x \in {id, maker} THEN m[x] - q ELSE m[x]]
         /\ Told(m, EventOf("rejected", id, maker, q, n)) = m
         /\ Told(m, EventOf("funds", 0, 0, 0, n)) = m
  BY DEF Told, EventOf

LEMMA FillKeepsMirrorExact ==
  ASSUME TypeInv, LevelsExact, MirrorExact, NEW px \in Price, Fill(px)
  PROVE  MirrorExact'
  <1> DEFINE mid == FrontEntry(px)
  <1>1. PICK o \in MaybeOrder, m \in Order, q \in Nat :
           /\ m = orders[mid] /\ m = Alive[mid] /\ mid \in OrderId /\ mid # nextOrder
           /\ q = SmallerOf(cur.remaining, m.remaining)
           /\ Shrunk(o, m, q) /\ Alive' = Put(Alive, mid, o)
    BY FillStep
  <1>2. /\ pc = "match" /\ pc' = pc /\ nextOrder' = nextOrder
        /\ cur' = [cur EXCEPT !.remaining = @ - q]
        /\ EmitNext("traded", nextOrder, mid, q)
    BY <1>1 DEF Fill, Matching
  <1>3. cur \in Order /\ nextOrder \in OrderId /\ mirror \in [OrderId -> Int]
        /\ cur.remaining \in Nat /\ m.remaining \in Nat /\ m # None
        /\ Alive \in [OrderId -> MaybeOrder]
    BY <1>2, MatchedFacts, OrderFields, AliveFacts DEF TypeInv, TypeOK, InProgress
  <1> HIDE DEF mid
  <1>4. \A x \in OrderId : mirror'[x] = IF x \in {nextOrder, mid} THEN mirror[x] - q ELSE mirror[x]
    <2>1. PICK n : mirror' = Told(mirror, EventOf("traded", nextOrder, mid, q, n))
      BY <1>2 DEF EmitNext
    <2>2. nextOrder \in OrderId /\ mid \in OrderId \cup {0} /\ q \in Int
      BY <1>1, <1>3
    <2>3. mirror' = [x \in OrderId |-> IF x \in {nextOrder, mid} THEN mirror[x] - q ELSE mirror[x]]
      BY <1>3, <2>1, <2>2, WhatIsTold
    <2>4. QED
      BY <2>3
  <1>5. cur'.remaining = cur.remaining - q
    BY <1>2, <1>3 DEF Order
  <1>6. /\ Alive'[mid] = o /\ \A y \in OrderId \ {mid} : Alive'[y] = Alive[y]
    BY <1>1, <1>3, PutFacts
  <1>7. LeftOf(o) = m.remaining - q /\ LeftOf(Alive[mid]) = m.remaining
    BY <1>1, <1>3 DEF Shrunk, LeftOf
  <1>8. ASSUME NEW x \in OrderId
        PROVE  mirror'[x] = IF pc' = "match" /\ x = nextOrder' THEN cur'.remaining
                            ELSE LeftOf(Alive'[x])
    BY <1>1, <1>2, <1>4, <1>5, <1>6, <1>7 DEF MirrorExact
  <1>9. QED
    BY <1>8, MirrorFollows

LEMMA CancelKeepsMirrorExact ==
  ASSUME TypeInv, MirrorExact, pc # "match", pc' # "match",
         NEW id \in LiveIds, NEW now \in Time, CancelLive(id, now),
         EmitFirst("cancelled", id, 0) \/ EmitNext("cancelled", id, 0, 0)
  PROVE  MirrorExact'
  <1>1. PICK m \in Order :
           Alive[id] = m /\ id \in OrderId /\ None \in MaybeOrder /\ Alive' = Put(Alive, id, None)
    BY CancelStep
  <1>2. Alive \in [OrderId -> MaybeOrder] /\ mirror \in [OrderId -> Int]
    BY AliveFacts DEF TypeInv, TypeOK, MaybeOrder
  <1>3. mirror' = [mirror EXCEPT ![id] = 0]
    <2>1. PICK n : mirror' = Told(mirror, EventOf("cancelled", id, 0, 0, n))
      BY DEF EmitFirst, EmitNext
    <2>2. QED
      BY <1>1, <1>2, <2>1 DEF Told, EventOf
  <1>4. Alive'[id] = None /\ \A y \in OrderId \ {id} : Alive'[y] = Alive[y]
    BY <1>1, <1>2, PutFacts
  <1>5. LeftOf(None) = 0
    BY DEF LeftOf
  <1>6. \A x \in OrderId : mirror'[x] = LeftOf(Alive'[x])
    BY <1>1, <1>2, <1>3, <1>4, <1>5 DEF MirrorExact
  <1>7. QED
    BY <1>6, MirrorFollows

LEMMA FinishingKeepsMirrorExact ==
  ASSUME TypeInv, MirrorExact, FinishFilled \/ FinishResting \/ FinishCancelled
  PROVE  MirrorExact'
  <1>1. /\ pc = "match" /\ pc' = "idle" /\ nextOrder \in OrderId /\ Alive[nextOrder] = None
        /\ cur \in Order
        /\ FinishFilled \/ FinishCancelled => Alive' = Alive
        /\ FinishResting =>
              Alive' = Put(Alive, nextOrder, [cur EXCEPT !.status = RestingStatus(cur)])
    BY FinishFacts
  <1>2. /\ cur.remaining \in Nat /\ Alive \in [OrderId -> MaybeOrder]
        /\ mirror \in [OrderId -> Int]
    BY <1>1, MatchedFacts DEF TypeInv, TypeOK
  <1>3. LeftOf(None) = 0
    BY DEF LeftOf
  <1>4. CASE FinishFilled
    BY <1>1, <1>3, <1>4, MirrorFollows DEF FinishFilled, eventVars, MirrorExact
  <1>5. CASE FinishCancelled
    BY <1>1, <1>2, <1>3, <1>5, MirrorFollows DEF FinishCancelled, EmitNext, Told, EventOf,
       MirrorExact
  <1>6. CASE FinishResting
    <2> DEFINE o == [cur EXCEPT !.status = RestingStatus(cur)]
    <2>1. o \in MaybeOrder /\ o # None /\ o.remaining = cur.remaining
      BY <1>1, OrderIsNotNone DEF Order, Status, RestingStatus, MaybeOrder
    <2>2. mirror' = mirror /\ Alive' = Put(Alive, nextOrder, o)
      BY <1>1, <1>6 DEF FinishResting, eventVars
    <2> HIDE DEF o
    <2>3. Alive'[nextOrder] = o /\ \A y \in OrderId \ {nextOrder} : Alive'[y] = Alive[y]
      BY <1>1, <1>2, <2>1, <2>2, PutFacts
    <2>4. LeftOf(o) = cur.remaining
      BY <2>1 DEF LeftOf
    <2>5. \A x \in OrderId : mirror'[x] = LeftOf(Alive'[x])
      BY <1>1, <2>2, <2>3, <2>4 DEF MirrorExact
    <2>6. QED
      BY <1>1, <2>5, MirrorFollows
  <1>7. QED
    BY <1>4, <1>5, <1>6

LEMMA StepKeepsMirrorExact ==
  TypeInv /\ LevelsExact /\ MirrorExact /\ [Next]_vars => MirrorExact'
  <1> SUFFICES ASSUME TypeInv, LevelsExact, MirrorExact, [Next]_vars
               PROVE  MirrorExact'
    OBVIOUS
  <1>0. mirror \in [OrderId -> Int]
    BY DEF TypeInv, TypeOK
  <1>1. ASSUME Alive' = Alive, mirror' = mirror,
               \/ pc' # "match" /\ pc # "match"
               \/ pc' = pc /\ cur' = cur /\ nextOrder' = nextOrder
        PROVE  MirrorExact'
    BY <1>1, MirrorFollows DEF MirrorExact
  <1>2. ASSUME orders' = orders
        PROVE  Alive' = Alive
    BY <1>2 DEF Alive, AliveOf, Live
  <1>3. ASSUME NEW a \in Account, NEW x \in Amount, NEW y \in Amount,
               Deposit(a, x, y) \/ Withdraw(a, x, y)
        PROVE  MirrorExact'
    BY <1>1, <1>2, <1>3 DEF Deposit, Withdraw, MoveFunds, indexVars, EmitFirst, Told, EventOf
  <1>4. ASSUME NEW r \in Requests, NEW now \in Time, RejectOrder(r, now)
        PROVE  MirrorExact'
    BY <1>1, <1>4, RejectLeaves DEF RejectOrder, Intake, EmitFirst, Told, EventOf
  <1>5. ASSUME NEW r \in Requests, NEW now \in Time, AcceptOrder(r, now)
        PROVE  MirrorExact'
    BY <1>0, <1>2, <1>5, MirrorFollows DEF AcceptOrder, Intake, NewOrder, EmitFirst, Told,
       EventOf, MirrorExact
  <1>6. ASSUME NEW a \in Account, NEW id \in OrderId, NEW now \in Time, Cancel(a, id, now)
        PROVE  MirrorExact'
    BY <1>6, CancelKeepsMirrorExact DEF Cancel
  <1>7. ASSUME NEW a \in Account, NEW id \in OrderId, NEW now \in Time,
               CancelRefused(a, id, now)
        PROVE  MirrorExact'
    BY <1>1, <1>2, <1>7 DEF CancelRefused, indexVars, placeVars, eventVars
  <1>8. ASSUME NEW a \in Account, NEW now \in Time, CancelAll(a, now)
        PROVE  MirrorExact'
    BY <1>1, <1>2, <1>8 DEF CancelAll, indexVars, placeVars
  <1>9. ASSUME NEW px \in Price, DropStale(px) \/ StopAtOwn(px)
        PROVE  MirrorExact'
    BY <1>1, <1>2, <1>9 DEF DropStale, StopAtOwn, indexVars, placeVars, eventVars
  <1>10. ASSUME NEW px \in Price, Fill(px)
         PROVE  MirrorExact'
    BY <1>10, FillKeepsMirrorExact
  <1>11. CASE FinishFilled \/ FinishResting \/ FinishCancelled
    BY <1>11, FinishingKeepsMirrorExact
  <1>12. CASE CancelNext
    <2>1. PICK id \in doomed.ids : CancelLive(id, doomed.now) /\ EmitNext("cancelled", id, 0, 0)
      BY <1>12 DEF CancelNext
    <2>2. id \in LiveIds /\ doomed.now \in Time /\ pc # "match" /\ pc' # "match"
      BY <1>12 DEF CancelNext, TypeInv, InProgress
    <2>3. QED
      BY <2>1, <2>2, CancelKeepsMirrorExact
  <1>13. CASE UNCHANGED vars
    BY <1>1, <1>2, <1>13 DEF vars, indexVars, placeVars, eventVars
  <1>14. QED
    BY <1>3, <1>4, <1>5, <1>6, <1>7, <1>8, <1>9, <1>10, <1>11, <1>12, <1>13
       DEF Next, Command, Work

LEMMA InitMirrorExact == Init => MirrorExact
  <1> SUFFICES ASSUME Init
               PROVE  MirrorExact
    OBVIOUS
  <1>1. \A id \in OrderId : Alive[id] = None
    BY DEF Init, Alive, AliveOf
  <1>2. QED
    BY <1>1 DEF Init, MirrorExact, LeftOf

(* Someone who applies the events of every command to a picture of open    *)
(* quantities, and looks at nothing else, has the open quantity of every   *)
(* order whenever no order is half placed: place_order, cancel and         *)
(* cancel_all tell every change of a resting order, under numbers that     *)
(* follow each other.                                                      *)
THEOREM FeedIsFaithful == Spec => []FeedTellsTheBook
  <1>1. Spec => []MirrorExact
    <2>1. TypeInv /\ LevelsExact /\ [Next]_vars => LevelsExact'
      BY StepKeepsLevelsExact
    <2>2. QED
      BY <2>1, InitLevelsExact, InitMirrorExact, StepKeepsMirrorExact, TypeInvariant, PTL DEF Spec
  <1>2. TypeInv /\ MirrorExact /\ FeedIsContiguous => FeedTellsTheBook
    <2> SUFFICES ASSUME TypeInv, MirrorExact, FeedIsContiguous, pc # "match", NEW id \in OrderId
                 PROVE  mirror[id] = IF id \in LiveIds THEN orders[id].remaining ELSE 0
      BY DEF FeedTellsTheBook
    <2>1. mirror[id] = LeftOf(Alive[id])
      BY DEF MirrorExact
    <2>2. /\ Alive[id] # None <=> id \in LiveIds
          /\ id \in LiveIds => Alive[id] = orders[id]
      BY AliveFacts DEF TypeInv
    <2>3. QED
      BY <2>1, <2>2 DEF LeftOf
  <1>3. QED
    BY <1>1, <1>2, TypeInvariant, FeedHasNoGap, PTL

-----------------------------------------------------------------------------
(* Commitments.                                                            *)
PartsExact ==
  /\ pc = "match" => cur.remaining <= cur.qty
  /\ \A id \in OrderId : fillIds[id].filled >= 0

LEMMA PartsFollow ==
  ASSUME pc' = "match" => cur'.remaining <= cur'.qty,
         \A id \in OrderId : fillIds'[id].filled >= 0
  PROVE  PartsExact'
  BY DEF PartsExact

LEMMA RetentionKeepsFilled ==
  ASSUME NEW os, NEW ai, NEW ci, NEW fi, NEW cl, NEW pl, NEW now,
         EnforceRetention(os, ai, ci, fi, cl, pl, now),
         \A id \in OrderId : fi[id].filled >= 0
  PROVE  \A id \in OrderId : fillIds'[id].filled >= 0
  <1>1. PICK gone : fillIds' = Without(fi, gone, NoFills)
    BY DEF EnforceRetention
  <1>2. QED
    BY <1>1 DEF Without, NoFills

LEMMA FinishingKeepsParts ==
  ASSUME TypeInv, PartsExact, NEW o \in Order, o.remaining = cur.remaining, o.qty = cur.qty,
         NEW extra, Conclude(o, extra), pc = "match"
  PROVE  PartsExact'
  <1> DEFINE fi == IF curFills = <<>> THEN fillIds
                      ELSE [fillIds EXCEPT ![nextOrder] =
                              [filled |-> o.qty - o.remaining, ids |-> curFills]]
             os == [orders EXCEPT ![nextOrder] = o]
             pl == [placed EXCEPT ![nextOrder] = [order |-> o, fills |-> curFills]]
             cl == closed \o extra
  <1>1. pc' = "idle" /\ EnforceRetention(os, byAccount, byClientId, fi, cl, pl, lastNow)
    BY DEF Conclude
  <1>2. \A id \in OrderId : fi[id].filled >= 0
    <2>1. o.qty - o.remaining >= 0
      BY OrderFields DEF PartsExact
    <2>2. fillIds \in [OrderId -> FillList]
      BY DEF TypeInv, TypeOK
    <2>3. PICK k : k = o.qty - o.remaining /\ k >= 0
      BY <2>1
    <2>4. fi = IF curFills = <<>> THEN fillIds
               ELSE [fillIds EXCEPT ![nextOrder] = [filled |-> k, ids |-> curFills]]
      BY <2>3
    <2> HIDE DEF fi
    <2>5. QED
      BY <2>2, <2>3, <2>4 DEF PartsExact
  <1> HIDE DEF fi, os, pl, cl
  <1>3. \A id \in OrderId : fillIds'[id].filled >= 0
    BY <1>1, <1>2, RetentionKeepsFilled
  <1>4. QED
    BY <1>1, <1>3, PartsFollow

LEMMA CancelKeepsParts ==
  ASSUME TypeInv, PartsExact, pc' # "match", NEW id, NEW now, CancelLive(id, now)
  PROVE  PartsExact'
  BY RetentionKeepsFilled, PartsFollow DEF CancelLive, PartsExact

LEMMA StepKeepsParts == TypeInv /\ PartsExact /\ [Next]_vars => PartsExact'
  <1> SUFFICES ASSUME TypeInv, PartsExact, [Next]_vars
               PROVE  PartsExact'
    OBVIOUS
  <1>1. ASSUME fillIds' = fillIds, pc' = "match" => pc = "match" /\ cur' = cur
        PROVE  PartsExact'
    BY <1>1 DEF PartsExact
  <1>2. ASSUME NEW a \in Account, NEW x \in Amount, NEW y \in Amount,
               Deposit(a, x, y) \/ Withdraw(a, x, y)
        PROVE  PartsExact'
    BY <1>1, <1>2 DEF Deposit, Withdraw, MoveFunds, indexVars, placeVars
  <1>3. ASSUME NEW r \in Requests, NEW now \in Time, RejectOrder(r, now)
        PROVE  PartsExact'
    BY <1>3, RetentionKeepsFilled, PartsFollow DEF RejectOrder, Intake, PartsExact
  <1>4. ASSUME NEW r \in Requests, NEW now \in Time, AcceptOrder(r, now)
        PROVE  PartsExact'
    <2>1. fillIds' = fillIds /\ cur' = NewOrder(r, now)
      BY <1>4 DEF AcceptOrder
    <2>2. cur'.remaining = r.qty /\ cur'.qty = r.qty /\ r.qty \in Int
      <3>1. NewOrder(r, now) \in Order /\ NewOrder(r, now).remaining = r.qty
            /\ NewOrder(r, now).qty = r.qty
        BY NewOrderType DEF NewOrder, TypeInv
      <3>2. QED
        BY <2>1, <3>1, OrderFields
    <2>3. QED
      BY <2>1, <2>2, PartsFollow DEF PartsExact
  <1>5. ASSUME NEW a \in Account, NEW id \in OrderId, NEW now \in Time, Cancel(a, id, now)
        PROVE  PartsExact'
    BY <1>5, CancelKeepsParts DEF Cancel
  <1>6. ASSUME NEW a \in Account, NEW id \in OrderId, NEW now \in Time,
               CancelRefused(a, id, now)
        PROVE  PartsExact'
    BY <1>1, <1>6 DEF CancelRefused, indexVars, placeVars
  <1>7. ASSUME NEW a \in Account, NEW now \in Time, CancelAll(a, now)
        PROVE  PartsExact'
    BY <1>1, <1>7 DEF CancelAll, indexVars, placeVars
  <1>8. ASSUME NEW px \in Price, DropStale(px) \/ StopAtOwn(px)
        PROVE  PartsExact'
    BY <1>1, <1>8 DEF DropStale, StopAtOwn, indexVars, placeVars
  <1>9. ASSUME NEW px \in Price, Fill(px)
        PROVE  PartsExact'
    <2>1. PICK q : /\ q = SmallerOf(cur.remaining, orders[FrontEntry(px)].remaining)
                   /\ cur' = [cur EXCEPT !.remaining = @ - q]
                   /\ fillIds' = fillIds /\ pc = "match"
      BY <1>9 DEF Fill, Matching
    <2>2. cur \in Order /\ q \in Nat
      BY <1>9, <2>1, FillContext, MatchedFacts
    <2>3. cur'.remaining = cur.remaining - q /\ cur'.qty = cur.qty
      BY <2>1, <2>2 DEF Order
    <2>4. cur.remaining <= cur.qty /\ cur.remaining \in Int /\ cur.qty \in Int
      BY <2>1, <2>2, OrderFields DEF PartsExact
    <2>5. cur'.remaining <= cur'.qty
      BY <2>2, <2>3, <2>4
    <2>6. QED
      BY <2>1, <2>5, PartsFollow DEF PartsExact
  <1>10. CASE FinishFilled \/ FinishResting \/ FinishCancelled
    <2>1. pc = "match" /\ cur \in Order
      BY <1>10, FinishFacts
    <2>2. Refusal \in Reason
      BY <2>1, MatchedOrder DEF Refusal, Reason, Tif
    <2>3. \E o \in Order : /\ \E extra : Conclude(o, extra)
                           /\ o.remaining = cur.remaining /\ o.qty = cur.qty
      <3>1. \A st \in Status, rs \in Reason :
              /\ [cur EXCEPT !.status = st] \in Order
              /\ [cur EXCEPT !.status = st].remaining = cur.remaining
              /\ [cur EXCEPT !.status = st].qty = cur.qty
              /\ [cur EXCEPT !.status = st, !.reason = rs] \in Order
              /\ [cur EXCEPT !.status = st, !.reason = rs].remaining = cur.remaining
              /\ [cur EXCEPT !.status = st, !.reason = rs].qty = cur.qty
        BY <2>1 DEF Order
      <3>2. {"filled", "cancelled", RestingStatus(cur)} \subseteq Status
        BY DEF Status, RestingStatus
      <3>3. CASE FinishFilled
        BY <3>1, <3>3 DEF FinishFilled, Status, Reason
      <3>4. CASE FinishResting
        BY <3>1, <3>4 DEF FinishResting, Status, Reason, RestingStatus
      <3>5. CASE FinishCancelled
        BY <2>2, <3>1, <3>2, <3>5 DEF FinishCancelled
      <3>6. QED
        BY <1>10, <3>3, <3>4, <3>5
    <2>4. QED
      BY <2>1, <2>3, FinishingKeepsParts
  <1>11. CASE CancelNext
    <2>1. PICK id \in doomed.ids : CancelLive(id, doomed.now)
      BY <1>11 DEF CancelNext
    <2>2. pc' # "match"
      BY <1>11 DEF CancelNext
    <2>3. QED
      BY <2>1, <2>2, CancelKeepsParts
  <1>12. CASE UNCHANGED vars
    BY <1>1, <1>12 DEF vars, indexVars, placeVars
  <1>13. QED
    BY <1>2, <1>3, <1>4, <1>5, <1>6, <1>7, <1>8, <1>9, <1>10, <1>11, <1>12
       DEF Next, Command, Work

LEMMA InitParts == Init => PartsExact
  <1> SUFFICES ASSUME Init
               PROVE  PartsExact
    OBVIOUS
  <1>1. pc = "idle" /\ fillIds = [id \in OrderId |-> NoFills] /\ NoFills.filled = 0
    BY DEF Init, NoFills
  <1>2. QED
    BY <1>1 DEF PartsExact

(* The sums the book is judged by, over the orders of an account or of one *)
(* of its sides, are the weights of those groups.                          *)
Members(g) == {id \in OrderId : Alive[id] # None /\ Belongs(Alive[id], g)}

LEMMA MembersWeigh ==
  ASSUME TypeInv, NEW g
  PROVE  /\ Cardinality(Members(g)) = Weight(Alive, g, "count")
         /\ SumFunctionOnSet(Notionals, Members(g)) = Weight(Alive, g, "money")
         /\ SumFunctionOnSet(Lots, Members(g)) = Weight(Alive, g, "lots")
  <1> DEFINE R == Members(g)
             one == [id \in R |-> 1]
             counts == Weights(Alive, g, "count")
             money == Weights(Alive, g, "money")
             lots == Weights(Alive, g, "lots")
  <1>1. R \in SUBSET OrderId /\ IsFiniteSet(R)
    BY OrderIdsAreFinite, FS_Subset DEF Members
  <1>2. /\ Alive \in [OrderId -> MaybeOrder]
        /\ \A id \in OrderId : Alive[id] # None => id \in LiveIds /\ Alive[id] = orders[id]
    BY AliveFacts DEF TypeInv, MaybeOrder
  <1>3. ASSUME NEW id \in R
        PROVE  /\ counts[id] = 1 /\ money[id] = Notional(orders[id]) /\ lots[id] = orders[id].remaining
               /\ Notionals[id] = Notional(orders[id]) /\ Lots[id] = orders[id].remaining
               /\ Notional(orders[id]) \in Int /\ orders[id].remaining \in Int
    BY <1>2, OrderFields DEF Members, MaybeOrder, Weights, WeightOf, Notionals, Lots, Worth
  <1>4. ASSUME NEW id \in OrderId \ R
        PROVE  counts[id] = 0 /\ money[id] = 0 /\ lots[id] = 0
    BY <1>4 DEF Members, Weights, WeightOf
  <1>5. \A id \in R : one[id] = 1
    OBVIOUS
  <1> HIDE DEF one, counts, money, lots, R
  <1>6. Cardinality(R) = SumFunctionOnSet(one, R)
    BY <1>1, <1>5, CountIsASum
  <1>7. SumFunctionOnSet(one, R) = SumFunctionOnSet(counts, OrderId)
    BY <1>1, <1>3, <1>4, <1>5, OrderIdsAreFinite, SumOnPart
  <1>8. SumFunctionOnSet(Notionals, R) = SumFunctionOnSet(money, OrderId)
    BY <1>1, <1>3, <1>4, OrderIdsAreFinite, SumOnPart
  <1>9. SumFunctionOnSet(Lots, R) = SumFunctionOnSet(lots, OrderId)
    BY <1>1, <1>3, <1>4, OrderIdsAreFinite, SumOnPart
  <1>10. QED
    BY <1>6, <1>7, <1>8, <1>9 DEF R, counts, money, lots, Weight

LEMMA GroupsOfAnAccount ==
  ASSUME TypeInv, NEW a \in Account
  PROVE  /\ Members(AccountGroup(a)) = OrdersOf(a)
         /\ Members(SideGroup(a, "buy")) = OnSide(a, "buy")
         /\ Members(SideGroup(a, "sell")) = OnSide(a, "sell")
  <1>1. /\ \A id \in OrderId : (Alive[id] # None) <=> (id \in LiveIds)
        /\ \A id \in LiveIds : id \in OrderId /\ Alive[id] = orders[id]
    BY AliveFacts DEF TypeInv
  <1>2. \A id \in LiveIds : orders[id].side \in Side /\ orders[id].price \in Price
    BY LiveOrders, OrderFields DEF TypeInv
  <1>3. Members(AccountGroup(a)) = OrdersOf(a)
    BY <1>1, <1>2 DEF Members, OrdersOf, AccountGroup, Belongs
  <1>4. Members(SideGroup(a, "buy")) = OnSide(a, "buy")
    BY <1>1, <1>2 DEF Members, OrdersOf, OnSide, SideGroup, Belongs
  <1>5. Members(SideGroup(a, "sell")) = OnSide(a, "sell")
    BY <1>1, <1>2 DEF Members, OrdersOf, OnSide, SideGroup, Belongs
  <1>6. QED
    BY <1>3, <1>4, <1>5

BookExact ==
  /\ LevelsExact /\ ExposureExact /\ WalletsExact
  /\ LedgersPositive /\ MirrorExact /\ PartsExact

LEMMA WalletReservations ==
  ASSUME TypeInv, WalletsExact, NEW a \in Account
  PROVE  /\ balances[a].usdcReserved >= 0 /\ balances[a].ethReserved >= 0
         /\ EnforceBalances =>
              /\ balances[a].usdcReserved =
                   SumFunctionOnSet(Notionals, OnSide(a, "buy"))
                     + IF Taking(a, "buy") THEN Notional(cur) ELSE 0
              /\ balances[a].ethReserved =
                   SumFunctionOnSet(Lots, OnSide(a, "sell"))
                     + IF Taking(a, "sell") THEN cur.remaining ELSE 0
  <1>1. CASE ~EnforceBalances
    BY <1>1 DEF WalletsExact, Solvent
  <1>2. CASE EnforceBalances
    <2>1. /\ balances[a].usdcReserved = MoneyBehind(Alive, Incoming, a)
          /\ balances[a].ethReserved = LotsBehind(Alive, Incoming, a)
      BY <1>2 DEF WalletsExact, Backed
    <2>2. Alive \in [OrderId -> MaybeOrder] /\ Incoming \in MaybeOrder
      BY AliveFacts DEF TypeInv, InProgress, MaybeOrder, Incoming
    <2>3. MoneyBehind(Alive, Incoming, a) \in Nat /\ LotsBehind(Alive, Incoming, a) \in Nat
      BY <2>2, IncomingChange
    <2>4. /\ Weight(Alive, SideGroup(a, "buy"), "money") = SumFunctionOnSet(Notionals, OnSide(a, "buy"))
          /\ Weight(Alive, SideGroup(a, "sell"), "lots") = SumFunctionOnSet(Lots, OnSide(a, "sell"))
      BY GroupsOfAnAccount, MembersWeigh
    <2>5. /\ MoneyOf(Incoming, a) = IF Taking(a, "buy") THEN Notional(cur) ELSE 0
          /\ LotsOf(Incoming, a) = IF Taking(a, "sell") THEN cur.remaining ELSE 0
      <3>1. CASE pc = "match"
        BY <3>1, MatchedFacts, OrderIsNotNone DEF MoneyOf, LotsOf, MoneyIn, LotsIn, Taking,
           Notional
      <3>2. CASE pc # "match"
        BY <3>2 DEF Incoming, MoneyOf, LotsOf, Taking
      <3>3. QED
        BY <3>1, <3>2
    <2>6. QED
      BY <1>2, <2>1, <2>3, <2>4, <2>5 DEF MoneyBehind, LotsBehind
  <1>3. QED
    BY <1>1, <1>2

LEMMA ExposureFollows ==
  ASSUME TypeInv, ExposureExact, NEW a \in Account
  PROVE  /\ exposure[a].open = Cardinality(OrdersOf(a))
         /\ exposure[a].notional = SumFunctionOnSet(Notionals, OrdersOf(a))
         /\ Cardinality(OrdersOf(a)) <= MaxOpenOrders
         /\ SumFunctionOnSet(Notionals, OrdersOf(a)) <= MaxOpenNotional
  BY GroupsOfAnAccount, MembersWeigh DEF ExposureExact, ExposureOf

LEMMA AmountsFollow ==
  ASSUME TypeInv, BookExact
  PROVE  NothingUnderflows
  <1>1. ASSUME NEW s \in Side, NEW p \in Price
        PROVE  level[s][p].total >= 0 /\ level[s][p].live >= 0
    BY AliveFacts, WeightFacts DEF BookExact, LevelsExact, LevelRight, TypeInv, MaybeOrder,
       LevelCounts
  <1>2. ASSUME NEW a \in Account, NEW f \in DOMAIN balances[a]
        PROVE  balances[a][f] >= 0
    <2>1. DOMAIN balances[a] = {"usdc", "usdcReserved", "eth", "ethReserved"}
      <3>1. PICK w \in Wallet : w = balances[a]
        BY DEF TypeInv, TypeOK
      <3>2. DOMAIN w = {"usdc", "usdcReserved", "eth", "ethReserved"}
        BY DEF Wallet
      <3>3. QED
        BY <3>1, <3>2
    <2>2. balances[a].usdc >= 0 /\ balances[a].eth >= 0
      BY DEF BookExact, WalletsExact, Solvent
    <2>3. balances[a].usdcReserved >= 0 /\ balances[a].ethReserved >= 0
      BY WalletReservations DEF BookExact
    <2>4. QED
      BY <2>1, <2>2, <2>3
  <1>3. ASSUME NEW a \in Account, NEW f \in DOMAIN ledgers[a] \ {"pnl"}
        PROVE  ledgers[a][f] >= 0
    <2>1. DOMAIN ledgers[a] = {"depositsUsdc", "depositsEth", "withdrawalsUsdc", "withdrawalsEth",
             "bought", "sold", "paid", "received", "inventory", "cost", "soldFromDeposits",
             "pnl", "trades"}
      <3>1. PICK w \in Ledger : w = ledgers[a]
        BY DEF TypeInv, TypeOK
      <3>2. DOMAIN w = {"depositsUsdc", "depositsEth", "withdrawalsUsdc", "withdrawalsEth",
             "bought", "sold", "paid", "received", "inventory", "cost", "soldFromDeposits",
             "pnl", "trades"}
        BY DEF Ledger
      <3>3. QED
        BY <3>1, <3>2
    <2>2. NothingOwed(ledgers[a])
      BY DEF BookExact, LedgersPositive
    <2>3. QED
      BY <2>1, <2>2 DEF NothingOwed
  <1>4. ASSUME NEW id \in OrderId
        PROVE  mirror[id] >= 0 /\ fillIds[id].filled >= 0
    <2>1. mirror[id] = IF pc = "match" /\ id = nextOrder THEN cur.remaining ELSE LeftOf(Alive[id])
      BY DEF BookExact, MirrorExact
    <2>2. pc = "match" => cur.remaining \in Nat
      BY MatchedFacts
    <2>3. LeftOf(Alive[id]) \in Nat
      <3>1. PICK o \in MaybeOrder : o = Alive[id]
        BY AliveFacts DEF TypeInv, MaybeOrder
      <3>2. o # None => o.remaining \in Nat
        BY OrderFields DEF MaybeOrder
      <3>3. QED
        BY <3>1, <3>2 DEF LeftOf
    <2>4. QED
      BY <2>1, <2>2, <2>3 DEF BookExact, PartsExact
  <1>5. QED
    BY <1>1, <1>2, <1>3, <1>4 DEF NothingUnderflows

(* What an account has reserved and what counts against its limits is what *)
(* its live orders and the one being placed commit, no more and no less,   *)
(* its limits hold, and no amount goes below zero, for every sequence of   *)
(* commands: partial fills, price improvement, self-trade stops, refusals, *)
(* cancels and archiving release what they must and nothing else.          *)
THEOREM CommitmentsExact == Spec => []CommitmentsAreExact
  <1>1. Init => BookExact
    BY InitLevelsExact, InitExposureExact, InitWalletsExact, InitPositive, InitMirrorExact,
       InitParts DEF BookExact
  <1>2. TypeInv /\ BookExact /\ [Next]_vars => BookExact'
    <2> SUFFICES ASSUME TypeInv, BookExact, [Next]_vars
                 PROVE  BookExact'
      OBVIOUS
    <2>1. LevelsExact /\ ExposureExact /\ WalletsExact /\ LedgersPositive /\ MirrorExact /\ PartsExact
      BY DEF BookExact
    <2>2. LevelsExact' /\ ExposureExact' /\ WalletsExact'
      BY <2>1, StepKeepsLevelsExact, StepKeepsExposureExact, StepKeepsWalletsExact
    <2>3. LedgersPositive' /\ MirrorExact' /\ PartsExact'
      BY <2>1, StepKeepsPositive, StepKeepsMirrorExact, StepKeepsParts
    <2>4. QED
      BY <2>2, <2>3 DEF BookExact
  <1>3. TypeInv /\ BookExact => CommitmentsAreExact
    <2> SUFFICES ASSUME TypeInv, BookExact
                 PROVE  CommitmentsAreExact
      OBVIOUS
    <2>1. NothingUnderflows
      BY AmountsFollow
    <2>2. ReservationsBackOrders
      BY WalletReservations DEF BookExact, ReservationsBackOrders
    <2>3. ExposureMatchesOrders /\ ExposureWithinLimits
      BY ExposureFollows DEF BookExact, ExposureMatchesOrders, ExposureWithinLimits
    <2>4. QED
      BY <2>1, <2>2, <2>3 DEF CommitmentsAreExact
  <1>4. QED
    BY <1>1, <1>2, <1>3, TypeInvariant, PTL DEF Spec

-----------------------------------------------------------------------------
(* Records in a sequence, told apart by their ids.                         *)
Ids(s) == {s[i].id : i \in DOMAIN s}
FirstIds(s, k) == {s[i].id : i \in 1 .. k}
Distinct(s) == \A i, j \in DOMAIN s : s[i].id = s[j].id => i = j

LEMMA IdsAppend ==
  ASSUME NEW S, NEW s \in Seq(S), NEW c \in S
  PROVE  /\ Append(s, c) \in Seq(S)
         /\ Len(Append(s, c)) = Len(s) + 1
         /\ Ids(Append(s, c)) = Ids(s) \cup {c.id}
         /\ Distinct(s) /\ c.id \notin Ids(s) => Distinct(Append(s, c))
  <1> DEFINE more == Append(s, c)
  <1>1. /\ more \in Seq(S) /\ Len(more) = Len(s) + 1
        /\ \A i \in 1 .. Len(s) : more[i] = s[i]
        /\ more[Len(s) + 1] = c
    BY AppendProperties
  <1>2. /\ DOMAIN s = 1 .. Len(s) /\ Len(s) \in Nat
        /\ DOMAIN more = 1 .. Len(s) + 1
    BY <1>1, LenProperties
  <1> HIDE DEF more
  <1>3. Ids(more) = Ids(s) \cup {c.id}
    BY <1>1, <1>2 DEF Ids
  <1>4. ASSUME Distinct(s), c.id \notin Ids(s)
        PROVE  Distinct(more)
    <2>1. \A i \in DOMAIN s : s[i].id # c.id /\ more[i] = s[i]
      BY <1>1, <1>2, <1>4 DEF Ids
    <2>2. \A i \in DOMAIN more : i \in DOMAIN s \/ i = Len(s) + 1
      BY <1>2
    <2>3. QED
      BY ONLY <1>1, <1>4, <2>1, <2>2 DEF Distinct
  <1>5. QED
    BY <1>1, <1>3, <1>4 DEF more

(* What is left behind the first k.                                        *)
Behind(s, k) == SubSeq(s, k + 1, Len(s))

LEMMA DropFacts ==
  ASSUME NEW S, NEW s \in Seq(S), NEW k \in 0 .. Len(s), NEW t, t = Behind(s, k)
  PROVE  /\ t \in Seq(S) /\ Len(t) \in Nat /\ Len(s) \in Nat /\ Len(t) = Len(s) - k
         /\ DOMAIN t = 1 .. Len(t) /\ DOMAIN s = 1 .. Len(s)
         /\ \A i \in DOMAIN t : t[i] = s[k + i] /\ k + i \in DOMAIN s /\ k + i > k
         /\ \A j \in DOMAIN s : j > k => j - k \in DOMAIN t /\ t[j - k] = s[j]
  <1>1. DOMAIN s = 1 .. Len(s) /\ Len(s) \in Nat
    BY LenProperties
  <1>2. PICK n \in Nat : n = Len(s)
    BY <1>1
  <1>3. /\ t \in Seq(S) /\ Len(t) = (IF k + 1 <= n THEN n - (k + 1) + 1 ELSE 0)
        /\ \A i \in 1 .. n - (k + 1) + 1 : t[i] = s[k + 1 + i - 1]
    BY <1>1, <1>2, ElementOfSeq, SubSeqProperties DEF Behind
  <1>4. Len(t) = n - k /\ n - k \in Nat
    BY <1>2, <1>3
  <1>5. DOMAIN t = 1 .. Len(t)
    BY <1>3, LenProperties
  <1>6. \A i \in 1 .. n - k : t[i] = s[k + i]
    BY <1>2, <1>3
  <1>7. \A i \in 1 .. n - k : k + i \in 1 .. n /\ k + i > k
    BY <1>2
  <1>8. \A j \in 1 .. n : j > k => j - k \in 1 .. n - k /\ k + (j - k) = j
    BY <1>2
  <1>9. \A i \in DOMAIN t : t[i] = s[k + i] /\ k + i \in DOMAIN s /\ k + i > k
    BY <1>1, <1>2, <1>4, <1>5, <1>6, <1>7
  <1>10. \A j \in DOMAIN s : j > k => j - k \in DOMAIN t /\ t[j - k] = s[j]
    <2>1. ASSUME NEW j \in DOMAIN s, j > k
          PROVE  j - k \in DOMAIN t /\ t[j - k] = s[j]
      <3>1. PICK i : i = j - k
        OBVIOUS
      <3>2. i \in 1 .. n - k /\ k + i = j
        BY <1>1, <1>2, <1>8, <2>1, <3>1
      <3>3. i \in DOMAIN t /\ t[i] = s[k + i]
        BY <1>4, <1>5, <1>6, <3>2
      <3>4. QED
        BY <3>1, <3>2, <3>3
    <2>2. QED
      BY <2>1
  <1>11. QED
    BY <1>1, <1>2, <1>3, <1>4, <1>5, <1>9, <1>10, Zenon

LEMMA IdsOfPart ==
  ASSUME NEW s, NEW t, NEW m \in Nat, NEW k \in 0 .. m,
         DOMAIN s = 1 .. m, DOMAIN t = 1 .. m - k,
         \A i \in 1 .. m - k : t[i] = s[k + i],
         Distinct(s)
  PROVE  /\ Ids(t) = Ids(s) \ FirstIds(s, k)
         /\ Distinct(t)
         /\ FirstIds(s, k) \subseteq Ids(s)
  <1>1. /\ \A i \in 1 .. m - k : k + i \in 1 .. m /\ k + i > k
        /\ \A j \in 1 .. m : j > k => j - k \in 1 .. m - k /\ k + (j - k) = j
        /\ \A j \in 1 .. m : ~(j > k) => j \in 1 .. k
        /\ \A i \in 1 .. k : i \in 1 .. m /\ ~(i > k)
    OBVIOUS
  <1>2. FirstIds(s, k) \subseteq Ids(s)
    BY <1>1 DEF FirstIds, Ids
  <1>3. ASSUME NEW i \in DOMAIN t
        PROVE  t[i].id \in Ids(s) \ FirstIds(s, k)
    <2>1. PICK j \in 1 .. m : j > k /\ t[i] = s[j]
      BY <1>1
    <2>2. \A n \in 1 .. k : s[n].id # s[j].id
      BY <1>1, <2>1 DEF Distinct
    <2>3. QED
      BY <2>1, <2>2 DEF Ids, FirstIds
  <1>4. ASSUME NEW x \in Ids(s) \ FirstIds(s, k)
        PROVE  x \in Ids(t)
    <2>1. PICK j \in 1 .. m : x = s[j].id
      BY <1>4 DEF Ids
    <2>2. j > k
      BY <1>1, <1>4, <2>1 DEF FirstIds
    <2>3. PICK i \in 1 .. m - k : t[i] = s[j]
      BY <1>1, <2>2
    <2>4. QED
      BY <2>1, <2>3 DEF Ids
  <1>5. ASSUME NEW i \in DOMAIN t, NEW j \in DOMAIN t, t[i].id = t[j].id
        PROVE  i = j
    BY <1>1, <1>5 DEF Distinct
  <1>6. QED
    <2>1. Ids(t) \subseteq Ids(s) \ FirstIds(s, k)
      BY <1>3 DEF Ids
    <2>2. QED
      BY <1>2, <1>4, <1>5, <2>1 DEF Distinct

LEMMA IdsDrop ==
  ASSUME NEW S, NEW s \in Seq(S), NEW k \in 0 .. Len(s), NEW t, t = Behind(s, k),
         Distinct(s)
  PROVE  /\ Ids(t) = Ids(s) \ FirstIds(s, k)
         /\ Distinct(t)
         /\ FirstIds(s, k) \subseteq Ids(s)
  <1>1. PICK m \in Nat : m = Len(s)
    BY LenProperties
  <1>2. /\ t \in Seq(S) /\ Len(t) \in Nat /\ Len(s) \in Nat /\ Len(t) = Len(s) - k
        /\ DOMAIN t = 1 .. Len(t) /\ DOMAIN s = 1 .. Len(s)
        /\ \A i \in DOMAIN t : t[i] = s[k + i] /\ k + i \in DOMAIN s /\ k + i > k
        /\ \A j \in DOMAIN s : j > k => j - k \in DOMAIN t /\ t[j - k] = s[j]
    BY DropFacts
  <1>3. /\ k \in 0 .. m /\ DOMAIN s = 1 .. m /\ DOMAIN t = 1 .. m - k
        /\ \A i \in 1 .. m - k : t[i] = s[k + i]
        /\ Distinct(s)
    BY <1>1, <1>2, Zenon
  <1>4. QED
    BY ONLY <1>1, <1>3, IdsOfPart, SMT


-----------------------------------------------------------------------------
(* What is in memory: orders under their account and their client id,      *)
(* closed orders in the retention window, trades under their accounts.     *)
Has(o, a, c) == o # None /\ o.account = a /\ o.cid = c
Dead(o) == o # None /\ ~Live(o)

Indexed(os, accountIds, clientIds, fi) ==
  /\ \A a \in Account, id \in OrderId :
       id \in accountIds[a] <=> os[id] # None /\ os[id].account = a
  /\ \A a \in Account, c \in ClientId, id \in OrderId :
       clientIds[a][c] = id <=> Has(os[id], a, c)
  /\ \A id \in OrderId : os[id] = None => fi[id] = NoFills

ClosedRight(os, cl) ==
  /\ Ids(cl) = {id \in OrderId : Dead(os[id])}
  /\ Distinct(cl)

Numbered(ts, last) == \A i \in DOMAIN ts : ts[i].id = last - Len(ts) + i
Parties(t) == {t.makerAccount, t.takerAccount}
TradesBy(ts, a) == {ts[i].id : i \in {j \in DOMAIN ts : a \in Parties(ts[j])}}
ListsRight(ts, lists) == \A a \in Account : lists[a] = TradesBy(ts, a)

(* The indexes look at nothing of an order but whose it is and its key.    *)
SameNames(os, qs) ==
  \A id \in OrderId :
    /\ os[id] = None <=> qs[id] = None
    /\ os[id] # None => os[id].account = qs[id].account /\ os[id].cid = qs[id].cid

LEMMA SameNamesIndexed ==
  ASSUME NEW os, NEW qs, NEW ai, NEW ci, NEW fi, Indexed(os, ai, ci, fi), SameNames(os, qs)
  PROVE  Indexed(qs, ai, ci, fi)
  BY DEF SameNames, Has, Indexed

(* One more order in the lookups, under a key nobody has.                  *)
LEMMA OneMoreIndexed ==
  ASSUME NEW os \in [OrderId -> Order \cup {None}], NEW ai \in [Account -> SUBSET OrderId],
         NEW ci \in [Account -> [ClientId -> {0} \cup OrderId]], NEW fi,
         Indexed(os, ai, ci, fi),
         NEW x \in OrderId, os[x] = None, NEW o \in Order, ci[o.account][o.cid] = 0,
         NEW qs, qs = Put(os, x, o),
         NEW aj, aj = [ai EXCEPT ![o.account] = @ \cup {x}],
         NEW cj, cj = [ci EXCEPT ![o.account][o.cid] = x]
  PROVE  Indexed(qs, aj, cj, fi)
  <1>1. o \in Order /\ o.account \in Account /\ o.cid \in ClientId /\ o # None
    BY OrderIsNotNone DEF Order
  <1>2. \A id \in OrderId : qs[id] = IF id = x THEN o ELSE os[id]
    BY DEF Put
  <1>3. \A a \in Account : aj[a] = IF a = o.account THEN ai[a] \cup {x} ELSE ai[a]
    OBVIOUS
  <1>4. \A a \in Account, c \in ClientId :
          cj[a][c] = IF a = o.account /\ c = o.cid THEN x ELSE ci[a][c]
    BY <1>1
  <1>5. 0 \notin OrderId
    BY OrderIdsAreInts
  <1>6. ASSUME NEW a \in Account, NEW id \in OrderId
        PROVE  id \in aj[a] <=> qs[id] # None /\ qs[id].account = a
    BY <1>1, <1>2, <1>3 DEF Indexed
  <1>7. ASSUME NEW a \in Account, NEW c \in ClientId, NEW id \in OrderId
        PROVE  cj[a][c] = id <=> Has(qs[id], a, c)
    <2>1. CASE id = x
      BY <1>1, <1>2, <1>4, <2>1 DEF Indexed, Has
    <2>2. CASE id # x
      BY <1>1, <1>2, <1>4, <1>5, <2>2 DEF Indexed
    <2>3. QED
      BY <2>1, <2>2
  <1>8. ASSUME NEW id \in OrderId, qs[id] = None
        PROVE  fi[id] = NoFills
    BY <1>1, <1>2, <1>8 DEF Indexed
  <1>9. QED
    BY <1>6, <1>7, <1>8 DEF Indexed

LEMMA ArchiveIndexed ==
  ASSUME NEW os \in [OrderId -> Order \cup {None}], NEW ai \in [Account -> SUBSET OrderId],
         NEW ci \in [Account -> [ClientId -> {0} \cup OrderId]], NEW fi,
         Indexed(os, ai, ci, fi),
         NEW gone, \A x \in gone : x \in OrderId /\ os[x] # None,
         NEW qs, qs = Without(os, gone, None),
         NEW aj, aj = [a \in Account |-> ai[a] \ gone],
         NEW cj, cj = ForgetClientId(ci, os, gone),
         NEW fj, fj = Without(fi, gone, NoFills)
  PROVE  Indexed(qs, aj, cj, fj)
  <1>1. \A id \in OrderId : qs[id] = IF id \in gone THEN None ELSE os[id]
    BY DEF Without
  <1>2. \A a \in Account : aj[a] = ai[a] \ gone
    OBVIOUS
  <1>3. \A a \in Account, c \in ClientId :
          cj[a][c] = IF \E id \in gone : os[id].account = a /\ os[id].cid = c THEN 0 ELSE ci[a][c]
    BY DEF ForgetClientId
  <1>4. \A id \in OrderId : fj[id] = IF id \in gone THEN NoFills ELSE fi[id]
    BY DEF Without
  <1>5. 0 \notin OrderId
    BY OrderIdsAreInts
  <1>6. ASSUME NEW a \in Account, NEW id \in OrderId
        PROVE  id \in aj[a] <=> qs[id] # None /\ qs[id].account = a
    BY <1>1, <1>2 DEF Indexed
  <1>7. ASSUME NEW a \in Account, NEW c \in ClientId, NEW id \in OrderId
        PROVE  cj[a][c] = id <=> Has(qs[id], a, c)
    <2>1. ci[a][c] = id <=> Has(os[id], a, c)
      BY DEF Indexed
    <2>2. CASE \E x \in gone : os[x].account = a /\ os[x].cid = c
      <3>1. PICK x \in gone : os[x].account = a /\ os[x].cid = c
        BY <2>2
      <3>2. Has(os[x], a, c) /\ x \in OrderId
        BY <3>1 DEF Has
      <3>3. ci[a][c] = x
        BY <3>2 DEF Indexed
      <3>4. cj[a][c] # id
        BY <1>3, <1>5, <2>2
      <3>5. ~Has(qs[id], a, c)
        BY <1>1, <2>1, <3>3 DEF Has
      <3>6. QED
        BY <3>4, <3>5
    <2>3. CASE ~ \E x \in gone : os[x].account = a /\ os[x].cid = c
      BY <1>1, <1>3, <2>1, <2>3 DEF Has
    <2>4. QED
      BY <2>2, <2>3
  <1>8. ASSUME NEW id \in OrderId, qs[id] = None
        PROVE  fj[id] = NoFills
    BY <1>1, <1>4, <1>8 DEF Indexed
  <1>9. QED
    BY <1>6, <1>7, <1>8 DEF Indexed

LEMMA ArchiveClosed ==
  ASSUME NEW os, NEW cl \in Seq(ClosedOrder), NEW k \in 0 .. Len(cl), ClosedRight(os, cl),
         NEW qs, qs = Without(os, FirstIds(cl, k), None),
         NEW cm, cm = Behind(cl, k)
  PROVE  /\ ClosedRight(qs, cm)
         /\ \A x \in FirstIds(cl, k) : x \in OrderId /\ os[x] # None
  BY IdsDrop DEF ClosedRight, Without, Dead

LEMMA PopsEnough ==
  ASSUME NEW S, NEW s \in Seq(S), NEW keep \in Nat, NEW now, NEW k \in 0 .. Len(s),
         PopsFront(s, keep, now, k), NEW t, t = Behind(s, k)
  PROVE  Len(t) <= keep
  BY DropFacts DEF PopsFront

(* Trades are numbered without a gap, so their ids rise and those of the   *)
(* first n are the n smallest.                                             *)
LEMMA NumbersOf ==
  ASSUME NEW ts \in Seq(Trade), NEW last \in Nat, Numbered(ts, last)
  PROVE  /\ \A i \in DOMAIN ts : ts[i].id \in Int /\ i \in Int
         /\ \A i, j \in DOMAIN ts : ts[i].id < ts[j].id <=> i < j
         /\ Distinct(ts)
  <1>1. PICK m \in Nat : m = Len(ts)
    BY LenProperties
  <1>2. DOMAIN ts = 1 .. m
    BY <1>1, LenProperties
  <1>3. \A i \in 1 .. m : ts[i].id = last - m + i
    BY <1>1, <1>2 DEF Numbered
  <1>4. \A i, j \in 1 .. m : /\ last - m + i < last - m + j <=> i < j
                             /\ last - m + i = last - m + j => i = j
                             /\ last - m + i \in Int
    OBVIOUS
  <1>5. QED
    BY ONLY <1>2, <1>3, <1>4 DEF Distinct

LEMMA DropNumbered ==
  ASSUME NEW ts \in Seq(Trade), NEW last \in Nat, Numbered(ts, last),
         NEW n \in 0 .. Len(ts), NEW us, us = Behind(ts, n)
  PROVE  Numbered(us, last)
  <1>1. PICK m \in Nat : m = Len(ts)
    BY LenProperties
  <1>2. /\ Len(us) = m - n /\ n \in 0 .. m /\ DOMAIN us = 1 .. Len(us) /\ DOMAIN ts = 1 .. m
        /\ \A i \in DOMAIN us : us[i] = ts[n + i] /\ n + i \in DOMAIN ts
    BY <1>1, DropFacts
  <1>3. \A i \in 1 .. m : ts[i].id = last - m + i
    BY <1>1, <1>2 DEF Numbered
  <1>4. \A i \in 1 .. m - n : last - m + (n + i) = last - (m - n) + i
    BY <1>2
  <1>5. \A i \in DOMAIN us : us[i].id = last - Len(us) + i
    BY ONLY <1>2, <1>3, <1>4
  <1>6. QED
    BY <1>5 DEF Numbered

LEMMA DropTradesBy ==
  ASSUME NEW ts \in Seq(Trade), NEW last \in Nat, Numbered(ts, last),
         NEW n \in 0 .. Len(ts), NEW us, us = Behind(ts, n), NEW a
  PROVE  TradesBy(us, a) = TradesBy(ts, a) \ FirstIds(ts, n)
  <1>1. Distinct(ts)
    BY NumbersOf
  <1>2. PICK m \in Nat : m = Len(ts)
    BY LenProperties
  <1>3. /\ n \in 0 .. m /\ DOMAIN us = 1 .. m - n /\ DOMAIN ts = 1 .. m
        /\ \A i \in DOMAIN us : us[i] = ts[n + i] /\ n + i \in DOMAIN ts /\ n + i > n
        /\ \A j \in DOMAIN ts : j > n => j - n \in DOMAIN us /\ us[j - n] = ts[j]
    BY <1>2, DropFacts
  <1>4. \A j \in 1 .. m : j > n \/ j \in 1 .. n
    BY <1>3
  <1>5. \A j \in 1 .. n : j \in 1 .. m /\ ~(j > n)
    BY <1>3
  <1>6. ASSUME NEW x \in TradesBy(us, a)
        PROVE  x \in TradesBy(ts, a) \ FirstIds(ts, n)
    <2>1. PICK i \in DOMAIN us : x = us[i].id /\ a \in Parties(us[i])
      BY <1>6 DEF TradesBy
    <2>2. PICK j \in DOMAIN ts : j > n /\ us[i] = ts[j]
      BY <1>3
    <2>3. \A h \in 1 .. n : ts[h].id # ts[j].id
      BY <1>1, <1>3, <1>5, <2>2 DEF Distinct
    <2>4. QED
      BY <2>1, <2>2, <2>3 DEF TradesBy, FirstIds
  <1>7. ASSUME NEW x \in TradesBy(ts, a) \ FirstIds(ts, n)
        PROVE  x \in TradesBy(us, a)
    <2>1. PICK j \in DOMAIN ts : x = ts[j].id /\ a \in Parties(ts[j])
      BY <1>7 DEF TradesBy
    <2>2. j > n
      BY <1>3, <1>4, <1>7, <2>1 DEF FirstIds
    <2>3. PICK i \in DOMAIN us : us[i] = ts[j]
      BY <1>3, <2>2
    <2>4. QED
      BY <2>1, <2>3 DEF TradesBy
  <1>8. QED
    BY <1>6, <1>7

(* The code pops the lists of the accounts from the front only: as ids     *)
(* rise, that takes everything archived and nothing else.                  *)
LEMMA DropsWhatWasArchived ==
  ASSUME trades \in Seq(Trade), nextTrade \in Nat, Numbered(trades, nextTrade),
         NEW n \in 0 .. Len(trades), NEW a, tradesOf[a] = TradesBy(trades, a)
  PROVE  DropTrades(a, FirstIds(trades, n)) = tradesOf[a] \ FirstIds(trades, n)
  <1> DEFINE gone == FirstIds(trades, n)
  <1>1. /\ \A i \in DOMAIN trades : trades[i].id \in Int /\ i \in Int
        /\ \A i, j \in DOMAIN trades : trades[i].id < trades[j].id <=> i < j
    BY NumbersOf
  <1>2. PICK m \in Nat : m = Len(trades) /\ DOMAIN trades = 1 .. m /\ n \in 0 .. m
    BY LenProperties
  <1>3. \A i \in 1 .. m, j \in 1 .. n : j \in 1 .. m /\ (i < j => i \in 1 .. n)
    BY <1>2
  <1>4. ASSUME NEW t \in gone, NEW u \in tradesOf[a], u < t
        PROVE  u \in gone
    <2>1. PICK j \in 1 .. n : t = trades[j].id
      BY <1>4 DEF FirstIds
    <2>2. PICK i \in DOMAIN trades : u = trades[i].id
      BY <1>4 DEF TradesBy
    <2>3. i < j
      BY <1>1, <1>2, <1>3, <1>4, <2>1, <2>2
    <2>4. i \in 1 .. n
      BY <1>2, <1>3, <2>3
    <2>5. QED
      BY <2>2, <2>4 DEF FirstIds
  <1>5. QED
    BY <1>4 DEF DropTrades

LEMMA DropListsRight ==
  ASSUME trades \in Seq(Trade), nextTrade \in Nat, Numbered(trades, nextTrade),
         ListsRight(trades, tradesOf), NEW n \in 0 .. Len(trades),
         NEW us, us = Behind(trades, n),
         NEW lists, lists = [a \in Account |-> DropTrades(a, FirstIds(trades, n))]
  PROVE  ListsRight(us, lists)
  <1>1. ASSUME NEW a \in Account
        PROVE  lists[a] = TradesBy(us, a)
    <2>1. tradesOf[a] = TradesBy(trades, a)
      BY DEF ListsRight
    <2>2. DropTrades(a, FirstIds(trades, n)) = tradesOf[a] \ FirstIds(trades, n)
      BY <2>1, DropsWhatWasArchived
    <2>3. TradesBy(us, a) = TradesBy(trades, a) \ FirstIds(trades, n)
      BY DropTradesBy
    <2>4. QED
      BY <2>1, <2>2, <2>3
  <1>2. QED
    BY <1>1 DEF ListsRight

(* A command that ends in enforce_retention() leaves memory right if the   *)
(* state before its archiving is.                                          *)
LEMMA RetentionIsRight ==
  ASSUME trades \in Seq(Trade), nextTrade \in Nat,
         Numbered(trades, nextTrade), ListsRight(trades, tradesOf),
         NEW os \in [OrderId -> Order \cup {None}], NEW ai \in [Account -> SUBSET OrderId],
         NEW ci \in [Account -> [ClientId -> {0} \cup OrderId]], NEW fi,
         NEW cl \in Seq(ClosedOrder), NEW pl, NEW now,
         Indexed(os, ai, ci, fi), ClosedRight(os, cl),
         EnforceRetention(os, ai, ci, fi, cl, pl, now)
  PROVE  /\ Indexed(orders', byAccount', byClientId', fillIds')
         /\ ClosedRight(orders', closed')
         /\ Numbered(trades', nextTrade) /\ ListsRight(trades', tradesOf')
         /\ Len(closed') <= KeepClosed /\ Len(trades') <= KeepTrades
  <1>1. PICK k \in 0 .. Len(cl), n \in 0 .. Len(trades) :
          /\ PopsFront(cl, KeepClosed, now, k)
          /\ PopsFront(trades, KeepTrades, now, n)
          /\ orders' = Without(os, FirstIds(cl, k), None)
          /\ byAccount' = [a \in Account |-> ai[a] \ FirstIds(cl, k)]
          /\ byClientId' = ForgetClientId(ci, os, FirstIds(cl, k))
          /\ fillIds' = Without(fi, FirstIds(cl, k), NoFills)
          /\ closed' = Behind(cl, k)
          /\ trades' = Behind(trades, n)
          /\ tradesOf' = [a \in Account |-> DropTrades(a, FirstIds(trades, n))]
    BY DEF EnforceRetention, FirstIds, Behind
  <1>2. /\ ClosedRight(orders', closed')
        /\ \A x \in FirstIds(cl, k) : x \in OrderId /\ os[x] # None
    BY <1>1, ArchiveClosed
  <1>3. Indexed(orders', byAccount', byClientId', fillIds')
    BY <1>1, <1>2, ArchiveIndexed
  <1>4. KeepClosed \in Nat /\ KeepTrades \in Nat
    BY BookAssumption
  <1>5. Len(closed') <= KeepClosed
    BY <1>1, <1>4, PopsEnough
  <1>6. Len(trades') <= KeepTrades
    BY <1>1, <1>4, PopsEnough
  <1>7. Numbered(trades', nextTrade)
    BY <1>1, DropNumbered
  <1>8. ListsRight(trades', tradesOf')
    BY <1>1, DropListsRight
  <1>9. QED
    BY <1>2, <1>3, <1>5, <1>6, <1>7, <1>8

(* A placement, a fill or a cancel: what it does to the closed orders.     *)
LEMMA OneMoreDead ==
  ASSUME NEW os \in [OrderId -> MaybeOrder], NEW cl \in Seq(ClosedOrder), ClosedRight(os, cl),
         NEW x \in OrderId, ~Dead(os[x]), NEW o \in Order, ~Live(o), NEW t \in Time,
         NEW qs, qs = Put(os, x, o), NEW cm, cm = Append(cl, Closing(x, t))
  PROVE  ClosedRight(qs, cm) /\ cm \in Seq(ClosedOrder)
  <1>1. Closing(x, t) \in ClosedOrder /\ Closing(x, t).id = x
    BY DEF Closing, ClosedOrder
  <1>2. Ids(cl) = {id \in OrderId : Dead(os[id])} /\ Distinct(cl)
    BY DEF ClosedRight
  <1>3. x \notin Ids(cl)
    BY <1>2
  <1>4. PICK c \in ClosedOrder : c = Closing(x, t)
    BY <1>1
  <1>5. /\ cm \in Seq(ClosedOrder)
        /\ Ids(cm) = Ids(cl) \cup {c.id}
        /\ Distinct(cl) /\ c.id \notin Ids(cl) => Distinct(cm)
    BY <1>4, IdsAppend
  <1>6. c.id = x
    BY <1>1, <1>4
  <1>7. o # None
    BY OrderIsNotNone
  <1>8. \A id \in OrderId : qs[id] = IF id = x THEN o ELSE os[id]
    BY DEF Put
  <1>9. Ids(cm) = {id \in OrderId : Dead(qs[id])}
    BY <1>2, <1>5, <1>6, <1>7, <1>8 DEF Dead
  <1>10. QED
    BY <1>2, <1>3, <1>5, <1>6, <1>9 DEF ClosedRight

LEMMA NoMoreDead ==
  ASSUME NEW os \in [OrderId -> MaybeOrder], NEW cl, ClosedRight(os, cl),
         NEW x \in OrderId, ~Dead(os[x]), NEW o, ~Dead(o), NEW qs, qs = Put(os, x, o)
  PROVE  ClosedRight(qs, cl)
  BY DEF Put, ClosedRight

Longer(s, e) == Append(s, e)

LEMMA OneMoreTrade ==
  ASSUME NEW ts \in Seq(Trade), NEW last \in Nat, Numbered(ts, last),
         NEW t \in Trade, NEW next, next = last + 1, t.id = next, NEW us, us = Longer(ts, t),
         NEW a
  PROVE  /\ Numbered(us, next)
         /\ TradesBy(us, a) = IF a \in Parties(t) THEN TradesBy(ts, a) \cup {t.id}
                                                  ELSE TradesBy(ts, a)
  <1>1. PICK m \in Nat : m = Len(ts)
    BY LenProperties
  <1>2. /\ us \in Seq(Trade) /\ Len(us) = m + 1 /\ us[m + 1] = t
        /\ \A i \in 1 .. m : us[i] = ts[i]
    BY <1>1, AppendProperties DEF Longer
  <1>3. DOMAIN us = 1 .. m + 1 /\ DOMAIN ts = 1 .. m
    BY <1>1, <1>2, LenProperties
  <1>4. \A i \in 1 .. m : ts[i].id = last - m + i
    BY <1>1, <1>3 DEF Numbered
  <1>5. /\ \A i \in 1 .. m : last - m + i = (last + 1) - (m + 1) + i
        /\ (last + 1) - (m + 1) + (m + 1) = last + 1
        /\ \A i \in 1 .. m + 1 : i \in 1 .. m \/ i = m + 1
        /\ \A i \in 1 .. m : i \in 1 .. m + 1
        /\ m + 1 \in 1 .. m + 1
    OBVIOUS
  <1>6. \A i \in DOMAIN us : us[i].id = (last + 1) - Len(us) + i
    BY ONLY <1>2, <1>3, <1>4, <1>5, t.id = next, next = last + 1
  <1>7. TradesBy(us, a) = IF a \in Parties(t) THEN TradesBy(ts, a) \cup {t.id}
                                              ELSE TradesBy(ts, a)
    BY <1>2, <1>3, <1>5 DEF TradesBy
  <1>8. QED
    BY <1>6, <1>7, next = last + 1 DEF Numbered

-----------------------------------------------------------------------------
(* Between two steps: the order being placed is indexed from its intake,   *)
(* and stored when its placement ends.                                     *)
Kept == IF pc = "match" THEN Put(orders, nextOrder, cur) ELSE orders

KeptIndexed == Indexed(Kept, byAccount, byClientId, fillIds)
ClosedKept == ClosedRight(orders, closed)
TradesKept == Numbered(trades, nextTrade) /\ ListsRight(trades, tradesOf)
WithinBounds == pc # "match" => Len(closed) <= KeepClosed /\ Len(trades) <= KeepTrades

MemoryRight == KeptIndexed /\ ClosedKept /\ TradesKept /\ WithinBounds

LEMMA MemoryTypes ==
  ASSUME TypeOK
  PROVE  /\ orders \in [OrderId -> Order \cup {None}]
         /\ orders \in [OrderId -> MaybeOrder]
         /\ byAccount \in [Account -> SUBSET OrderId]
         /\ byClientId \in [Account -> [ClientId -> {0} \cup OrderId]]
         /\ fillIds \in [OrderId -> FillList]
         /\ closed \in Seq(ClosedOrder)
         /\ trades \in Seq(Trade) /\ nextTrade \in Nat
         /\ tradesOf \in [Account -> SUBSET Nat]
         /\ placed \in [OrderId -> PlaceReply \cup {None}]
  BY DEF TypeOK, MaybeOrder

(* The end of every command that archives.                                 *)
LEMMA ArchivingIsRight ==
  ASSUME TypeOK, TradesKept, pc' # "match", nextTrade' = nextTrade,
         NEW os \in [OrderId -> MaybeOrder], NEW ai \in [Account -> SUBSET OrderId],
         NEW ci \in [Account -> [ClientId -> {0} \cup OrderId]], NEW fi,
         NEW cl \in Seq(ClosedOrder), NEW pl, NEW now,
         Indexed(os, ai, ci, fi), ClosedRight(os, cl),
         EnforceRetention(os, ai, ci, fi, cl, pl, now)
  PROVE  MemoryRight'
  <1>1. /\ trades \in Seq(Trade) /\ nextTrade \in Nat
        /\ Numbered(trades, nextTrade) /\ ListsRight(trades, tradesOf)
        /\ os \in [OrderId -> Order \cup {None}]
    BY MemoryTypes DEF TradesKept, MaybeOrder
  <1>2. /\ Indexed(orders', byAccount', byClientId', fillIds')
        /\ ClosedRight(orders', closed')
        /\ Numbered(trades', nextTrade) /\ ListsRight(trades', tradesOf')
        /\ Len(closed') <= KeepClosed /\ Len(trades') <= KeepTrades
    BY <1>1, RetentionIsRight
  <1>3. Kept' = orders'
    BY DEF Kept
  <1>4. KeptIndexed'
    BY <1>2, <1>3 DEF KeptIndexed
  <1>5. ClosedKept'
    BY <1>2 DEF ClosedKept
  <1>6. TradesKept'
    BY <1>2 DEF TradesKept
  <1>7. WithinBounds'
    BY <1>2 DEF WithinBounds
  <1>8. QED
    BY <1>4, <1>5, <1>6, <1>7 DEF MemoryRight

LEMMA WithStatus ==
  ASSUME NEW o \in Order, NEW s \in Status, NEW p, p = [o EXCEPT !.status = s]
  PROVE  p \in Order /\ p.account = o.account /\ p.cid = o.cid /\ p.status = s
  BY DEF Order

LEMMA RejectKeepsMemory ==
  ASSUME TypeInv, MemoryRight, NEW r \in Requests, NEW now \in Time, RejectOrder(r, now)
  PROVE  MemoryRight'
  <1> DEFINE id == nextOrder + 1
             o == [NewOrder(r, now) EXCEPT !.status = "rejected"]
             ai == WithAccountId(id, r.account)
             ci == WithClientId(id, r.account, r.cid)
             cl == Append(closed, Closing(id, now))
             pl == [placed EXCEPT ![id] = [order |-> o, fills |-> <<>>]]
  <1>1. id \in OrderId /\ orders[id] = None
    BY IntakeGivesFreshId DEF RejectOrder
  <1>2. /\ o \in Order /\ ~Live(o) /\ o.account = r.account /\ o.cid = r.cid
        /\ r.account \in Account /\ r.cid \in ClientId
    BY NewOrderType DEF TypeInv, NewOrder
  <1>3. EnforceRetention(Put(orders, id, o), ai, ci, fillIds, cl, pl, now)
    BY DEF RejectOrder, Put
  <1>4. pc = "idle" /\ pc' # "match" /\ nextTrade' = nextTrade
        /\ byClientId[r.account][r.cid] = 0
    BY DEF RejectOrder, Intake
  <1>5. ai \in [Account -> SUBSET OrderId] /\ ci \in [Account -> [ClientId -> {0} \cup OrderId]]
    BY <1>1, <1>2, IndexedTypes DEF TypeInv
  <1>6. /\ Indexed(orders, byAccount, byClientId, fillIds)
        /\ ClosedRight(orders, closed) /\ TradesKept
    BY <1>4 DEF MemoryRight, KeptIndexed, Kept, ClosedKept
  <1>7. /\ ai = [byAccount EXCEPT ![o.account] = @ \cup {id}]
        /\ ci = [byClientId EXCEPT ![o.account][o.cid] = id]
    BY <1>2 DEF WithAccountId, WithClientId
  <1> HIDE DEF o, id, ai, ci, pl
  <1>8. TypeOK
    BY DEF TypeInv
  <1>9. Indexed(Put(orders, id, o), ai, ci, fillIds)
    BY <1>1, <1>2, <1>4, <1>6, <1>7, <1>8, MemoryTypes, OneMoreIndexed
  <1>10. ClosedRight(Put(orders, id, o), cl) /\ cl \in Seq(ClosedOrder)
    BY <1>1, <1>2, <1>6, <1>8, MemoryTypes, OneMoreDead DEF Dead
  <1>11. Put(orders, id, o) \in [OrderId -> MaybeOrder]
    BY <1>1, <1>2, <1>8, MemoryTypes, PutFacts DEF MaybeOrder
  <1> HIDE DEF cl
  <1>12. QED
    BY <1>3, <1>4, <1>5, <1>6, <1>8, <1>9, <1>10, <1>11, ArchivingIsRight

LEMMA AcceptKeepsMemory ==
  ASSUME TypeInv, MemoryRight, NEW r \in Requests, NEW now \in Time, AcceptOrder(r, now)
  PROVE  MemoryRight'
  <1> DEFINE id == nextOrder + 1
             o == NewOrder(r, now)
             ai == WithAccountId(id, r.account)
             ci == WithClientId(id, r.account, r.cid)
  <1>1. id \in OrderId /\ orders[id] = None
    BY IntakeGivesFreshId DEF AcceptOrder
  <1>2. /\ o \in Order /\ o.account = r.account /\ o.cid = r.cid
        /\ r.account \in Account /\ r.cid \in ClientId
    BY NewOrderType DEF TypeInv, NewOrder
  <1>3. /\ pc = "idle" /\ pc' = "match" /\ byClientId[r.account][r.cid] = 0
        /\ orders' = orders /\ nextOrder' = id /\ cur' = o
        /\ byAccount' = ai /\ byClientId' = ci /\ fillIds' = fillIds
        /\ closed' = closed /\ trades' = trades /\ tradesOf' = tradesOf
        /\ nextTrade' = nextTrade
    BY DEF AcceptOrder, Intake, tradeVars
  <1>4. Indexed(orders, byAccount, byClientId, fillIds)
    BY <1>3 DEF MemoryRight, KeptIndexed, Kept
  <1>5. /\ ai = [byAccount EXCEPT ![o.account] = @ \cup {id}]
        /\ ci = [byClientId EXCEPT ![o.account][o.cid] = id]
    BY <1>2 DEF WithAccountId, WithClientId
  <1> HIDE DEF o, id, ai, ci
  <1>6. TypeOK
    BY DEF TypeInv
  <1>7. Indexed(Put(orders, id, o), ai, ci, fillIds)
    BY <1>1, <1>2, <1>3, <1>4, <1>5, <1>6, MemoryTypes, OneMoreIndexed
  <1>8. Kept' = Put(orders, id, o)
    BY <1>3 DEF Kept, Put
  <1>9. KeptIndexed'
    BY <1>3, <1>7, <1>8 DEF KeptIndexed
  <1>10. ClosedKept' /\ TradesKept' /\ WithinBounds'
    BY <1>3 DEF MemoryRight, ClosedKept, TradesKept, WithinBounds
  <1>11. QED
    BY <1>9, <1>10 DEF MemoryRight

LEMMA CancelKeepsMemory ==
  ASSUME TypeInv, MemoryRight, pc # "match", NEW id \in LiveIds, NEW now \in Time,
         CancelLive(id, now), pc' # "match"
  PROVE  MemoryRight'
  <1> DEFINE o == [orders[id] EXCEPT !.status = "cancelled", !.reason = "user"]
             cl == Append(closed, Closing(id, now))
  <1>1. id \in OrderId /\ orders[id] \in Order /\ Live(orders[id]) /\ TypeOK
    BY LiveOrders DEF TypeInv
  <1>2. o \in Order /\ o.account = orders[id].account /\ o.cid = orders[id].cid /\ ~Live(o)
    <2>1. "cancelled" \in Status /\ "user" \in Reason
      BY DEF Status, Reason
    <2>2. o = [orders[id] EXCEPT !.status = "cancelled", !.reason = "user"]
      OBVIOUS
    <2> HIDE DEF o
    <2>3. /\ o \in Order /\ o.account = orders[id].account /\ o.cid = orders[id].cid
          /\ o.status = "cancelled"
      BY ONLY <1>1, <2>1, <2>2 DEF Order
    <2>4. QED
      BY <2>3 DEF Live
  <1>3. /\ EnforceRetention(Put(orders, id, o), byAccount, byClientId, fillIds, cl, placed, now)
        /\ nextTrade' = nextTrade
    BY <1>1, MemoryTypes DEF Put, CancelLive
  <1>4. /\ Indexed(orders, byAccount, byClientId, fillIds)
        /\ ClosedRight(orders, closed) /\ TradesKept
    BY DEF MemoryRight, KeptIndexed, Kept, ClosedKept
  <1> HIDE DEF o
  <1>5. Put(orders, id, o) \in [OrderId -> MaybeOrder]
    BY <1>1, <1>2, MemoryTypes, PutFacts DEF MaybeOrder
  <1>6. Indexed(Put(orders, id, o), byAccount, byClientId, fillIds)
    BY <1>1, <1>2, <1>4, MemoryTypes, OrderIsNotNone, SameNamesIndexed DEF SameNames, Put
  <1>7. ClosedRight(Put(orders, id, o), cl) /\ cl \in Seq(ClosedOrder)
    BY <1>1, <1>2, <1>4, MemoryTypes, OneMoreDead DEF Dead
  <1> HIDE DEF cl
  <1>8. QED
    BY <1>1, <1>3, <1>4, <1>5, <1>6, <1>7, MemoryTypes, ArchivingIsRight

(* The end of a placement: its order is stored under the names it already  *)
(* has, and noted as closed unless it rests.                               *)
LEMMA ConcludeKeepsMemory ==
  ASSUME TypeInv, MemoryRight, pc = "match", NEW o \in Order,
         o.account = cur.account, o.cid = cur.cid,
         NEW extra, Conclude(o, extra),
         IF Live(o) THEN extra = <<>> ELSE extra = <<Closing(nextOrder, cur.at)>>
  PROVE  MemoryRight'
  <1> DEFINE os == Put(orders, nextOrder, o)
             fl == [filled |-> o.qty - o.remaining, ids |-> curFills]
             fi == IF curFills = <<>> THEN fillIds ELSE [fillIds EXCEPT ![nextOrder] = fl]
             cl == closed \o extra
             pl == [placed EXCEPT ![nextOrder] = [order |-> o, fills |-> curFills]]
  <1>1. /\ cur \in Order /\ nextOrder \in OrderId /\ orders[nextOrder] = None /\ TypeOK
        /\ cur.at \in Time
    BY MatchedOrder DEF TypeInv, InProgress
  <1>2. /\ EnforceRetention(os, byAccount, byClientId, fi, cl, pl, lastNow)
        /\ pc' # "match" /\ nextTrade' = nextTrade
    BY DEF Conclude, Put
  <1>3. /\ Indexed(Put(orders, nextOrder, cur), byAccount, byClientId, fillIds)
        /\ ClosedRight(orders, closed) /\ TradesKept
    BY DEF MemoryRight, KeptIndexed, Kept, ClosedKept
  <1>4. o # None /\ cur # None
    BY <1>1, OrderIsNotNone
  <1>5. os \in [OrderId -> MaybeOrder] /\ os[nextOrder] = o
    BY <1>1, MemoryTypes, PutFacts DEF MaybeOrder
  <1>6. Indexed(os, byAccount, byClientId, fi)
    <2>1. SameNames(Put(orders, nextOrder, cur), os)
      BY <1>1, <1>4, MemoryTypes DEF SameNames, Put
    <2>2. Indexed(os, byAccount, byClientId, fillIds)
      BY <1>3, <2>1, SameNamesIndexed
    <2>3. \A id \in OrderId : id # nextOrder => fi[id] = fillIds[id]
      BY <1>1, MemoryTypes
    <2> HIDE DEF os, fi
    <2>4. \A id \in OrderId : os[id] = None => fi[id] = NoFills
      BY <1>4, <1>5, <2>2, <2>3 DEF Indexed
    <2>5. QED
      BY <2>2, <2>4 DEF Indexed
  <1>7. ~Dead(orders[nextOrder])
    BY <1>1 DEF Dead
  <1>8. ClosedRight(os, cl) /\ cl \in Seq(ClosedOrder)
    <2>1. orders \in [OrderId -> MaybeOrder] /\ closed \in Seq(ClosedOrder)
      BY <1>1, MemoryTypes
    <2>2. CASE Live(o)
      <3>1. extra = <<>>
        BY <2>2
      <3>2. cl = closed
        BY <2>1, <3>1, ConcatEmptySeq
      <3>3. ~Dead(o)
        BY <2>2 DEF Dead
      <3> HIDE DEF cl
      <3>4. ClosedRight(os, closed)
        BY <1>1, <1>3, <1>7, <2>1, <3>3, NoMoreDead
      <3>5. QED
        BY <2>1, <3>2, <3>4
    <2>3. CASE ~Live(o)
      <3>1. extra = <<Closing(nextOrder, cur.at)>>
        BY <2>3
      <3>2. Closing(nextOrder, cur.at) \in ClosedOrder
        BY <1>1 DEF Closing, ClosedOrder
      <3>3. PICK c \in ClosedOrder : c = Closing(nextOrder, cur.at)
        BY <3>2
      <3>4. closed \o <<c>> = Append(closed, c)
        BY <2>1
      <3>5. cl = Append(closed, Closing(nextOrder, cur.at))
        BY <3>1, <3>3, <3>4
      <3> HIDE DEF cl
      <3>6. QED
        BY <1>1, <1>3, <1>7, <2>1, <2>3, <3>5, OneMoreDead
    <2>4. QED
      BY <2>2, <2>3
  <1> HIDE DEF os, fi, cl, pl
  <1>9. QED
    BY <1>1, <1>2, <1>3, <1>5, <1>6, <1>8, MemoryTypes, ArchivingIsRight

LEMMA FinishKeepsMemory ==
  ASSUME TypeInv, MemoryRight, FinishFilled \/ FinishResting \/ FinishCancelled
  PROVE  MemoryRight'
  <1>1. pc = "match"
    BY DEF FinishFilled, FinishResting, FinishCancelled, MatchingDone
  <1>2. cur \in Order
    BY <1>1, MatchedOrder
  <1>3. CASE FinishFilled
    <2> DEFINE o == [cur EXCEPT !.status = "filled"]
    <2>1. "filled" \in Status
      BY DEF Status
    <2>2. Conclude(o, <<Closing(nextOrder, cur.at)>>) /\ o = [cur EXCEPT !.status = "filled"]
      BY <1>3 DEF FinishFilled
    <2> HIDE DEF o
    <2>3. o \in Order /\ o.account = cur.account /\ o.cid = cur.cid /\ o.status = "filled"
      BY ONLY <1>2, <2>1, <2>2, WithStatus
    <2>4. ~Live(o)
      BY <2>3 DEF Live
    <2>5. QED
      BY <1>1, <2>2, <2>3, <2>4, ConcludeKeepsMemory
  <1>4. CASE FinishResting
    <2> DEFINE s == RestingStatus(cur)
               o == [cur EXCEPT !.status = s]
    <2>1. s \in Status /\ s \in {"partial", "open"}
      BY DEF Status, RestingStatus
    <2>2. Conclude(o, <<>>) /\ o = [cur EXCEPT !.status = s]
      BY <1>4 DEF FinishResting
    <2> HIDE DEF o, s
    <2>3. o \in Order /\ o.account = cur.account /\ o.cid = cur.cid /\ o.status = s
      BY ONLY <1>2, <2>1, <2>2, WithStatus
    <2>4. Live(o)
      BY <2>1, <2>3 DEF Live
    <2>5. QED
      BY <1>1, <2>2, <2>3, <2>4, ConcludeKeepsMemory
  <1>5. CASE FinishCancelled
    <2> DEFINE why == Refusal
               o == [cur EXCEPT !.status = "cancelled", !.reason = why]
    <2>1. "cancelled" \in Status /\ why \in Reason
      BY <1>1, <1>5, MatchedOrder DEF FinishCancelled, Refusal, Reason, Status, Tif
    <2>2. /\ Conclude(o, <<Closing(nextOrder, cur.at)>>)
          /\ o = [cur EXCEPT !.status = "cancelled", !.reason = why]
      BY <1>5 DEF FinishCancelled
    <2> HIDE DEF o, why
    <2>3. o \in Order /\ o.account = cur.account /\ o.cid = cur.cid /\ o.status = "cancelled"
      BY ONLY <1>2, <2>1, <2>2 DEF Order
    <2>4. ~Live(o)
      BY <2>3 DEF Live
    <2>5. QED
      BY <1>1, <2>2, <2>3, <2>4, ConcludeKeepsMemory
  <1>6. QED
    BY <1>3, <1>4, <1>5

LEMMA FillKeepsMemory ==
  ASSUME TypeInv, MemoryRight, NEW px \in Price, Fill(px)
  PROVE  MemoryRight'
  <1> DEFINE mid == FrontEntry(px)
             m == orders[mid]
             q == SmallerOf(cur.remaining, m.remaining)
             done == m.remaining = q
             maker == MakerAfterFill(m, q)
             taker == [cur EXCEPT !.remaining = cur.remaining - q]
             t == nextTrade + 1
             trade == [id |-> t, maker |-> mid, taker |-> nextOrder,
                       makerAccount |-> m.account, takerAccount |-> cur.account,
                       takerSide |-> cur.side, price |-> px, qty |-> q,
                       seq |-> nextSeq + 1, at |-> cur.at]
  <1>1. /\ pc = "match" /\ cur \in Order /\ nextOrder \in OrderId
        /\ cur.account \in Account /\ cur.side \in Side
        /\ cur.remaining \in Nat /\ cur.at \in Time
        /\ mid \in OrderId /\ mid \in LiveIds /\ m \in Order /\ m.account \in Account
        /\ m.remaining \in Nat /\ q \in Nat /\ q <= cur.remaining /\ q <= m.remaining
        /\ mid # nextOrder
    BY FillContext
  <1>2. /\ orders' = [orders EXCEPT ![mid] = maker]
        /\ cur' = taker
        /\ closed' = IF done THEN Append(closed, Closing(mid, cur.at)) ELSE closed
        /\ nextTrade' = t
        /\ trades' = Append(trades, trade)
        /\ tradesOf' = [tradesOf EXCEPT ![m.account] = @ \cup {t},
                                        ![cur.account] = @ \cup {t}]
        /\ byAccount' = byAccount /\ byClientId' = byClientId /\ fillIds' = fillIds
        /\ nextOrder' = nextOrder /\ pc' = pc
    BY DEF Fill
  <1>3. TypeOK /\ Live(m) /\ nextSeq \in Nat /\ nextTrade \in Nat
    BY <1>1 DEF TypeInv, TypeOK, LiveIds
  <1>4. /\ maker \in Order /\ maker.account = m.account /\ maker.cid = m.cid
        /\ Live(maker) <=> ~done
    <2>1. m.remaining - q \in Nat
      BY <1>1
    <2>2. maker = [m EXCEPT !.remaining = m.remaining - q,
                            !.status = IF done THEN "filled" ELSE "partial"]
      BY DEF MakerAfterFill
    <2> HIDE DEF maker
    <2>3. maker \in Order /\ maker.account = m.account /\ maker.cid = m.cid
      BY <1>1, <2>1, <2>2 DEF Order, Status
    <2>4. maker.status = IF done THEN "filled" ELSE "partial"
      BY <1>1, <2>2 DEF Order
    <2>5. QED
      BY <2>3, <2>4 DEF Live
  <1>5. taker \in Order /\ taker.account = cur.account /\ taker.cid = cur.cid
    BY <1>1 DEF Order
  <1>6. /\ trade \in Trade /\ trade.id = t
        /\ Parties(trade) = {m.account, cur.account}
    BY <1>1, <1>3 DEF Trade, Parties
  <1>7. /\ Indexed(Put(orders, nextOrder, cur), byAccount, byClientId, fillIds)
        /\ ClosedRight(orders, closed)
        /\ Numbered(trades, nextTrade) /\ ListsRight(trades, tradesOf)
    BY <1>1 DEF MemoryRight, KeptIndexed, Kept, ClosedKept, TradesKept
  <1>8. orders' = Put(orders, mid, maker)
    BY <1>2 DEF Put
  <1> HIDE DEF mid, m, q, done, maker, taker, trade, t
  <1>9. KeptIndexed'
    <2>1. Kept' = Put(Put(orders, mid, maker), nextOrder, taker)
      BY <1>1, <1>2, <1>8 DEF Kept, Put
    <2>2. SameNames(Put(orders, nextOrder, cur), Put(Put(orders, mid, maker), nextOrder, taker))
      BY <1>1, <1>3, <1>4, <1>5, MemoryTypes, OrderIsNotNone DEF Put, m, SameNames
    <2>3. Indexed(Put(Put(orders, mid, maker), nextOrder, taker), byAccount, byClientId, fillIds)
      BY <1>7, <2>2, SameNamesIndexed
    <2>4. QED
      BY <1>2, <2>1, <2>3 DEF KeptIndexed
  <1>10. ClosedKept'
    <2>1. ~Dead(orders[mid]) /\ orders \in [OrderId -> MaybeOrder] /\ closed \in Seq(ClosedOrder)
      BY <1>3, MemoryTypes DEF Dead, m
    <2>2. CASE done
      BY <1>1, <1>2, <1>4, <1>7, <1>8, <2>1, <2>2, OneMoreDead DEF ClosedKept
    <2>3. CASE ~done
      BY <1>1, <1>2, <1>4, <1>7, <1>8, <2>1, <2>3, NoMoreDead DEF Dead, ClosedKept
    <2>4. QED
      BY <2>2, <2>3
  <1>11. TradesKept'
    <2>1. trades \in Seq(Trade) /\ tradesOf \in [Account -> SUBSET Nat] /\ t = nextTrade + 1
      BY <1>3, <1>6, MemoryTypes DEF t
    <2>2. ASSUME NEW a
          PROVE  /\ Numbered(trades', t)
                 /\ TradesBy(trades', a) = IF a \in Parties(trade)
                                           THEN TradesBy(trades, a) \cup {trade.id}
                                           ELSE TradesBy(trades, a)
      <3>1. /\ trades \in Seq(Trade) /\ nextTrade \in Nat /\ Numbered(trades, nextTrade)
            /\ trade \in Trade /\ t = nextTrade + 1 /\ trade.id = t
            /\ trades' = Longer(trades, trade)
        BY <1>2, <1>3, <1>6, <1>7, <2>1 DEF Longer
      <3>2. QED
        BY ONLY <3>1, OneMoreTrade
    <2>3. \A a \in Account : tradesOf'[a] = IF a \in {m.account, cur.account}
                                            THEN tradesOf[a] \cup {t} ELSE tradesOf[a]
      BY <1>1, <1>2, <2>1
    <2>4. ListsRight(trades', tradesOf')
      BY <1>6, <1>7, <2>2, <2>3 DEF ListsRight
    <2>5. nextTrade' = t
      BY <1>2
    <2>6. QED
      BY <2>2, <2>4, <2>5 DEF TradesKept
  <1>12. WithinBounds'
    BY <1>1, <1>2 DEF WithinBounds
  <1>13. QED
    BY <1>9, <1>10, <1>11, <1>12 DEF MemoryRight

LEMMA InitMemoryRight == Init => MemoryRight
  <1> SUFFICES ASSUME Init
               PROVE  MemoryRight
    OBVIOUS
  <1>1. 0 \notin OrderId
    BY OrderIdsAreInts
  <1>2. Len(closed) = 0 /\ Len(trades) = 0 /\ DOMAIN closed = {} /\ DOMAIN trades = {}
    <2>1. closed = <<>> /\ trades = <<>>
      BY DEF Init
    <2>2. QED
      BY ONLY <2>1
  <1>3. KeptIndexed
    BY <1>1 DEF Init, KeptIndexed, Kept, Indexed, Has
  <1>4. ClosedKept
    BY <1>2 DEF Init, ClosedKept, ClosedRight, Ids, Distinct, Dead
  <1>5. TradesKept
    BY <1>2 DEF Init, TradesKept, Numbered, ListsRight, TradesBy
  <1>6. WithinBounds
    BY <1>2, BookAssumption DEF WithinBounds
  <1>7. QED
    BY <1>3, <1>4, <1>5, <1>6 DEF MemoryRight

LEMMA StepKeepsMemory == TypeInv /\ MemoryRight /\ [Next]_vars => MemoryRight'
  <1> SUFFICES ASSUME TypeInv, MemoryRight, [Next]_vars
               PROVE  MemoryRight'
    OBVIOUS
  <1>1. ASSUME UNCHANGED <<orders, byAccount, byClientId, fillIds, closed, trades, tradesOf,
                           nextTrade, nextOrder, cur>>,
               (pc' = "match") <=> (pc = "match")
        PROVE  MemoryRight'
    BY <1>1 DEF Kept, MemoryRight, KeptIndexed, ClosedKept, TradesKept, WithinBounds
  <1>2. ASSUME NEW a \in Account, NEW x \in Amount, NEW y \in Amount,
               Deposit(a, x, y) \/ Withdraw(a, x, y)
        PROVE  MemoryRight'
    BY <1>1, <1>2 DEF Deposit, Withdraw, MoveFunds, indexVars, tradeVars, placeVars
  <1>3. ASSUME NEW r \in Requests, NEW now \in Time, RejectOrder(r, now) \/ AcceptOrder(r, now)
        PROVE  MemoryRight'
    BY <1>3, RejectKeepsMemory, AcceptKeepsMemory
  <1>4. ASSUME NEW a \in Account, NEW id \in OrderId, NEW now \in Time,
               Cancel(a, id, now)
        PROVE  MemoryRight'
    BY <1>4, CancelKeepsMemory DEF Cancel
  <1>5. ASSUME NEW a \in Account, NEW id \in OrderId, NEW now \in Time,
               CancelRefused(a, id, now)
        PROVE  MemoryRight'
    BY <1>1, <1>5 DEF CancelRefused, indexVars, tradeVars, placeVars
  <1>6. ASSUME NEW a \in Account, NEW now \in Time, CancelAll(a, now)
        PROVE  MemoryRight'
    BY <1>1, <1>6 DEF CancelAll, indexVars, tradeVars, placeVars
  <1>7. ASSUME NEW px \in Price, DropStale(px) \/ StopAtOwn(px)
        PROVE  MemoryRight'
    BY <1>1, <1>7 DEF DropStale, StopAtOwn, indexVars, tradeVars, placeVars
  <1>8. ASSUME NEW px \in Price, Fill(px)
        PROVE  MemoryRight'
    BY <1>8, FillKeepsMemory
  <1>9. CASE FinishFilled \/ FinishResting \/ FinishCancelled
    BY <1>9, FinishKeepsMemory
  <1>10. CASE CancelNext
    <2>1. PICK id \in doomed.ids : CancelLive(id, doomed.now)
      BY <1>10 DEF CancelNext
    <2>2. pc # "match" /\ id \in LiveIds /\ doomed.now \in Time /\ pc' # "match"
      BY <1>10 DEF CancelNext, TypeInv, InProgress
    <2>3. QED
      BY <2>1, <2>2, CancelKeepsMemory
  <1>11. CASE UNCHANGED vars
    BY <1>1, <1>11 DEF vars, indexVars, tradeVars, placeVars
  <1>12. QED
    BY <1>2, <1>3, <1>4, <1>5, <1>6, <1>7, <1>8, <1>9, <1>10, <1>11 DEF Next, Command, Work

(* Memory is exactly what it should be, for any limits of retention and    *)
(* any commands: an account's orders and client ids in the lookups are     *)
(* those of its orders in memory, each key names the one order that has    *)
(* it, archiving forgets closed orders and the oldest trades only and      *)
(* within its bounds, and trades in memory are numbered without a gap      *)
(* under exactly the accounts that traded. enforce_retention and archive   *)
(* take from five structures at once and leave none of them behind.        *)
THEOREM MemoryExact == Spec => []MemoryIsExact
  <1>1. Spec => []MemoryRight
    BY InitMemoryRight, StepKeepsMemory, TypeInvariant, PTL DEF Spec
  <1>2. TypeInv /\ MemoryRight => MemoryIsExact
    <2> SUFFICES ASSUME TypeInv, MemoryRight
                 PROVE  MemoryIsExact
      OBVIOUS
    <2>1. TypeOK /\ 0 \notin OrderId
      BY OrderIdsAreInts DEF TypeInv
    <2>2. IndexesExact
      <3> SUFFICES ASSUME pc # "match"
                   PROVE  /\ \A a \in Account :
                               byAccount[a] = {id \in InMemory : orders[id].account = a}
                          /\ \A a \in Account, c \in ClientId :
                               {id \in InMemory : orders[id].account = a /\ orders[id].cid = c}
                                 = IF byClientId[a][c] = 0 THEN {} ELSE {byClientId[a][c]}
                          /\ \A id \in OrderId : orders[id] = None => fillIds[id] = NoFills
        BY DEF IndexesExact
      <3>1. Indexed(orders, byAccount, byClientId, fillIds)
        BY DEF MemoryRight, KeptIndexed, Kept
      <3>2. ASSUME NEW a \in Account
            PROVE  byAccount[a] = {id \in InMemory : orders[id].account = a}
        BY <2>1, <3>1, MemoryTypes DEF Indexed, InMemory
      <3>3. ASSUME NEW a \in Account, NEW c \in ClientId
            PROVE  {id \in InMemory : orders[id].account = a /\ orders[id].cid = c}
                     = IF byClientId[a][c] = 0 THEN {} ELSE {byClientId[a][c]}
        BY <2>1, <3>1, MemoryTypes DEF Indexed, InMemory, Has
      <3>4. QED
        BY <3>1, <3>2, <3>3 DEF Indexed
    <2>3. RetentionExact
      <3> SUFFICES ASSUME pc = "idle"
                   PROVE  /\ Len(closed) <= KeepClosed /\ Len(trades) <= KeepTrades
                          /\ {closed[i].id : i \in DOMAIN closed} = InMemory \ LiveIds
                          /\ \A i, j \in DOMAIN closed : closed[i].id = closed[j].id => i = j
                          /\ \A i \in DOMAIN trades : trades[i].id = nextTrade - Len(trades) + i
                          /\ \A a \in Account :
                               tradesOf[a] = {trades[i].id : i \in {j \in DOMAIN trades :
                                                a \in {trades[j].makerAccount, trades[j].takerAccount}}}
        BY DEF RetentionExact
      <3>1. Len(closed) <= KeepClosed /\ Len(trades) <= KeepTrades
        BY DEF MemoryRight, WithinBounds
      <3>2. {closed[i].id : i \in DOMAIN closed} = InMemory \ LiveIds
        BY DEF MemoryRight, ClosedKept, ClosedRight, Ids, Dead, InMemory, LiveIds
      <3>3. \A i, j \in DOMAIN closed : closed[i].id = closed[j].id => i = j
        BY DEF MemoryRight, ClosedKept, ClosedRight, Distinct
      <3>4. \A i \in DOMAIN trades : trades[i].id = nextTrade - Len(trades) + i
        BY DEF MemoryRight, TradesKept, Numbered
      <3>5. \A a \in Account :
              tradesOf[a] = {trades[i].id : i \in {j \in DOMAIN trades :
                               a \in {trades[j].makerAccount, trades[j].takerAccount}}}
        BY DEF MemoryRight, TradesKept, ListsRight, TradesBy, Parties
      <3>6. QED
        BY <3>1, <3>2, <3>3, <3>4, <3>5
    <2>4. QED
      BY <2>2, <2>3 DEF MemoryIsExact
  <1>3. QED
    BY <1>1, <1>2, TypeInvariant, PTL

-----------------------------------------------------------------------------
(* Price-time priority. What an order meets is told by the living orders   *)
(* alone, whatever levels and queues they are found through.               *)
Against(v, side, price) ==
  {i \in OrderId : v[i] # None /\ v[i].side # side /\ Crosses(side, price, v[i].price)}

Sooner(v, i, j) ==
  \/ v[i].price = v[j].price /\ i < j
  \/ IF v[i].side = "sell" THEN v[i].price < v[j].price ELSE v[i].price > v[j].price

Foremost(v, side, price, i) ==
  /\ i \in Against(v, side, price)
  /\ \A j \in Against(v, side, price) \ {i} : Sooner(v, i, j)

LEMMA AgainstFacts ==
  ASSUME NEW v \in [OrderId -> MaybeOrder], NEW side \in Side, NEW price, NEW i,
         i \in Against(v, side, price)
  PROVE  /\ i \in OrderId /\ i \in Int /\ v[i] \in Order /\ v[i] # None
         /\ v[i].side = Opposite(side) /\ v[i].side \in Side
         /\ v[i].price \in Price /\ v[i].price \in Int
         /\ v[i].remaining \in Nat /\ v[i].account \in Account
         /\ Crosses(side, price, v[i].price)
  BY OrderFields, OrderIdsAreInts DEF Against, MaybeOrder, Side, Opposite

(* Of two living orders met, one is met first.                             *)
LEMMA SoonerIsAnOrder ==
  ASSUME NEW v \in [OrderId -> MaybeOrder], NEW side \in Side, NEW price,
         NEW i \in Against(v, side, price), NEW j \in Against(v, side, price)
  PROVE  /\ ~(Sooner(v, i, j) /\ Sooner(v, j, i))
         /\ i # j => Sooner(v, i, j) \/ Sooner(v, j, i)
  BY AgainstFacts DEF Sooner

(* The front of the best level is the order to trade with.                 *)
LEMMA FrontIsForemost ==
  ASSUME TypeInv, LevelsExact, pc = "match", NEW px \in Price,
         Best(Opposite(cur.side), px), Crosses(cur.side, cur.price, px),
         level[Opposite(cur.side)][px].queue # <<>>, FrontEntry(px) \in LiveIds
  PROVE  Foremost(Alive, cur.side, cur.price, FrontEntry(px))
  <1> DEFINE s == Opposite(cur.side)
             f == FrontEntry(px)
  <1>1. /\ TypeOK /\ Alive \in [OrderId -> MaybeOrder]
        /\ \A id \in OrderId : Alive[id] # None <=> id \in LiveIds
        /\ \A id \in LiveIds : id \in OrderId /\ Alive[id] = orders[id]
    BY AliveFacts DEF TypeInv, MaybeOrder
  <1>2. cur.side \in Side /\ s \in Side /\ s # cur.side
    BY MatchedOrder DEF Opposite, Side
  <1>3. /\ px \in keys[s] /\ \A py \in keys[s] : AtLeastAsGood(s, px, py)
        /\ level[s][px].queue # <<>> /\ f \in LiveIds
        /\ f = Head(level[s][px].queue)
    BY DEF Best, FrontEntry
  <1> HIDE DEF s, f
  <1>4. /\ level[s][px].queue \in Seq(OrderId) /\ Rising(level[s][px].queue)
        /\ \A id \in Entries(level[s][px].queue) : Alive[id] # None => At(Alive[id], s, px)
    BY <1>1, <1>2, LevelTypes DEF LevelsExact, LevelRight, LevelCounts
  <1>5. f \in Entries(level[s][px].queue) /\ \A e \in Entries(level[s][px].queue) : f <= e
    BY <1>3, <1>4, QueueTail
  <1>6. f \in OrderId /\ Alive[f] # None /\ Alive[f].side = s /\ Alive[f].price = px
    BY <1>1, <1>3, <1>4, <1>5 DEF At
  <1>7. f \in Against(Alive, cur.side, cur.price)
    BY <1>2, <1>6 DEF Against
  <1>8. ASSUME NEW j \in Against(Alive, cur.side, cur.price) \ {f}
        PROVE  Sooner(Alive, f, j)
    <2> DEFINE p == Alive[j].price
    <2>1. /\ j \in OrderId /\ j \in Int /\ Alive[j] # None /\ Alive[j].side = s /\ p \in Int
          /\ p \in Price
      BY <1>1, <1>2, AgainstFacts DEF s
    <2>2. j \in LiveIds /\ Alive[j] = orders[j]
      BY <1>1, <2>1
    <2>3. p \in keys[s] /\ j \in Entries(level[s][p].queue)
      BY <2>1, <2>2, RestsAtItsLevel
    <2> HIDE DEF p
    <2>4. AtLeastAsGood(s, px, p)
      BY <1>3, <2>3
    <2>5. f \in Int /\ px \in Int
      BY <1>6, OrderIdsAreInts, PricesAreInts
    <2>6. p = px => f < j
      BY <1>5, <1>8, <2>1, <2>3, <2>5
    <2>7. QED
      BY <1>6, <2>1, <2>4, <2>5, <2>6 DEF Sooner, AtLeastAsGood, p
  <1>9. QED
    BY <1>7, <1>8 DEF Foremost, f

LEMMA NothingCrosses ==
  ASSUME TypeInv, LevelsExact, pc = "match",
         \A px \in keys[Opposite(cur.side)] : ~Crosses(cur.side, cur.price, px)
  PROVE  Against(Alive, cur.side, cur.price) = {}
  <1>1. /\ Alive \in [OrderId -> MaybeOrder]
        /\ \A id \in OrderId : Alive[id] # None <=> id \in LiveIds
        /\ \A id \in LiveIds : id \in OrderId /\ Alive[id] = orders[id]
    BY AliveFacts DEF TypeInv, MaybeOrder
  <1>2. cur.side \in Side
    BY MatchedOrder
  <1>3. ASSUME NEW j \in Against(Alive, cur.side, cur.price)
        PROVE  FALSE
    BY <1>1, <1>2, AgainstFacts, RestsAtItsLevel
  <1>4. QED
    BY <1>3

(* The lots available() counts are summed over queue entries; a sum over   *)
(* entries is one over a function of them.                                 *)
LotsAt(s, e) == EntryAt(s, e).remaining

WalkParts(s, S, total) ==
  total = [T \in SUBSET S |->
             IF T = {} THEN 0 ELSE LotsAt(s, Pick(T)) + total[T \ {Pick(T)}]]

LEMMA WalkIsARecursion ==
  ASSUME NEW s, NEW S
  PROVE  MapThenSumSet(LAMBDA e : EntryAt(s, e).remaining, S)
           = (CHOOSE total : WalkParts(s, S, total))[S]
  BY Zenon DEF MapThenSumSet, MapThenFoldSet, WalkParts, LotsAt, Pick

LEMMA WalkIsASum ==
  ASSUME NEW s, NEW S, IsFiniteSet(S), NEW f, f = [e \in S |-> LotsAt(s, e)]
  PROVE  MapThenSumSet(LAMBDA e : EntryAt(s, e).remaining, S) = SumFunctionOnSet(f, S)
  <1> DEFINE t == CHOOSE total : WalkParts(s, S, total)
             u == CHOOSE total : SumsParts(f, S, total)
  <1>1. ASSUME NEW total
        PROVE  WalkParts(s, S, total) <=> SumsParts(f, S, total)
    <2> DEFINE g(T) == IF T = {} THEN 0 ELSE LotsAt(s, Pick(T)) + total[T \ {Pick(T)}]
               h(T) == IF T = {} THEN 0 ELSE f[Pick(T)] + total[T \ {Pick(T)}]
    <2>1. \A T \in SUBSET S : g(T) = h(T)
      BY PickIsIn
    <2> HIDE DEF g, h
    <2>2. [T \in SUBSET S |-> g(T)] = [T \in SUBSET S |-> h(T)]
      BY <2>1
    <2>3. QED
      BY <2>2 DEF g, h, WalkParts, SumsParts
  <1>2. \E total : SumsParts(f, S, total)
    BY SumExists
  <1>3. SumsParts(f, S, t) /\ SumsParts(f, S, u)
    <2>1. \E total : WalkParts(s, S, total)
      BY <1>1, <1>2
    <2>2. WalkParts(s, S, t)
      BY <2>1
    <2>3. SumsParts(f, S, u)
      BY <1>2
    <2> HIDE DEF t, u
    <2>4. QED
      BY <1>1, <2>2, <2>3
  <1>4. t[S] = u[S]
    <2> HIDE DEF t, u
    <2>1. QED
      BY <1>3, OneSum
  <1>5. SumFunctionOnSet(f, S) = u[S]
    BY SumIsARecursion
  <1>6. MapThenSumSet(LAMBDA e : EntryAt(s, e).remaining, S) = t[S]
    BY WalkIsARecursion, Zenon
  <1>7. QED
    <2> HIDE DEF t, u
    <2>1. QED
      BY <1>4, <1>5, <1>6, Zenon

(* What the walk counts: the living orders met before any of one's own.    *)
Ahead(v, side, price, a) ==
  {i \in Against(v, side, price) :
     /\ v[i].account # a
     /\ \A j \in Against(v, side, price) : v[j].account = a => Sooner(v, i, j)}

LotsAhead(v, side, price, a) ==
  [i \in OrderId |-> IF i \in Ahead(v, side, price, a) THEN v[i].remaining ELSE 0]

SumAhead(v, side, price, a) == SumFunctionOnSet(LotsAhead(v, side, price, a), OrderId)

Slot(s, e) == level[s][e[1]].queue[e[2]]

(* Entries of living orders, and the orders, are met in one order.         *)
LEMMA WalkMeets ==
  ASSUME TypeInv, LevelsExact, NEW side \in Side, NEW price \in Price,
         NEW s, s = Opposite(side)
  PROVE  /\ \A e \in Reachable(side, price) :
              /\ Slot(s, e) \in Against(Alive, side, price)
              /\ EntryAt(s, e) = Alive[Slot(s, e)]
         /\ \A i \in Against(Alive, side, price) :
              \E e \in Reachable(side, price) : Slot(s, e) = i
         /\ \A e, f \in Reachable(side, price) :
              /\ Slot(s, e) = Slot(s, f) => e = f
              /\ MetBefore(s, e[1], e[2], f[1], f[2]) <=> Sooner(Alive, Slot(s, e), Slot(s, f))
  <1>1. /\ TypeOK /\ Alive \in [OrderId -> MaybeOrder]
        /\ \A id \in OrderId : Alive[id] # None <=> id \in LiveIds
        /\ \A id \in LiveIds : id \in OrderId /\ Alive[id] = orders[id]
    BY AliveFacts DEF TypeInv, MaybeOrder
  <1>2. s \in Side /\ s # side /\ keys[s] \subseteq Price
    BY <1>1 DEF Opposite, Side, TypeOK
  <1>3. ASSUME NEW p \in Price
        PROVE  /\ Rising(level[s][p].queue) /\ level[s][p].queue \in Seq(OrderId)
               /\ \A i \in DOMAIN level[s][p].queue :
                    /\ level[s][p].queue[i] \in OrderId /\ i \in Int
                    /\ Alive[level[s][p].queue[i]] # None => At(Alive[level[s][p].queue[i]], s, p)
    BY <1>1, <1>2, LevelTypes, LenProperties DEF LevelsExact, LevelRight, LevelCounts, Entries
  <1>4. \A e : e \in Reachable(side, price) <=>
          \E p \in keys[s] : \E i \in DOMAIN level[s][p].queue :
            /\ e = <<p, i>> /\ Crosses(side, price, p)
            /\ level[s][p].queue[i] \in LiveIds
    BY DEF Reachable
  <1>5. ASSUME NEW e \in Reachable(side, price)
        PROVE  \E p \in Price, i \in Int :
                 /\ e = <<p, i>> /\ p \in keys[s] /\ Crosses(side, price, p)
                 /\ i \in DOMAIN level[s][p].queue
                 /\ Slot(s, e) = level[s][p].queue[i] /\ Slot(s, e) \in OrderId
                 /\ Slot(s, e) \in LiveIds
                 /\ At(Alive[Slot(s, e)], s, p)
                 /\ EntryAt(s, e) = Alive[Slot(s, e)]
    <2>0. PICK p \in keys[s] : \E i \in DOMAIN level[s][p].queue :
            /\ e = <<p, i>> /\ Crosses(side, price, p)
            /\ level[s][p].queue[i] \in LiveIds
      BY <1>4, <1>5
    <2>1. PICK i \in DOMAIN level[s][p].queue :
            /\ e = <<p, i>> /\ Crosses(side, price, p)
            /\ level[s][p].queue[i] \in LiveIds
      BY <2>0
    <2>2. p \in Price /\ Slot(s, e) = level[s][p].queue[i]
      BY <1>2, <2>1 DEF Slot
    <2>3. i \in Int /\ Slot(s, e) \in OrderId /\ At(Alive[Slot(s, e)], s, p)
      BY <1>1, <1>3, <2>1, <2>2
    <2>4. EntryAt(s, e) = Alive[Slot(s, e)]
      BY <1>1, <2>1, <2>2 DEF EntryAt, Slot
    <2>5. QED
      BY <2>1, <2>2, <2>3, <2>4
  <1>6. ASSUME NEW e \in Reachable(side, price)
        PROVE  Slot(s, e) \in Against(Alive, side, price) /\ EntryAt(s, e) = Alive[Slot(s, e)]
    BY <1>2, <1>5 DEF Against, At
  <1>7. ASSUME NEW i \in Against(Alive, side, price)
        PROVE  \E e \in Reachable(side, price) : Slot(s, e) = i
    <2> DEFINE p == Alive[i].price
    <2>1. /\ i \in OrderId /\ Alive[i] # None /\ Alive[i].side = s /\ p \in Price
          /\ Crosses(side, price, p)
      BY <1>1, AgainstFacts
    <2>2. i \in LiveIds /\ Alive[i] = orders[i]
      BY <1>1, <2>1
    <2>3. p \in keys[s] /\ i \in Entries(level[s][p].queue)
      BY <2>1, <2>2, RestsAtItsLevel
    <2> HIDE DEF p
    <2>4. PICK k \in DOMAIN level[s][p].queue : level[s][p].queue[k] = i
      BY <2>3 DEF Entries
    <2>5. PICK e : e = <<p, k>>
      OBVIOUS
    <2>6. e \in Reachable(side, price)
      BY <1>4, <2>1, <2>2, <2>3, <2>4, <2>5
    <2>7. Slot(s, e) = i
      BY <2>4, <2>5 DEF Slot
    <2>8. QED
      BY <2>6, <2>7
  <1>8. ASSUME NEW e \in Reachable(side, price), NEW f \in Reachable(side, price)
        PROVE  /\ Slot(s, e) = Slot(s, f) => e = f
               /\ MetBefore(s, e[1], e[2], f[1], f[2]) <=> Sooner(Alive, Slot(s, e), Slot(s, f))
    <2>1. PICK p \in Price, i \in Int :
            /\ e = <<p, i>> /\ i \in DOMAIN level[s][p].queue
            /\ Slot(s, e) = level[s][p].queue[i] /\ Slot(s, e) \in OrderId
            /\ At(Alive[Slot(s, e)], s, p)
      BY <1>5
    <2>2. PICK q \in Price, j \in Int :
            /\ f = <<q, j>> /\ j \in DOMAIN level[s][q].queue
            /\ Slot(s, f) = level[s][q].queue[j] /\ Slot(s, f) \in OrderId
            /\ At(Alive[Slot(s, f)], s, q)
      BY <1>5
    <2>3. PICK x, y \in OrderId : x = Slot(s, e) /\ y = Slot(s, f)
      BY <2>1, <2>2
    <2>4. x \in Int /\ y \in Int /\ p \in Int /\ q \in Int
      BY OrderIdsAreInts, PricesAreInts
    <2>5. p = q => (i < j => x < y) /\ (j < i => y < x)
      BY <1>3, <2>1, <2>2, <2>3 DEF Rising
    <2>6. p = q => (i < j <=> x < y) /\ (x = y => i = j)
      BY <2>1, <2>2, <2>3, <2>4, <2>5
    <2>7. /\ Alive[x].price = p /\ Alive[x].side = s /\ Alive[y].price = q
      BY <2>1, <2>2, <2>3 DEF At
    <2>8. Slot(s, e) = Slot(s, f) => e = f
      BY <2>1, <2>2, <2>3, <2>6, <2>7
    <2>9. MetBefore(s, p, i, q, j) <=> Sooner(Alive, x, y)
      BY <1>2, <2>4, <2>6, <2>7 DEF Side, MetBefore, AtLeastAsGood, Sooner
    <2>10. QED
      BY <2>1, <2>2, <2>3, <2>8, <2>9
  <1>9. QED
    BY <1>6, <1>7, <1>8
LEMMA LotsAheadFacts ==
  ASSUME NEW v \in [OrderId -> MaybeOrder], NEW side \in Side, NEW price, NEW a
  PROVE  /\ \A i \in OrderId : LotsAhead(v, side, price, a)[i] \in Nat
         /\ \A i \in Ahead(v, side, price, a) :
              i \in OrderId /\ LotsAhead(v, side, price, a)[i] = v[i].remaining
         /\ \A i \in OrderId \ Ahead(v, side, price, a) : LotsAhead(v, side, price, a)[i] = 0
  BY AgainstFacts DEF Ahead, LotsAhead

(* available() counts the lots ahead of the first own order.               *)
LEMMA AvailableIsAhead ==
  ASSUME TypeInv, LevelsExact, NEW side \in Side, NEW price \in Price, NEW a
  PROVE  Available(side, price, a) = SumAhead(Alive, side, price, a)
  <1> DEFINE s == Opposite(side)
             R == Reachable(side, price)
             own == {e \in R : EntryAt(s, e).account = a}
             ahead == {e \in R \ own : \A f \in own : MetBefore(s, e[1], e[2], f[1], f[2])}
             g == [e \in ahead |-> LotsAt(s, e)]
             b == [e \in ahead |-> Slot(s, e)]
             h == LotsAhead(Alive, side, price, a)
             A == Ahead(Alive, side, price, a)
             V == Against(Alive, side, price)
  <1>1. Available(side, price, a)
          = MapThenSumSet(LAMBDA e : EntryAt(s, e).remaining, ahead)
    BY Zenon DEF Available
  <1>2. /\ \A e \in R : Slot(s, e) \in V /\ EntryAt(s, e) = Alive[Slot(s, e)]
        /\ \A i \in V : \E e \in R : Slot(s, e) = i
    BY WalkMeets
  <1>3. \A e, f \in R :
          /\ Slot(s, e) = Slot(s, f) => e = f
          /\ MetBefore(s, e[1], e[2], f[1], f[2]) <=> Sooner(Alive, Slot(s, e), Slot(s, f))
    BY WalkMeets
  <1>4. /\ Alive \in [OrderId -> MaybeOrder] /\ A \subseteq OrderId
        /\ \A i \in OrderId : h[i] \in Int
        /\ \A i \in A : h[i] = Alive[i].remaining
        /\ \A i \in OrderId \ A : h[i] = 0
    <2>1. Alive \in [OrderId -> MaybeOrder]
      BY AliveFacts DEF TypeInv, MaybeOrder
    <2> HIDE DEF A, h
    <2>2. QED
      BY <2>1, LotsAheadFacts DEF A, h
  <1>5. \A i : i \in A <=> i \in V /\ Alive[i].account # a
                             /\ \A j \in V : Alive[j].account = a => Sooner(Alive, i, j)
    BY DEF Ahead
  <1> HIDE DEF s, R, h, A, V
  <1>6. \A e \in R : e \in own <=> Alive[Slot(s, e)].account = a
    BY <1>2
  <1>7. \A e \in R : e \in ahead <=> Slot(s, e) \in A
    <2> TAKE e \in R
    <2>1. ASSUME e \in ahead
          PROVE  Slot(s, e) \in A
      <3>1. Alive[Slot(s, e)].account # a /\ Slot(s, e) \in V
        BY <1>2, <1>6, <2>1
      <3>2. ASSUME NEW j \in V, Alive[j].account = a
            PROVE  Sooner(Alive, Slot(s, e), j)
        <4>1. PICK f \in R : Slot(s, f) = j
          BY <1>2
        <4>2. f \in own
          BY <1>6, <3>2, <4>1
        <4>3. MetBefore(s, e[1], e[2], f[1], f[2])
          BY <2>1, <4>2
        <4>4. QED
          BY <1>3, <4>1, <4>3
      <3>3. QED
        BY <1>5, <3>1, <3>2
    <2>2. ASSUME Slot(s, e) \in A
          PROVE  e \in ahead
      <3>1. e \notin own
        BY <1>5, <1>6, <2>2
      <3>2. ASSUME NEW f \in own
            PROVE  MetBefore(s, e[1], e[2], f[1], f[2])
        BY <1>2, <1>3, <1>5, <1>6, <2>2
      <3>3. QED
        BY <3>1, <3>2
    <2>3. QED
      BY <2>1, <2>2
  <1>8. ahead \subseteq R
    OBVIOUS
  <1> HIDE DEF own, ahead
  <1>9. /\ \A e, f \in ahead : b[e] = b[f] => e = f
        /\ A = {b[e] : e \in ahead}
        /\ b \in [ahead -> OrderId]
    <2>1. \A e \in ahead : b[e] = Slot(s, e) /\ b[e] \in A /\ e \in R
      BY <1>7, <1>8
    <2>2. ASSUME NEW i \in A
          PROVE  \E e \in ahead : b[e] = i
      <3>1. PICK e \in R : Slot(s, e) = i
        BY <1>2, <1>5
      <3>2. e \in ahead
        BY <1>7, <3>1
      <3>3. QED
        BY <2>1, <3>1, <3>2
    <2>3. \A e, f \in ahead : b[e] = b[f] => e = f
      BY <1>3, <2>1
    <2>4. b \in [ahead -> OrderId]
      BY <1>4, <2>1
    <2> HIDE DEF b
    <2>5. A = {b[e] : e \in ahead}
      BY <2>1, <2>2
    <2>6. QED
      BY <2>3, <2>4, <2>5
  <1>10. IsFiniteSet(ahead)
    <2> HIDE DEF b
    <2>1. b \in Injection(ahead, OrderId)
      BY <1>9 DEF Injection, IsInjective
    <2>2. QED
      BY <2>1, OrderIdsAreFinite, FS_Injection
  <1>11. \A e \in ahead : g[e] \in Int /\ g[e] = h[b[e]]
    <2> TAKE e \in ahead
    <2>1. e \in R /\ b[e] = Slot(s, e) /\ Slot(s, e) \in A /\ g[e] = EntryAt(s, e).remaining
      BY <1>7, <1>8 DEF LotsAt
    <2>2. EntryAt(s, e) = Alive[Slot(s, e)] /\ h[Slot(s, e)] = Alive[Slot(s, e)].remaining
          /\ h[Slot(s, e)] \in Int
      BY <1>2, <1>4, <2>1
    <2>3. QED
      BY <2>1, <2>2
  <1>12. MapThenSumSet(LAMBDA e : EntryAt(s, e).remaining, ahead) = SumFunctionOnSet(g, ahead)
    BY <1>10, WalkIsASum
  <1> HIDE DEF g, b
  <1>13. SumFunctionOnSet(g, ahead) = SumFunctionOnSet(h, A)
    BY <1>9, <1>10, <1>11, SumByNames
  <1>14. SumFunctionOnSet(h, A) = SumFunctionOnSet(h, OrderId)
    BY <1>4, OrderIdsAreFinite, SumOnPart
  <1>15. QED
    BY <1>1, <1>12, <1>13, <1>14, Zenon DEF SumAhead, h, s, ahead, own
-----------------------------------------------------------------------------
(* What a fill changes of what an order meets.                             *)
LEMMA AgainstAfterFill ==
  ASSUME NEW v \in [OrderId -> MaybeOrder], NEW f \in OrderId, NEW m \in Order, m = v[f],
         NEW o \in MaybeOrder, NEW w, w = Put(v, f, o), NEW side \in Side, NEW price,
         o # None => o.account = m.account /\ o.side = m.side /\ o.price = m.price
  PROVE  /\ w \in [OrderId -> MaybeOrder]
         /\ \A i : i \in Against(w, side, price)
                     <=> i \in Against(v, side, price) /\ (i = f => o # None)
         /\ \A i \in Against(w, side, price) :
              w[i].side = v[i].side /\ w[i].price = v[i].price /\ w[i].account = v[i].account
         /\ \A i, j \in Against(w, side, price) : Sooner(w, i, j) <=> Sooner(v, i, j)
  <1>1. /\ w \in [OrderId -> MaybeOrder] /\ w[f] = o
        /\ \A y \in OrderId \ {f} : w[y] = v[y]
    BY PutFacts
  <1>2. m # None /\ (o # None => o.account = m.account /\ o.side = m.side /\ o.price = m.price)
    BY OrderFields
  <1>3. \A i \in OrderId : w[i] # None =>
          v[i] # None /\ w[i].side = v[i].side /\ w[i].price = v[i].price
          /\ w[i].account = v[i].account
    BY <1>1, <1>2
  <1>4. \A i \in OrderId : w[i] # None <=> v[i] # None /\ (i = f => o # None)
    BY <1>1, <1>2
  <1>5. \A i : i \in Against(w, side, price)
                 <=> i \in Against(v, side, price) /\ (i = f => o # None)
    BY <1>3, <1>4 DEF Against
  <1>6. \A i \in Against(w, side, price) : i \in OrderId /\ w[i] # None
    BY DEF Against
  <1>7. \A i, j \in Against(w, side, price) : Sooner(w, i, j) <=> Sooner(v, i, j)
    BY <1>3, <1>6, Zenon DEF Sooner
  <1>8. QED
    BY <1>1, <1>3, <1>5, <1>6, <1>7

LEMMA FillAhead ==
  ASSUME NEW v \in [OrderId -> MaybeOrder], NEW f \in OrderId, NEW m \in Order, m = v[f],
         NEW o \in MaybeOrder, NEW q \in Nat, Shrunk(o, m, q), NEW w, w = Put(v, f, o),
         NEW side \in Side, NEW price, NEW a,
         Foremost(v, side, price, f), m.account # a
  PROVE  SumAhead(w, side, price, a) = SumAhead(v, side, price, a) - q
  <1> DEFINE A == Against(v, side, price)
             B == Against(w, side, price)
             g == LotsAhead(v, side, price, a)
             h == LotsAhead(w, side, price, a)
  <1>1. /\ w \in [OrderId -> MaybeOrder]
        /\ \A i : i \in B <=> i \in A /\ (i = f => o # None)
        /\ \A i \in B : w[i].account = v[i].account
        /\ \A i, j \in B : Sooner(w, i, j) <=> Sooner(v, i, j)
    <2>1. /\ v \in [OrderId -> MaybeOrder] /\ f \in OrderId /\ m \in Order /\ m = v[f]
          /\ o \in MaybeOrder /\ Shrunk(o, m, q) /\ w = Put(v, f, o) /\ side \in Side
      OBVIOUS
    <2>2. w \in [OrderId -> MaybeOrder]
      BY PutFacts
    <2>3. o # None => o.account = m.account /\ o.side = m.side /\ o.price = m.price
      BY DEF Shrunk
    <2>4. /\ \A i : i \in B <=> i \in A /\ (i = f => o # None)
          /\ \A i \in B : w[i].account = v[i].account
          /\ \A i, j \in B : Sooner(w, i, j) <=> Sooner(v, i, j)
      BY ONLY <2>1, <2>3, AgainstAfterFill
    <2>5. QED
      BY <2>2, <2>4
  <1>2. /\ w[f] = o /\ \A y \in OrderId \ {f} : w[y] = v[y]
    BY PutFacts
  <1>3. f \in A /\ \A j \in A \ {f} : Sooner(v, f, j)
    BY DEF Foremost
  <1> HIDE DEF A, B
  <1>4. \A i : i \in Ahead(v, side, price, a) <=>
          i \in A /\ v[i].account # a /\ \A j \in A : v[j].account = a => Sooner(v, i, j)
    BY DEF Ahead, A
  <1>5. \A i : i \in Ahead(w, side, price, a) <=>
          i \in B /\ w[i].account # a /\ \A j \in B : w[j].account = a => Sooner(w, i, j)
    BY DEF Ahead, B
  <1>6. f \in Ahead(v, side, price, a)
    BY <1>3, <1>4
  <1>7. \A j : j \in A /\ v[j].account = a <=> j \in B /\ w[j].account = a
    BY <1>1, <1>3
  <1>8. \A i \in B : i \in Ahead(w, side, price, a) <=> i \in Ahead(v, side, price, a)
    BY <1>1, <1>4, <1>5, <1>7
  <1>9. \A i : i # f => (i \in Ahead(w, side, price, a) <=> i \in Ahead(v, side, price, a))
    BY <1>1, <1>4, <1>5, <1>8
  <1>10. f \in Ahead(w, side, price, a) <=> o # None
    BY <1>1, <1>3, <1>5, <1>6, <1>8
  <1>11. /\ \A i \in OrderId : g[i] \in Nat /\ h[i] \in Nat
         /\ \A i \in OrderId : g[i] = IF i \in Ahead(v, side, price, a) THEN v[i].remaining ELSE 0
         /\ \A i \in OrderId : h[i] = IF i \in Ahead(w, side, price, a) THEN w[i].remaining ELSE 0
    BY <1>1, LotsAheadFacts DEF LotsAhead
  <1>12. \A i \in OrderId \ {f} : h[i] = g[i]
    BY <1>2, <1>9, <1>11
  <1>13. g[f] = m.remaining /\ h[f] = IF o = None THEN 0 ELSE o.remaining
    BY <1>2, <1>6, <1>10, <1>11
  <1>14. h[f] = g[f] - q
    <2>1. m.remaining \in Nat
      BY OrderFields
    <2>2. QED
      BY <1>13, <2>1 DEF Shrunk
  <1>15. SumFunctionOnSet(h, OrderId) = (SumFunctionOnSet(g, OrderId) - g[f]) + h[f]
    <2>1. \A y \in OrderId : g[y] \in Int /\ h[y] \in Int
      BY <1>11
    <2> HIDE DEF g, h
    <2>2. QED
      BY <1>12, <2>1, OrderIdsAreFinite, SumChange
  <1>16. SumFunctionOnSet(g, OrderId) \in Int
    <2>1. \A y \in OrderId : g[y] \in Nat
      BY <1>11
    <2> HIDE DEF g
    <2>2. SumFunctionOnSet(g, OrderId) \in Nat
      BY <2>1, OrderIdsAreFinite, SumOfNaturals
    <2>3. QED
      BY <2>2
  <1>17. g[f] \in Int /\ h[f] \in Int
    BY <1>11
  <1>18. \A x, y, z, t \in Int : t = y - q /\ z = (x - y) + t => z = x - q
    OBVIOUS
  <1> HIDE DEF g, h
  <1>19. SumFunctionOnSet(h, OrderId) = SumFunctionOnSet(g, OrderId) - q
    BY <1>14, <1>15, <1>16, <1>17
  <1>20. QED
    BY <1>19 DEF SumAhead, g, h

(* With one's own order met first, or nothing met, nothing is ahead.       *)
LEMMA NothingAhead ==
  ASSUME NEW v \in [OrderId -> MaybeOrder], NEW side \in Side, NEW price, NEW a,
         \/ Against(v, side, price) = {}
         \/ \E i : Foremost(v, side, price, i) /\ v[i].account = a
  PROVE  SumAhead(v, side, price, a) = 0
  <1>1. Ahead(v, side, price, a) = {}
    <2> SUFFICES ASSUME NEW k \in Ahead(v, side, price, a) PROVE FALSE
      OBVIOUS
    <2>1. k \in Against(v, side, price) /\ v[k].account # a
          /\ \A j \in Against(v, side, price) : v[j].account = a => Sooner(v, k, j)
      BY DEF Ahead
    <2>2. PICK i : i \in Against(v, side, price) /\ v[i].account = a
                   /\ \A j \in Against(v, side, price) \ {i} : Sooner(v, i, j)
      BY <2>1 DEF Foremost
    <2>3. Sooner(v, k, i) /\ Sooner(v, i, k)
      BY <2>1, <2>2
    <2>4. QED
      BY <2>1, <2>2, <2>3, SoonerIsAnOrder
  <1> DEFINE g == LotsAhead(v, side, price, a)
  <1>2. \A i \in OrderId : g[i] = 0
    BY <1>1, LotsAheadFacts
  <1> HIDE DEF g
  <1>3. SumFunctionOnSet(g, {}) = SumFunctionOnSet(g, OrderId)
    BY <1>2, OrderIdsAreFinite, SumOnPart
  <1>4. QED
    BY <1>3, SumOfNothing DEF SumAhead, g
-----------------------------------------------------------------------------
(* What matching owes the order it places: a fill-or-kill order still      *)
(* finds its remainder ahead of its own orders, and matching stops only    *)
(* where an own order is met first.                                        *)
PromiseKept(v, o) ==
  o.tif = "fok" => SumAhead(v, o.side, o.price, o.account) >= o.remaining

OwnIsMet(v, o) ==
  o.remaining > 0 /\ \E i : Foremost(v, o.side, o.price, i) /\ v[i].account = o.account

PlacingRight ==
  /\ pc = "match" => PromiseKept(Alive, cur)
  /\ selfTrade => pc = "match" /\ OwnIsMet(Alive, cur)

LEMMA InitPlacingRight == Init => PlacingRight
  BY DEF Init, PlacingRight

LEMMA PlacingIsRightAfter ==
  ASSUME pc' = "match" => PromiseKept(Alive', cur'),
         selfTrade' => pc' = "match" /\ OwnIsMet(Alive', cur')
  PROVE  PlacingRight'
  BY DEF PromiseKept, SumAhead, LotsAhead, Ahead, Against, Sooner, Crosses, OwnIsMet, Foremost,
     PlacingRight

LEMMA AcceptKeepsPlacingRight ==
  ASSUME TypeInv, LevelsExact, NEW r \in Requests, NEW now \in Time, AcceptOrder(r, now)
  PROVE  PlacingRight'
  <1> DEFINE o == NewOrder(r, now)
  <1>1. /\ cur' = o /\ orders' = orders /\ selfTrade' = FALSE /\ Fillable(r)
    BY DEF AcceptOrder
  <1>2. Alive' = Alive
    BY <1>1 DEF Alive, AliveOf, Live
  <1>3. r.side \in Side /\ r.price \in Price
    BY BookAssumption DEF Request
  <1>4. r.tif = "fok" => SumAhead(Alive, r.side, r.price, r.account) >= r.qty
    BY <1>1, <1>3, AvailableIsAhead DEF Fillable
  <1>5. /\ o.tif = r.tif /\ o.side = r.side /\ o.price = r.price
        /\ o.account = r.account /\ o.remaining = r.qty
    BY DEF NewOrder
  <1> HIDE DEF o
  <1>6. PromiseKept(Alive', cur')
    BY <1>1, <1>2, <1>4, <1>5 DEF PromiseKept
  <1>7. QED
    BY <1>1, <1>6, PlacingIsRightAfter

LEMMA StopKeepsPlacingRight ==
  ASSUME TypeInv, LevelsExact, PlacingRight, NEW px \in Price, StopAtOwn(px)
  PROVE  PlacingRight'
  <1>1. /\ pc = "match" /\ cur.remaining > 0
        /\ Best(Opposite(cur.side), px) /\ Crosses(cur.side, cur.price, px)
        /\ level[Opposite(cur.side)][px].queue # <<>> /\ FrontEntry(px) \in LiveIds
        /\ orders[FrontEntry(px)].account = cur.account
        /\ cur' = cur /\ orders' = orders /\ pc' = pc
    BY DEF StopAtOwn, Matching, indexVars
  <1>2. Foremost(Alive, cur.side, cur.price, FrontEntry(px))
    BY <1>1, FrontIsForemost
  <1>3. Alive[FrontEntry(px)].account = cur.account
    BY <1>1, AliveFacts DEF TypeInv
  <1>4. Alive' = Alive
    BY <1>1 DEF Alive, AliveOf, Live
  <1>5. OwnIsMet(Alive, cur)
    BY <1>1, <1>2, <1>3 DEF OwnIsMet
  <1>6. PromiseKept(Alive, cur)
    BY <1>1 DEF PlacingRight
  <1>7. PromiseKept(Alive', cur') /\ OwnIsMet(Alive', cur')
    BY <1>1, <1>4, <1>5, <1>6
  <1>8. QED
    BY <1>1, <1>7, PlacingIsRightAfter

LEMMA FillIsForemost ==
  ASSUME TypeInv, LevelsExact, NEW px \in Price, Fill(px)
  PROVE  Foremost(Alive, cur.side, cur.price, FrontEntry(px))
  BY FrontIsForemost DEF Fill, Matching

LEMMA FillKeepsPlacingRight ==
  ASSUME TypeInv, LevelsExact, PlacingRight, NEW px \in Price, Fill(px)
  PROVE  PlacingRight'
  <1> DEFINE f == FrontEntry(px)
             V == Alive
             W == Alive'
  <1>1. PICK o \in MaybeOrder, m \in Order, q \in Nat :
          /\ m = orders[f] /\ m = V[f] /\ f \in OrderId
          /\ m.account # cur.account /\ q = SmallerOf(cur.remaining, m.remaining)
          /\ Shrunk(o, m, q) /\ W = Put(V, f, o)
    BY FillStep
  <1>2. /\ pc = "match" /\ pc' = pc /\ ~selfTrade /\ selfTrade' = selfTrade
        /\ cur' = [cur EXCEPT !.remaining = @ - q]
    BY <1>1 DEF Fill, Matching
  <1>3. /\ V \in [OrderId -> MaybeOrder] /\ cur \in Order /\ cur.side \in Side
        /\ cur.remaining \in Nat
    BY <1>2, AliveFacts, MatchedOrder DEF TypeInv, MaybeOrder
  <1>4. Foremost(V, cur.side, cur.price, f)
    BY FillIsForemost
  <1>5. /\ cur'.tif = cur.tif /\ cur'.side = cur.side /\ cur'.price = cur.price
        /\ cur'.account = cur.account /\ cur'.remaining = cur.remaining - q
    BY <1>2, <1>3 DEF Order
  <1> HIDE DEF f, V, W
  <1>6. SumAhead(W, cur.side, cur.price, cur.account)
          = SumAhead(V, cur.side, cur.price, cur.account) - q
    BY <1>1, <1>3, <1>4, FillAhead
  <1>7. SumAhead(V, cur.side, cur.price, cur.account) \in Int
    BY <1>3, LotsAheadFacts, OrderIdsAreFinite, SumOfNaturals DEF SumAhead
  <1>8. cur.tif = "fok" => SumAhead(V, cur.side, cur.price, cur.account) >= cur.remaining
    BY <1>2 DEF PlacingRight, PromiseKept, V
  <1>9. \A x \in Int : x >= cur.remaining => x - q >= cur.remaining - q
    BY <1>3
  <1>10. PromiseKept(W, cur')
    BY <1>5, <1>6, <1>7, <1>8, <1>9 DEF PromiseKept
  <1>11. PromiseKept(Alive', cur')
    BY <1>10 DEF W
  <1>12. QED
    BY <1>2, <1>11, PlacingIsRightAfter
LEMMA StepKeepsPlacingRight ==
  TypeInv /\ LevelsExact /\ PlacingRight /\ [Next]_vars => PlacingRight'
  <1> SUFFICES ASSUME TypeInv, LevelsExact, PlacingRight, [Next]_vars
               PROVE  PlacingRight'
    OBVIOUS
  <1>1. ASSUME pc' # "match", selfTrade' = FALSE
        PROVE  PlacingRight'
    BY <1>1, PlacingIsRightAfter
  <1>2. ASSUME pc # "match", pc' # "match", selfTrade' = selfTrade
        PROVE  PlacingRight'
    BY <1>2, PlacingIsRightAfter DEF PlacingRight
  <1>3. ASSUME orders' = orders, cur' = cur, pc' = pc, selfTrade' = selfTrade
        PROVE  PlacingRight'
    BY <1>3, PlacingIsRightAfter DEF Alive, AliveOf, Live, PlacingRight
  <1>4. ASSUME NEW a \in Account, NEW x \in Amount, NEW y \in Amount,
               Deposit(a, x, y) \/ Withdraw(a, x, y)
        PROVE  PlacingRight'
    BY <1>3, <1>4 DEF Deposit, Withdraw, MoveFunds, indexVars, placeVars
  <1>5. ASSUME NEW r \in Requests, NEW now \in Time, RejectOrder(r, now)
        PROVE  PlacingRight'
    BY <1>2, <1>5 DEF RejectOrder, Intake, placeVars
  <1>6. ASSUME NEW r \in Requests, NEW now \in Time, AcceptOrder(r, now)
        PROVE  PlacingRight'
    BY <1>6, AcceptKeepsPlacingRight
  <1>7. ASSUME NEW a \in Account, NEW id \in OrderId, NEW now \in Time, Cancel(a, id, now)
        PROVE  PlacingRight'
    BY <1>2, <1>7 DEF Cancel, CancelLive, placeVars
  <1>8. ASSUME NEW a \in Account, NEW id \in OrderId, NEW now \in Time,
               CancelRefused(a, id, now)
        PROVE  PlacingRight'
    BY <1>3, <1>8 DEF CancelRefused, indexVars, placeVars
  <1>9. ASSUME NEW a \in Account, NEW now \in Time, CancelAll(a, now)
        PROVE  PlacingRight'
    BY <1>2, <1>9 DEF CancelAll, placeVars
  <1>10. ASSUME NEW px \in Price, DropStale(px)
         PROVE  PlacingRight'
    BY <1>3, <1>10 DEF DropStale, indexVars, placeVars
  <1>11. ASSUME NEW px \in Price, StopAtOwn(px)
         PROVE  PlacingRight'
    BY <1>11, StopKeepsPlacingRight
  <1>12. ASSUME NEW px \in Price, Fill(px)
         PROVE  PlacingRight'
    BY <1>12, FillKeepsPlacingRight
  <1>13. CASE FinishFilled \/ FinishResting \/ FinishCancelled
    BY <1>1, <1>13 DEF FinishFilled, FinishResting, FinishCancelled, Conclude
  <1>14. CASE CancelNext
    BY <1>2, <1>14 DEF CancelNext, CancelLive, placeVars
  <1>15. CASE UNCHANGED vars
    BY <1>3, <1>15 DEF vars, indexVars, placeVars
  <1>16. QED
    BY <1>4, <1>5, <1>6, <1>7, <1>8, <1>9, <1>10, <1>11, <1>12, <1>13, <1>14, <1>15
       DEF Next, Command, Work

-----------------------------------------------------------------------------
(* The living orders, as the abstract book shows them.                     *)
Shown(i, o) ==
  [id |-> i, account |-> o.account, side |-> o.side, price |-> o.price,
   remaining |-> o.remaining]

Showing(v) == {Shown(i, v[i]) : i \in {j \in OrderId : v[j] # None}}

ShownTaker(i, o) ==
  [id |-> i, account |-> o.account, side |-> o.side, price |-> o.price,
   remaining |-> o.remaining, tif |-> o.tif]

LEMMA ShowingOfOrders ==
  ASSUME NEW os
  PROVE  Showing(AliveOf(os)) =
           {[id |-> id, account |-> os[id].account, side |-> os[id].side,
             price |-> os[id].price, remaining |-> os[id].remaining] :
              id \in {i \in {j \in OrderId : os[j] # None} : Live(os[i])}}
  <1> DEFINE v == AliveOf(os)
             L == {i \in {j \in OrderId : os[j] # None} : Live(os[i])}
  <1>1. {j \in OrderId : v[j] # None} = L /\ \A i \in L : v[i] = os[i]
    BY DEF AliveOf
  <1> HIDE DEF v, L
  <1>2. \A i \in L : Shown(i, v[i]) =
          [id |-> i, account |-> os[i].account, side |-> os[i].side,
           price |-> os[i].price, remaining |-> os[i].remaining]
    BY <1>1 DEF Shown
  <1>3. Showing(v) = {Shown(i, v[i]) : i \in L}
    BY <1>1 DEF Showing
  <1>4. Showing(v) =
          {[id |-> i, account |-> os[i].account, side |-> os[i].side,
            price |-> os[i].price, remaining |-> os[i].remaining] : i \in L}
    BY <1>2, <1>3
  <1>5. QED
    BY <1>4 DEF v, L

LEMMA RestingIsShown == Resting = Showing(Alive) /\ Resting' = Showing(Alive')
  BY ShowingOfOrders DEF Resting, LiveIds, InMemory, Alive, AliveOf, Live

LEMMA ShowingMembers ==
  ASSUME NEW v \in [OrderId -> MaybeOrder]
  PROVE  /\ \A m : m \in Showing(v) <=> \E i \in OrderId : v[i] # None /\ m = Shown(i, v[i])
         /\ \A i, j \in OrderId : Shown(i, v[i]) = Shown(j, v[j]) => i = j
  <1>1. \A i, j \in OrderId : Shown(i, v[i]) = Shown(j, v[j]) => i = j
    BY DEF Shown
  <1>2. QED
    BY <1>1 DEF Showing

(* One order leaves, or changes, or comes in.                              *)
LEMMA ShowingAfterPut ==
  ASSUME NEW v \in [OrderId -> MaybeOrder], NEW x \in OrderId, NEW o \in MaybeOrder,
         NEW w, w = Put(v, x, o)
  PROVE  Showing(w) = (Showing(v) \ {Shown(x, v[x])})
                        \cup (IF o = None THEN {} ELSE {Shown(x, o)})
  <1>1. /\ w \in [OrderId -> MaybeOrder] /\ w[x] = o
        /\ \A y \in OrderId \ {x} : w[y] = v[y]
    BY PutFacts
  <1>2. \A m : m \in Showing(w) <=> \E i \in OrderId : w[i] # None /\ m = Shown(i, w[i])
    BY <1>1, ShowingMembers
  <1>3. /\ \A m : m \in Showing(v) <=> \E i \in OrderId : v[i] # None /\ m = Shown(i, v[i])
        /\ \A i, j \in OrderId : Shown(i, v[i]) = Shown(j, v[j]) => i = j
    BY ShowingMembers
  <1>4. ASSUME NEW m
        PROVE  m \in Showing(w) <=>
                 \/ m \in Showing(v) /\ m # Shown(x, v[x])
                 \/ o # None /\ m = Shown(x, o)
    <2>1. ASSUME m \in Showing(w)
          PROVE  \/ m \in Showing(v) /\ m # Shown(x, v[x])
                 \/ o # None /\ m = Shown(x, o)
      <3>1. PICK i \in OrderId : w[i] # None /\ m = Shown(i, w[i])
        BY <1>2, <2>1
      <3>2. CASE i = x
        BY <1>1, <3>1, <3>2
      <3>3. CASE i # x
        BY <1>1, <1>3, <3>1, <3>3
      <3>4. QED
        BY <3>2, <3>3
    <2>2. ASSUME m \in Showing(v), m # Shown(x, v[x])
          PROVE  m \in Showing(w)
      <3>1. PICK i \in OrderId : v[i] # None /\ m = Shown(i, v[i])
        BY <1>3, <2>2
      <3>2. i # x
        BY <2>2, <3>1
      <3>3. w[i] # None /\ m = Shown(i, w[i])
        BY <1>1, <3>1, <3>2
      <3>4. QED
        BY <1>2, <3>3
    <2>3. ASSUME o # None, m = Shown(x, o)
          PROVE  m \in Showing(w)
      BY <1>1, <1>2, <2>3
    <2>4. QED
      BY <2>1, <2>2, <2>3
  <1>5. QED
    BY <1>4
LEMMA TakerFacts ==
  ASSUME TypeInv
  PROVE  /\ pc # "match" => Taker = None
         /\ pc = "match" => /\ Taker = ShownTaker(nextOrder, cur) /\ Taker # None
                            /\ Taker.side = cur.side /\ Taker.price = cur.price
                            /\ Taker.account = cur.account /\ Taker.tif = cur.tif
                            /\ Taker.remaining = cur.remaining /\ Taker.id = nextOrder
  BY MatchedOrder, NoneAssumption DEF ShownTaker, Taker

(* What an order meets, and which of it first, is the same in both books.  *)
LEMMA MetInBoth ==
  ASSUME TypeInv, pc = "match"
  PROVE  /\ \A m : m \in Abstract!Crossing
                     <=> \E i \in Against(Alive, cur.side, cur.price) : m = Shown(i, Alive[i])
         /\ \A i : Foremost(Alive, cur.side, cur.price, i) =>
              Shown(i, Alive[i]) \in Resting /\ Abstract!First(Shown(i, Alive[i]))
         /\ Against(Alive, cur.side, cur.price) = {} => Abstract!Crossing = {}
  <1> DEFINE A == Against(Alive, cur.side, cur.price)
  <1>1. Alive \in [OrderId -> MaybeOrder] /\ Resting = Showing(Alive) /\ cur.side \in Side
    BY AliveFacts, RestingIsShown, MatchedOrder DEF TypeInv, MaybeOrder
  <1>2. Taker.side = cur.side /\ Taker.price = cur.price
    BY TakerFacts
  <1>3. \A m : m \in Abstract!Crossing
                 <=> m \in Resting /\ m.side # cur.side /\ Crosses(cur.side, cur.price, m.price)
    BY <1>2 DEF Abstract!Crossing, Crosses
  <1>4. \A m : m \in Resting <=> \E i \in OrderId : Alive[i] # None /\ m = Shown(i, Alive[i])
    BY <1>1, ShowingMembers
  <1>5. \A i : LET m == Shown(i, Alive[i])
               IN m.id = i /\ m.side = Alive[i].side /\ m.price = Alive[i].price
    BY DEF Shown
  <1>6. \A i : i \in A <=> i \in OrderId /\ Alive[i] # None /\ Alive[i].side # cur.side
                             /\ Crosses(cur.side, cur.price, Alive[i].price)
    BY DEF Against
  <1> HIDE DEF A
  <1>7. \A m : m \in Abstract!Crossing <=> \E i \in A : m = Shown(i, Alive[i])
    BY <1>3, <1>4, <1>5, <1>6
  <1>8. ASSUME NEW i, Foremost(Alive, cur.side, cur.price, i)
        PROVE  Shown(i, Alive[i]) \in Resting /\ Abstract!First(Shown(i, Alive[i]))
    <2>1. i \in A /\ \A j \in A \ {i} : Sooner(Alive, i, j)
      BY <1>8 DEF Foremost, A
    <2>2. Shown(i, Alive[i]) \in Resting /\ Shown(i, Alive[i]) \in Abstract!Crossing
      BY <1>4, <1>6, <1>7, <2>1
    <2>3. ASSUME NEW n \in Abstract!Crossing \ {Shown(i, Alive[i])}
          PROVE  Abstract!Precedes(Shown(i, Alive[i]), n)
      <3>1. PICK j \in A : n = Shown(j, Alive[j])
        BY <1>7
      <3>2. Sooner(Alive, i, j)
        BY <2>1, <2>3, <3>1
      <3>3. QED
        BY <1>5, <3>1, <3>2 DEF Sooner, Abstract!Precedes
    <2>4. QED
      BY <2>2, <2>3 DEF Abstract!First
  <1>9. A = {} => Abstract!Crossing = {}
    BY <1>7
  <1>10. QED
    BY <1>7, <1>8, <1>9 DEF A
-----------------------------------------------------------------------------
(* Each step of the matcher is a step of the abstract book, or none.       *)
LEMMA TakerAfter ==
  /\ pc' # "match" => Taker' = None
  /\ pc' = "match" => Taker' = ShownTaker(nextOrder', cur')
  BY DEF Taker, ShownTaker

LEMMA SameToTheAbstract ==
  ASSUME Alive' = Alive, pc' = "match" <=> pc = "match", pc = "match" => cur' = cur,
         nextOrder' = nextOrder, lastPrice' = lastPrice
  PROVE  UNCHANGED Abstract!vars
  BY RestingIsShown DEF Taker, Abstract!vars

LEMMA RejectTurnsAway ==
  ASSUME TypeInv, NEW r \in Requests, NEW now \in Time, RejectOrder(r, now)
  PROVE  Abstract!TurnAway
  BY RejectLeaves, IntakeGivesFreshId, RestingIsShown DEF RejectOrder, Intake, Taker,
     Abstract!TurnAway

LEMMA AcceptArrives ==
  ASSUME TypeInv, NEW r \in Requests, NEW now \in Time, AcceptOrder(r, now)
  PROVE  Abstract!Arrive
  <1>1. /\ pc = "idle" /\ pc' = "match" /\ nextOrder' = nextOrder + 1
        /\ lastPrice' = lastPrice /\ orders' = orders /\ cur' = NewOrder(r, now)
    BY DEF AcceptOrder, Intake, tradeVars
  <1>2. nextOrder + 1 \in OrderId
    BY IntakeGivesFreshId DEF AcceptOrder
  <1>3. Resting' = Resting
    <2>1. Alive' = Alive
      BY <1>1 DEF Alive, AliveOf, Live
    <2>2. QED
      BY <2>1, RestingIsShown
  <1>4. Taker = None
    BY <1>1 DEF Taker
  <1>5. Taker' = [id |-> nextOrder + 1, account |-> r.account, side |-> r.side,
                  price |-> r.price, remaining |-> r.qty, tif |-> r.tif]
    BY <1>1 DEF Taker, NewOrder
  <1>6. /\ r.account \in Account /\ r.side \in {"buy", "sell"} /\ r.price \in Price
        /\ r.qty \in Qty /\ r.tif \in {"gtc", "ioc", "fok"}
    BY BookAssumption DEF Request, Side, Tif
  <1>7. QED
    BY <1>1, <1>2, <1>3, <1>4, <1>5, <1>6 DEF Abstract!Arrive

LEMMA FillTradesOnce ==
  ASSUME TypeInv, LevelsExact, NEW px \in Price, Fill(px)
  PROVE  Abstract!TradeOnce
  <1> DEFINE f == FrontEntry(px)
             V == Alive
             W == Alive'
  <1>1. PICK o \in MaybeOrder, m \in Order, q \in Nat :
          /\ m = orders[f] /\ m = V[f] /\ f \in OrderId
          /\ m.price = px /\ m.account # cur.account /\ q = SmallerOf(cur.remaining, m.remaining)
          /\ q > 0 /\ q <= m.remaining /\ q <= cur.remaining
          /\ Shrunk(o, m, q) /\ W = Put(V, f, o)
    BY FillStep
  <1>2. /\ pc = "match" /\ pc' = pc /\ cur.remaining > 0 /\ lastPrice' = px
        /\ nextOrder' = nextOrder /\ cur' = [cur EXCEPT !.remaining = @ - q]
    BY <1>1 DEF Fill, Matching
  <1>3. V \in [OrderId -> MaybeOrder] /\ cur \in Order /\ cur.remaining \in Int
        /\ m.remaining \in Int
    BY <1>2, AliveFacts, MatchedOrder, OrderFields DEF TypeInv, MaybeOrder
  <1>4. /\ Taker = ShownTaker(nextOrder, cur) /\ Taker # None
        /\ Taker.account = cur.account /\ Taker.remaining = cur.remaining
    BY <1>2, TakerFacts
  <1>5. Shown(f, m) \in Resting /\ Abstract!First(Shown(f, m))
    BY <1>1, <1>2, FillIsForemost, MetInBoth
  <1>6. Taker' = [Taker EXCEPT !.remaining = @ - q]
    BY <1>2, <1>3, <1>4, TakerAfter DEF Order, ShownTaker
  <1> HIDE DEF f, V, W
  <1>7. Resting' = (Resting \ {Shown(f, m)})
                     \cup (IF m.remaining = q THEN {}
                           ELSE {[Shown(f, m) EXCEPT !.remaining = @ - q]})
    BY <1>1, <1>3, ShowingAfterPut, RestingIsShown DEF V, W, Shrunk, Shown
  <1>8. /\ Shown(f, m).remaining = m.remaining /\ Shown(f, m).account = m.account
        /\ Shown(f, m).price = px
    BY <1>1 DEF Shown
  <1>9. q = IF m.remaining < cur.remaining THEN m.remaining ELSE cur.remaining
    BY <1>1, <1>3 DEF SmallerOf
  <1> DEFINE s == Shown(f, m)
  <1>10. /\ Taker # None /\ Taker.remaining > 0
         /\ s \in Resting
         /\ q = IF s.remaining < Taker.remaining THEN s.remaining ELSE Taker.remaining
         /\ Abstract!First(s) /\ s.account # Taker.account
         /\ Taker' = [Taker EXCEPT !.remaining = @ - q]
         /\ Resting' = (Resting \ {s}) \cup
              (IF s.remaining = q THEN {} ELSE {[s EXCEPT !.remaining = @ - q]})
         /\ lastPrice' = s.price /\ nextOrder' = nextOrder
    BY <1>1, <1>2, <1>4, <1>5, <1>6, <1>7, <1>8, <1>9
  <1> HIDE DEF s
  <1>11. QED
    BY <1>10 DEF Abstract!TradeOnce
LEMMA PlacedOrderLeaves ==
  ASSUME TypeInv, FinishFilled \/ FinishResting \/ FinishCancelled
  PROVE  /\ Abstract!Leave
         /\ FinishFilled \/ FinishCancelled => Resting' = Resting
  BY FinishFacts, TakerAfter, RestingIsShown DEF FinishFilled, FinishResting, FinishCancelled,
     Conclude, Abstract!Leave

LEMMA FilledCompletes ==
  ASSUME TypeInv, FinishFilled
  PROVE  Abstract!Complete
  BY TakerFacts, PlacedOrderLeaves DEF FinishFilled, MatchingDone, Abstract!Complete

(* Matching is done with some left and no own order met: nothing crosses.  *)
LEMMA DoneMeetsNothing ==
  ASSUME TypeInv, LevelsExact, MatchingDone, cur.remaining > 0, ~selfTrade
  PROVE  Against(Alive, cur.side, cur.price) = {}
  BY NothingCrosses DEF MatchingDone

LEMMA RestingRests ==
  ASSUME TypeInv, LevelsExact, FinishResting
  PROVE  Abstract!Rest
  <1> DEFINE x == nextOrder
             o == [cur EXCEPT !.status = RestingStatus(cur)]
             V == Alive
             W == Alive'
  <1>1. /\ pc = "match" /\ cur \in Order /\ x \in OrderId /\ V[x] = None /\ W = Put(V, x, o)
    BY FinishFacts
  <1>2. /\ MatchingDone /\ cur.remaining > 0 /\ ~selfTrade /\ cur.tif = "gtc"
    BY DEF FinishResting
  <1>3. Abstract!Crossing = {}
    BY <1>1, <1>2, DoneMeetsNothing, MetInBoth
  <1>4. /\ o \in Order /\ o.account = cur.account /\ o.side = cur.side
        /\ o.price = cur.price /\ o.remaining = cur.remaining
    BY <1>1 DEF Order, Status, RestingStatus
  <1>5. V \in [OrderId -> MaybeOrder] /\ o # None /\ o \in MaybeOrder
    BY <1>4, AliveFacts, OrderIsNotNone DEF TypeInv, MaybeOrder
  <1>6. Resting = Showing(V) /\ Resting' = Showing(W)
    BY RestingIsShown
  <1>7. Taker = ShownTaker(x, cur) /\ Taker # None /\ Taker.remaining = cur.remaining
        /\ Taker.tif = cur.tif
    BY <1>1, TakerFacts
  <1>8. Abstract!Leave
    BY PlacedOrderLeaves
  <1> HIDE DEF o, V, W
  <1>9. Showing(W) = (Showing(V) \ {Shown(x, V[x])}) \cup {Shown(x, o)}
    BY <1>1, <1>5, ShowingAfterPut
  <1>10. Shown(x, V[x]) \notin Showing(V)
    <2> SUFFICES ASSUME Shown(x, V[x]) \in Showing(V) PROVE FALSE
      OBVIOUS
    <2>1. PICK i \in OrderId : V[i] # None /\ Shown(x, V[x]) = Shown(i, V[i])
      BY <1>5, ShowingMembers
    <2>2. QED
      BY <1>1, <1>5, <2>1, ShowingMembers
  <1>11. Shown(x, o) = Abstract!AsResting(Taker)
    BY <1>4, <1>7 DEF Shown, ShownTaker, Abstract!AsResting
  <1>12. Resting' = Resting \cup {Abstract!AsResting(Taker)}
    BY <1>6, <1>9, <1>10, <1>11
  <1>13. QED
    BY <1>2, <1>3, <1>7, <1>8, <1>12 DEF Abstract!Rest

LEMMA CancelledDiscards ==
  ASSUME TypeInv, LevelsExact, PlacingRight, FinishCancelled
  PROVE  Abstract!Discard
  <1> DEFINE A == Against(Alive, cur.side, cur.price)
  <1>1. MatchingDone /\ pc = "match" /\ cur.remaining > 0
    BY DEF FinishCancelled, MatchingDone
  <1>2. A = {} \/ \E i : Foremost(Alive, cur.side, cur.price, i)
                         /\ Alive[i].account = cur.account
    BY <1>1, DoneMeetsNothing DEF PlacingRight, OwnIsMet
  <1>3. Alive \in [OrderId -> MaybeOrder] /\ cur.side \in Side /\ cur.remaining \in Nat
    BY <1>1, AliveFacts, MatchedOrder DEF TypeInv, MaybeOrder
  <1>4. SumAhead(Alive, cur.side, cur.price, cur.account) = 0
    BY <1>2, <1>3, NothingAhead
  <1>5. cur.tif # "fok"
    BY <1>1, <1>3, <1>4 DEF PlacingRight, PromiseKept
  <1>6. /\ Taker # None /\ Taker.remaining = cur.remaining /\ Taker.tif = cur.tif
        /\ Taker.account = cur.account
    BY <1>1, TakerFacts
  <1>7. Abstract!Leave /\ Resting' = Resting
    BY PlacedOrderLeaves
  <1>8. Abstract!Crossing = {}
        \/ \E m \in Resting : Abstract!First(m) /\ m.account = Taker.account
    <2>1. CASE A = {}
      BY <1>1, <2>1, MetInBoth
    <2>2. ASSUME NEW i, Foremost(Alive, cur.side, cur.price, i), Alive[i].account = cur.account
          PROVE  \E m \in Resting : Abstract!First(m) /\ m.account = Taker.account
      BY <1>1, <1>6, <2>2, MetInBoth DEF Shown
    <2>3. QED
      BY <1>2, <2>1, <2>2
  <1>9. QED
    BY <1>1, <1>5, <1>6, <1>7, <1>8 DEF Abstract!Discard

LEMMA CancelCancelsOne ==
  ASSUME TypeInv, NEW id \in LiveIds, NEW now \in Time, CancelLive(id, now),
         pc # "match", pc' # "match"
  PROVE  Abstract!CancelOne
  <1> DEFINE V == Alive
             W == Alive'
  <1>1. PICK m \in Order : V[id] = m /\ id \in OrderId /\ None \in MaybeOrder
                           /\ W = Put(V, id, None)
    BY CancelStep
  <1>2. V \in [OrderId -> MaybeOrder] /\ m # None
    BY <1>1, AliveFacts, OrderIsNotNone DEF TypeInv, MaybeOrder
  <1>3. Resting = Showing(V) /\ Resting' = Showing(W)
    BY RestingIsShown
  <1>4. /\ nextOrder' = nextOrder /\ lastPrice' = lastPrice
    BY DEF CancelLive
  <1>5. Taker = None /\ Taker' = None
    BY DEF Taker
  <1> HIDE DEF V, W
  <1>6. Showing(W) = Showing(V) \ {Shown(id, V[id])}
    BY <1>1, <1>2, ShowingAfterPut
  <1>7. Shown(id, V[id]) \in Showing(V)
    BY <1>1, <1>2, ShowingMembers
  <1>8. QED
    BY <1>3, <1>4, <1>5, <1>6, <1>7 DEF Abstract!CancelOne
LEMMA StepImplementsPriceTime ==
  TypeInv /\ LevelsExact /\ PlacingRight /\ [Next]_vars => [Abstract!Next]_(Abstract!vars)
  <1> SUFFICES ASSUME TypeInv, LevelsExact, PlacingRight, [Next]_vars
               PROVE  Abstract!Next \/ UNCHANGED Abstract!vars
    OBVIOUS
  <1>1. ASSUME orders' = orders, (pc' = "match") <=> (pc = "match"),
               pc = "match" => cur' = cur, nextOrder' = nextOrder, lastPrice' = lastPrice
        PROVE  UNCHANGED Abstract!vars
    BY <1>1, SameToTheAbstract DEF Alive, AliveOf, Live
  <1>2. ASSUME NEW a \in Account, NEW x \in Amount, NEW y \in Amount,
               Deposit(a, x, y) \/ Withdraw(a, x, y)
        PROVE  UNCHANGED Abstract!vars
    BY <1>1, <1>2 DEF Deposit, Withdraw, MoveFunds, indexVars, placeVars, tradeVars
  <1>3. ASSUME NEW r \in Requests, NEW now \in Time, RejectOrder(r, now)
        PROVE  Abstract!Next
    BY <1>3, RejectTurnsAway DEF Abstract!Next
  <1>4. ASSUME NEW r \in Requests, NEW now \in Time, AcceptOrder(r, now)
        PROVE  Abstract!Next
    BY <1>4, AcceptArrives DEF Abstract!Next
  <1>5. ASSUME NEW a \in Account, NEW id \in OrderId, NEW now \in Time, Cancel(a, id, now)
        PROVE  Abstract!Next
    BY <1>5, CancelCancelsOne DEF Cancel, Abstract!Next
  <1>6. ASSUME NEW a \in Account, NEW id \in OrderId, NEW now \in Time,
               CancelRefused(a, id, now)
        PROVE  UNCHANGED Abstract!vars
    BY <1>1, <1>6 DEF CancelRefused, indexVars, placeVars, tradeVars
  <1>7. ASSUME NEW a \in Account, NEW now \in Time, CancelAll(a, now)
        PROVE  UNCHANGED Abstract!vars
    BY <1>1, <1>7 DEF CancelAll, indexVars, placeVars, tradeVars
  <1>8. ASSUME NEW px \in Price, DropStale(px) \/ StopAtOwn(px)
        PROVE  UNCHANGED Abstract!vars
    BY <1>1, <1>8 DEF DropStale, StopAtOwn, indexVars, placeVars, tradeVars
  <1>9. ASSUME NEW px \in Price, Fill(px)
        PROVE  Abstract!Next
    BY <1>9, FillTradesOnce DEF Abstract!Next
  <1>10. CASE FinishFilled
    BY <1>10, FilledCompletes DEF Abstract!Next
  <1>11. CASE FinishResting
    BY <1>11, RestingRests DEF Abstract!Next
  <1>12. CASE FinishCancelled
    BY <1>12, CancelledDiscards DEF Abstract!Next
  <1>13. CASE CancelNext
    <2>1. PICK id \in doomed.ids : CancelLive(id, doomed.now)
      BY <1>13 DEF CancelNext
    <2>2. pc # "match" /\ id \in LiveIds /\ doomed.now \in Time /\ pc' # "match"
      BY <1>13 DEF CancelNext, TypeInv, InProgress
    <2>3. QED
      BY <2>1, <2>2, CancelCancelsOne DEF Abstract!Next
  <1>14. CASE UNCHANGED vars
    BY <1>1, <1>14 DEF vars, indexVars, placeVars, tradeVars
  <1>15. QED
    BY <1>2, <1>3, <1>4, <1>5, <1>6, <1>7, <1>8, <1>9, <1>10, <1>11, <1>12, <1>13, <1>14
       DEF Next, Command, Work

LEMMA InitImplementsPriceTime == Init => Abstract!Init
  <1> SUFFICES ASSUME Init
               PROVE  Abstract!Init
    OBVIOUS
  <1>1. orders = [id \in OrderId |-> None] /\ pc = "idle" /\ nextOrder = 0 /\ lastPrice = 0
    BY DEF Init
  <1>2. Resting = {}
    BY <1>1 DEF Resting, LiveIds, InMemory
  <1>3. QED
    BY <1>1, <1>2 DEF Taker, Abstract!Init

(* The book implements price-time priority for every set of accounts,      *)
(* prices and quantities: each step of matching, with its levels, its      *)
(* queues of lazily cancelled entries and its archive, is a step of        *)
(* PriceTime or invisible there. Each trade is with the best-priced and    *)
(* then oldest order met, an order rests only when nothing it would cross  *)
(* is left, and a fill-or-kill order that is let in fills whole.           *)
THEOREM PriceTimePriority == Spec => ImplementsPriceTime
  <1>1. Spec => []LevelsExact
    BY InitLevelsExact, StepKeepsLevelsExact, TypeInvariant, PTL DEF Spec
  <1>2. Spec => []PlacingRight
    BY <1>1, InitPlacingRight, StepKeepsPlacingRight, TypeInvariant, PTL DEF Spec
  <1>3. Spec => Abstract!Init /\ [][Abstract!Next]_(Abstract!vars)
    BY <1>1, <1>2, InitImplementsPriceTime, StepImplementsPriceTime, TypeInvariant, PTL
       DEF Spec
  <1>4. QED
    BY <1>3 DEF ImplementsPriceTime, Abstract!Spec
-----------------------------------------------------------------------------
(* What a retry is told: the record made when the order was placed.        *)
LEMMA OnlyInIsARecursion ==
  ASSUME NEW ids, NEW S
  PROVE  OnlyIn(ids, S) =
           (CHOOSE kept : kept = [n \in 0 .. Len(ids) |->
              IF n = 0 THEN <<>>
              ELSE IF ids[n] \in S THEN Append(kept[n - 1], ids[n]) ELSE kept[n - 1]])[Len(ids)]
  BY Zenon DEF OnlyIn

(* Of rising ids, those in a set of the latest are the last ones.          *)
LEMMA LatestAreLast ==
  ASSUME NEW ids \in Seq(Nat), NEW S,
         \A i, j \in DOMAIN ids : i < j /\ ids[i] \in S => ids[j] \in S
  PROVE  \E k \in 1 .. Len(ids) + 1 : OnlyIn(ids, S) = SubSeq(ids, k, Len(ids))
  <1> DEFINE L == Len(ids)
  <1>1. L \in Nat /\ DOMAIN ids = 1 .. L
    BY LenProperties
  <1> HIDE DEF L
  <1>2. PICK k \in 1 .. L + 1 : \A i \in 1 .. L : ids[i] \in S <=> k <= i
    <2> DEFINE T == {i \in 1 .. L : ids[i] \in S} \cup {L + 1}
    <2>1. T \subseteq Nat /\ T # {} /\ L + 1 \in T
      BY <1>1
    <2>2. \A i : i \in T => (i \in 1 .. L /\ ids[i] \in S) \/ i = L + 1
      OBVIOUS
    <2>3. \A i \in 1 .. L : ids[i] \in S => i \in T
      OBVIOUS
    <2> HIDE DEF T
    <2>4. PICK k \in T : \A m \in T : k <= m
      BY <2>1, LeastNumber
    <2>5. \A i \in 1 .. L : k <= i => ids[i] \in S
      BY <1>1, <2>2
    <2>6. k \in 1 .. L + 1
      BY <1>1, <2>2
    <2>7. QED
      BY <2>3, <2>4, <2>5, <2>6
  <1> DEFINE g == [n \in 0 .. L |-> SubSeq(ids, k, n)]
             Steps(f) == f = [n \in 0 .. L |->
               IF n = 0 THEN <<>>
               ELSE IF ids[n] \in S THEN Append(f[n - 1], ids[n]) ELSE f[n - 1]]
             F == CHOOSE f : Steps(f)
  <1>3. k \in Nat /\ k >= 1
    BY <1>1
  <1>4. \A n \in 0 .. L : n < k => SubSeq(ids, k, n) = <<>>
    BY <1>1, <1>3, SubSeqEmpty
  <1>5. ASSUME NEW n \in 1 .. L, k <= n
        PROVE  SubSeq(ids, k, n) = Append(SubSeq(ids, k, n - 1), ids[n])
    <2>1. k \in 1 .. Len(ids) /\ n \in k .. Len(ids)
      BY <1>1, <1>3, <1>5 DEF L
    <2>2. SubSeq(ids, k, n) = SubSeq(ids, k, n - 1) \o <<ids[n]>>
      BY <2>1, SubSeqRecursiveSecond
    <2>3. SubSeq(ids, k, n - 1) \in Seq(Nat) /\ ids[n] \in Nat
      BY <1>1, <1>3, <1>5, SubSeqFacts, ElementOfSeq DEF L
    <2> DEFINE u == SubSeq(ids, k, n - 1)
    <2> HIDE DEF u
    <2>4. u \in Seq(Nat) => Append(u, ids[n]) = u \o <<ids[n]>>
      OBVIOUS
    <2>5. QED
      BY <2>2, <2>3, <2>4 DEF u
  <1>6. Steps(g)
    <2> DEFINE h(n) == IF n = 0 THEN <<>>
                       ELSE IF ids[n] \in S THEN Append(g[n - 1], ids[n]) ELSE g[n - 1]
    <2>1. ASSUME NEW n \in 0 .. L
          PROVE  SubSeq(ids, k, n) = h(n)
      <3>1. CASE n = 0
        BY <1>3, <1>4, <3>1
      <3>2. CASE n # 0
        <4>1. n \in 1 .. L /\ n - 1 \in 0 .. L /\ g[n - 1] = SubSeq(ids, k, n - 1)
          BY <1>1, <3>2
        <4>2. CASE k <= n
          BY <1>2, <1>5, <3>2, <4>1, <4>2
        <4>3. CASE ~(k <= n)
          <5>1. n < k /\ n - 1 < k
            BY <1>1, <1>3, <4>1, <4>3
          <5>2. ids[n] \notin S
            BY <1>2, <4>1, <4>3
          <5>3. QED
            BY <1>4, <3>2, <4>1, <5>1, <5>2
        <4>4. QED
          BY <4>2, <4>3
      <3>3. QED
        BY <3>1, <3>2
    <2> HIDE DEF h
    <2>2. g = [n \in 0 .. L |-> h(n)]
      BY <2>1
    <2>3. QED
      BY <2>2 DEF h
  <1>7. Steps(F)
    <2>1. \E f : Steps(f)
      BY <1>6
    <2>2. QED
      BY <2>1, Zenon
  <1> HIDE DEF F
  <1>8. \A n \in 0 .. L : F[n] = g[n]
    <2> DEFINE T == {n \in Nat : n <= L => F[n] = g[n]}
    <2>1. \A n \in 0 .. L : F[n] = IF n = 0 THEN <<>>
            ELSE IF ids[n] \in S THEN Append(F[n - 1], ids[n]) ELSE F[n - 1]
      BY <1>7
    <2>2. \A n \in 0 .. L : g[n] = IF n = 0 THEN <<>>
            ELSE IF ids[n] \in S THEN Append(g[n - 1], ids[n]) ELSE g[n - 1]
      BY <1>6
    <2> HIDE DEF g
    <2>3. 0 \in T
      BY <1>1, <2>1, <2>2
    <2>4. ASSUME NEW n \in Nat, n \in T
          PROVE  n + 1 \in T
      <3>1. CASE n + 1 <= L
        BY <1>1, <2>1, <2>2, <2>4, <3>1
      <3>2. CASE ~(n + 1 <= L)
        BY <3>2
      <3>3. QED
        BY <3>1, <3>2
    <2>5. Nat \subseteq T
      <3> HIDE DEF T
      <3>1. QED
        BY <2>3, <2>4, SetInduction
    <2>6. QED
      BY <1>1, <2>5
  <1>9. OnlyIn(ids, S) = F[L]
    BY OnlyInIsARecursion, Zenon DEF F, L
  <1>10. F[L] = SubSeq(ids, k, L)
    BY <1>1, <1>8
  <1>11. QED
    BY <1>2, <1>9, <1>10 DEF L

(* What is remembered of an order in memory rebuilds the reply it got: its *)
(* terms, and its fills, remainder, reason and status as its placement     *)
(* left them. The order being placed has not closed and no fills are noted *)
(* for it yet; its trades have rising ids.                                 *)
ReasonAtPlacement(o) == IF AtPlacement(o.reason) THEN o.reason ELSE "none"

SameTerms(o, q) ==
  /\ o.account = q.account /\ o.cid = q.cid /\ o.side = q.side /\ o.price = q.price
  /\ o.qty = q.qty /\ o.seq = q.seq /\ o.at = q.at /\ o.tif = q.tif

ReplyRight(o, p, f) ==
  /\ p \in PlaceReply /\ SameTerms(o, p.order) /\ f.ids = p.fills
  /\ IF o.status = "rejected" THEN o = p.order
     ELSE /\ p.order.remaining = o.qty - f.filled
          /\ p.order.reason = ReasonAtPlacement(o)
          /\ Live(o) => o.reason = "none"
          /\ p.order.status = IF p.order.remaining = 0 THEN "filled"
                              ELSE IF p.order.reason # "none" THEN "cancelled"
                              ELSE IF f.filled > 0 THEN "partial" ELSE "open"

FillsRise(ids, n) == ids \in Seq(Nat) /\ Rising(ids) /\ \A i \in DOMAIN ids : ids[i] <= n

RepliesKept(os, pl, fi, n) ==
  \A id \in OrderId : os[id] # None => ReplyRight(os[id], pl[id], fi[id]) /\ FillsRise(fi[id].ids, n)

UnderWay(o, ids, f, n) ==
  /\ o.status = "open" /\ o.reason = "none" /\ f = NoFills
  /\ FillsRise(ids, n) /\ (ids = <<>> => o.remaining = o.qty)

RepliesRight ==
  /\ RepliesKept(orders, placed, fillIds, nextTrade)
  /\ pc = "match" => UnderWay(cur, curFills, fillIds[nextOrder], nextTrade)

LEMMA ArchivingKeepsReplies ==
  ASSUME NEW os, NEW ai, NEW ci, NEW fi, NEW cl, NEW pl, NEW now, NEW n,
         EnforceRetention(os, ai, ci, fi, cl, pl, now), RepliesKept(os, pl, fi, n)
  PROVE  RepliesKept(orders', placed', fillIds', n)
  <1>1. PICK gone : /\ orders' = Without(os, gone, None)
                    /\ fillIds' = Without(fi, gone, NoFills)
                    /\ placed' = Without(pl, gone, None)
    BY DEF EnforceRetention
  <1>2. \A id \in OrderId : orders'[id] # None =>
          orders'[id] = os[id] /\ fillIds'[id] = fi[id] /\ placed'[id] = pl[id]
    BY <1>1 DEF Without
  <1>3. QED
    BY <1>2 DEF RepliesKept

LEMMA OneMoreReply ==
  ASSUME NEW os \in [OrderId -> MaybeOrder], NEW x \in OrderId, NEW o,
         NEW pl \in [OrderId -> PlaceReply \cup {None}], NEW p,
         NEW fi \in [OrderId -> FillList], NEW f, NEW n,
         NEW qs, qs = Put(os, x, o), NEW pm, pm = Put(pl, x, p),
         NEW fj, fj[x] = f, \A id \in OrderId : id # x => fj[id] = fi[id],
         RepliesKept(os, pl, fi, n), ReplyRight(o, p, f), FillsRise(f.ids, n)
  PROVE  RepliesKept(qs, pm, fj, n)
  BY DEF Put, RepliesKept

(* Fills as a maker and a cancel by the user take nothing from the record. *)
LEMMA SameRecord ==
  ASSUME NEW o, NEW q, NEW p, NEW f, SameTerms(o, q),
         o.status # "rejected", q.status # "rejected",
         ReasonAtPlacement(q) = ReasonAtPlacement(o), Live(q) => q.reason = "none",
         ReplyRight(o, p, f)
  PROVE  ReplyRight(q, p, f)
  BY DEF ReplyRight, SameTerms

LEMMA SameRecords ==
  ASSUME NEW os \in [OrderId -> MaybeOrder], NEW x \in OrderId, os[x] # None, NEW q, NEW qs,
         qs = Put(os, x, q), NEW pl, NEW fi, NEW n, RepliesKept(os, pl, fi, n),
         SameTerms(os[x], q), os[x].status # "rejected", q.status # "rejected",
         ReasonAtPlacement(q) = ReasonAtPlacement(os[x]), Live(q) => q.reason = "none"
  PROVE  RepliesKept(qs, pl, fi, n)
  BY SameRecord DEF Put, RepliesKept

LEMMA LaterFillsRise ==
  ASSUME NEW ids, NEW n \in Nat, FillsRise(ids, n)
  PROVE  /\ FillsRise(ids, n + 1)
         /\ Append(ids, n + 1) # <<>> /\ FillsRise(Append(ids, n + 1), n + 1)
  <1> DEFINE more == Append(ids, n + 1)
  <1>1. ids \in Seq(Nat) /\ n + 1 \in Nat /\ Rising(ids)
    BY DEF FillsRise
  <1>2. PICK L \in Nat : L = Len(ids) /\ DOMAIN ids = 1 .. L
    BY <1>1, LenProperties
  <1>3. /\ more \in Seq(Nat) /\ Len(more) = L + 1 /\ DOMAIN more = 1 .. L + 1
        /\ \A i \in 1 .. L : more[i] = ids[i]
        /\ more[L + 1] = n + 1
    <2>1. /\ more \in Seq(Nat) /\ Len(more) = Len(ids) + 1
          /\ \A i \in 1 .. Len(ids) : more[i] = ids[i]
          /\ more[Len(ids) + 1] = n + 1
      BY <1>1, AppendProperties
    <2> HIDE DEF more
    <2>2. DOMAIN more = 1 .. Len(more)
      BY <2>1, LenProperties
    <2>3. QED
      BY <1>2, <2>1, <2>2
  <1>4. \A i \in 1 .. L : ids[i] \in Nat /\ ids[i] <= n
    BY <1>1, <1>2, ElementOfSeq DEF FillsRise
  <1> HIDE DEF more
  <1>5. \A i \in 1 .. L + 1 : i = L + 1 \/ i \in 1 .. L
    OBVIOUS
  <1>6. \A i \in 1 .. L : ids[i] <= n + 1 /\ ids[i] < n + 1
    BY <1>4
  <1>7. FillsRise(ids, n + 1)
    BY <1>1, <1>2, <1>6 DEF FillsRise
  <1>8. \A i \in 1 .. L + 1 : more[i] <= n + 1
    BY <1>3, <1>5, <1>6
  <1>9. ASSUME NEW i \in 1 .. L + 1, NEW j \in 1 .. L + 1, i < j
        PROVE  more[i] < more[j]
    <2>1. i \in 1 .. L
      BY <1>9
    <2>2. CASE j = L + 1
      BY <1>3, <1>6, <2>1, <2>2
    <2>3. CASE j \in 1 .. L
      BY <1>1, <1>2, <1>3, <1>9, <2>1, <2>3 DEF Rising
    <2>4. QED
      BY <1>5, <2>2, <2>3
  <1>10. FillsRise(more, n + 1)
    BY <1>3, <1>8, <1>9 DEF FillsRise, Rising
  <1>11. more # <<>>
    BY ONLY <1>3, <1>2
  <1>12. QED
    BY <1>7, <1>10, <1>11 DEF more

LEMMA NoFillsRise ==
  ASSUME NEW n
  PROVE  NoFills.ids = <<>> /\ NoFills.filled = 0 /\ FillsRise(<<>>, n)
  BY EmptySeq DEF NoFills, FillsRise, Rising

LEMMA RejectKeepsReplies ==
  ASSUME TypeInv, MemoryRight, RepliesRight, NEW r \in Requests, NEW now \in Time,
         RejectOrder(r, now)
  PROVE  RepliesRight'
  <1> DEFINE id == nextOrder + 1
             o == [NewOrder(r, now) EXCEPT !.status = "rejected"]
             ai == WithAccountId(id, r.account)
             ci == WithClientId(id, r.account, r.cid)
             cl == Append(closed, Closing(id, now))
             p == [order |-> o, fills |-> <<>>]
             pl == [placed EXCEPT ![id] = p]
  <1>1. id \in OrderId /\ orders[id] = None
    BY IntakeGivesFreshId DEF RejectOrder
  <1>2. o \in Order /\ o.status = "rejected"
    BY NewOrderType DEF TypeInv, NewOrder
  <1>3. EnforceRetention(Put(orders, id, o), ai, ci, fillIds, cl, pl, now)
    BY DEF RejectOrder, Put
  <1>4. pc = "idle" /\ pc' = "idle" /\ nextTrade' = nextTrade
    BY DEF RejectOrder, Intake
  <1>5. /\ orders \in [OrderId -> MaybeOrder] /\ fillIds \in [OrderId -> FillList]
        /\ placed \in [OrderId -> PlaceReply \cup {None}]
    BY MemoryTypes DEF TypeInv
  <1>6. fillIds[id] = NoFills
    BY <1>1, <1>4 DEF MemoryRight, KeptIndexed, Kept, Indexed
  <1>7. p \in PlaceReply /\ p.order = o /\ p.fills = <<>> /\ pl = Put(placed, id, p)
    BY <1>2, EmptySeq DEF PlaceReply, Put
  <1> HIDE DEF o, id, ai, ci, cl, pl, p
  <1>8. ReplyRight(o, p, NoFills) /\ FillsRise(NoFills.ids, nextTrade)
    BY <1>2, <1>7, NoFillsRise DEF ReplyRight, SameTerms
  <1>9. RepliesKept(Put(orders, id, o), pl, fillIds, nextTrade)
    BY <1>1, <1>5, <1>6, <1>7, <1>8, OneMoreReply DEF RepliesRight
  <1>10. RepliesKept(orders', placed', fillIds', nextTrade)
    BY <1>3, <1>9, ArchivingKeepsReplies
  <1>11. RepliesKept(orders, placed, fillIds, nextTrade)'
    BY <1>4, <1>10 DEF RepliesKept, ReplyRight, SameTerms, ReasonAtPlacement, FillsRise, Rising,
       AtPlacement, Live
  <1>12. QED
    BY <1>4, <1>11 DEF RepliesRight

LEMMA AcceptKeepsReplies ==
  ASSUME TypeInv, MemoryRight, RepliesRight, NEW r \in Requests, NEW now \in Time,
         AcceptOrder(r, now)
  PROVE  RepliesRight'
  <1> DEFINE id == nextOrder + 1
             o == NewOrder(r, now)
  <1>1. id \in OrderId /\ orders[id] = None
    BY IntakeGivesFreshId DEF AcceptOrder
  <1>2. o.status = "open" /\ o.reason = "none" /\ o.remaining = o.qty
    BY DEF NewOrder
  <1>3. /\ pc = "idle" /\ pc' = "match" /\ orders' = orders /\ nextOrder' = id /\ cur' = o
        /\ fillIds' = fillIds /\ placed' = placed /\ nextTrade' = nextTrade /\ curFills' = <<>>
    BY DEF AcceptOrder, Intake, tradeVars
  <1>4. fillIds[id] = NoFills
    BY <1>1, <1>3 DEF MemoryRight, KeptIndexed, Kept, Indexed
  <1> HIDE DEF o, id
  <1>5. UnderWay(o, <<>>, fillIds[id], nextTrade)
    BY <1>2, <1>4, NoFillsRise DEF UnderWay
  <1>6. UnderWay(cur, curFills, fillIds[nextOrder], nextTrade)'
    BY <1>3, <1>5 DEF UnderWay, FillsRise, Rising
  <1>7. RepliesKept(orders, placed, fillIds, nextTrade)'
    BY <1>3 DEF RepliesRight, RepliesKept, ReplyRight, SameTerms, ReasonAtPlacement, FillsRise,
       Rising, AtPlacement, Live
  <1>8. QED
    BY <1>6, <1>7 DEF RepliesRight

LEMMA CancelKeepsReplies ==
  ASSUME TypeInv, RepliesRight, NEW id \in LiveIds, NEW now \in Time,
         CancelLive(id, now), pc' # "match"
  PROVE  RepliesRight'
  <1> DEFINE m == orders[id]
             o == [m EXCEPT !.status = "cancelled", !.reason = "user"]
             cl == Append(closed, Closing(id, now))
  <1>1. id \in OrderId /\ m \in Order /\ Live(m) /\ TypeOK
    BY LiveOrders DEF TypeInv
  <1>2. /\ EnforceRetention(Put(orders, id, o), byAccount, byClientId, fillIds, cl, placed, now)
        /\ nextTrade' = nextTrade
    BY <1>1, MemoryTypes DEF Put, CancelLive
  <1>3. m # None /\ m = orders[id] /\ m.status \in {"open", "partial"}
    BY <1>1, OrderIsNotNone DEF Live
  <1>4. m.reason = "none"
    BY <1>1, <1>3 DEF RepliesRight, RepliesKept, ReplyRight
  <1>5. o = [m EXCEPT !.status = "cancelled", !.reason = "user"]
    OBVIOUS
  <1> HIDE DEF m, o, cl
  <1>6. SameTerms(m, o) /\ o.status = "cancelled" /\ o.reason = "user"
    BY ONLY <1>1, <1>5 DEF Order, SameTerms
  <1>7. /\ ReasonAtPlacement(o) = ReasonAtPlacement(m)
        /\ ~Live(o) /\ m.status # "rejected" /\ o.status # "rejected"
    BY <1>3, <1>4, <1>6 DEF ReasonAtPlacement, AtPlacement, Live
  <1>8. orders \in [OrderId -> MaybeOrder]
    BY <1>1, MemoryTypes
  <1>9. RepliesKept(Put(orders, id, o), placed, fillIds, nextTrade)
    BY <1>1, <1>3, <1>6, <1>7, <1>8, SameRecords DEF RepliesRight
  <1>10. RepliesKept(orders', placed', fillIds', nextTrade)
    BY <1>2, <1>9, ArchivingKeepsReplies
  <1>11. RepliesKept(orders, placed, fillIds, nextTrade)'
    BY <1>2, <1>10 DEF RepliesKept, ReplyRight, SameTerms, ReasonAtPlacement, FillsRise, Rising,
       AtPlacement, Live
  <1>12. QED
    BY <1>11 DEF RepliesRight

LEMMA FillKeepsReplies ==
  ASSUME TypeInv, RepliesRight, NEW px \in Price, Fill(px)
  PROVE  RepliesRight'
  <1> DEFINE mid == FrontEntry(px)
             m == orders[mid]
             q == SmallerOf(cur.remaining, m.remaining)
             maker == MakerAfterFill(m, q)
             t == nextTrade + 1
  <1>1. /\ pc = "match" /\ cur \in Order /\ mid \in OrderId /\ mid \in LiveIds /\ m \in Order
        /\ m.remaining \in Nat /\ q \in Nat /\ q <= m.remaining
    BY FillContext
  <1>2. /\ orders' = [orders EXCEPT ![mid] = maker]
        /\ cur' = [cur EXCEPT !.remaining = @ - q]
        /\ nextTrade' = t /\ curFills' = Append(curFills, t)
        /\ fillIds' = fillIds /\ placed' = placed /\ nextOrder' = nextOrder /\ pc' = pc
    BY DEF Fill
  <1>3. /\ Live(m) /\ nextTrade \in Nat /\ orders \in [OrderId -> MaybeOrder]
        /\ m.status # "rejected" /\ m # None
    BY <1>1, MemoryTypes, OrderIsNotNone DEF TypeInv, LiveIds, Live
  <1>4. orders' = Put(orders, mid, maker) /\ orders[mid] = m
    BY <1>2 DEF Put
  <1>5. m.reason = "none"
    BY <1>1, <1>3, <1>4 DEF RepliesRight, RepliesKept, ReplyRight
  <1>6. /\ SameTerms(m, maker) /\ maker.reason = m.reason
        /\ maker.status \in {"filled", "partial"}
    <2>1. maker = [m EXCEPT !.remaining = @ - q,
                            !.status = IF m.remaining = q THEN "filled" ELSE "partial"]
      BY DEF MakerAfterFill
    <2> HIDE DEF maker, m
    <2>2. QED
      BY ONLY <1>1, <2>1 DEF Order, SameTerms
  <1> HIDE DEF mid, m, q, maker
  <1>7. ReasonAtPlacement(maker) = ReasonAtPlacement(m) /\ maker.status # "rejected"
    BY <1>6 DEF ReasonAtPlacement
  <1>8. RepliesKept(Put(orders, mid, maker), placed, fillIds, nextTrade)
    BY <1>1, <1>3, <1>4, <1>5, <1>6, <1>7, SameRecords DEF RepliesRight
  <1>9. RepliesKept(Put(orders, mid, maker), placed, fillIds, t)
    BY <1>3, <1>8, LaterFillsRise DEF RepliesKept
  <1>10. /\ cur'.status = "open" /\ cur'.reason = "none"
         /\ FillsRise(curFills', t) /\ curFills' # <<>> /\ fillIds[nextOrder] = NoFills
    BY <1>1, <1>2, <1>3, LaterFillsRise DEF RepliesRight, Order, UnderWay
  <1> HIDE DEF t
  <1>11. RepliesKept(orders, placed, fillIds, nextTrade)'
    <2>1. RepliesKept(orders', placed', fillIds', nextTrade')
      BY <1>2, <1>4, <1>9
    <2>2. QED
      BY <2>1 DEF RepliesKept, ReplyRight, SameTerms, ReasonAtPlacement, FillsRise, Rising,
         AtPlacement, Live
  <1>12. UnderWay(cur, curFills, fillIds[nextOrder], nextTrade)'
    BY <1>2, <1>10 DEF UnderWay, FillsRise, Rising
  <1>13. QED
    BY <1>11, <1>12 DEF RepliesRight

(* The reply a placement ends with is the record it leaves.                *)
LEMMA ConcludeKeepsReplies ==
  ASSUME TypeInv, RepliesRight, pc = "match", NEW o \in Order, NEW extra, Conclude(o, extra),
         o.remaining = cur.remaining, o.qty = cur.qty, o.status # "rejected",
         AtPlacement(o.reason) \/ o.reason = "none", Live(o) => o.reason = "none",
         o.status = IF o.remaining = 0 THEN "filled"
                    ELSE IF o.reason # "none" THEN "cancelled"
                    ELSE IF o.remaining < o.qty THEN "partial" ELSE "open"
  PROVE  RepliesRight'
  <1> DEFINE fl == [filled |-> o.qty - o.remaining, ids |-> curFills]
             fi == IF curFills = <<>> THEN fillIds ELSE [fillIds EXCEPT ![nextOrder] = fl]
             f == IF curFills = <<>> THEN NoFills ELSE fl
             cl == closed \o extra
             p == [order |-> o, fills |-> curFills]
             pl == [placed EXCEPT ![nextOrder] = p]
  <1>1. nextOrder \in OrderId /\ TypeOK
    BY MatchedOrder DEF TypeInv
  <1>2. /\ EnforceRetention(Put(orders, nextOrder, o), byAccount, byClientId, fi, cl, pl, lastNow)
        /\ pc' = "idle" /\ nextTrade' = nextTrade
    BY DEF Conclude, Put
  <1>3. /\ orders \in [OrderId -> MaybeOrder] /\ fillIds \in [OrderId -> FillList]
        /\ placed \in [OrderId -> PlaceReply \cup {None}]
    BY <1>1, MemoryTypes
  <1>4. /\ FillsRise(curFills, nextTrade) /\ curFills \in Seq(Nat)
        /\ fillIds[nextOrder] = NoFills
        /\ curFills = <<>> => o.remaining = o.qty
    BY DEF RepliesRight, UnderWay, FillsRise
  <1>5. o.qty \in Nat /\ o.remaining \in Nat
    BY BookAssumption DEF Order
  <1>6. /\ fi[nextOrder] = f
        /\ \A id \in OrderId : id # nextOrder => fi[id] = fillIds[id]
    BY <1>1, <1>3, <1>4
  <1>7. /\ f.ids = curFills /\ FillsRise(f.ids, nextTrade)
        /\ f.filled = o.qty - o.remaining
    BY <1>4, <1>5, NoFillsRise
  <1>8. p \in PlaceReply /\ p.order = o /\ p.fills = curFills /\ pl = Put(placed, nextOrder, p)
    BY <1>4 DEF PlaceReply, Put
  <1> HIDE DEF fl, fi, f, cl, p, pl
  <1>9. /\ o.remaining = o.qty - f.filled
        /\ (f.filled > 0) <=> (o.remaining < o.qty)
    BY <1>5, <1>7
  <1>10. o.reason = ReasonAtPlacement(o)
    BY DEF ReasonAtPlacement
  <1>11. ReplyRight(o, p, f)
    BY <1>7, <1>8, <1>9, <1>10 DEF ReplyRight, SameTerms
  <1>12. RepliesKept(Put(orders, nextOrder, o), pl, fi, nextTrade)
    BY <1>1, <1>3, <1>6, <1>7, <1>8, <1>11, OneMoreReply DEF RepliesRight
  <1>13. RepliesKept(orders', placed', fillIds', nextTrade)
    BY <1>2, <1>12, ArchivingKeepsReplies
  <1>14. RepliesKept(orders, placed, fillIds, nextTrade)'
    BY <1>2, <1>13 DEF RepliesKept, ReplyRight, SameTerms, ReasonAtPlacement, FillsRise, Rising,
       AtPlacement, Live
  <1>15. QED
    BY <1>2, <1>14 DEF RepliesRight

LEMMA FinishKeepsReplies ==
  ASSUME TypeInv, RepliesRight, FinishFilled \/ FinishResting \/ FinishCancelled
  PROVE  RepliesRight'
  <1>1. pc = "match"
    BY DEF FinishFilled, FinishResting, FinishCancelled, MatchingDone
  <1>2. cur \in Order /\ cur.reason = "none"
    BY <1>1, MatchedOrder DEF RepliesRight, UnderWay
  <1>3. CASE FinishFilled
    <2> DEFINE o == [cur EXCEPT !.status = "filled"]
    <2>1. "filled" \in Status
      BY DEF Status
    <2>2. /\ Conclude(o, <<Closing(nextOrder, cur.at)>>) /\ o = [cur EXCEPT !.status = "filled"]
          /\ cur.remaining = 0
      BY <1>3 DEF FinishFilled
    <2> HIDE DEF o
    <2>3. /\ o \in Order /\ o.remaining = cur.remaining /\ o.qty = cur.qty
          /\ o.reason = cur.reason /\ o.status = "filled"
      BY ONLY <1>2, <2>1, <2>2 DEF Order
    <2>4. QED
      BY <1>1, <1>2, <2>2, <2>3, ConcludeKeepsReplies DEF Live
  <1>4. CASE FinishResting
    <2> DEFINE s == RestingStatus(cur)
               o == [cur EXCEPT !.status = s]
    <2>1. s \in Status /\ s = IF cur.remaining < cur.qty THEN "partial" ELSE "open"
      BY DEF Status, RestingStatus
    <2>2. /\ Conclude(o, <<>>) /\ o = [cur EXCEPT !.status = s] /\ cur.remaining > 0
      BY <1>4 DEF FinishResting
    <2> HIDE DEF o, s
    <2>3. /\ o \in Order /\ o.remaining = cur.remaining /\ o.qty = cur.qty
          /\ o.reason = cur.reason /\ o.status = s
      BY ONLY <1>2, <2>1, <2>2 DEF Order
    <2>4. o.remaining # 0
      BY <2>2, <2>3
    <2>5. o.reason = "none" /\ o.status = IF o.remaining < o.qty THEN "partial" ELSE "open"
      BY <1>2, <2>1, <2>3
    <2>6. /\ o.status # "rejected"
          /\ o.status = IF o.remaining = 0 THEN "filled"
                        ELSE IF o.reason # "none" THEN "cancelled"
                        ELSE IF o.remaining < o.qty THEN "partial" ELSE "open"
      BY <2>4, <2>5
    <2>7. QED
      BY ONLY TypeInv, RepliesRight, <1>1, <2>2, <2>3, <2>5, <2>6, ConcludeKeepsReplies
  <1>5. CASE FinishCancelled
    <2> DEFINE why == Refusal
               o == [cur EXCEPT !.status = "cancelled", !.reason = why]
    <2>1. "cancelled" \in Status /\ why \in Reason /\ AtPlacement(why) /\ why # "none"
      BY <1>1, <1>5, MatchedOrder DEF FinishCancelled, Refusal, Reason, Status, Tif, AtPlacement
    <2>2. /\ Conclude(o, <<Closing(nextOrder, cur.at)>>)
          /\ o = [cur EXCEPT !.status = "cancelled", !.reason = why] /\ cur.remaining > 0
      BY <1>5 DEF FinishCancelled
    <2> HIDE DEF o, why
    <2>3. /\ o \in Order /\ o.remaining = cur.remaining /\ o.qty = cur.qty
          /\ o.reason = why /\ o.status = "cancelled"
      BY ONLY <1>2, <2>1, <2>2 DEF Order
    <2>4. o.remaining # 0 /\ ~Live(o)
      BY <2>2, <2>3 DEF Live
    <2>5. QED
      BY <1>1, <2>1, <2>2, <2>3, <2>4, ConcludeKeepsReplies
  <1>6. QED
    BY <1>3, <1>4, <1>5

LEMMA InitRepliesRight == Init => RepliesRight
  BY DEF Init, RepliesRight, RepliesKept

LEMMA StepKeepsReplies == TypeInv /\ MemoryRight /\ RepliesRight /\ [Next]_vars => RepliesRight'
  <1> SUFFICES ASSUME TypeInv, MemoryRight, RepliesRight, [Next]_vars
               PROVE  RepliesRight'
    OBVIOUS
  <1>1. ASSUME UNCHANGED <<orders, placed, fillIds, nextTrade, nextOrder, cur, curFills>>,
               pc' = "match" => pc = "match"
        PROVE  RepliesRight'
    BY <1>1 DEF RepliesRight, RepliesKept, ReplyRight, SameTerms, ReasonAtPlacement, FillsRise,
       Rising, AtPlacement, Live, UnderWay
  <1>2. ASSUME NEW a \in Account, NEW x \in Amount, NEW y \in Amount,
               Deposit(a, x, y) \/ Withdraw(a, x, y)
        PROVE  RepliesRight'
    BY <1>1, <1>2 DEF Deposit, Withdraw, MoveFunds, indexVars, tradeVars, placeVars
  <1>3. ASSUME NEW r \in Requests, NEW now \in Time, RejectOrder(r, now) \/ AcceptOrder(r, now)
        PROVE  RepliesRight'
    BY <1>3, RejectKeepsReplies, AcceptKeepsReplies
  <1>4. ASSUME NEW a \in Account, NEW id \in OrderId, NEW now \in Time,
               Cancel(a, id, now)
        PROVE  RepliesRight'
    BY <1>4, CancelKeepsReplies DEF Cancel
  <1>5. ASSUME NEW a \in Account, NEW id \in OrderId, NEW now \in Time,
               CancelRefused(a, id, now)
        PROVE  RepliesRight'
    BY <1>1, <1>5 DEF CancelRefused, indexVars, tradeVars, placeVars
  <1>6. ASSUME NEW a \in Account, NEW now \in Time, CancelAll(a, now)
        PROVE  RepliesRight'
    BY <1>1, <1>6 DEF CancelAll, indexVars, tradeVars, placeVars
  <1>7. ASSUME NEW px \in Price, DropStale(px) \/ StopAtOwn(px)
        PROVE  RepliesRight'
    BY <1>1, <1>7 DEF DropStale, StopAtOwn, indexVars, tradeVars, placeVars
  <1>8. ASSUME NEW px \in Price, Fill(px)
        PROVE  RepliesRight'
    BY <1>8, FillKeepsReplies
  <1>9. CASE FinishFilled \/ FinishResting \/ FinishCancelled
    BY <1>9, FinishKeepsReplies
  <1>10. CASE CancelNext
    <2>1. PICK id \in doomed.ids : CancelLive(id, doomed.now)
      BY <1>10 DEF CancelNext
    <2>2. id \in LiveIds /\ doomed.now \in Time /\ pc' # "match"
      BY <1>10 DEF CancelNext, TypeInv, InProgress
    <2>3. QED
      BY <2>1, <2>2, CancelKeepsReplies
  <1>11. CASE UNCHANGED vars
    BY <1>1, <1>11 DEF vars, indexVars, tradeVars, placeVars
  <1>12. QED
    BY <1>2, <1>3, <1>4, <1>5, <1>6, <1>7, <1>8, <1>9, <1>10, <1>11 DEF Next, Command, Work

(* The trades still in memory are the latest: of an order's fills those    *)
(* that are gone are the first.                                            *)
LEMMA LatestFillsAreKept ==
  ASSUME trades \in Seq(Trade), nextTrade \in Nat, Numbered(trades, nextTrade),
         NEW ids, FillsRise(ids, nextTrade)
  PROVE  \E k \in 1 .. Len(ids) + 1 : OnlyIn(ids, RetainedIds) = SubSeq(ids, k, Len(ids))
  <1>1. PICK L \in Nat : L = Len(trades) /\ DOMAIN trades = 1 .. L
    BY LenProperties
  <1>2. ids \in Seq(Nat) /\ DOMAIN ids = 1 .. Len(ids) /\ Len(ids) \in Nat
    BY LenProperties DEF FillsRise
  <1>3. \A t \in Nat : t \in RetainedIds <=> (nextTrade - L < t /\ t <= nextTrade)
    <2>1. \A i \in 1 .. L : trades[i].id = nextTrade - L + i
      BY <1>1 DEF Numbered
    <2>2. RetainedIds = {nextTrade - L + i : i \in 1 .. L}
      BY <1>1, <2>1 DEF RetainedIds
    <2>3. \A t \in Nat : t \in {nextTrade - L + i : i \in 1 .. L}
                           <=> (nextTrade - L < t /\ t <= nextTrade)
      <3>1. \A n, l \in Nat : \A i \in 1 .. l : n - l < n - l + i /\ n - l + i <= n
        OBVIOUS
      <3>2. \A n, l, t \in Nat : n - l < t /\ t <= n =>
              t - n + l \in 1 .. l /\ t = n - l + (t - n + l)
        OBVIOUS
      <3>3. PICK n \in Nat : n = nextTrade
        OBVIOUS
      <3>4. ASSUME NEW t \in Nat
            PROVE  t \in {n - L + i : i \in 1 .. L} <=> (n - L < t /\ t <= n)
        <4>1. ASSUME t \in {n - L + i : i \in 1 .. L}
              PROVE  n - L < t /\ t <= n
          <5>1. PICK i \in 1 .. L : t = n - L + i
            BY <4>1
          <5>2. QED
            BY ONLY <3>1, <5>1, n \in Nat, L \in Nat
        <4>2. ASSUME n - L < t, t <= n
              PROVE  t \in {n - L + i : i \in 1 .. L}
          <5>1. t - n + L \in 1 .. L /\ t = n - L + (t - n + L)
            BY ONLY <3>2, <4>2, n \in Nat, L \in Nat, t \in Nat
          <5> DEFINE i == t - n + L
          <5> HIDE DEF i
          <5>2. i \in 1 .. L /\ t = n - L + i
            BY <5>1 DEF i
          <5>3. QED
            BY ONLY <5>2
        <4>3. QED
          BY <4>1, <4>2
      <3>5. QED
        BY <3>3, <3>4
    <2>4. QED
      BY <2>2, <2>3
  <1>4. \A i \in DOMAIN ids : ids[i] \in Nat /\ ids[i] <= nextTrade
    BY <1>2, ElementOfSeq DEF FillsRise
  <1>5. ASSUME NEW i \in DOMAIN ids, NEW j \in DOMAIN ids, i < j, ids[i] \in RetainedIds
        PROVE  ids[j] \in RetainedIds
    BY <1>3, <1>4, <1>5 DEF FillsRise, Rising
  <1>6. QED
    BY <1>2, <1>5, LatestAreLast

(* A retry under a known client id is told what the placement was told,    *)
(* for any orders and any retention: the order as it then was, whatever    *)
(* fills, cancels and archiving did to its record since, and of its fills  *)
(* all but the oldest, which left the retained window. original_reply      *)
(* rebuilds this from what is left of the order and keeps no copy.         *)
THEOREM RetryExact == Spec => []RetryTellsOriginal
  <1>1. Spec => []MemoryRight
    BY InitMemoryRight, StepKeepsMemory, TypeInvariant, PTL DEF Spec
  <1>2. Spec => []RepliesRight
    BY <1>1, InitRepliesRight, StepKeepsReplies, TypeInvariant, PTL DEF Spec
  <1>3. TypeInv /\ MemoryRight /\ RepliesRight => RetryTellsOriginal
    <2> SUFFICES ASSUME TypeInv, MemoryRight, RepliesRight, NEW id \in InMemory
                 PROVE  /\ OriginalReply(id).order = placed[id].order
                        /\ \E k \in 1 .. Len(placed[id].fills) + 1 :
                             OriginalReply(id).fills =
                               SubSeq(placed[id].fills, k, Len(placed[id].fills))
      BY DEF RetryTellsOriginal
    <2>1. /\ orders[id] \in Order /\ id \in OrderId
          /\ trades \in Seq(Trade) /\ nextTrade \in Nat /\ Numbered(trades, nextTrade)
      BY MemoryTypes DEF TypeInv, InMemory, MemoryRight, TradesKept
    <2>2. /\ ReplyRight(orders[id], placed[id], fillIds[id])
          /\ FillsRise(fillIds[id].ids, nextTrade)
      BY <2>1 DEF RepliesRight, RepliesKept, InMemory
    <2> DEFINE o == orders[id]
               q == placed[id].order
               rest == o.qty - fillIds[id].filled
               reason == ReasonAtPlacement(o)
               status == IF rest = 0 THEN "filled"
                         ELSE IF reason # "none" THEN "cancelled"
                         ELSE IF fillIds[id].filled > 0 THEN "partial" ELSE "open"
    <2>3. /\ OriginalReply(id).order =
               IF o.status = "rejected" THEN o
               ELSE [o EXCEPT !.remaining = rest, !.reason = reason, !.status = status]
          /\ OriginalReply(id).fills = OnlyIn(placed[id].fills, RetainedIds)
      BY <2>2 DEF OriginalReply, ReasonAtPlacement, ReplyRight
    <2>4. q \in Order /\ placed[id].fills = fillIds[id].ids
      BY <2>2 DEF ReplyRight, PlaceReply
    <2>5. CASE o.status = "rejected"
      BY <2>1, <2>2, <2>3, <2>4, <2>5, LatestFillsAreKept DEF ReplyRight
    <2>6. CASE o.status # "rejected"
      <3>1. q.remaining = rest /\ q.reason = reason /\ q.status = status /\ SameTerms(o, q)
        BY <2>2, <2>6 DEF ReplyRight
      <3>2. o \in Order
        BY <2>1
      <3> HIDE DEF o, q, rest, reason, status
      <3>3. [o EXCEPT !.remaining = rest, !.reason = reason, !.status = status] = q
        BY ONLY <2>4, <3>1, <3>2 DEF Order, SameTerms
      <3>4. OriginalReply(id).order = q
        BY <2>3, <2>6, <3>3
      <3>5. QED
        BY <2>1, <2>2, <2>3, <2>4, <3>4, LatestFillsAreKept DEF q
    <2>7. QED
      BY <2>5, <2>6
  <1>4. QED
    BY <1>1, <1>2, <1>3, TypeInvariant, PTL
=============================================================================
