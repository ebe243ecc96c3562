------------------------------ MODULE Accounts ------------------------------
(***************************************************************************)
(* What the matching engine keeps per account, and how a placement, a fill *)
(* and a cancel change it: the wallet (Balances), the trading ledger       *)
(* (Ledger) and the exposure counters (Exposure) of engine/src/book.rs.    *)
(* Pure operators; Book.tla applies them.                                  *)
(*                                                                         *)
(* Amounts are integers: a subtraction the code would underflow (a panic   *)
(* in a debug build, a wrap in a release build) shows up as a negative     *)
(* amount, which NothingUnderflows of BookInvariants.tla forbids.          *)
(***************************************************************************)
EXTENDS Integers

Side == {"buy", "sell"}

Opposite(side) == IF side = "buy" THEN "sell" ELSE "buy"

SmallerOf(x, y) == IF x < y THEN x ELSE y

-----------------------------------------------------------------------------
(* Wallets.                                                                *)

Wallet == [usdc : Int, usdcReserved : Int, eth : Int, ethReserved : Int]

EmptyWallet == [usdc |-> 0, usdcReserved |-> 0, eth |-> 0, ethReserved |-> 0]

(* What an order has to be backed with: USDC for a buy, ETH for a sell.    *)
Covers(w, side, price, qty) ==
  IF side = "buy" THEN w.usdc >= price * qty ELSE w.eth >= qty

Reserve(w, side, price, qty) ==
  IF side = "buy"
  THEN [w EXCEPT !.usdc = @ - price * qty, !.usdcReserved = @ + price * qty]
  ELSE [w EXCEPT !.eth = @ - qty, !.ethReserved = @ + qty]

Release_NotReturned(w, side, price, remaining) ==
  IF side = "buy"
  THEN [w EXCEPT !.usdcReserved = @ - price * remaining]
  ELSE [w EXCEPT !.ethReserved = @ - remaining]

Release(w, side, price, remaining) ==
  IF side = "buy"
  THEN [w EXCEPT !.usdcReserved = @ - price * remaining,
                 !.usdc = @ + price * remaining]
  ELSE [w EXCEPT !.ethReserved = @ - remaining, !.eth = @ + remaining]

SettleTaker_NoImprovement(w, side, limit, px, q) ==
  IF side = "buy"
  THEN [w EXCEPT !.usdcReserved = @ - px * q, !.eth = @ + q]
  ELSE [w EXCEPT !.ethReserved = @ - q, !.usdc = @ + px * q]

(* The taker reserved at its own limit: a buy that fills below the limit   *)
(* gets the difference back.                                               *)
SettleTaker(w, side, limit, px, q) ==
  IF side = "buy"
  THEN [w EXCEPT !.usdcReserved = @ - limit * q,
                 !.usdc = @ + (limit * q - px * q),
                 !.eth = @ + q]
  ELSE [w EXCEPT !.ethReserved = @ - q, !.usdc = @ + px * q]

(* The maker's reservation was at the trade price already.                 *)
SettleMaker(w, takerSide, px, q) ==
  IF takerSide = "buy"
  THEN [w EXCEPT !.ethReserved = @ - q, !.usdc = @ + px * q]
  ELSE [w EXCEPT !.usdcReserved = @ - px * q, !.eth = @ + q]

-----------------------------------------------------------------------------
(* Ledgers.                                                                *)

Ledger == [depositsUsdc : Int, depositsEth : Int,
           withdrawalsUsdc : Int, withdrawalsEth : Int,
           bought : Int, sold : Int, paid : Int, received : Int,
           inventory : Int, cost : Int, soldFromDeposits : Int,
           pnl : Int, trades : Int]

EmptyLedger ==
  [depositsUsdc |-> 0, depositsEth |-> 0,
   withdrawalsUsdc |-> 0, withdrawalsEth |-> 0,
   bought |-> 0, sold |-> 0, paid |-> 0, received |-> 0,
   inventory |-> 0, cost |-> 0, soldFromDeposits |-> 0,
   pnl |-> 0, trades |-> 0]

RecordBuy(l, px, q) ==
  [l EXCEPT !.bought = @ + q, !.paid = @ + px * q,
            !.inventory = @ + q, !.cost = @ + px * q, !.trades = @ + 1]

CostRemoved_PerLot(l, fromInventory) ==
  IF fromInventory > 0 THEN (l.cost \div l.inventory) * fromInventory ELSE 0

(* The seller's inventory is relieved at average cost, rounded down; lots  *)
(* beyond the inventory came from deposits and contribute no P&L.          *)
CostRemoved(l, fromInventory) ==
  IF fromInventory > 0 THEN (l.cost * fromInventory) \div l.inventory ELSE 0

RecordSell(l, px, q) ==
  LET fromInventory == SmallerOf(q, l.inventory)
      removed == CostRemoved(l, fromInventory)
  IN [l EXCEPT !.sold = @ + q, !.received = @ + px * q, !.trades = @ + 1,
               !.pnl = @ + (px * fromInventory - removed),
               !.cost = @ - removed,
               !.inventory = @ - fromInventory,
               !.soldFromDeposits = @ + (q - fromInventory)]

-----------------------------------------------------------------------------
(* Exposure: live orders of an account and their notional. The code drops  *)
(* an entry that reaches zero; here it is the zero record.                 *)

Exposure == [open : Int, notional : Int]

NoExposure == [open |-> 0, notional |-> 0]

ExposureAdd(e, price, qty) ==
  [open |-> e.open + 1, notional |-> e.notional + price * qty]

(* Rust's saturating_sub on an unsigned integer.                           *)
SaturatingSub(x, y) == IF x >= y THEN x - y ELSE 0

ExposureSub_IgnoresClose(e, price, qty, closed) ==
  [open |-> e.open, notional |-> SaturatingSub(e.notional, price * qty)]

ExposureSub(e, price, qty, closed) ==
  [open |-> IF closed THEN SaturatingSub(e.open, 1) ELSE e.open,
   notional |-> SaturatingSub(e.notional, price * qty)]

=============================================================================
