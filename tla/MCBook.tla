------------------------------- MODULE MCBook -------------------------------
(***************************************************************************)
(* Small instances of the order book. A run picks the placements clients   *)
(* may ask for; unless a run is about client ids, each kind of order has a *)
(* client order id of its own, so an account places each kind once (again  *)
(* when the first one has been archived).                                  *)
(***************************************************************************)
EXTENDS BookInvariants, BookSnapshot, Answers, TLC

CONSTANTS alice, bob

Place(a, s, p, q, t) ==
  [account |-> a, cid |-> <<s, p, q, t>>, side |-> s, price |-> p, qty |-> q,
   tif |-> t]

IdsOf(requests) == {r.cid : r \in requests}

(* Asks of alice on two levels, an ask of bob's own in the way, buys of    *)
(* bob with every time in force that sweep or rest on two levels, and      *)
(* client ids that come back with other parameters.                        *)
WithId(c, r) == [r EXCEPT !.cid = c]
MatchingRequests ==
  {WithId(1, Place(alice, "sell", 1, 2, "gtc")),
   WithId(2, Place(alice, "sell", 2, 1, "gtc")),
   WithId(1, Place(bob, "sell", 1, 1, "gtc")),
   WithId(2, Place(bob, "buy", 1, 1, "gtc")),
   WithId(2, Place(bob, "buy", 2, 3, "fok"))}
    \cup {WithId(1, Place(bob, "buy", 2, 3, t)) : t \in {"gtc", "ioc"}}
MatchingIds == {1, 2}

(* Fills below a buy limit, an inventory bought at two prices and sold one *)
(* lot at a time, so that its average cost does not divide evenly,         *)
(* remainders that are released, and orders around the limits of two open  *)
(* orders and a notional of five.                                          *)
MoneyRequests ==
  {Place(alice, "sell", 2, 1, "gtc"), Place(alice, "sell", 3, 1, "gtc"),
   Place(bob, "buy", 3, 2, "gtc"), Place(bob, "sell", 2, 2, "gtc"),
   Place(alice, "buy", 3, 2, "ioc")}
MoneyIds == IdsOf(MoneyRequests)
TightFund == [a \in Account |->
                IF a = bob THEN [usdc |-> 7, eth |-> 1] ELSE [usdc |-> 5, eth |-> 2]]
NoFund == [a \in Account |-> [usdc |-> 0, eth |-> 0]]

=============================================================================
