------------------------------ MODULE MCTools ------------------------------
EXTENDS ToolsInvariants

Small == [side |-> "buy", price |-> 10, qty |-> 1]
Large == [side |-> "buy", price |-> 10, qty |-> 2]
MCOrders == {Small, Large}
MCMarkets == {[bid |-> 9, ask |-> 12, last |-> 0]}

(* Limits on the value and number of orders with room for every call in    *)
(* the window; and a tight window in which no placement passes.            *)
Loose ==
  [maxOrderLots |-> 5, maxOrderNotional |-> 50, collarBps |-> 1000, maxOpenOrders |-> 1,
   actionsPerMinute |-> 3, sessionCap |-> 20, halted |-> FALSE]
Tight == [Loose EXCEPT !.actionsPerMinute = 1, !.maxOrderLots = 0]
MCConfigs == {Loose, Tight}
MCMaxPlacements == [p \in MCConfigs |-> IF p = Loose THEN 2 ELSE 1]
=============================================================================
