----------------------------- MODULE Reference -----------------------------
(***************************************************************************)
(* The price an account's holdings and orders are measured by              *)
(* (mcp-server/src/policy.rs). Prices are ticks.                           *)
(***************************************************************************)
EXTENDS Integers, FiniteSetsExt

(* The mid in whole ticks, else the last trade, else the one quoted side;  *)
(* 0 is a price that is not there.                                         *)
ReferencePrice(m) ==
  CASE m.bid > 0 /\ m.ask > 0 ->
         m.bid \div 2 + m.ask \div 2 + ((m.bid % 2) + (m.ask % 2)) \div 2
    [] OTHER -> IF m.last > 0 THEN m.last ELSE IF m.bid > 0 THEN m.bid ELSE m.ask

DeviationBps(price, reference) ==
  ((IF price > reference THEN price - reference ELSE reference - price) * 10000)
    \div Max({reference, 1})
=============================================================================
