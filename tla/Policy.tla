------------------------------- MODULE Policy -------------------------------
(***************************************************************************)
(* The risk rules every action of the model passes before it reaches the   *)
(* engine (mcp-server/src/policy.rs), for the one account a process acts   *)
(* for. Prices are ticks, quantities lots; 0 is a price that is not there. *)
(***************************************************************************)
EXTENDS Integers, Sequences, FiniteSets, FiniteSetsExt, Reference

CONSTANTS
  Configs,   \* the limits an operator may set
  Minute     \* the 60 seconds of the rolling window, in ticks of the clock

PolicyConfig ==
  [maxOrderLots : Nat, maxOrderNotional : Nat, collarBps : Nat, maxOpenOrders : Nat,
   actionsPerMinute : Nat, sessionCap : Nat, halted : BOOLEAN]

ASSUME PolicyAssumption == Configs \subseteq PolicyConfig /\ Minute \in Nat

VARIABLES
  cfg,       \* PolicyConfig, read once when the process starts
  actions,   \* when the actions still in the window were taken
  used       \* value charged against the session cap

policyVars == <<cfg, actions, used>>

Order == [side : {"buy", "sell"}, price : Nat \ {0}, qty : Nat \ {0}]

Notional(o) == o.price * o.qty

-----------------------------------------------------------------------------
(* What is left of the window: expired actions leave from the front.       *)
Window_DropsAtSixty(now) ==
  LET kept == {i \in DOMAIN actions : now - actions[i] < Minute}
  IN IF kept = {} THEN <<>> ELSE SubSeq(actions, Min(kept), Len(actions))

Window(now) ==
  LET kept == {i \in DOMAIN actions : now - actions[i] <= Minute}
  IN IF kept = {} THEN <<>> ELSE SubSeq(actions, Min(kept), Len(actions))

CommonVerdict(now) ==
  CASE cfg.halted -> "HALTED"
    [] ~cfg.halted /\ Len(Window(now)) >= cfg.actionsPerMinute -> "RATE_LIMIT"
    [] OTHER -> "ok"

(* An action that passes enters the window, even if a later rule refuses   *)
(* it.                                                                     *)
Entered(now) ==
  CASE CommonVerdict(now) = "HALTED" -> actions
    [] CommonVerdict(now) = "RATE_LIMIT" -> Window(now)
    [] OTHER -> Append(Window(now), now)

CheckCancel(now) == actions' = Entered(now) /\ UNCHANGED <<cfg, used>>

PlaceRules_OneMoreOrder(o, reference, open) ==
  << [code |-> "MAX_OPEN_ORDERS", broken |-> open > cfg.maxOpenOrders],
     [code |-> "SESSION_CAP", broken |-> Notional(o) > Max({0, cfg.sessionCap - used})] >>

(* The rules in the order they are tried.                                  *)
PlaceRules(o, reference, open) ==
  << [code |-> "MAX_ORDER_SIZE", broken |-> o.qty > cfg.maxOrderLots],
     [code |-> "MAX_ORDER_VALUE", broken |-> Notional(o) > cfg.maxOrderNotional],
     [code |-> "PRICE_COLLAR",
      broken |-> reference > 0 /\ DeviationBps(o.price, reference) > cfg.collarBps],
     [code |-> "MAX_OPEN_ORDERS", broken |-> open >= cfg.maxOpenOrders],
     [code |-> "SESSION_CAP", broken |-> Notional(o) > Max({0, cfg.sessionCap - used})] >>

PlaceVerdict(o, reference, open, now) ==
  LET rules == PlaceRules(o, reference, open)
      broken == {i \in DOMAIN rules : rules[i].broken}
  IN IF CommonVerdict(now) # "ok" THEN CommonVerdict(now)
     ELSE IF broken = {} THEN "ok" ELSE rules[Min(broken)].code

(* What lies between the two sections that take the policy's lock reads    *)
(* nothing that changes, and only placements, one at a time, change `used'.*)
CheckPlace(o, reference, open, now) ==
  /\ actions' = Entered(now)
  /\ used' = IF PlaceVerdict(o, reference, open, now) = "ok" THEN used + Notional(o) ELSE used
  /\ UNCHANGED cfg

(* Room given back for an order the engine never accepted.                 *)
Release(o) ==
  /\ used' = Max({0, used - Notional(o)})
  /\ UNCHANGED <<cfg, actions>>
=============================================================================
