-------------------------------- MODULE Gate --------------------------------
(***************************************************************************)
(* The conversation gate (agent-service/src/gate.rs): what a user's words  *)
(* permit, which action calls of the model run at once, which are refused, *)
(* and which are held until the user confirms them.                        *)
(***************************************************************************)
EXTENDS Words

CONSTANT Threshold  \* confirm_threshold_lots

ASSUME GateAssumption == Threshold \in Nat

(* An action the model may call for. One whose price or quantity does not  *)
(* parse is "invalid".                                                     *)
Order(side, qty, price) ==
  [tool |-> "place", side |-> side, qty |-> qty, price |-> price]
Invalid == [tool |-> "invalid"]
CancelOrder(id) == [tool |-> "cancel", id |-> id]
CancelAll == [tool |-> "cancelAll"]

Action ==
  [tool : {"place"}, side : Side, qty : Nat, price : Nat] \cup {Invalid}
    \cup [tool : {"cancel"}, id : Nat] \cup {CancelAll}

Places(a) == a.tool \in {"place", "invalid"}

(* One clause, as the service or a user writes it.                         *)
Says1(words, figures, ids) ==
  <<[words |-> words, figures |-> figures, ids |-> ids, size |-> 3,
     negated |-> FALSE, question |-> FALSE, asks |-> FALSE, mark |-> FALSE]>>

(* The summary of an action that is held.                                  *)
Summary(a) ==
  CASE a.tool = "place" ->
         Says1({a.side, "eth"}, <<a.qty, a.price, a.qty * a.price>>, {})
    [] a.tool = "cancel" -> Says1({"cancel", "order"}, <<a.id>>, {a.id})
    [] a.tool = "cancelAll" -> Says1({"cancel", "every", "order"}, <<>>, {})

-----------------------------------------------------------------------------
(* What the turn permits: the user's own words, or a confirmation while an *)
(* action of that kind is pending.                                         *)

Permissions(t, gated, isPending, pendingPlaces) ==
  LET confirms == isPending /\ MentionsConfirmation(t)
  IN [trade |-> gated => MentionsTradeIntent(t) \/ (confirms /\ pendingPlaces),
      cancel |-> gated => MentionsCancelIntent(t) \/ (confirms /\ ~pendingPlaces)]

Allows(permissions, a) ==
  IF Places(a) THEN permissions.trade ELSE permissions.cancel

-----------------------------------------------------------------------------
(* What becomes of a call that carries no token.                           *)

PriceQuoted(a, t) == a.price \in ToSet(Stated(t))
QuantityQuoted(a, t) ==
  \E n \in ToSet(Stated(t)) :
    n = a.qty \/ (n # a.price /\ n = a.price * a.qty)

(* Two figures state the order, unless the message is a goal.              *)
Pinned(t, config) == ~config.autonomous /\ Len(Stated(t)) >= 2

Contradicts_OrdersOnly(a, t, config) ==
  \/ a.tool = "place" /\ Pinned(t, config) /\ ~PriceQuoted(a, t)
  \/ a.tool = "place" /\ SideQuoted(t, OtherSide(a.side)) /\ ~SideQuoted(t, a.side)

(* Refused outright: a confirmation must not turn what the user stated     *)
(* into something else.                                                    *)
Contradicts(a, t, config) ==
  \/ a.tool = "place" /\ Pinned(t, config) /\ ~PriceQuoted(a, t)
  \/ a.tool = "place" /\ SideQuoted(t, OtherSide(a.side)) /\ ~SideQuoted(t, a.side)
  \/ a.tool = "cancel" /\ IdsNamed(t) # {} /\ a.id \notin IdsNamed(t)

AsDescribed(a, t) == PriceQuoted(a, t) /\ SideQuoted(t, a.side)

(* Nothing about the call needs to be confirmed.                           *)
AtOnce(a, t, config, permitted, carried) ==
  \/ a.tool = "invalid"
  \/ /\ a.tool = "place" /\ permitted
     /\ Pinned(t, config) => PriceQuoted(a, t) /\ QuantityQuoted(a, t)
     /\ \/ carried /\ AsDescribed(a, t)
        \/ /\ a.qty < Threshold
           /\ config.confirmUnpriced => AsDescribed(a, t)
           /\ ~MentionsFraming(t)
  \/ a.tool = "cancel" /\ permitted /\ ~MentionsFraming(t)
  \/ a.tool = "cancelAll" /\ permitted /\ CancelsAll(t) /\ ~MentionsFraming(t)

=============================================================================
