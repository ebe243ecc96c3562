------------------------------- MODULE MCTurn -------------------------------
(***************************************************************************)
(* Users, models and services for the model checker. An order of one lot   *)
(* is below the threshold, one of two is not.                              *)
(***************************************************************************)
EXTENDS TurnInvariants

Says3(words, figures) == Says1(words, figures, {})

Yes == Says3({"yes"}, <<>>)
BuyOneAtThree == Says3({"buy", "eth"}, <<1, 3>>)
BuyAtThree == Says3({"buy"}, <<3>>)
NotOneAtThree == <<[Says3({"sell"}, <<1, 3>>)[1] EXCEPT !.negated = TRUE]>>
DemoBuy == Says3({"buy", "demo"}, <<1, 3>>)
HowAbout == <<[Says3({"yes", "buy"}, <<3>>)[1] EXCEPT !.mark = TRUE]>>
CancelMine == Says3({"cancel"}, <<>>)
CancelFirst == Says1({"cancel", "order"}, <<1>>, {1})
CancelEvery == Says3({"cancel", "all"}, <<>>)
WhatDidICancel == <<[CancelEvery[1] EXCEPT !.question = TRUE]>>
ShouldIConfirm == <<[Yes[1] EXCEPT !.asks = TRUE]>>

(* Replies: an action put as the service puts it, the same as a question,  *)
(* and texts that say less than they seem to.                              *)
Puts(a) == Summary(a)
Asks(a) == <<[Summary(a)[1] EXCEPT !.words = @ \cup {"confirm"}, !.mark = TRUE]>>
AtTheBid == Says3({"bid"}, <<2, 3>>)
EitherSide == Says3({"buy", "sell"}, <<1, 2, 3>>)

(* Orders with both figures, with a price only and "do not sell" behind    *)
(* it, and a bare yes, against every order the model might put in place.   *)
Orders ==
  [gateTools |-> TRUE, confirmUnpriced |-> TRUE, compensate |-> TRUE,
   autonomous |-> FALSE,
   messages |-> {Yes, BuyOneAtThree, BuyAtThree \o NotOneAtThree},
   actions |-> {Order("buy", 1, 3), Order("buy", 2, 3), Order("sell", 1, 3)},
   replies |-> {Puts(Order("buy", 2, 3)), Asks(Order("buy", 1, 3)), EitherSide},
   turns |-> 3, calls |-> 1]

(* Cancels by id, of some order and of every order.                        *)
Cancels ==
  [Orders EXCEPT !.messages = {Yes, CancelMine, CancelFirst, CancelEvery,
                              WhatDidICancel, ShouldIConfirm},
                 !.actions = {CancelOrder(1), CancelOrder(2), CancelAll},
                 !.replies = {Puts(CancelOrder(2)), Puts(CancelAll), AtTheBid},
                 !.turns = 2]

(* The gate off, with two calls in a response; and a goal run.             *)
Ungated ==
  [Orders EXCEPT !.gateTools = FALSE, !.confirmUnpriced = FALSE,
                !.messages = {HowAbout, BuyOneAtThree, DemoBuy},
                !.actions = {Order("buy", 1, 3), Invalid, CancelAll},
                !.replies = {AtTheBid}, !.turns = 2, !.calls = 2]
Goal == [Ungated EXCEPT !.autonomous = TRUE, !.turns = 1]

AllSetups == {Orders, Cancels, Ungated, Goal}

OnlyCancels == {Cancels}
OneOrder ==
  {[Orders EXCEPT !.messages = {Yes, BuyAtThree}, !.turns = 2]}
=============================================================================
