------------------------------ MODULE MCServer ------------------------------
(***************************************************************************)
(* A stream that places two orders and a caller that cancels one, all of   *)
(* one account, and a subscriber for another.                              *)
(***************************************************************************)
EXTENDS ServerInvariants

CONSTANTS alice, bob, stream, caller, subscriber

Asks(kind, a) == [kind |-> kind, account |-> a, valid |-> TRUE]
StreamAndCall ==
  [c \in {stream, caller} |->
     IF c = stream THEN <<Asks("place", alice), Asks("place", alice)>>
     ELSE <<Asks("cancel", alice)>>]
OfBob == [v \in {subscriber} |-> bob]
=============================================================================
