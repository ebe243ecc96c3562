-------------------------- MODULE ToolsInvariants --------------------------
(***************************************************************************)
(* What the acting tools and their policy promise.                         *)
(***************************************************************************)
EXTENDS Tools

(* Every variable has its type, and one placement at a time is under way,  *)
(* from its reading of the market to its answer: the one with the lock.    *)
ToolsTypeOK ==
  /\ cfg \in Configs /\ actions \in Seq(0 .. MaxClock) /\ used \in Nat
  /\ clock \in 0 .. MaxClock
  /\ holder \in Call \cup {NoCall}
  /\ \A c \in Call :
       /\ call[c].step \in Steps
       /\ call[c].tool = "place" /\ call[c].step \notin {"lock", "done"} => holder = c
  /\ Len(queue) <= QueueRoom
  /\ book \in Seq([key : Key, order : Orders, live : BOOLEAN])

QueuedPlaces == {i \in DOMAIN queue : queue[i].kind = "place"}

(* What the orders at some places of a list come to.                       *)
Value(list, places) ==
  SumFunctionOnSet([i \in places |-> Notional(list[i].order)], places)

(* Everything the engine executed for this process, or still may, is       *)
(* charged, and the charges stay within the session cap: a placement whose *)
(* answer was lost never makes room for another.                           *)
ChargesCoverOrders ==
  /\ ToolsTypeOK
  /\ Value(book, DOMAIN book) + Value(queue, QueuedPlaces) <= used
  /\ used <= cfg.sessionCap

(* The account's live orders, with those on their way, stay within the     *)
(* limit, although the count is read long before the order is placed and   *)
(* an order whose answer was lost may still be queued.                     *)
OpenOrdersWithinLimit ==
  LET fresh == {queue[i].key : i \in QueuedPlaces} \ {book[i].key : i \in DOMAIN book}
  IN Cardinality(LiveOrders) + Cardinality(fresh) <= cfg.maxOpenOrders

(* At any moment, the last minute holds at most the allowed actions,       *)
(* refused placements among them, although calls read the clock before     *)
(* they take the policy's lock.                                            *)
RateWithinMinute ==
  Cardinality({c \in Call : call[c].acted /\ clock - call[c].now <= Minute})
    <= cfg.actionsPerMinute

(* The limits hold at the engine and in time, not only where the policy    *)
(* looks (tools.rs:686-721, policy.rs:112-138).                            *)
KeepsToLimits == OpenOrdersWithinLimit /\ RateWithinMinute

-----------------------------------------------------------------------------
(* Every tool call returns, and so hands the lock on, whether or not the   *)
(* engine answers.                                                         *)
CallsReturn == []<>(\A c \in Call : call[c].step \in {"idle", "done"})

=============================================================================
