----------------------------- MODULE MCSessions -----------------------------
(***************************************************************************)
(* Requests for the model checker: retries, a changed message under a used *)
(* id, a second id, a read, and a client of another session that competes  *)
(* for the only place in the store.                                        *)
(***************************************************************************)
EXTENDS SessionsInvariants

Chat(sid, rid, message) == [sid |-> sid, rid |-> rid, message |-> message]

ClientRequests ==
  {Chat("s", "first", "buy"), Chat("s", "first", "sell"),
   Chat("s", "second", "buy"), Chat("s", NoId, Reads), Chat("t", NoId, "buy")}
=============================================================================
