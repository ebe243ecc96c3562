------------------------------- MODULE Tools -------------------------------
(***************************************************************************)
(* The tools that act: place_limit_order, cancel_order and                 *)
(* cancel_all_orders of one MCP server process (mcp-server/src/tools.rs),  *)
(* with the calls to the engine each of them makes.                        *)
(*                                                                         *)
(* Tool calls run concurrently. Placements hold one lock from their first  *)
(* step to their last. A call to the engine has a deadline: it may be      *)
(* given up while the engine still holds its request, and the request is   *)
(* then executed with nobody waiting for the answer.                       *)
(*                                                                         *)
(* The engine is modelled as its clients see it: a bounded queue served in *)
(* order, each request answered or refused; a refusal for want of funds,   *)
(* or an engine that goes away with or without executing, is its choice.   *)
(* A request of a call given up before the engine queued it is never       *)
(* queued. Orders of the account that come from elsewhere are left out.    *)
(***************************************************************************)
EXTENDS Policy, SequencesExt

CONSTANTS
  Call,        \* bound: tool calls, each made once
  MaxPlacements,  \* bound: how many of them place, per configuration
  Keys,        \* client order ids the model sends
  Orders,      \* the orders it asks for
  Markets,     \* best bid, best ask and last price the engine may show
  QueueRoom,   \* capacity of the engine's queue
  MaxListed,   \* MAX_LISTED: orders looked through for a retry's original
  MaxClock     \* bound: the clock

NoCall == 0

(* A client order id is a number. A call without one is given its own; one *)
(* with characters that are not allowed is refused.                        *)
Blank == 0
Unsafe == -1
NewKey(c) == c

ASSUME ToolsAssumption ==
  /\ Call \subseteq Nat \ {NoCall}
  /\ Orders \subseteq Order
  /\ Markets \subseteq [bid : Nat, ask : Nat, last : Nat]
  /\ {QueueRoom, MaxListed, MaxClock} \subseteq Nat
  /\ MaxPlacements \in [Configs -> Nat]
  /\ Keys \subseteq Nat \ (Call \cup {Blank})

VARIABLES
  clock,
  holder,    \* the call that holds the placements lock
  call,      \* per tool call, where it is and what it knows
  queue,     \* requests the engine has not served
  book       \* the account's orders as the engine holds them, oldest first

vars == <<policyVars, clock, holder, call, queue, book>>

Definitive ==
  {"INVALID_ARGUMENT", "FAILED_PRECONDITION", "PERMISSION_DENIED",
   "UNAUTHENTICATED", "ALREADY_EXISTS", "NOT_FOUND", "RESOURCE_EXHAUSTED"}
Indefinite == {"UNAVAILABLE", "DEADLINE"}
Codes == Definitive \cup Indefinite

Steps == {"idle", "lock", "market", "list", "count", "clock", "check",
          "place", "cancel", "cancel_all", "done"}
Remote == {"list", "count", "place", "cancel", "cancel_all"}

Key == Keys \cup {NewKey(c) : c \in Call}
NoOrder == [side |-> "none", price |-> 0, qty |-> 0]

Idle == [step |-> "idle", tool |-> "none", key |-> Blank, order |-> NoOrder,
         reference |-> 0, open |-> 0, now |-> 0, answer |-> "none",
         acted |-> FALSE]

Init ==
  /\ cfg \in Configs /\ actions = <<>> /\ used = 0
  /\ clock = 0
  /\ holder = NoCall
  /\ call = [c \in Call |-> Idle]
  /\ queue = <<>>
  /\ book = <<>>

-----------------------------------------------------------------------------
Goto(c, step) == call' = [call EXCEPT ![c].step = step, ![c].answer = "none"]

(* A result for the model. The lock, if the call holds it, is dropped.     *)
ReturnFrom(calls, c) ==
  LET d == calls[c]
  IN /\ call' = [calls EXCEPT ![c] =
                   [Idle EXCEPT !.step = "done",
                                !.tool = IF d.tool = "place" THEN "place" ELSE "none",
                                !.now = IF d.acted THEN d.now ELSE 0,
                                !.acted = d.acted]]
     /\ holder' = IF holder = c THEN NoCall ELSE holder

Held(key, order) ==
  \E i \in DOMAIN book : book[i].key = key /\ book[i].order = order

(* Calls are numbered in the order they begin.                             *)
Begins(c) == call[c].step = "idle" /\ \A d \in Call : d < c => call[d].step # "idle"

(* Arguments that do not parse are refused before the key is looked at.    *)
Arguments ==
  [key : Keys \cup {Blank, Unsafe}, order : Orders] \cup {[key |-> Blank, order |-> NoOrder]}

BeginPlace(c) ==
  /\ Begins(c)
  /\ Cardinality({d \in Call : call[d].tool = "place"}) < MaxPlacements[cfg]
  /\ \E a \in Arguments :
       call' = [call EXCEPT ![c].step = "lock", ![c].tool = "place",
                            ![c].key = a.key, ![c].order = a.order]
  /\ UNCHANGED <<policyVars, clock, holder, queue, book>>

(* Cancels hold no lock. A cancel whose arguments do not parse returns.    *)
BeginCancel(c) ==
  /\ Begins(c)
  /\ \/ ReturnFrom(call, c)
     \/ \E tool \in {"cancel", "cancel_all"} :
          call' = [call EXCEPT ![c].step = "clock", ![c].tool = tool] /\ UNCHANGED holder
  /\ UNCHANGED <<policyVars, clock, queue, book>>

LockFree_Always == TRUE

LockFree == holder = NoCall

(* Arguments that do not parse end the call at once.                       *)
Lock(c) ==
  /\ call[c].step = "lock"
  /\ LockFree
  /\ IF call[c].order = NoOrder
     THEN ReturnFrom(call, c)
     ELSE Goto(c, "market") /\ holder' = c
  /\ UNCHANGED <<policyVars, clock, queue, book>>

(* The market is read from the published snapshot, not through the queue.  *)
ReadMarket(c) ==
  /\ call[c].step = "market"
  /\ \/ ReturnFrom(call, c)
     \/ /\ call[c].key # Unsafe
        /\ \E m \in Markets :
             call' = [call EXCEPT
               ![c].step = "list",
               ![c].reference = ReferencePrice(m),
               ![c].key = IF @ = Blank THEN NewKey(c) ELSE @]
        /\ UNCHANGED holder
  /\ UNCHANGED <<policyVars, clock, queue, book>>

-----------------------------------------------------------------------------
(* A call to the engine.                                                   *)

Request(c) == [call |-> c, kind |-> call[c].step, key |-> call[c].key, order |-> call[c].order]

Answered(c, answer) == call' = [call EXCEPT ![c].answer = answer]

Send(c) ==
  /\ call[c].step \in Remote /\ call[c].answer = "none"
  /\ \/ /\ Len(queue) < QueueRoom
        /\ queue' = Append(queue, Request(c))
        /\ Answered(c, "waiting")
     \/ Answered(c, "RESOURCE_EXHAUSTED") /\ UNCHANGED queue
     \/ Answered(c, "UNAVAILABLE") /\ UNCHANGED queue
  /\ UNCHANGED <<policyVars, clock, holder, book>>

GiveUp_Never(c) == FALSE /\ UNCHANGED vars

(* The deadline passes, also when the answer is on its way. A read nobody  *)
(* waits for is as good as dropped.                                        *)
GiveUp(c) ==
  /\ call[c].step \in Remote /\ call[c].answer # "none"
  /\ call[c].answer \notin Codes
  /\ Answered(c, "DEADLINE")
  /\ \/ (\A i \in DOMAIN queue : queue[i].call # c) /\ UNCHANGED queue
     \/ \E i \in DOMAIN queue :
          /\ queue[i].call = c
          /\ queue' = IF queue[i].kind \in {"list", "count"} THEN RemoveAt(queue, i)
                      ELSE [queue EXCEPT ![i].call = NoCall]
  /\ UNCHANGED <<policyVars, clock, holder, book>>

-----------------------------------------------------------------------------
(* The engine.                                                             *)

ServedOpen(answer, open) ==
  /\ queue' = Tail(queue)
  /\ LET c == Head(queue).call
     IN IF c = NoCall
        THEN UNCHANGED call
        ELSE call' = [call EXCEPT ![c].answer = answer, ![c].open = open]

Served(answer) == ServedOpen(answer, 0)

Listed == SubSeq(book, Max({1, Len(book) - MaxListed + 1}), Len(book))
LiveOrders == {i \in DOMAIN book : book[i].live}

Record(r, live) == [key |-> r.key, order |-> r.order, live |-> live]

(* A key the engine knows is answered from its order, or refused.          *)
ServePlace ==
  LET r == Head(queue)
      known == {i \in DOMAIN book : book[i].key = r.key}
  IN IF known # {}
     THEN /\ Served(IF Held(r.key, r.order) THEN "ok" ELSE "ALREADY_EXISTS")
          /\ UNCHANGED book
     ELSE \/ Served("FAILED_PRECONDITION") /\ UNCHANGED book
          \/ \E live \in BOOLEAN, answer \in {"ok", "UNAVAILABLE"} :
               book' = Append(book, Record(r, live)) /\ Served(answer)

ServeList ==
  /\ Served(IF \E i \in DOMAIN Listed : Listed[i].key = Head(queue).key
                                        /\ Listed[i].order = Head(queue).order
            THEN "match" ELSE "nothing")
  /\ UNCHANGED book

ServeCount == ServedOpen("ok", Cardinality(LiveOrders)) /\ UNCHANGED book

ServeCancel ==
  \/ Served("NOT_FOUND") /\ UNCHANGED book
  \/ \E i \in LiveOrders : book' = [book EXCEPT ![i].live = FALSE] /\ Served("ok")

ServeCancelAll ==
  book' = [i \in DOMAIN book |-> [book[i] EXCEPT !.live = FALSE]] /\ Served("ok")

Serve ==
  /\ queue # <<>>
  /\ \/ Head(queue).kind = "place" /\ ServePlace
     \/ Head(queue).kind = "list" /\ ServeList
     \/ Head(queue).kind = "count" /\ ServeCount
     \/ Head(queue).kind = "cancel" /\ ServeCancel
     \/ Head(queue).kind = "cancel_all" /\ ServeCancelAll
     \/ Served("UNAVAILABLE") /\ UNCHANGED book
  /\ UNCHANGED <<policyVars, clock, holder>>

(* A resting order fills.                                                  *)
Fills ==
  /\ \E i \in LiveOrders : book' = [book EXCEPT ![i].live = FALSE]
  /\ UNCHANGED <<policyVars, clock, holder, call, queue>>

-----------------------------------------------------------------------------
(* What the tools do with the answers.                                     *)

(* A listing that fails is taken for one without the order.                *)
Replay(c) ==
  /\ call[c].step = "list" /\ call[c].answer \in {"match", "nothing"} \cup Codes
  /\ IF call[c].answer = "match"
     THEN ReturnFrom(call, c)
     ELSE Goto(c, "count") /\ UNCHANGED holder
  /\ UNCHANGED <<policyVars, clock, queue, book>>

CountOpen(c) ==
  /\ call[c].step = "count" /\ call[c].answer \in {"ok"} \cup Codes
  /\ IF call[c].answer = "ok"
     THEN Goto(c, "clock") /\ UNCHANGED holder
     ELSE ReturnFrom(call, c)
  /\ UNCHANGED <<policyVars, clock, queue, book>>

(* The time is taken before the policy's lock is.                          *)
ReadClock(c) ==
  /\ call[c].step = "clock"
  /\ call' = [call EXCEPT ![c].step = "check", ![c].now = clock]
  /\ UNCHANGED <<policyVars, clock, holder, queue, book>>

Checked(c, verdict) ==
  LET passed == [call EXCEPT ![c].acted = CommonVerdict(call[c].now) = "ok"]
  IN IF verdict = "ok"
     THEN call' = [passed EXCEPT ![c].step = call[c].tool] /\ UNCHANGED holder
     ELSE ReturnFrom(passed, c)

Check(c) ==
  /\ call[c].step = "check"
  /\ LET d == call[c]
     IN \/ /\ d.tool = "place"
           /\ CheckPlace(d.order, d.reference, d.open, d.now)
           /\ Checked(c, PlaceVerdict(d.order, d.reference, d.open, d.now))
        \/ /\ d.tool # "place"
           /\ CheckCancel(d.now)
           /\ Checked(c, CommonVerdict(d.now))
  /\ UNCHANGED <<clock, queue, book>>

(* Only a definitive refusal gives the charge back.                        *)
Releases_OnAnyError(answer) == answer \in Codes

Releases(answer) == answer \in Definitive

Placed(c) ==
  /\ call[c].step = "place" /\ call[c].answer \in {"ok"} \cup Codes
  /\ IF Releases(call[c].answer) THEN Release(call[c].order) ELSE UNCHANGED policyVars
  /\ ReturnFrom(call, c)
  /\ UNCHANGED <<clock, queue, book>>

CancelReply(c) ==
  /\ call[c].step \in {"cancel", "cancel_all"} /\ call[c].answer \in {"ok"} \cup Codes
  /\ ReturnFrom(call, c)
  /\ UNCHANGED <<policyVars, clock, queue, book>>

-----------------------------------------------------------------------------
(* Only the window looks at the clock, so where it has room for every call *)
(* time need not pass.                                                     *)
Tick ==
  /\ cfg.actionsPerMinute < Cardinality(Call)
  /\ clock < MaxClock
  /\ clock' = clock + 1
  /\ UNCHANGED <<policyVars, holder, call, queue, book>>

(* A step of a call's own, and its deadline.                               *)
Advance(c) ==
  \/ Lock(c) \/ ReadMarket(c) \/ Send(c) \/ Replay(c) \/ CountOpen(c)
  \/ ReadClock(c) \/ Check(c) \/ Placed(c) \/ CancelReply(c)

Runtime == \E c \in Call : Advance(c) \/ GiveUp(c)

Next ==
  \/ \E c \in Call : BeginPlace(c) \/ BeginCancel(c)
  \/ Runtime
  \/ Serve \/ Fills \/ Tick

(* Tasks are scheduled and deadlines pass; the engine need not answer.     *)
Spec == Init /\ [][Next]_vars /\ WF_vars(Runtime)
=============================================================================
