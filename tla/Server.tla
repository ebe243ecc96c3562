------------------------------- MODULE Server -------------------------------
(***************************************************************************)
(* The engine's gRPC server (engine-server/src/lib.rs) around the queue    *)
(* and the batches of the matcher (engine/src/sequencer.rs): unary calls,  *)
(* pipelined streams of placements, subscriptions to the events, and the   *)
(* rate limit in front of the queue.                                       *)
(*                                                                         *)
(* What the book does with a command is free here: it refuses it, or       *)
(* executes it with an event that involves its account and perhaps others. *)
(* Clients send, read and hang up when they like.                          *)
(***************************************************************************)
EXTENDS Integers, Sequences, SequencesExt

CONSTANTS
  Account, None,
  Stream,          \* connections that place orders through a stream
  Caller,          \* clients that make one unary call after another
  Messages,        \* per stream or caller, the requests it may make
  Subscriber,
  Viewer,          \* per subscriber, the account it asks for, or None
  Rate,            \* account_rate_per_sec
  TicksPerSecond,  \* resolution of the clock
  Capacity,        \* queue_capacity
  MaxBatch,        \* MAX_BATCH
  PendingRoom,     \* replies a stream may have pending
  OutRoom,         \* results it holds for its client
  EventBuffer,     \* EVENT_BUFFER
  FeedRoom,        \* events a subscription holds for its client
  MaxTime          \* bound: the clock

Client == Stream \cup Caller

(* A request as the wire carries it; one that does not translate into a    *)
(* command (no side, a price that is not positive, an id that is no        *)
(* number) is not valid.                                                   *)
Request ==
  [kind : {"place", "cancel", "cancelAll", "read", "move"}, account : Account,
   valid : BOOLEAN]

ASSUME ServerAssumption ==
  /\ Stream \cap Caller = {} /\ Subscriber \cap Client = {}
  /\ Messages \in [Client -> Seq(Request)]
  /\ \A s \in Stream : \A i \in DOMAIN Messages[s] : Messages[s][i].kind = "place"
  /\ Viewer \in [Subscriber -> Account \cup {None}]
  /\ {Rate, MaxTime} \subseteq Nat
  /\ {TicksPerSecond, Capacity, MaxBatch, PendingRoom, OutRoom, EventBuffer,
      FeedRoom} \subseteq Nat \ {0}

VARIABLES
  now,
  bucket,     \* RateLimiter.buckets, a token in as many parts as a second
  clock,      \* per client, the reading its next request took to the limiter
  late,       \* history: per account, how long its calls had waited, in sum
  asked,      \* per client, how many of its requests were received
  reader,     \* per stream, what its reading task does
  pending,    \* per stream, requests whose replies are pending
  writer,     \* per stream, the request its writing task holds
  out,        \* per stream, results on their way
  got,        \* per stream, results its client has read
  hungUp,     \* the streams whose clients are gone
  answer,     \* per client and request, its reply or refusal
  pc,         \* the matcher: "take", "tell", "reply" or "stopped"
  queue, batch,
  log,        \* the events so far
  published,  \* how many of them the published snapshot shows
  announced,  \* how many were broadcast
  stats,      \* the counters of GetStats
  feed,       \* per subscriber, its forwarding task
  seen,       \* per subscriber, what its client has read
  admitted    \* history: what was let through, its reading, and late till then

limiterVars == <<now, bucket, clock, late, admitted>>
streamVars == <<reader, pending, writer, out, got, hungUp>>
matcherVars == <<pc, queue, batch, log, published, announced, stats>>
feedVars == <<feed, seen>>
vars == <<limiterVars, asked, answer, streamVars, matcherVars, feedVars>>

Codes == {"OK", "RESOURCE_EXHAUSTED", "INVALID_ARGUMENT", "FAILED_PRECONDITION",
          "UNAVAILABLE"}
Command == [by : Client, n : Nat \ {0}]
RequestOf(c) == Messages[c.by][c.n]

Off == [state |-> "off", from |-> 0, next |-> 0, held |-> 0, out |-> <<>>]
Loss == 0   \* the DATA_LOSS status among the events
NoReading == -1

Init ==
  /\ now = 0
  /\ bucket = [a \in Account |-> [tokens |-> Rate * TicksPerSecond, last |-> 0]]
  /\ clock = [c \in Client |-> NoReading]
  /\ late = [a \in Account |-> 0]
  /\ asked = [c \in Client |-> 0]
  /\ answer = [c \in Client |-> [n \in DOMAIN Messages[c] |-> None]]
  /\ reader = [s \in Stream |-> "reading"]
  /\ pending = [s \in Stream |-> <<>>]
  /\ writer = [s \in Stream |-> 0]
  /\ out = [s \in Stream |-> <<>>] /\ got = [s \in Stream |-> <<>>]
  /\ hungUp = {}
  /\ pc = "take" /\ queue = <<>> /\ batch = <<>>
  /\ log = <<>> /\ published = 0 /\ announced = 0
  /\ stats = [commands |-> 0, maxBatch |-> 0, events |-> 0]
  /\ feed = [v \in Subscriber |-> Off]
  /\ seen = [v \in Subscriber |-> <<>>]
  /\ admitted = <<>>

-----------------------------------------------------------------------------
(* The limiter and the translation of a request.                           *)

Limited(r) == Rate > 0 /\ r.kind \in {"place", "cancel", "cancelAll"}

(* Nothing, when the reading is older than the one before.                 *)
Elapsed(a, at) == Max({at - bucket[a].last, 0})

Refilled_Uncapped(a, at) == bucket[a].tokens + Elapsed(a, at) * Rate

Refilled(a, at) ==
  Min({bucket[a].tokens + Elapsed(a, at) * Rate, Rate * TicksPerSecond})

Admits(r, at) == ~Limited(r) \/ Refilled(r.account, at) >= TicksPerSecond

(* What the lock covers. The reading was taken before it, and is kept also *)
(* when it is older than the one it replaces, and by a refused request.    *)
Admit(c, r) ==
  LET a == r.account
      at == clock[c]
      left == Refilled(a, at) - IF Admits(r, at) THEN TicksPerSecond ELSE 0
  IN /\ bucket' = IF Limited(r)
                  THEN [bucket EXCEPT ![a] = [tokens |-> left, last |-> at]]
                  ELSE bucket
     /\ late' = IF Limited(r) THEN [late EXCEPT ![a] = @ + (now - at)] ELSE late
     /\ admitted' = IF Limited(r) /\ Admits(r, at)
                    THEN Append(admitted, [account |-> a, at |-> at, late |-> late'[a]])
                    ELSE admitted
     /\ clock' = [clock EXCEPT ![c] = NoReading]
     /\ UNCHANGED now

(* The limiter is asked first, so a request it refuses is not looked at.   *)
Refusal(r, at) ==
  CASE ~Admits(r, at) -> "RESOURCE_EXHAUSTED"
    [] Admits(r, at) /\ ~r.valid -> "INVALID_ARGUMENT"
    [] OTHER -> None

Tick ==
  /\ now < MaxTime
  /\ now' = now + 1
  /\ UNCHANGED <<bucket, clock, late, admitted, asked, answer, streamVars, matcherVars,
                 feedVars>>

(* Its task is free for the client's next request.                         *)
Ready(c) ==
  /\ asked[c] + 1 \in DOMAIN Messages[c]
  /\ IF c \in Stream THEN reader[c] = "reading"
     ELSE asked[c] > 0 => answer[c][asked[c]] # None

(* A request is there, and reads the clock before it waits for the lock.   *)
Arrive(c) ==
  /\ Ready(c) /\ c \notin hungUp
  /\ clock[c] = NoReading
  /\ clock' = [clock EXCEPT ![c] = now]
  /\ UNCHANGED <<now, bucket, late, admitted, asked, answer, streamVars, matcherVars,
                 feedVars>>

-----------------------------------------------------------------------------
(* Unary calls.                                                            *)

HasRoom == pc # "stopped" /\ Len(queue) < Capacity

(* place_order, cancel_order, cancel_all_orders, deposit, withdraw and the *)
(* reads that go through the queue.                                        *)
Call(c) ==
  LET n == asked[c] + 1
      r == Messages[c][n]
      refusal == Refusal(r, clock[c])
  IN /\ Ready(c) /\ clock[c] # NoReading
     /\ asked' = [asked EXCEPT ![c] = n]
     /\ Admit(c, r)
     /\ IF refusal # None
        THEN answer' = [answer EXCEPT ![c][n] = refusal] /\ UNCHANGED queue
        ELSE IF HasRoom
        THEN queue' = Append(queue, [by |-> c, n |-> n]) /\ UNCHANGED answer
        ELSE answer' = [answer EXCEPT ![c][n] = "RESOURCE_EXHAUSTED"] /\ UNCHANGED queue
     /\ UNCHANGED <<streamVars, pc, batch, log, published, announced, stats, feedVars>>

-----------------------------------------------------------------------------
(* place_orders: one task reads and queues, one awaits and writes.         *)

ReadMessage(s) ==
  LET n == asked[s] + 1
      r == Messages[s][n]
      refusal == Refusal(r, clock[s])
  IN /\ Ready(s) /\ clock[s] # NoReading
     /\ asked' = [asked EXCEPT ![s] = n]
     /\ Admit(s, r)
     /\ answer' = [answer EXCEPT ![s][n] = refusal]
     /\ reader' = [reader EXCEPT ![s] = IF refusal = None THEN "queueing" ELSE "sending"]
     /\ UNCHANGED <<pending, writer, out, got, hungUp, matcherVars, feedVars>>

(* enqueue waits for room.                                                 *)
Enqueue(s) ==
  /\ reader[s] = "queueing"
  /\ \/ /\ HasRoom
        /\ queue' = Append(queue, [by |-> s, n |-> asked[s]])
        /\ UNCHANGED answer
     \/ /\ pc = "stopped"
        /\ answer' = [answer EXCEPT ![s][asked[s]] = "UNAVAILABLE"]
        /\ UNCHANGED queue
  /\ reader' = [reader EXCEPT ![s] = "sending"]
  /\ UNCHANGED <<limiterVars, asked, pending, writer, out, got, hungUp, pc, batch, log,
                 published, announced, stats, feedVars>>

Ended == -1

(* The reply to come takes its place behind the earlier ones.              *)
SendPending(s) ==
  /\ reader[s] = "sending"
  /\ \/ /\ writer[s] # Ended /\ Len(pending[s]) < PendingRoom
        /\ pending' = [pending EXCEPT ![s] = Append(@, asked[s])]
        /\ reader' = [reader EXCEPT ![s] = "reading"]
     \/ /\ writer[s] = Ended
        /\ reader' = [reader EXCEPT ![s] = "ended"]
        /\ UNCHANGED pending
  /\ UNCHANGED <<limiterVars, asked, answer, writer, out, got, hungUp, matcherVars,
                 feedVars>>

(* The client has closed its side.                                         *)
StopReading(s) ==
  /\ reader[s] = "reading" /\ clock[s] = NoReading
  /\ s \in hungUp \/ asked[s] = Len(Messages[s])
  /\ reader' = [reader EXCEPT ![s] = "ended"]
  /\ UNCHANGED <<limiterVars, asked, answer, pending, writer, out, got, hungUp,
                 matcherVars, feedVars>>

NextPending_FirstReady(s) ==
  /\ writer[s] = 0
  /\ \E i \in DOMAIN pending[s] :
       /\ answer[s][pending[s][i]] # None
       /\ writer' = [writer EXCEPT ![s] = pending[s][i]]
       /\ pending' = [pending EXCEPT ![s] = RemoveAt(@, i)]
  /\ UNCHANGED <<limiterVars, asked, answer, reader, out, got, hungUp, matcherVars, feedVars>>

(* The oldest is next, or nothing is and the reader has ended.             *)
NextPending(s) ==
  /\ writer[s] = 0
  /\ \/ /\ pending[s] # <<>>
        /\ writer' = [writer EXCEPT ![s] = Head(pending[s])]
        /\ pending' = [pending EXCEPT ![s] = Tail(@)]
     \/ /\ pending[s] = <<>> /\ reader[s] = "ended"
        /\ writer' = [writer EXCEPT ![s] = Ended]
        /\ UNCHANGED pending
  /\ UNCHANGED <<limiterVars, asked, answer, reader, out, got, hungUp, matcherVars, feedVars>>

(* It awaits the reply, and room for it.                                   *)
WriteResult(s) ==
  /\ writer[s] > 0
  /\ answer[s][writer[s]] # None
  /\ \/ /\ s \notin hungUp /\ Len(out[s]) < OutRoom
        /\ out' = [out EXCEPT ![s] = Append(@, [of |-> writer[s],
                                                 code |-> answer[s][writer[s]]])]
        /\ writer' = [writer EXCEPT ![s] = 0]
        /\ UNCHANGED pending
     \/ /\ s \in hungUp
        /\ writer' = [writer EXCEPT ![s] = Ended]
        /\ pending' = [pending EXCEPT ![s] = <<>>]
        /\ UNCHANGED out
  /\ UNCHANGED <<limiterVars, asked, answer, reader, got, hungUp, matcherVars, feedVars>>

ClientReads(s) ==
  /\ out[s] # <<>> /\ s \notin hungUp
  /\ got' = [got EXCEPT ![s] = Append(@, Head(out[s]))]
  /\ out' = [out EXCEPT ![s] = Tail(@)]
  /\ UNCHANGED <<limiterVars, asked, answer, reader, pending, writer, hungUp, matcherVars,
                 feedVars>>

HangUp(s) ==
  /\ s \notin hungUp
  /\ hungUp' = hungUp \cup {s}
  /\ out' = [out EXCEPT ![s] = <<>>]
  /\ UNCHANGED <<limiterVars, asked, answer, reader, pending, writer, got, matcherVars,
                 feedVars>>

-----------------------------------------------------------------------------
(* The matcher.                                                            *)

(* Only a placement can involve others.                                    *)
Events(c) ==
  LET own == {RequestOf(c).account}
  IN [by : {c.by}, n : {c.n},
      involves : IF RequestOf(c).kind = "place" THEN {own, Account} ELSE {own}]

(* A read has no event; a write that is refused, or a retry, has none.     *)
Take ==
  /\ pc = "take" /\ queue # <<>> /\ Len(batch) < MaxBatch
  /\ LET c == Head(queue)
         result(code) == Append(batch, [by |-> c.by, n |-> c.n, code |-> code])
     IN \/ /\ RequestOf(c).kind # "read"
           /\ \E e \in Events(c) : log' = Append(log, e)
           /\ batch' = result("OK")
        \/ batch' = result("OK") /\ UNCHANGED log
        \/ batch' = result("FAILED_PRECONDITION") /\ UNCHANGED log
  /\ queue' = Tail(queue)
  /\ UNCHANGED <<limiterVars, asked, answer, streamVars, pc, published, announced, stats,
                 feedVars>>

BatchIsFull == batch # <<>> /\ (queue = <<>> \/ Len(batch) = MaxBatch)

(* The batch is committed and its snapshot published.                      *)
Publish ==
  /\ pc = "take" /\ BatchIsFull
  /\ published' = Len(log)
  /\ pc' = "tell"
  /\ UNCHANGED <<limiterVars, asked, answer, streamVars, queue, batch, log, announced,
                 stats, feedVars>>

Answers(results) ==
  [c \in Client |-> [n \in DOMAIN Messages[c] |->
     IF \E r \in results : r.by = c /\ r.n = n
     THEN (CHOOSE r \in results : r.by = c /\ r.n = n).code
     ELSE answer[c][n]]]

(* A journal that does not take the batch stops the matcher: nothing of it *)
(* is shown, and what waits is answered with an error.                     *)
Stop ==
  /\ pc = "take" /\ BatchIsFull
  /\ answer' = Answers({[by |-> c.by, n |-> c.n, code |-> "UNAVAILABLE"] :
                          c \in ToSet(batch) \cup ToSet(queue)})
  /\ batch' = <<>> /\ queue' = <<>>
  /\ pc' = "stopped"
  /\ UNCHANGED <<limiterVars, asked, streamVars, log, published, announced, stats, feedVars>>

(* Its events are broadcast, and counted.                                  *)
Announce ==
  /\ pc = "tell"
  /\ announced' = Len(log)
  /\ stats' = [commands |-> stats.commands + Len(batch),
               maxBatch |-> Max({stats.maxBatch, Len(batch)}),
               events |-> stats.events + (Len(log) - announced)]
  /\ pc' = "reply"
  /\ UNCHANGED <<limiterVars, asked, answer, streamVars, queue, batch, log, published,
                 feedVars>>

ReplyBatch_WaitsForStreams ==
  /\ pc = "reply"
  /\ \A r \in ToSet(batch) : r.by \in Stream => Len(out[r.by]) < OutRoom
  /\ answer' = Answers(ToSet(batch))
  /\ batch' = <<>>
  /\ pc' = "take"
  /\ UNCHANGED <<limiterVars, asked, streamVars, queue, log, published, announced, stats,
                 feedVars>>

(* Nobody is waited for.                                                   *)
ReplyBatch ==
  /\ pc = "reply"
  /\ answer' = Answers(ToSet(batch))
  /\ batch' = <<>>
  /\ pc' = "take"
  /\ UNCHANGED <<limiterVars, asked, streamVars, queue, log, published, announced, stats,
                 feedVars>>

-----------------------------------------------------------------------------
(* subscribe: a task forwards the broadcast to its client.                 *)

Involves(v, i) == Viewer[v] = None \/ Viewer[v] \in log[i].involves

Subscribe(v) ==
  /\ feed[v].state = "off"
  /\ feed' = [feed EXCEPT ![v] = [Off EXCEPT !.state = "on", !.from = announced,
                                             !.next = announced + 1]]
  /\ UNCHANGED <<limiterVars, asked, answer, streamVars, matcherVars, seen>>

Lagged(v) == announced - feed[v].next + 1 > EventBuffer

ReceiveEvent_SkipsLost(v) ==
  /\ feed[v].state = "on" /\ feed[v].held = 0 /\ feed[v].next <= announced
  /\ LET i == Max({feed[v].next, announced - EventBuffer + 1})
     IN feed' = [feed EXCEPT ![v].held = IF Involves(v, i) THEN i ELSE 0,
                             ![v].next = i + 1]
  /\ UNCHANGED <<limiterVars, asked, answer, streamVars, matcherVars, seen>>

(* The next event, unless the broadcast has dropped it. An event that does *)
(* not involve the viewer is passed over.                                  *)
ReceiveEvent(v) ==
  /\ feed[v].state = "on" /\ feed[v].held = 0 /\ feed[v].next <= announced
  /\ feed' = IF Lagged(v) THEN [feed EXCEPT ![v].state = "lagged"]
             ELSE [feed EXCEPT ![v].held = IF Involves(v, feed[v].next)
                                        THEN feed[v].next ELSE 0,
                               ![v].next = @ + 1]
  /\ UNCHANGED <<limiterVars, asked, answer, streamVars, matcherVars, seen>>

(* It waits for room, also to say that it lagged, which ends it.           *)
ForwardEvent(v) ==
  /\ Len(feed[v].out) < FeedRoom
  /\ \/ /\ feed[v].held > 0
        /\ feed' = [feed EXCEPT ![v].out = Append(@, feed[v].held), ![v].held = 0]
     \/ /\ feed[v].state = "lagged"
        /\ feed' = [feed EXCEPT ![v].out = Append(@, Loss), ![v].state = "ended"]
  /\ UNCHANGED <<limiterVars, asked, answer, streamVars, matcherVars, seen>>

SubscriberReads(v) ==
  /\ feed[v].out # <<>>
  /\ seen' = [seen EXCEPT ![v] = Append(@, Head(feed[v].out))]
  /\ feed' = [feed EXCEPT ![v].out = Tail(@)]
  /\ UNCHANGED <<limiterVars, asked, answer, streamVars, matcherVars>>

-----------------------------------------------------------------------------
StreamTask(s) ==
  Enqueue(s) \/ SendPending(s) \/ StopReading(s) \/ NextPending(s) \/ WriteResult(s)
FeedTask(v) == ReceiveEvent(v) \/ ForwardEvent(v)
Matcher == Take \/ Publish \/ Announce \/ ReplyBatch

Next ==
  \/ Tick \/ Matcher \/ Stop
  \/ \E c \in Client : Arrive(c)
  \/ \E c \in Caller : Call(c)
  \/ \E s \in Stream : ReadMessage(s) \/ StreamTask(s) \/ ClientReads(s) \/ HangUp(s)
  \/ \E v \in Subscriber : Subscribe(v) \/ FeedTask(v) \/ SubscriberReads(v)

(* The runtime runs every task that can proceed, one that waits for the    *)
(* limiter's lock too, and the matcher's thread. Nothing makes a client    *)
(* call or read.                                                           *)
Spec ==
  /\ Init /\ [][Next]_vars
  /\ WF_vars(Matcher)
  /\ \A c \in Caller : WF_vars(Call(c))
  /\ \A s \in Stream : WF_vars(ReadMessage(s) \/ Enqueue(s) \/ SendPending(s))
                         /\ WF_vars(NextPending(s) \/ WriteResult(s))
  /\ \A v \in Subscriber : WF_vars(FeedTask(v))
=============================================================================
