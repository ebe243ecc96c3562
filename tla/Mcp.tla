--------------------------------- MODULE Mcp ---------------------------------
(***************************************************************************)
(* The MCP server process (mcp-server/src/main.rs): protocol.rs behind one *)
(* of its transports, with the engine's events and the clients around it.  *)
(*                                                                         *)
(* Over stdio one host writes messages, which are handled one after the    *)
(* other, and a pump tells it of changes to the resources it subscribed to *)
(* (transport/stdio.rs). Over HTTP requests are handled at once, and each  *)
(* is dropped when its client has gone (transport/http.rs). A message      *)
(* waits for its tool: others, the pump and the engine go on meanwhile.    *)
(*                                                                         *)
(* The host reads what it subscribed to, and reads again what it was told  *)
(* has changed. Every event may change every resource. Over HTTP the chat  *)
(* service (Conversation.tla) uses the server: its requests pass all of    *)
(* handle's checks, and nobody is told of anything there. Bounds: MaxNews  *)
(* events, MaxLines messages the host thinks of itself, MaxEnds ends of    *)
(* the event stream.                                                       *)
(***************************************************************************)
EXTENDS Rpc, FiniteSetsExt

CONSTANTS
  HostLines,
  Outcomes,       \* of a tool or a read, some of Outcome
  MaxNews, MaxLines, MaxEnds

VARIABLES
  audience,       \* "host" over stdio; "agent" over HTTP
  posts,          \* requests under way
  subscriptions,
  news,           \* the events of the engine so far
  pump,           \* "off", "down", "listening", "window" or "telling"
  stream,         \* the subscription at the engine is open
  heard,          \* events the stream holds
  telling,        \* notifications of this round still to be written
  lines,          \* lines the host has not read
  hostSent, ends,
  told,           \* the host: resources it was told of and has not read again
  seen,           \* what it read last since it subscribed; 0: nothing
  unheard,        \* history: changed while the stream was not open, or was lost
                  \* with it, and not read since
  ran             \* history: tool calls run, by request

serverVars == <<posts, subscriptions, news, ran>>
pumpVars == <<pump, stream, heard, telling>>
hostVars == <<hostSent, told, seen>>
mcpVars == <<audience, serverVars, pumpVars, lines, hostVars, ends, unheard>>

overStdio == audience = "host"

McpInit ==
  /\ audience \in {"host", "agent"}
  /\ posts = {} /\ subscriptions = {} /\ news = 1
  /\ pump = (IF overStdio THEN "down" ELSE "off")
  /\ stream = FALSE /\ heard = 0 /\ telling = {}
  /\ lines = <<>>
  /\ hostSent = 0 /\ ends = 0
  /\ told = {} /\ seen = [u \in Uri |-> 0] /\ unheard = {}
  /\ ran = {}

-----------------------------------------------------------------------------
(* Requests. The client of a post may have gone; n orders the lines of the *)
(* host and is the id of a request of the chat service.                    *)

NewPost(n, request) ==
  [n |-> n, request |-> request, at |-> "sent", gone |-> FALSE, status |-> 0,
   todo |-> <<>>, answers |-> <<>>]

(* An answer nobody waits for is not kept.                                 *)
Becomes(p, q) ==
  posts' = (posts \ {p}) \cup {r \in {q} : ~(q.gone /\ q.at = "answered")}

IsFirst(p) == \A q \in posts : p.n <= q.n

AcceptHttp(p) ==
  LET status == HttpStatus(p.request)
      body == p.request.body
  IN  Becomes(p,
        CASE status # 0 -> [p EXCEPT !.at = "answered", !.status = status]
          [] status = 0 /\ RefusesSubscription(body) ->
               [p EXCEPT !.at = "answered", !.status = 200,
                         !.answers = <<Refusal(body.messages[1])>>]
          [] OTHER -> [p EXCEPT !.at = "open", !.todo = body.messages,
                                !.answers = FirstAnswers(body)])

Accept(p) ==
  /\ p.at = "sent"
  /\ IF ~overStdio THEN AcceptHttp(p)
     ELSE /\ IsFirst(p)
          /\ Becomes(p, [p EXCEPT !.at = "open", !.todo = p.request.body.messages,
                                  !.answers = FirstAnswers(p.request.body)])
  /\ UNCHANGED <<audience, subscriptions, news, ran, pumpVars, lines,
                 hostVars, ends, unheard>>

(* One message. What a tool does to the engine shows as an event.          *)
Handle(p) ==
  /\ p.at = "open" /\ p.todo # <<>>
  /\ \E outcome \in Outcomes :
       LET m == Head(p.todo)
           runs == RunsTool(m)
           reads == IsDispatched(m) /\ m.method = "resources/read" /\ outcome = "ok"
       IN  /\ m.method \in {"tools/call", "resources/read"} \/ outcome = "ok"
           /\ Becomes(p, [p EXCEPT !.todo = Tail(@),
                                   !.answers = @ \o HandleOne(m, news, outcome)])
           /\ subscriptions' = Subscribed(subscriptions, m)
           /\ unheard' = IF reads THEN unheard \ {m.params.text} ELSE unheard
           /\ ran' = IF runs /\ m.params.call # <<>>
                     THEN ran \cup {<<p.n, m.params.call>>} ELSE ran
  /\ UNCHANGED <<audience, news, pumpVars, lines, hostVars, ends>>

Line(kind, what) == [kind |-> kind, what |-> what]

(* The reply: over stdio one line, over HTTP always a response.            *)
Finish(p) ==
  /\ p.at = "open" /\ p.todo = <<>>
  /\ IF ~overStdio
     THEN /\ Becomes(p, [p EXCEPT !.at = "answered",
                                  !.status = IF p.answers = <<>> THEN 202 ELSE 200])
          /\ UNCHANGED lines
     ELSE /\ posts' = posts \ {p}
          /\ lines' = IF p.answers = <<>> THEN lines
                      ELSE Append(lines, Line("reply", p.answers))
  /\ UNCHANGED <<audience, subscriptions, news, ran, pumpVars,
                 hostVars, ends, unheard>>

(* A request whose client has gone is dropped, at any await.               *)
Dropped(p) ==
  /\ p.gone
  /\ posts' = posts \ {p}
  /\ UNCHANGED <<audience, subscriptions, news, ran, pumpVars, lines,
                 hostVars, ends, unheard>>

Serve == \E p \in posts : Accept(p) \/ Handle(p) \/ Finish(p) \/ Dropped(p)

-----------------------------------------------------------------------------
(* The pump.                                                               *)

PumpStep(before, after) == pump = before /\ pump' = after

quiet == <<audience, serverVars, hostVars>>

Connect ==
  /\ PumpStep("down", "listening")
  /\ stream' = TRUE /\ heard' = 0
  /\ UNCHANGED <<quiet, telling, lines, ends, unheard>>

(* An event opens a window; what else comes within it is drained.          *)
Hear ==
  /\ PumpStep("listening", "window")
  /\ heard > 0 /\ heard' = heard - 1
  /\ UNCHANGED <<quiet, stream, telling, lines, ends, unheard>>

Drain ==
  /\ PumpStep("window", "window")
  /\ heard > 0 /\ heard' = heard - 1
  /\ UNCHANGED <<quiet, stream, telling, lines, ends, unheard>>

(* updated_notifications, once the window is over.                         *)
CloseWindow ==
  /\ PumpStep("window", "telling")
  /\ telling' = subscriptions
  /\ UNCHANGED <<quiet, stream, heard, lines, ends, unheard>>

Tell(u) ==
  /\ PumpStep("telling", "telling")
  /\ telling' = telling \ {u}
  /\ lines' = Append(lines, Line("updated", u))
  /\ UNCHANGED <<quiet, stream, heard, ends, unheard>>

AllTold_DrainsLate ==
  /\ telling = {}
  /\ PumpStep("telling", "listening")
  /\ heard' = 0
  /\ UNCHANGED <<quiet, stream, telling, lines, ends, unheard>>

AllTold ==
  /\ telling = {}
  /\ PumpStep("telling", "listening")
  /\ UNCHANGED <<quiet, stream, heard, telling, lines, ends, unheard>>

(* The stream lagged or was cut: some of what it held may still arrive.    *)
StreamEnds ==
  /\ stream /\ ends < MaxEnds
  /\ ends' = ends + 1
  /\ stream' = FALSE
  /\ \E kept \in 0..heard :
       /\ heard' = kept
       /\ unheard' = IF kept = heard THEN unheard ELSE unheard \cup subscriptions
  /\ UNCHANGED <<quiet, pump, telling, lines>>

(* It rests, and subscribes again, after it has told what it heard.        *)
EndOfStream ==
  /\ ~stream /\ heard = 0
  /\ PumpStep("listening", "down")
  /\ UNCHANGED <<quiet, stream, heard, telling, lines, ends, unheard>>

Pump ==
  \/ Connect \/ Hear \/ Drain \/ CloseWindow \/ AllTold \/ EndOfStream
  \/ \E u \in telling : Tell(u)

-----------------------------------------------------------------------------
(* The engine and the host.                                                *)

(* A command of this server or another reaches the stream, if it is open.  *)
EngineChanges ==
  /\ overStdio /\ news < MaxNews
  /\ news' = news + 1
  /\ heard' = IF stream THEN heard + 1 ELSE heard
  /\ unheard' = IF stream THEN unheard ELSE unheard \cup subscriptions
  /\ UNCHANGED <<audience, posts, subscriptions, ran, pump, stream,
                 telling, lines, hostVars, ends>>

NextLine == 1 + Max({0} \cup {p.n : p \in posts})

Write(body) == posts' = posts \cup {NewPost(NextLine, Post(body))}

HostWrites(body) ==
  /\ overStdio /\ hostSent < MaxLines
  /\ hostSent' = hostSent + 1
  /\ Write(body)
  /\ UNCHANGED <<audience, subscriptions, news, ran, pumpVars, lines,
                 told, seen, ends, unheard>>

Read(u) == One(Request(GoodId(1), "resources/read", TextParam(u)))

ReadsAgain(u) ==
  /\ told' = told \ {u}
  /\ Write(Read(u))
  /\ UNCHANGED <<audience, subscriptions, news, ran, pumpVars, lines,
                 hostSent, seen, ends, unheard>>

(* What the host learns from the answers of one line: a resource it could  *)
(* not read it knows nothing of.                                           *)
Learns(u, answers) ==
  LET Contents(a) == a.ok /\ a.result[1] = "contents" /\ a.result[2] = u
      Renews(a) == a.ok /\ a.result[1] = "resources/subscribe" /\ a.result[2] = u
      Failed(a) == ~a.ok /\ a.result[1] = "INTERNAL_ERROR"
      About(a) == Contents(a) \/ Renews(a) \/ Failed(a)
      last == SelectLastInSeq(answers, About)
  IN  CASE last = 0 -> seen[u]
        [] last # 0 /\ Contents(answers[last]) -> answers[last].result[3]
        [] OTHER -> 0

HostReads ==
  /\ lines # <<>>
  /\ lines' = Tail(lines)
  /\ LET l == Head(lines)
     IN  IF l.kind = "updated" THEN told' = told \cup {l.what} /\ UNCHANGED seen
         ELSE seen' = [u \in Uri |-> Learns(u, l.what)] /\ UNCHANGED told
  /\ UNCHANGED <<audience, serverVars, pumpVars, hostSent, ends, unheard>>

HostStep == HostReads \/ \E u \in told : ReadsAgain(u)

McpNext ==
  \/ Serve \/ Pump \/ StreamEnds \/ EngineChanges \/ HostStep
  \/ \E b \in HostLines : HostWrites(b)
=============================================================================
