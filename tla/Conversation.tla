---------------------------- MODULE Conversation ----------------------------
(***************************************************************************)
(* A session of the chat service between the model provider and the MCP    *)
(* server: agent-service/src/mcp_client.rs (the handshake, requests with a *)
(* timeout and no retry), the create loops of anthropic.rs and deepseek.rs *)
(* (retries), and the messages chat_turn keeps (agent.rs), over Mcp.tla.   *)
(*                                                                         *)
(* What the gate and the audit log decide is left to Turn.tla: here they   *)
(* may answer any call themselves. The compensating cancel is Turn's, too. *)
(* The provider replies with any of Completions and fails as it likes; one *)
(* that does not accept system-role messages refuses every request with    *)
(* one. Other sessions show in the flag they share, systemRejected. A turn *)
(* may be abandoned at any await. Bounds: MaxTurns, MaxIterations, and     *)
(* MaxLost requests to the MCP server that fail or are given up.           *)
(***************************************************************************)
EXTENDS Mcp, Transcript

CONSTANTS
  Setups,              \* providers, whether they accept system messages, and
                       \* the channel configured for notes
  Completions(_, _, _), \* what a provider may answer in an iteration of a turn
  Catalog,             \* EXPECTED_TOOLS
  CalledName,          \* the names a model calls tools by
  Gated,               \* gate_tools: turns carry a note
  MaxAttempts, MaxTurns, MaxIterations, MaxLost

VARIABLES
  provider,        \* "anthropic" or "deepseek"
  acceptsSystem,   \* whether its model takes system-role messages
  configured,      \* cfg.note_channel: "system" or "user"
  systemRejected,  \* system_channel_rejected
  pc,              \* "start", "initializing", "notifying", "listing", "idle",
                   \* "asking", "tools", "calling" or "exited"
  nextId, waiting, \* of the MCP client: the next id, the request under way
  lost,            \* requests that failed or were given up
  turn, messages, channel, turnStart, iterations, attempts, calls, results,
  cut              \* history: a turn ended on calls it had not answered

clientVars == <<nextId, waiting, lost>>
loopVars == <<channel, turnStart, iterations, attempts, calls, results>>
config == <<provider, acceptsSystem, configured>>
agentVars == <<config, systemRejected, pc, clientVars, turn,
               messages, loopVars, cut>>
vars == <<mcpVars, agentVars>>

ConversationInit ==
  /\ McpInit
  /\ \E s \in Setups :
       /\ provider = s[1] /\ acceptsSystem = s[2] /\ configured = s[3]
       /\ audience # "agent" => s = <<"anthropic", TRUE, "system">>
  /\ systemRejected = FALSE
  /\ pc = (IF audience = "agent" THEN "start" ELSE "exited")
  /\ nextId = 1 /\ waiting = 0 /\ lost = 0
  /\ turn = 0 /\ messages = <<>> /\ channel = "system" /\ turnStart = 0
  /\ iterations = 0 /\ attempts = 0 /\ calls = <<>> /\ results = <<>>
  /\ cut = FALSE

-----------------------------------------------------------------------------
(* The MCP client: one post at a time, answered, failed or timed out.      *)

mcpRest == <<audience, subscriptions, news, ran, pumpVars, lines,
             hostVars, ends, unheard>>

Sends(m) ==
  /\ posts' = posts \cup {NewPost(nextId, Post(One(m)))}
  /\ waiting' = nextId
  /\ nextId' = nextId + 1
  /\ UNCHANGED lost

Waited == {p \in posts : p.n = waiting /\ ~p.gone}

(* request: the result of an answer with status 200 and no error.          *)
Answered(p) == p.at = "answered"
Returns(p) ==
  Answered(p) /\ p.status = 200 /\ p.answers # <<>> /\ p.answers[1].ok
Result(p) == p.answers[1].result

Receives(p) ==
  /\ Answered(p)
  /\ posts' = posts \ {p} /\ waiting' = 0
  /\ UNCHANGED <<nextId, lost>>

(* 30 seconds are over or the connection failed.                           *)
Fails(p) ==
  /\ lost < MaxLost
  /\ lost' = lost + 1
  /\ Becomes(p, [p EXCEPT !.gone = TRUE])
  /\ waiting' = 0
  /\ UNCHANGED nextId

sessionRest == <<config, systemRejected, turn, messages, loopVars, cut>>

Goes(before, after) == pc = before /\ pc' = after

(* connect and Agent::new.                                                 *)
Initialize ==
  /\ Goes("start", "initializing")
  /\ Sends(Request(GoodId(nextId), "initialize", TextParam("2025-11-25")))
  /\ UNCHANGED <<mcpRest, sessionRest>>

Starts(before, after, next) ==
  \E p \in Waited :
    /\ Goes(before, after)
    /\ Answered(p)
    /\ posts' = (posts \ {p}) \cup {NewPost(nextId, Post(One(next)))}
    /\ waiting' = nextId /\ nextId' = nextId + 1
    /\ UNCHANGED <<lost, mcpRest, sessionRest>>

Notify ==
  /\ \E p \in Waited : Returns(p)
  /\ Starts("initializing", "notifying",
            Request(NoId, "notifications/initialized", NoParams))

ListTools ==
  /\ \E p \in Waited : p.status \in {200, 202}
  /\ Starts("notifying", "listing", Request(GoodId(nextId), "tools/list", NoParams))

Ready ==
  /\ Goes("listing", "idle")
  /\ \E p \in Waited : Returns(p) /\ Receives(p)
  /\ Catalog = ToolName
  /\ UNCHANGED <<mcpRest, sessionRest>>

CannotStart ==
  /\ pc \in {"initializing", "notifying", "listing"} /\ pc' = "exited"
  /\ \E p \in Waited : Fails(p)
  /\ UNCHANGED <<mcpRest, sessionRest>>

-----------------------------------------------------------------------------
(* A turn begins: the user's words and the note.                           *)

NoteOf(t) == IF Gated THEN <<"note", t>> ELSE <<>>

NoteChannel == IF systemRejected THEN "user" ELSE configured

PushUserTurn(kept, c) ==
  /\ messages' = kept \o UserTurn(<<"said", turn'>>, NoteOf(turn'), c)
  /\ channel' = c

agentRest == <<mcpVars, config, clientVars>>

(* The next call of the model, unless there were too many.                 *)
NextIteration(n) ==
  IF n >= MaxIterations
  THEN pc' = "idle" /\ UNCHANGED <<iterations, attempts>>
  ELSE pc' = "asking" /\ iterations' = n + 1 /\ attempts' = 1

Begin ==
  /\ pc = "idle" /\ turn < MaxTurns
  /\ turn' = turn + 1
  /\ PushUserTurn(messages, NoteChannel)
  /\ turnStart' = Len(messages)
  /\ NextIteration(0)
  /\ calls' = <<>> /\ results' = <<>>
  /\ UNCHANGED <<agentRest, systemRejected, cut>>

-----------------------------------------------------------------------------
(* create: what one attempt meets.                                         *)

(* 429, 5xx, no connection, or no resources: again, up to MaxAttempts.     *)
Retry ==
  /\ pc = "asking" /\ attempts < MaxAttempts
  /\ attempts' = attempts + 1
  /\ UNCHANGED <<agentRest, systemRejected, pc, turn, messages, channel,
                 turnStart, iterations, calls, results, cut>>

(* The turn fails: after the last attempt, or with an answer nobody reads. *)
ModelFails ==
  /\ Goes("asking", "idle")
  /\ UNCHANGED <<agentRest, systemRejected, turn, messages, loopVars, cut>>

HasSystemNote == \E i \in DOMAIN messages : messages[i].role = "system"
Accepts == acceptsSystem \/ ~HasSystemNote

(* A 400 for the system role, on the first call of the turn: the turn's    *)
(* own messages are replaced and sent on the user channel.                 *)
DowngradeFrom(kept) ==
  /\ pc = "asking" /\ ~Accepts
  /\ iterations = 1 /\ channel = "system"
  /\ systemRejected' = TRUE
  /\ turn' = turn
  /\ PushUserTurn(SubSeq(messages, 1, kept), "user")
  /\ attempts' = 1
  /\ UNCHANGED <<agentRest, pc, turnStart, iterations, calls, results, cut>>

Downgrade_DropsOne == DowngradeFrom(Len(messages) - 1)

Downgrade == DowngradeFrom(turnStart)

Ends(content) ==
  /\ pc' = "idle"
  /\ cut' = (cut \/ ToolUses(content) # <<>>)
  /\ UNCHANGED <<iterations, attempts>>

(* A reply, whose resources may have run out in the last attempt.          *)
Reply ==
  /\ pc = "asking" /\ Accepts
  /\ \E c \in Completions(provider, turn, iterations) :
       LET m == IF provider = "deepseek" THEN FromChatCompletion(c) ELSE c
       IN  /\ (provider = "deepseek" /\ c.finish = "insufficient_system_resource")
                => attempts = MaxAttempts
           /\ messages' = Append(messages, Message("assistant", m.content))
           /\ results' = <<>>
           /\ calls' = IF m.stop = "tool_use" THEN ToolUses(m.content) ELSE <<>>
           /\ CASE m.stop = "tool_use" /\ calls' # <<>> ->
                     pc' = "tools" /\ UNCHANGED <<iterations, attempts, cut>>
                [] m.stop = "pause_turn" ->
                     NextIteration(iterations) /\ UNCHANGED cut
                [] OTHER -> Ends(m.content)
  /\ UNCHANGED <<agentRest, systemRejected, turn, channel, turnStart>>

-----------------------------------------------------------------------------
(* The calls of a reply, in order; the results go back in one message.     *)

Call == calls[Len(results) + 1]
MoreCalls == Len(results) < Len(calls)

Reports(how) == results' = Append(results, ToolResult(Call, how))

loopRest == <<config, systemRejected, turn, messages, channel,
              turnStart, iterations, attempts, calls, cut>>

(* The gate or the audit log keeps the call back.                          *)
Held ==
  /\ pc = "tools" /\ MoreCalls
  /\ Reports("held")
  /\ UNCHANGED <<mcpVars, clientVars, pc, loopRest>>

CallTool ==
  /\ MoreCalls /\ Goes("tools", "calling")
  /\ \E name \in CalledName :
       Sends(Request(GoodId(nextId), "tools/call",
                     [TextParam(name) EXCEPT !.arguments = "object", !.call = Call]))
  /\ UNCHANGED <<mcpRest, results, loopRest>>

ToolReturns_OnlyResults ==
  /\ Goes("calling", "tools")
  /\ \E p \in Waited :
       /\ Returns(p) /\ Receives(p)
       /\ Reports(Result(p)[2])
  /\ UNCHANGED <<mcpRest, loopRest>>

ToolReturns ==
  /\ Goes("calling", "tools")
  /\ \E p \in Waited :
       /\ Receives(p)
       /\ Reports(IF Returns(p) THEN Result(p)[2] ELSE "failed")
  /\ UNCHANGED <<mcpRest, loopRest>>

ToolFails_Retried ==
  /\ Goes("calling", "tools")
  /\ \E p \in Waited : Fails(p)
  /\ UNCHANGED <<mcpRest, results, loopRest>>

ToolFails ==
  /\ Goes("calling", "tools")
  /\ \E p \in Waited : Fails(p)
  /\ Reports("failed")
  /\ UNCHANGED <<mcpRest, loopRest>>

ReturnResults ==
  /\ pc = "tools" /\ ~MoreCalls
  /\ messages' = Append(messages, Message("user", results))
  /\ NextIteration(iterations)
  /\ UNCHANGED <<agentRest, systemRejected, turn, channel, turnStart, calls,
                 results, cut>>

(* The chat client's connection closes: what the turn awaited is dropped.  *)
Abandon ==
  /\ pc \in {"asking", "calling"} /\ pc' = "idle"
  /\ IF pc = "calling" THEN \E p \in Waited : Fails(p)
     ELSE UNCHANGED <<posts, clientVars>>
  /\ cut' = (cut \/ pc = "calling")
  /\ UNCHANGED <<mcpRest, config, systemRejected, turn,
                 messages, loopVars>>

(* Another session finds out about the system role.                        *)
OthersDowngrade ==
  /\ ~acceptsSystem /\ ~systemRejected /\ pc \in {"idle", "asking", "tools"}
  /\ systemRejected' = TRUE
  /\ UNCHANGED <<agentRest, pc, turn, messages, loopVars, cut>>

-----------------------------------------------------------------------------
Answering == Retry \/ ModelFails \/ Downgrade \/ Reply

StartUp == Initialize \/ Notify \/ ListTools \/ Ready \/ CannotStart

Looping == Held \/ CallTool \/ ToolReturns \/ ToolFails \/ ReturnResults

AgentNext == StartUp \/ Begin \/ Answering \/ Looping \/ Abandon \/ OthersDowngrade

Next == (McpNext /\ UNCHANGED agentVars) \/ AgentNext

(* The scheduler runs every task, the host reads what it is told, a        *)
(* provider that does not answer fails after its timeout, and so does a    *)
(* request to the MCP server.                                              *)
Fairness ==
  /\ WF_vars(Serve /\ UNCHANGED agentVars)
  /\ WF_vars(Pump /\ UNCHANGED agentVars)
  /\ WF_vars(HostStep /\ UNCHANGED agentVars)
  /\ WF_vars(StartUp \/ Answering \/ Looping)

Spec == ConversationInit /\ [][Next]_vars /\ Fairness
=============================================================================
