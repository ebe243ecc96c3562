-------------------------------- MODULE Rpc --------------------------------
(***************************************************************************)
(* JSON-RPC 2.0 as the MCP server reads and answers it                     *)
(* (mcp-server/src/jsonrpc.rs, protocol.rs) and the checks an HTTP request *)
(* passes before it (transport/http.rs).                                   *)
(*                                                                         *)
(* A message is what its members show: whether it is an object, its id,    *)
(* whether jsonrpc is "2.0", its method ("" when it is no string), and of  *)
(* its params their shape, the one string the method reads, the shape of   *)
(* the tool's arguments and the call they belong to. Texts are left out.   *)
(***************************************************************************)
EXTENDS Integers, SequencesExt

CONSTANTS
  Uri,           \* the resources the server has
  ToolName,      \* the tools it offers
  Version,       \* SUPPORTED_PROTOCOL_VERSIONS
  Latest         \* LATEST_PROTOCOL_VERSION

ASSUME RpcAssumption == Latest \in Version

NoId == [kind |-> "none", n |-> 0]
NullId == [kind |-> "null", n |-> 0]
GoodId(n) == [kind |-> "good", n |-> n]

NoParams == [shape |-> "none", text |-> "", arguments |-> "none", call |-> <<>>]
TextParam(t) == [NoParams EXCEPT !.shape = "object", !.text = t]

Request(id, method, params) ==
  [object |-> TRUE, id |-> id, version |-> TRUE, method |-> method,
   params |-> params]

(* parse: is the message a request or a notification?                      *)
IsRequest(m) ==
  /\ m.object
  /\ m.id.kind \in {"none", "good"}
  /\ m.method # ""
  /\ m.version
  /\ m.params.shape # "scalar"

(* Whose id a refused message is answered with.                            *)
RefusedId(m) == IF m.object /\ m.id.kind = "good" THEN m.id ELSE NullId

IsNotification(m) == m.method \in {"notifications/initialized", "notifications/cancelled"}

(* A message that is dispatched: the others have no effect.                *)
IsDispatched(m) == IsRequest(m) /\ ~IsNotification(m) /\ m.id # NoId

Success(id, result) == [id |-> id, ok |-> TRUE, result |-> result]
RpcError(code) == <<code>>
Failure(id, code) == [id |-> id, ok |-> FALSE, result |-> RpcError(code)]

-----------------------------------------------------------------------------
(* The methods. What the tools and the engine behind them return is the    *)
(* outcome.                                                                *)

Outcome == {"ok", "rejected", "error"}

(* The version the server speaks with a client that asked for this one.    *)
Negotiated(requested) == IF requested \in Version THEN requested ELSE Latest

RunsTool(m) ==
  /\ IsDispatched(m) /\ m.method = "tools/call"
  /\ m.params.text \in ToolName
  /\ m.params.arguments # "scalar"

ToolsCall(m, outcome) ==
  IF RunsTool(m)
  THEN Success(m.id, <<"result", outcome>>)
  ELSE Failure(m.id, "INVALID_PARAMS")

ResourcesRead(m, news, outcome) ==
  CASE m.params.text = "" -> Failure(m.id, "INVALID_PARAMS")
    [] m.params.text \notin Uri -> Failure(m.id, "RESOURCE_NOT_FOUND")
    [] outcome # "ok" -> Failure(m.id, "INTERNAL_ERROR")
    [] OTHER -> Success(m.id, <<"contents", m.params.text, news>>)

Subscribe(m) ==
  CASE m.params.text = "" -> Failure(m.id, "INVALID_PARAMS")
    [] m.params.text \notin Uri -> Failure(m.id, "RESOURCE_NOT_FOUND")
    [] OTHER -> Success(m.id, <<m.method, m.params.text>>)

PromptsGet(m) ==
  IF m.params.text = "trading_assistant"
  THEN Success(m.id, <<"prompt">>) ELSE Failure(m.id, "INVALID_PARAMS")

Subscribing == {"resources/subscribe", "resources/unsubscribe"}
Plain ==
  {"ping", "logging/setLevel", "tools/list", "resources/list",
   "resources/templates/list", "prompts/list"}

Dispatch(m, news, outcome) ==
  CASE m.method \in Plain -> Success(m.id, <<m.method>>)
    [] m.method = "initialize" ->
         Success(m.id, <<"version", Negotiated(m.params.text)>>)
    [] m.method = "tools/call" -> ToolsCall(m, outcome)
    [] m.method = "resources/read" -> ResourcesRead(m, news, outcome)
    [] m.method \in Subscribing -> Subscribe(m)
    [] m.method = "prompts/get" -> PromptsGet(m)
    [] OTHER -> Failure(m.id, "METHOD_NOT_FOUND")

(* The answer to a message, if it has one.                                 *)
HandleOne(m, news, outcome) ==
  CASE ~IsRequest(m) -> <<Failure(RefusedId(m), "INVALID_REQUEST")>>
    [] IsRequest(m) /\ ~IsDispatched(m) -> <<>>
    [] OTHER -> <<Dispatch(m, news, outcome)>>

(* What a message does to the subscriptions.                               *)
Subscribed(subscriptions, m) ==
  IF ~IsDispatched(m) \/ m.params.text \notin Uri THEN subscriptions
  ELSE CASE m.method = "resources/subscribe" -> subscriptions \cup {m.params.text}
         [] m.method = "resources/unsubscribe" -> subscriptions \ {m.params.text}
         [] OTHER -> subscriptions

-----------------------------------------------------------------------------
(* HTTP. The body of a request is one message, a batch, or no JSON.        *)

One(m) == [kind |-> "one", messages |-> <<m>>]
Batch(ms) == [kind |-> "batch", messages |-> ms]
Unreadable == [kind |-> "unreadable", messages |-> <<>>]

Post(body) ==
  [local |-> TRUE, path |-> "/mcp", method |-> "POST", version |-> "",
   small |-> TRUE, body |-> body]

(* What the checks of handle answer; 0 when the body reaches the server.   *)
HttpStatus(r) ==
  CASE ~r.local -> 403
    [] r.path \in {"/healthz", "/metrics"} /\ r.method = "GET" -> 200
    [] r.path # "/mcp" -> 404
    [] r.version \notin Version \cup {""} -> 400
    [] r.method # "POST" -> 405
    [] ~r.small -> 413
    [] OTHER -> 0

(* A subscription by itself is refused: there is no stream to tell it on.  *)
RefusesSubscription(body) ==
  body.kind = "one" /\ body.messages[1].object
    /\ body.messages[1].method = "resources/subscribe"

Refusal(m) ==
  Failure(IF m.id = NoId THEN NullId ELSE m.id, "INVALID_PARAMS")

(* What the body is answered with before any message of it is handled.     *)
FirstAnswers(body) ==
  IF body.kind = "unreadable" THEN <<Failure(NullId, "PARSE_ERROR")>> ELSE <<>>
=============================================================================
