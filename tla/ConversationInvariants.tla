----------------------- MODULE ConversationInvariants -----------------------
(***************************************************************************)
(* What holds of conversations with the model and the MCP server, of the   *)
(* server's notifications, and what waits in vain nowhere.                 *)
(***************************************************************************)
EXTENDS Conversation

Sent == ToChatMessages(messages)

(* The chat-completions API wants the answers to an assistant message's    *)
(* calls directly after it, each call once.                                *)
CallsAnsweredNext(chat) ==
  \A i \in DOMAIN chat :
    LET asked == chat[i].calls
        Follows(k) == i + k \in DOMAIN chat /\ chat[i + k].answers = <<asked[k]>>
    IN  /\ \A k \in DOMAIN asked : Follows(k)
        /\ chat[i].role = "tool" =>
             \E j \in 1..(i - 1) : \E k \in DOMAIN chat[j].calls :
               j + k = i /\ chat[j].calls[k] = chat[i].answers[1]

(* It wants the reasoning of every earlier reply back.                     *)
ReasoningReturned(chat) ==
  \A i \in DOMAIN messages :
    messages[i].role = "assistant" =>
      \E j \in DOMAIN chat :
        /\ chat[j].role = "assistant"
        /\ chat[j].reasoning = Of(messages[i].content, "reasoning")
        /\ chat[j].calls = ToolUses(messages[i].content)

(* Each turn's words and note are in it once, the note right behind them.  *)
WordsOnce(chat) ==
  LET texts == FlattenSeq([i \in DOMAIN chat |-> chat[i].texts])
      Places(t) == {i \in DOMAIN texts : texts[i] = t}
  IN  \A t \in 1..turn :
        /\ Cardinality(Places(<<"said", t>>)) = 1
        /\ Gated => Places(<<"note", t>>) = {i + 1 : i \in Places(<<"said", t>>)}

(* Whatever retries, failures, abandoned turns and changes of the note     *)
(* channel came before, a request to the model shows it each turn's words  *)
(* and note once; the results of a reply's calls stand directly behind it, *)
(* unless some turn ended on calls it had not answered; the reasoning goes *)
(* back to a provider that wants it; and a turn on the user channel has    *)
(* put no system-role message behind the turns before it                   *)
(* (deepseek.rs:92-154, agent.rs:276-404). Whether earlier turns left such *)
(* messages is StaysOnUserChannel's question.                              *)
RequestsKeepForm ==
  pc = "asking" =>
    /\ WordsOnce(Sent)
    /\ ~cut => CallsAnsweredNext(Sent)
    /\ provider = "deepseek" => ReasoningReturned(Sent)
    /\ channel = "user" =>
         \A i \in turnStart + 1..Len(messages) : messages[i].role # "system"

(* Once an API has refused a system-role message, a turn on the user       *)
(* channel sends it none. The code does not keep this.                     *)
StaysOnUserChannel ==
  pc = "asking" /\ systemRejected /\ channel = "user" => ~HasSystemNote

Reported ==
  {b \in ToSet(results) : pc \in {"tools", "calling"}}
    \cup UNION {ToSet(messages[i].content) : i \in DOMAIN messages}

(* A tool call of the model runs at most once, although its answer may be  *)
(* lost and the model be asked again; one whose result says it ran did,    *)
(* and one that was held back never does (mcp_client.rs:101-142,           *)
(* agent.rs:427-527).                                                      *)
ResultsAreTrue ==
  /\ \A p, q \in ran : p[2] = q[2] => p = q
  /\ \A b \in Reported :
       b.type = "tool_result" =>
         /\ b.how \in {"ok", "rejected", "error"} => \E p \in ran : p[2] = b.of
         /\ b.how = "held" => \A p \in ran : p[2] # b.of

Stale(u) ==
  u \in subscriptions /\ seen[u] \in 1..(news - 1) /\ u \notin unheard

(* A host that reads again what it is told of gets to see every change of  *)
(* what it subscribed to, in whatever window the event fell, unless the    *)
(* event came while the pump's stream was not open (stdio.rs:33-67).       *)
HostCatchesUp == \A u \in Uri : Stale(u) ~> ~Stale(u)

(* Every turn ends, and so does the start of the service: no answer of the *)
(* provider or the MCP server is waited for without end                    *)
(* (anthropic.rs:187-236, mcp_client.rs:34-44).                            *)
TurnsReturn == [](audience = "agent" => <>(pc \in {"idle", "exited"}))
=============================================================================
