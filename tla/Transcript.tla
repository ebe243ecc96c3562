----------------------------- MODULE Transcript -----------------------------
(***************************************************************************)
(* The messages of a session, as the service keeps them and as a model     *)
(* provider is sent and answers them: the note channels                    *)
(* (agent-service/src/agent.rs), the Messages API (anthropic.rs) and the   *)
(* translation to and from chat completions (deepseek.rs).                 *)
(*                                                                         *)
(* A text stands for itself: ids tell whose it is and of which turn. What  *)
(* is sent besides the messages (model, effort, caching, tool definitions) *)
(* does not depend on the session.                                         *)
(***************************************************************************)
EXTENDS Integers, SequencesExt

Text(t) == [type |-> "text", of |-> t]
Reasoning(t) == [type |-> "reasoning", of |-> t]
ToolUse(id) == [type |-> "tool_use", of |-> id]
ToolResult(id, how) == [type |-> "tool_result", of |-> id, how |-> how]

Message(role, content) == [role |-> role, content |-> content]

Blocks(content, type) == SelectSeq(content, LAMBDA b : b.type = type)
Of(content, type) ==
  [i \in DOMAIN Blocks(content, type) |-> Blocks(content, type)[i].of]

ToolUses(content) == Of(content, "tool_use")

(* The user's words and the note on what the turn permits, by channel.     *)
UserTurn(said, note, channel) ==
  CASE note = <<>> -> <<Message("user", <<Text(said)>>)>>
    [] note # <<>> /\ channel = "system" ->
         <<Message("user", <<Text(said)>>), Message("system", <<Text(note)>>)>>
    [] OTHER -> <<Message("user", <<Text(said), Text(note)>>)>>

-----------------------------------------------------------------------------
(* Chat completions.                                                       *)

Chat(role, texts) ==
  [role |-> role, texts |-> texts, reasoning |-> <<>>, calls |-> <<>>,
   answers |-> <<>>]

FromAssistant(content) ==
  <<[Chat("assistant", Of(content, "text")) EXCEPT
       !.reasoning = Of(content, "reasoning"), !.calls = ToolUses(content)]>>

FromUser(content) ==
  LET results == Of(content, "tool_result")
      texts == Of(content, "text")
  IN  [i \in DOMAIN results |->
         [Chat("tool", <<>>) EXCEPT !.answers = <<results[i]>>]]
        \o (IF texts = <<>> THEN <<>> ELSE <<Chat("user", texts)>>)

ChatMessages(m) ==
  CASE m.role = "assistant" -> FromAssistant(m.content)
    [] m.role = "system" -> <<Chat("system", Of(m.content, "text"))>>
    [] OTHER -> FromUser(m.content)

SystemPrompt == <<"prompt">>

ToChatMessages(messages) ==
  <<Chat("system", <<SystemPrompt>>)>>
    \o FlattenSeq([i \in DOMAIN messages |-> ChatMessages(messages[i])])

(* What a provider sends back: blocks and why it stopped.                  *)
StopReason(finish, calls) ==
  CASE finish = "tool_calls" \/ (finish = "stop" /\ calls # <<>>) -> "tool_use"
    [] finish = "length" -> "max_tokens"
    [] finish = "content_filter" -> "refusal"
    [] OTHER -> "end_turn"

FromChatCompletion(c) ==
  [content |-> [i \in DOMAIN c.reasoning |-> Reasoning(c.reasoning[i])]
                 \o [i \in DOMAIN c.text |-> Text(c.text[i])]
                 \o [i \in DOMAIN c.calls |-> ToolUse(c.calls[i])],
   stop |-> StopReason(c.finish, c.calls)]
=============================================================================
