--------------------------- MODULE MCConversation ---------------------------
(***************************************************************************)
(* A host that subscribes and reads in one batch, an unknown resource      *)
(* among them, and unsubscribes; a session with replies that call for one  *)
(* or two tools, and are cut off, paused or out of resources.              *)
(***************************************************************************)
EXTENDS ConversationInvariants, TLC

Subscription(u) == Request(GoodId(1), "resources/subscribe", TextParam(u))
Unsubscription(u) == Request(GoodId(1), "resources/unsubscribe", TextParam(u))
Reading(u) == Request(GoodId(1), "resources/read", TextParam(u))
Lines ==
  {One(Unsubscription("book")),
   Batch(<<Subscription("book"), Subscription("elsewhere"), Reading("book")>>)}

Services ==
  {<<"anthropic", TRUE, "system">>, <<"anthropic", FALSE, "system">>,
   <<"deepseek", FALSE, "system">>, <<"deepseek", TRUE, "user">>}

Completion(reasoning, text, uses, finish) ==
  [reasoning |-> reasoning, text |-> text, calls |-> uses, finish |-> finish]
Response(content, stop) == [content |-> content, stop |-> stop]

Replies(who, t, i) ==
  LET word == <<"reply", t, i>>
      first == <<t, i, 1>>
      second == <<t, i, 2>>
      text == IF who = "deepseek" THEN Completion(<<>>, <<word>>, <<>>, "stop")
              ELSE Response(<<Text(word)>>, "end_turn")
  IN  {text} \cup
      CASE who = "deepseek" /\ t = 1 /\ i = 1 ->
             {Completion(<<word>>, <<>>, <<first, second>>, "tool_calls")}
        [] who = "deepseek" /\ t = 1 /\ i > 1 ->
             {Completion(<<>>, <<word>>, <<first>>, "stop"),
              Completion(<<>>, <<>>, <<first>>, "length"),
              Completion(<<>>, <<word>>, <<>>, "insufficient_system_resource")}
        [] who = "anthropic" /\ t = 1 /\ i = 1 ->
             {Response(<<Text(word), ToolUse(first)>>, "tool_use"),
              Response(<<Text(word)>>, "pause_turn")}
        [] who = "anthropic" /\ t = 1 /\ i > 1 ->
             {Response(<<ToolUse(first)>>, "max_tokens")}
        [] OTHER -> {}
=============================================================================
