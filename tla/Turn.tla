-------------------------------- MODULE Turn --------------------------------
(***************************************************************************)
(* One session of the chat service: the turns of the tool loop             *)
(* (agent-service/src/agent.rs, chat_turn), the pending confirmation and   *)
(* the request a bare "yes" may stand for, over the gate of Gate.tla.      *)
(*                                                                         *)
(* The model is free: it may call for any action at any time, with no      *)
(* token, with any token issued so far or with one that never was, and     *)
(* reply with any text. Reads, which every turn may make, are left out. A  *)
(* turn may end at any await, when the model call fails or the request's   *)
(* connection goes away.                                                   *)
(*                                                                         *)
(* A setup is the AgentConfig of a service (gateTools, confirmUnpriced,    *)
(* compensate, autonomous), what its user may say and its model may call   *)
(* for and reply, and bounds: the turns of the session and the action      *)
(* calls in one response of the model.                                     *)
(***************************************************************************)
EXTENDS Gate

CONSTANTS Setups, MaxIterations

ASSUME TurnAssumption ==
  /\ MaxIterations \in Nat
  /\ \A s \in Setups :
       /\ {s.gateTools, s.confirmUnpriced, s.compensate, s.autonomous} \subseteq BOOLEAN
       /\ s.messages \cup s.replies \subseteq Text
       /\ s.actions \subseteq Action
       /\ {s.turns, s.calls} \subseteq Nat

VARIABLES
  config,       \* the setup: it does not change
  turn,
  pending,      \* the action awaiting confirmation
  request,      \* confirmation_request: the request a reply asked to confirm
  unanswered,   \* the last of the messages calls for tools
  pc,           \* "idle", "model", "tools", "calling", "cut" or "undoing"
  said,         \* this turn's message
  text,         \* with the request it carries: what the gate judges by
  carried, confirming, permissions,
  iterations,   \* responses of the model so far
  calls,        \* action calls of the current one
  acted,        \* actions sent
  placed,       \* the order this turn placed is known to be accepted
  reply,        \* the reply that waits for the compensation
  auditFailed,  \* the log takes nothing more
  ran,          \* history: every action sent to the MCP server
  shown,        \* history: the actions replies of earlier turns have shown
  issued        \* history: tokens issued

sessionVars == <<turn, pending, request, unanswered>>
wordsVars == <<said, text, carried, confirming, permissions>>
turnVars == <<wordsVars, iterations, calls, acted, placed, reply>>
historyVars == <<ran, shown, issued>>
vars == <<config, sessionVars, pc, turnVars, auditFailed, historyVars>>

NoAction == [tool |-> "none"]
NoPending ==
  [token |-> 0, action |-> NoAction, disclosed |-> FALSE, askedOn |-> 0,
   expired |-> FALSE]
IsPending == pending # NoPending

Nothing == <<>>

NoPermissions == [trade |-> FALSE, cancel |-> FALSE]

Init ==
  /\ config \in Setups
  /\ turn = 0 /\ pending = NoPending /\ request = Nothing
  /\ unanswered = FALSE
  /\ pc = "idle"
  /\ said = Nothing /\ text = Nothing
  /\ carried = FALSE /\ confirming = FALSE
  /\ permissions = NoPermissions
  /\ iterations = 0 /\ calls = 0 /\ acted = 0
  /\ placed = FALSE /\ reply = Nothing
  /\ auditFailed = FALSE
  /\ ran = <<>> /\ shown = {} /\ issued = 0

-----------------------------------------------------------------------------
(* A turn begins.                                                          *)

Begin(m) ==
  /\ pc = "idle"
  /\ turn < config.turns
  /\ turn' = turn + 1
  /\ carried' =
       (~IsPending /\ config.gateTools /\ IsBareConfirmation(m) /\ request # Nothing)
  /\ said' = m
  /\ text' = IF carried' THEN request \o m ELSE m
  /\ request' = Nothing
  /\ permissions' =
       Permissions(text', config.gateTools, IsPending, Places(pending.action))
  /\ confirming' = (pending.disclosed /\ MentionsConfirmation(m))
  /\ unanswered' = FALSE
  /\ pc' = "model"
  /\ UNCHANGED <<pending, iterations, calls, acted, placed, reply, auditFailed,
                 historyVars>>

-----------------------------------------------------------------------------
(* The model calls for an action: intercept, then the audit record, then   *)
(* the MCP server.                                                         *)

(* Its response, after which it has responded n times, calls for tools.    *)
CallsForTools(n) ==
  /\ pc = "model"
  /\ iterations < MaxIterations
  /\ iterations' = n
  /\ unanswered' = TRUE
  /\ calls' = 0
  /\ UNCHANGED <<turn, pending, request, wordsVars, acted, placed, reply,
                 auditFailed, historyVars>>

Respond_Uncounted == CallsForTools(iterations) /\ pc' = "tools"

Respond == CallsForTools(iterations + 1) /\ pc' = "tools"

(* It is cut off, and its calls are not made.                              *)
CutOff == CallsForTools(iterations + 1) /\ pc' = "cut"

(* It pauses, to be called again.                                          *)
Pause ==
  /\ pc = "model"
  /\ iterations < MaxIterations
  /\ iterations' = iterations + 1
  /\ UNCHANGED <<sessionVars, pc, wordsVars, calls, acted, placed, reply,
                 auditFailed, historyVars>>

(* Their results go back to it.                                            *)
ReturnResults ==
  /\ pc = "tools"
  /\ pc' = "model"
  /\ unanswered' = FALSE
  /\ UNCHANGED <<turn, pending, request, turnVars, auditFailed, historyVars>>

MayCall == pc = "tools" /\ calls < config.calls

Permitted(a) == Allows(permissions, a)

(* The token names the pending action, and the user was asked before.      *)
Confirms(a, token) ==
  /\ token # 0 /\ confirming
  /\ pending.token = token /\ pending.action = a
  /\ pending.askedOn < turn
  /\ pending.disclosed /\ ~pending.expired

MayAct == acted = 0

RunsAtOnce(a, token) ==
  /\ token = 0 /\ ~confirming
  /\ ~(Permitted(a) /\ Contradicts(a, text, config))
  /\ AtOnce(a, text, config, Permitted(a), carried)

IsHeld(a, token) ==
  /\ MayAct
  /\ token = 0 /\ ~confirming
  /\ ~(Permitted(a) /\ Contradicts(a, text, config))
  /\ ~AtOnce(a, text, config, Permitted(a), carried)

Runs(a, token) == MayAct /\ (RunsAtOnce(a, token) \/ Confirms(a, token))

RefuseCall(a, token) ==
  /\ MayCall
  /\ ~Runs(a, token) /\ ~IsHeld(a, token)
  /\ calls' = calls + 1
  /\ UNCHANGED <<sessionVars, pc, wordsVars, iterations, acted, placed, reply,
                 auditFailed, historyVars>>

(* The service asks, with a token for this exact action.                   *)
Hold(a, token) ==
  /\ MayCall
  /\ IsHeld(a, token)
  /\ pending' = [token |-> issued + 1, action |-> a, disclosed |-> FALSE,
                 askedOn |-> turn, expired |-> FALSE]
  /\ issued' = issued + 1
  /\ calls' = calls + 1
  /\ UNCHANGED <<turn, request, unanswered, pc, wordsVars, iterations, acted,
                 placed, reply, auditFailed, ran, shown>>

(* Confirming takes the pending action, whatever follows.                  *)
Spend_Keeps(token) == UNCHANGED pending

Spend(token) == pending' = IF token = 0 THEN pending ELSE NoPending

Attempt(a, token) ==
  [turn |-> turn, action |-> a, token |-> token, text |-> text, carried |-> carried,
   confirmed |-> MentionsConfirmation(said),
   seen |-> a \in shown, ok |-> FALSE]

(* The turn's one action is spent before the call.                         *)
Send_Unspent(a, token) ==
  /\ MayCall
  /\ Runs(a, token)
  /\ ~auditFailed
  /\ Spend(token)
  /\ ran' = Append(ran, Attempt(a, token))
  /\ calls' = calls + 1
  /\ pc' = "calling"
  /\ UNCHANGED <<turn, request, unanswered, wordsVars, iterations, acted, placed, reply,
                 auditFailed, shown, issued>>

Send(a, token) ==
  /\ MayCall
  /\ Runs(a, token)
  /\ ~auditFailed
  /\ Spend(token)
  /\ ran' = Append(ran, Attempt(a, token))
  /\ acted' = acted + 1
  /\ calls' = calls + 1
  /\ pc' = "calling"
  /\ UNCHANGED <<turn, request, unanswered, wordsVars, iterations, placed, reply,
                 auditFailed, shown, issued>>

(* The pre-action record cannot be written: nothing is sent.               *)
RefuseUnaudited(a, token) ==
  /\ MayCall
  /\ Runs(a, token)
  /\ auditFailed' = TRUE
  /\ Spend(token)
  /\ calls' = calls + 1
  /\ UNCHANGED <<turn, request, unanswered, pc, wordsVars, iterations, acted,
                 placed, reply, historyVars>>

(* The answer, or an error, which proves nothing.                          *)
Answer(ok) ==
  /\ pc = "calling"
  /\ LET a == ran[Len(ran)].action
     IN /\ ok => a.tool # "invalid"
        /\ placed' = (placed \/ (ok /\ a.tool = "place"))
        /\ ran' = [ran EXCEPT ![Len(ran)].ok = ok]
  /\ pc' = "tools"
  /\ UNCHANGED <<sessionVars, wordsVars, iterations, calls, acted, reply,
                 auditFailed, shown, issued>>

-----------------------------------------------------------------------------
(* The turn ends.                                                          *)

(* What only the turn knows is gone.                                       *)
Leave ==
  /\ pc' = "idle"
  /\ said' = Nothing /\ text' = Nothing
  /\ carried' = FALSE /\ confirming' = FALSE
  /\ permissions' = NoPermissions
  /\ iterations' = 0 /\ calls' = 0 /\ acted' = 0 /\ placed' = FALSE
  /\ reply' = Nothing

(* A reply puts an action before the user: it names the side and not the   *)
(* other one, or the cancel and whether it is of every order, and the      *)
(* figures.                                                                *)
Shows(r, a) ==
  CASE a.tool = "place" ->
         /\ WordIn(r, {a.side}) /\ ~WordIn(r, {OtherSide(a.side)})
         /\ {a.qty, a.price} \subseteq ToSet(Figures(r))
    [] a.tool = "cancel" ->
         WordIn(r, CancelVerbs) /\ a.id \in ToSet(Figures(r))
    [] a.tool = "cancelAll" -> WordIn(r, CancelVerbs) /\ WordIn(r, AllWords)
    [] OTHER -> FALSE

(* The pending action of this turn counts as asked only if the reply says  *)
(* what it is.                                                             *)
Disclosed(p, r) ==
  IF p.askedOn = turn /\ SummaryIsDisclosed(Summary(p.action), r)
  THEN [p EXCEPT !.disclosed = TRUE]
  ELSE p

Finish(r) ==
  /\ pending' = IF IsPending THEN Disclosed(pending, r) ELSE pending
  /\ request' =
       IF acted = 0 /\ ~IsPending /\ AsksToConfirm(said, r) THEN said ELSE request
  /\ shown' = shown \cup {a \in config.actions : Shows(r, a)}
  /\ Leave

Unrequested_Any == placed

(* verify: an order nobody asked for.                                      *)
Unrequested ==
  /\ placed /\ ~config.autonomous
  /\ ~(MentionsTradeIntent(text) \/ confirming \/ carried)

(* The model replies, or has used up its iterations.                       *)
EndTurn(r) ==
  /\ pc \in {"model", "cut"}
  /\ pc = "model" /\ iterations = MaxIterations => r = Nothing
  /\ ~(config.compensate /\ Unrequested)
  /\ Finish(r)
  /\ UNCHANGED <<turn, unanswered, auditFailed, ran, issued>>

(* The cancel of that order does not pass the gate, but it is logged.      *)
Compensation(r) ==
  /\ pc \in {"model", "cut"}
  /\ pc = "model" /\ iterations = MaxIterations => r = Nothing
  /\ config.compensate /\ Unrequested
  /\ \/ /\ ~auditFailed
        /\ ran' = Append(ran, Attempt([tool |-> "undo"], 0))
        /\ reply' = r
        /\ pc' = "undoing"
        /\ UNCHANGED <<pending, request, wordsVars, iterations, calls, acted,
                       placed, auditFailed, shown>>
     \/ auditFailed' = TRUE /\ Finish(r) /\ UNCHANGED ran
  /\ UNCHANGED <<turn, unanswered, issued>>

(* Its answer, or an error, comes with the turn's last await.              *)
Compensated ==
  /\ pc = "undoing"
  /\ Finish(reply)
  /\ UNCHANGED <<turn, unanswered, auditFailed, ran, issued>>

(* The model call fails, or the request is dropped where it awaits.        *)
Abandon ==
  /\ pc \in {"model", "calling", "undoing"}
  /\ Leave
  /\ UNCHANGED <<sessionVars, auditFailed, historyVars>>

(* confirm_ttl.                                                            *)
Expire ==
  /\ IsPending /\ ~pending.expired
  /\ pending' = [pending EXCEPT !.expired = TRUE]
  /\ UNCHANGED <<turn, request, unanswered, pc, turnVars, auditFailed, historyVars>>

-----------------------------------------------------------------------------
(* A token the model may use: none, one issued before, or an invented one. *)
Token == 0 .. issued + 1

Call ==
  \E a \in config.actions, token \in Token :
    \/ RefuseCall(a, token) \/ Hold(a, token)
    \/ Send(a, token) \/ RefuseUnaudited(a, token)

Loop ==
  /\ \/ Respond \/ CutOff \/ Pause \/ Call \/ ReturnResults
     \/ \E ok \in BOOLEAN : Answer(ok)
     \/ \E r \in config.replies \cup {Nothing} : EndTurn(r) \/ Compensation(r)
     \/ Compensated
  /\ UNCHANGED config

Other ==
  /\ (\E m \in config.messages : Begin(m)) \/ Abandon \/ Expire
  /\ UNCHANGED config

Next == Loop \/ Other

(* The model, the MCP server and the loop answer or fail.                  *)
Spec == Init /\ [][Next]_vars /\ WF_vars(Loop)
=============================================================================
