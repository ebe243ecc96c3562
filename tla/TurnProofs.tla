----------------------------- MODULE TurnProofs -----------------------------
(***************************************************************************)
(* What the chat service guarantees about its actions for every vocabulary *)
(* of messages and replies, every choice of the model, any number of turns *)
(* and of calls in a response: at most one action crosses per turn and per *)
(* confirmation, each keeps to what the user's words fix or is what the    *)
(* user was shown and confirmed, and only an unrequested order is taken    *)
(* back.                                                                   *)
(***************************************************************************)
EXTENDS TurnInvariants, SequenceTheorems, TLAPS

-----------------------------------------------------------------------------
(* Actions, summaries and what a reply shows of them.                      *)

Undo == [tool |-> "undo"]
Sent ==
  [turn : Nat, action : Action \cup {Undo}, token : Nat, text : Text,
   carried : BOOLEAN, confirmed : BOOLEAN, seen : BOOLEAN, ok : BOOLEAN]

LEMMA ActionTools ==
  ASSUME NEW a \in Action
  PROVE  /\ a.tool \in {"place", "invalid", "cancel", "cancelAll"}
         /\ a.tool = "place" => a.side \in Side /\ a.qty \in Nat /\ a.price \in Nat
         /\ a.tool = "cancel" => a.id \in Nat
  BY DEF Action, Invalid, CancelAll

(* A text of one clause has that clause's figures.                         *)
LEMMA FiguresOfOneClause ==
  ASSUME NEW words, NEW figures, NEW ids
  PROVE  Figures(Says1(words, figures, ids)) = figures
  <1> DEFINE t == Says1(words, figures, ids)
             parts == [i \in DOMAIN t |-> t[i].figures]
  <1>1. Len(t) = 1 /\ DOMAIN t = 1 .. 1 /\ t[1].figures = figures
    BY DEF Says1
  <1>2. parts = <<figures>>
    BY <1>1
  <1>3. FlattenSeq(<<figures>>) = figures
    <2> DEFINE F(f) == [i \in 1 .. 1 |->
                          IF i = 1 THEN <<figures>>[i] ELSE f[i - 1] \o <<figures>>[i]]
               g == [i \in 1 .. 1 |-> figures]
               f == CHOOSE f : f = F(f)
    <2>1. g = F(g)
      OBVIOUS
    <2>2. f = F(f)
      BY <2>1
    <2>3. f[1] = figures
      BY <2>2
    <2>4. Len(<<figures>>) = 1
      OBVIOUS
    <2>5. FlattenSeq(<<figures>>) = f[Len(<<figures>>)]
      BY <2>4 DEF FlattenSeq
    <2>6. QED
      BY <2>3, <2>4, <2>5
  <1>4. QED
    BY <1>2, <1>3 DEF Figures

(* A reply that discloses the summary of an action shows the action: the   *)
(* user is told of it what decides whether to confirm it.                  *)
LEMMA DisclosedIsShown ==
  ASSUME NEW a \in Action, a.tool # "invalid", NEW r,
         SummaryIsDisclosed(Summary(a), r)
  PROVE  Shows(r, a)
  <1> DEFINE s == Summary(a)
  <1>1. CASE a.tool = "place"
    <2>1. a.side \in Side
      BY <1>1, ActionTools
    <2>2. s = Says1({a.side, "eth"}, <<a.qty, a.price, a.qty * a.price>>, {})
      BY <1>1 DEF Summary
    <2>3. DOMAIN s = 1 .. 1 /\ s[1].words = {a.side, "eth"}
      BY <2>2 DEF Says1
    <2>4. SideOf(s) = {a.side}
      BY <2>1, <2>3 DEF SideOf, WordIn, Says, Side
    <2>5. SideVerbs(a.side) = {a.side} /\ SideVerbs(OtherSide(a.side)) = {OtherSide(a.side)}
      BY <2>1 DEF Side, SideVerbs, SideWords, BookNouns, OtherSide
    <2>6. WordIn(r, {a.side}) /\ ~WordIn(r, {OtherSide(a.side)})
      BY <2>4, <2>5 DEF SummaryIsDisclosed, DisclosesSide
    <2>7. Figures(s) = <<a.qty, a.price, a.qty * a.price>>
      BY <2>2, FiguresOfOneClause
    <2>8. {a.qty, a.price} \subseteq ToSet(Figures(r))
      BY <2>7 DEF SummaryIsDisclosed, DisclosesFigures
    <2>9. QED
      BY <1>1, <2>6, <2>8 DEF Shows
  <1>2. CASE a.tool = "cancel"
    <2>1. s = Says1({"cancel", "order"}, <<a.id>>, {a.id})
      BY <1>2 DEF Summary
    <2>2. WordIn(s, {"cancel"})
      BY <2>1 DEF Says1, WordIn, Says
    <2>3. Figures(s) = <<a.id>>
      BY <2>1, FiguresOfOneClause
    <2>4. a.id \in ToSet(Figures(r))
      BY <2>3 DEF SummaryIsDisclosed, DisclosesFigures
    <2>5. QED
      BY <1>2, <2>2, <2>4 DEF Shows, SummaryIsDisclosed, DisclosesCancel
  <1>3. CASE a.tool = "cancelAll"
    <2>1. s = Says1({"cancel", "every", "order"}, <<>>, {})
      BY <1>3 DEF Summary
    <2>2. WordIn(s, {"cancel"}) /\ WordIn(s, {"every"})
      BY <2>1 DEF Says1, WordIn, Says
    <2>3. QED
      BY <1>3, <2>2 DEF Shows, SummaryIsDisclosed, DisclosesCancel
  <1>4. QED
    BY <1>1, <1>2, <1>3, ActionTools

-----------------------------------------------------------------------------
(* Types.                                                                  *)

(* What has been sent are actions of the model and compensations.          *)
HistoryTyped == ran \in Seq(Sent)

(* What only a turn knows, between the turns and within one.               *)
TurnConsistent ==
  /\ pc = "idle" => acted = 0 /\ ~placed /\ ~confirming
  /\ pc # "idle" => turn > 0
  /\ placed => acted = 1
  /\ pc = "calling" => acted = 1 /\ ran # <<>>
  /\ confirming => MentionsConfirmation(said)

(* A pending action can be confirmed, and one that counts as disclosed has *)
(* been shown.                                                             *)
PendingConsistent ==
  IsPending =>
    /\ pending.action.tool # "invalid"
    /\ pending.disclosed => pending.action \in shown

TurnTypeInv ==
  TurnTypeOK /\ HistoryTyped /\ TurnConsistent /\ PendingConsistent

LEMMA SetupFacts ==
  ASSUME config \in Setups
  PROVE  /\ config.gateTools \in BOOLEAN /\ config.confirmUnpriced \in BOOLEAN
         /\ config.compensate \in BOOLEAN /\ config.autonomous \in BOOLEAN
         /\ config.messages \subseteq Text /\ config.replies \subseteq Text
         /\ config.actions \subseteq Action
         /\ config.turns \in Nat /\ config.calls \in Nat
  BY TurnAssumption

LEMMA NothingIsText == Nothing \in Text
  BY EmptySeq DEF Nothing, Text

LEMMA PendingFacts ==
  ASSUME TurnTypeOK
  PROVE  /\ NoPending.token = 0 /\ NoPending.disclosed = FALSE
         /\ IsPending =>
              /\ pending.token \in 1 .. issued /\ pending.action \in config.actions
              /\ pending.askedOn \in 1 .. turn
              /\ pending.disclosed \in BOOLEAN /\ pending.expired \in BOOLEAN
  BY DEF TurnTypeOK, Held, NoPending, IsPending

(* The type invariant in parts.                                            *)
PendingTyped == pending = NoPending \/ pending \in Held
WordsTyped ==
  /\ {request, said} \subseteq config.messages \cup {Nothing}
  /\ text \in Text
  /\ permissions \in [trade : BOOLEAN, cancel : BOOLEAN]
FlagsTyped ==
  {unanswered, carried, confirming, placed, auditFailed} \subseteq BOOLEAN
CountersTyped ==
  /\ config \in Setups /\ turn \in 0 .. config.turns
  /\ iterations \in 0 .. MaxIterations /\ calls \in 0 .. config.calls
  /\ acted \in 0 .. 1 /\ issued \in Nat
ChoicesTyped ==
  /\ pc \in {"idle", "model", "tools", "calling", "cut", "undoing"}
  /\ reply \in config.replies \cup {Nothing}
  /\ shown \subseteq config.actions

TypedByPart ==
  PendingTyped /\ WordsTyped /\ FlagsTyped /\ CountersTyped /\ ChoicesTyped

LEMMA TypesByPart == (TurnTypeOK <=> TypedByPart) /\ (TurnTypeOK' <=> TypedByPart')
  BY DEF TurnTypeOK, PendingTyped, WordsTyped, FlagsTyped, CountersTyped,
         ChoicesTyped, TypedByPart

(* The parts a step that leaves their variables alone keeps.               *)
LEMMA UnchangedParts ==
  ASSUME TurnTypeInv, config' = config
  PROVE  /\ UNCHANGED <<pending, issued, turn>> => PendingTyped'
         /\ UNCHANGED <<request, wordsVars>> => WordsTyped'
         /\ UNCHANGED <<unanswered, carried, confirming, placed, auditFailed>>
              => FlagsTyped'
         /\ UNCHANGED <<turn, iterations, calls, acted, issued>> => CountersTyped'
         /\ UNCHANGED <<pc, reply, shown>> => ChoicesTyped'
         /\ UNCHANGED ran => HistoryTyped'
         /\ UNCHANGED <<turn, pc, acted, placed, confirming, said, ran>> => TurnConsistent'
         /\ UNCHANGED <<pending, shown>> => PendingConsistent'
  <1>1. PendingTyped /\ WordsTyped /\ FlagsTyped /\ CountersTyped /\ ChoicesTyped
    BY TypesByPart DEF TurnTypeInv, TypedByPart
  <1>2. UNCHANGED <<pending, issued, turn>> => PendingTyped'
    BY <1>1 DEF PendingTyped, Held, NoPending
  <1>3. UNCHANGED <<request, wordsVars>> => WordsTyped'
    BY <1>1 DEF WordsTyped, wordsVars
  <1>4. UNCHANGED <<unanswered, carried, confirming, placed, auditFailed>>
          => FlagsTyped'
    BY <1>1 DEF FlagsTyped
  <1>5. UNCHANGED <<turn, iterations, calls, acted, issued>> => CountersTyped'
    BY <1>1 DEF CountersTyped
  <1>6. UNCHANGED <<pc, reply, shown>> => ChoicesTyped'
    BY <1>1 DEF ChoicesTyped
  <1>7. QED
    BY <1>2, <1>3, <1>4, <1>5, <1>6
       DEF TurnTypeInv, HistoryTyped, TurnConsistent, PendingConsistent, IsPending

LEMMA BeginTypes ==
  ASSUME TurnTypeInv, NEW m \in config.messages, Begin(m), config' = config
  PROVE  TurnTypeInv'
  <1> USE DEF TurnTypeInv
  <1>1. config \in Setups /\ turn \in Nat /\ config.turns \in Nat /\ m \in Text
    BY SetupFacts DEF TurnTypeOK
  <1>2. turn' \in 0 .. config.turns
    BY <1>1 DEF Begin
  <1>3. request \in Text /\ text' \in Text
    <2>1. request \in Text
      BY <1>1, SetupFacts, NothingIsText DEF TurnTypeOK
    <2>2. request \o m \in Text
      BY <1>1, <2>1, ConcatProperties DEF Text
    <2>3. QED
      BY <1>1, <2>1, <2>2 DEF Begin
  <1>4. permissions' \in [trade : BOOLEAN, cancel : BOOLEAN]
    BY DEF Begin, Permissions
  <1>5. carried' \in BOOLEAN /\ confirming' \in BOOLEAN
    BY PendingFacts DEF Begin, IsBareConfirmation, MentionsConfirmation
  <1>6. PendingTyped'
    BY <1>1, TypesByPart DEF TypedByPart, Begin, PendingTyped, Held, historyVars
  <1>7. WordsTyped'
    BY <1>1, <1>3, <1>4 DEF Begin, WordsTyped
  <1>8. FlagsTyped'
    BY <1>5, TypesByPart DEF TypedByPart, Begin, FlagsTyped
  <1>9. CountersTyped' /\ ChoicesTyped'
    BY <1>2, TypesByPart DEF TypedByPart, Begin, CountersTyped, ChoicesTyped, historyVars
  <1>10. TurnConsistent'
    <2>1. /\ pc = "idle" /\ pc' = "model" /\ turn' = turn + 1
          /\ said' = m /\ placed' = placed
          /\ confirming' => MentionsConfirmation(m)
      BY DEF Begin
    <2>2. turn' > 0
      BY <1>1, <2>1
    <2>3. QED
      BY <2>1, <2>2 DEF TurnConsistent
  <1>11. HistoryTyped' /\ PendingConsistent'
    BY UnchangedParts DEF Begin, historyVars
  <1>12. QED
    BY <1>6, <1>7, <1>8, <1>9, <1>10, <1>11, TypesByPart DEF TypedByPart

(* What the model says and calls for.                                      *)
LEMMA ResponseTypes ==
  ASSUME TurnTypeInv, config' = config, Respond \/ CutOff \/ Pause \/ ReturnResults
  PROVE  TurnTypeInv'
  <1> USE DEF TurnTypeInv
  <1>1. /\ UNCHANGED <<turn, pending, request, wordsVars, acted, placed, reply,
                       auditFailed, historyVars>>
        /\ unanswered' \in BOOLEAN
        /\ pc' \in {"model", "tools", "cut"} /\ pc # "idle"
        /\ calls' \in {0, calls}
        /\ \/ iterations' = iterations
           \/ iterations' = iterations + 1 /\ iterations < MaxIterations
    <2>1. unanswered \in BOOLEAN
      BY TypesByPart DEF TypedByPart, FlagsTyped
    <2>2. CASE Respond \/ CutOff
      BY <2>2 DEF Respond, CutOff, CallsForTools
    <2>3. CASE Pause
      BY <2>1, <2>3 DEF Pause, sessionVars
    <2>4. CASE ReturnResults
      BY <2>4 DEF ReturnResults, turnVars
    <2>5. QED
      BY <2>2, <2>3, <2>4
  <1>2. FlagsTyped'
    BY <1>1, TypesByPart DEF TypedByPart, FlagsTyped, wordsVars
  <1>3. CountersTyped'
    BY <1>1, TypesByPart, SetupFacts, TurnAssumption
       DEF TypedByPart, CountersTyped, historyVars
  <1>4. ChoicesTyped'
    BY <1>1, TypesByPart DEF TypedByPart, ChoicesTyped, historyVars
  <1>5. PendingTyped' /\ WordsTyped' /\ HistoryTyped' /\ PendingConsistent'
    BY <1>1, UnchangedParts DEF historyVars, wordsVars
  <1>6. TurnConsistent'
    BY <1>1 DEF TurnConsistent, wordsVars
  <1>7. QED
    BY <1>2, <1>3, <1>4, <1>5, <1>6, TypesByPart DEF TypedByPart

(* An attempt to send is typed.                                            *)
LEMMA AttemptType ==
  ASSUME TurnTypeInv, NEW a \in config.actions \cup {Undo}, NEW token \in Nat
  PROVE  Attempt(a, token) \in Sent
  <1>1. a \in Action \cup {Undo} /\ turn \in Nat
    BY TypesByPart, SetupFacts DEF TurnTypeInv, TypedByPart, CountersTyped
  <1>2. text \in Text
    BY TypesByPart DEF TurnTypeInv, TypedByPart, WordsTyped
  <1>3. MentionsConfirmation(said) \in BOOLEAN
    BY DEF MentionsConfirmation
  <1>4. carried \in BOOLEAN
    BY TypesByPart DEF TurnTypeInv, TypedByPart, FlagsTyped
  <1>5. QED
    BY <1>1, <1>2, <1>3, <1>4 DEF Attempt, Sent

LEMMA CallTypes ==
  ASSUME TurnTypeInv, config' = config,
         NEW a \in config.actions, NEW token \in Token,
         \/ RefuseCall(a, token) \/ Hold(a, token)
         \/ Send(a, token) \/ RefuseUnaudited(a, token)
  PROVE  TurnTypeInv'
  <1> USE DEF TurnTypeInv
  <1>1. /\ turn \in Nat /\ issued \in Nat /\ calls \in Nat /\ config.calls \in Nat
        /\ turn > 0 => turn \in 1 .. turn
    BY TypesByPart, SetupFacts DEF TypedByPart, CountersTyped
  <1>2. token \in Nat
    BY <1>1 DEF Token
  <1>3. calls' = calls + 1 /\ pc = "tools" /\ calls < config.calls
    BY DEF RefuseCall, Hold, Send, RefuseUnaudited, MayCall
  <1>4. calls' \in 0 .. config.calls
    BY <1>1, <1>3
  <1>5. CASE RefuseCall(a, token)
    <2>1. CountersTyped'
      BY <1>4, <1>5, TypesByPart
         DEF TypedByPart, CountersTyped, RefuseCall, sessionVars, historyVars
    <2>2. QED
      BY <1>5, <2>1, UnchangedParts, TypesByPart
         DEF TypedByPart, RefuseCall, sessionVars, historyVars, wordsVars
  <1>6. CASE Hold(a, token)
    <2>1. pending' = [token |-> issued + 1, action |-> a, disclosed |-> FALSE,
                      askedOn |-> turn, expired |-> FALSE] /\ issued' = issued + 1
          /\ UNCHANGED <<turn, shown>>
      BY <1>6 DEF Hold
    <2>2. turn > 0
      BY <1>3 DEF TurnConsistent
    <2>3. PendingTyped'
      BY <1>1, <2>1, <2>2 DEF PendingTyped, Held
    <2>4. a.tool # "invalid"
      BY <1>6 DEF Hold, IsHeld, AtOnce
    <2>5. PendingConsistent'
      BY <2>1, <2>4 DEF PendingConsistent
    <2>6. CountersTyped'
      BY <1>1, <1>4, <1>6, TypesByPart DEF TypedByPart, CountersTyped, Hold
    <2>7. QED
      BY <1>6, <2>3, <2>5, <2>6, UnchangedParts, TypesByPart
         DEF TypedByPart, Hold, wordsVars
  <1>7. CASE Send(a, token)
    <2>1. PendingTyped' /\ PendingConsistent'
      BY <1>7, UnchangedParts, TypesByPart
         DEF TypedByPart, PendingTyped, Held, PendingConsistent, IsPending, Send, Spend
    <2>2. HistoryTyped'
      BY <1>2, <1>7, AttemptType, AppendProperties DEF HistoryTyped, Send
    <2>3. CountersTyped'
      BY <1>4, <1>7, TypesByPart DEF TypedByPart, CountersTyped, Send, Runs, MayAct
    <2>4. ChoicesTyped'
      BY <1>7, TypesByPart DEF TypedByPart, ChoicesTyped, Send
    <2>5. TurnConsistent'
      BY <1>3, <1>7 DEF TurnConsistent, Send, Runs, MayAct, wordsVars
    <2>6. WordsTyped' /\ FlagsTyped'
      BY <1>7, UnchangedParts DEF Send, wordsVars
    <2>7. QED
      BY <2>1, <2>2, <2>3, <2>4, <2>5, <2>6, TypesByPart DEF TypedByPart
  <1>8. CASE RefuseUnaudited(a, token)
    <2>1. PendingTyped' /\ PendingConsistent'
      BY <1>8, UnchangedParts, TypesByPart
         DEF TypedByPart, PendingTyped, Held, PendingConsistent, IsPending,
             RefuseUnaudited, Spend, historyVars
    <2>2. CountersTyped'
      BY <1>4, <1>8, TypesByPart DEF TypedByPart, CountersTyped, RefuseUnaudited, historyVars
    <2>3. FlagsTyped'
      BY <1>8, TypesByPart DEF TypedByPart, FlagsTyped, RefuseUnaudited, wordsVars
    <2>4. QED
      BY <1>8, <2>1, <2>2, <2>3, UnchangedParts, TypesByPart
         DEF TypedByPart, RefuseUnaudited, wordsVars, historyVars
  <1>9. QED
    BY <1>5, <1>6, <1>7, <1>8

LEMMA AnswerTypes ==
  ASSUME TurnTypeInv, config' = config, NEW ok \in BOOLEAN, Answer(ok)
  PROVE  TurnTypeInv'
  <1> USE DEF TurnTypeInv
  <1> DEFINE n == Len(ran)
             r == ran[n]
  <1>1. n \in 1 .. Len(ran) /\ r \in Sent
    BY EmptySeq, ElementOfSeq DEF HistoryTyped, TurnConsistent, Answer
  <1>2. ran' = [ran EXCEPT ![n] = [r EXCEPT !.ok = ok]]
    BY <1>1, LenProperties DEF Answer, HistoryTyped
  <1>3. HistoryTyped'
    <2>1. [r EXCEPT !.ok = ok] \in Sent
      BY <1>1 DEF Sent
    <2> HIDE DEF n, r
    <2>2. QED
      BY <1>1, <1>2, <2>1, ExceptSeq DEF HistoryTyped
  <1>4. placed' = (placed \/ (ok /\ r.action.tool = "place"))
    BY DEF Answer
  <1>5. FlagsTyped'
    BY <1>4, TypesByPart DEF TypedByPart, FlagsTyped, Answer, wordsVars, sessionVars
  <1>6. ChoicesTyped'
    BY TypesByPart DEF TypedByPart, ChoicesTyped, Answer
  <1>7. TurnConsistent'
    BY DEF TurnConsistent, Answer, wordsVars, sessionVars
  <1>8. QED
    BY <1>3, <1>5, <1>6, <1>7, UnchangedParts, TypesByPart
       DEF TypedByPart, Answer, wordsVars, sessionVars

(* A turn's end takes what only the turn knew and keeps the session's.     *)
LEMMA FinishTypes ==
  ASSUME TurnTypeInv, config' = config, NEW r \in config.replies \cup {Nothing},
         Finish(r), UNCHANGED <<turn, unanswered, issued>>,
         auditFailed' \in BOOLEAN, HistoryTyped'
  PROVE  TurnTypeInv'
  <1> USE DEF TurnTypeInv
  <1>1. config.actions \subseteq Action /\ config \in Setups /\ MaxIterations \in Nat
        /\ config.calls \in Nat
    BY SetupFacts, TurnAssumption, TypesByPart DEF TypedByPart, CountersTyped
  <1>2. Leave
    BY DEF Finish
  <1>3. PendingTyped' /\ PendingConsistent'
    <2>1. CASE ~IsPending
      BY <2>1 DEF Finish, IsPending, PendingTyped, PendingConsistent, NoPending
    <2>2. CASE IsPending
      <3>1. /\ pending' = Disclosed(pending, r)
            /\ shown' = shown \cup {a \in config.actions : Shows(r, a)}
        BY <2>2 DEF Finish
      <3>2. pending.action \in config.actions /\ pending.action.tool # "invalid"
        BY <2>2, PendingFacts DEF PendingConsistent
      <3>3. \/ pending' = pending
            \/ /\ pending' = [pending EXCEPT !.disclosed = TRUE]
               /\ Shows(r, pending.action)
        BY <1>1, <3>1, <3>2, DisclosedIsShown DEF Disclosed
      <3>4. pending \in Held /\ PendingConsistent
        BY <2>2, TypesByPart DEF TypedByPart, PendingTyped, IsPending
      <3>5. PendingTyped'
        BY <3>3, <3>4 DEF PendingTyped, Held
      <3>6. PendingConsistent'
        BY <2>2, <3>1, <3>2, <3>3, <3>4 DEF PendingConsistent, Held
      <3>7. QED
        BY <3>5, <3>6
    <2>3. QED
      BY <2>1, <2>2
  <1>4. WordsTyped'
    BY <1>2, TypesByPart, NothingIsText
       DEF TypedByPart, WordsTyped, Finish, Leave, NoPermissions
  <1>5. FlagsTyped'
    BY <1>2, TypesByPart DEF TypedByPart, FlagsTyped, Leave
  <1>6. CountersTyped'
    BY <1>1, <1>2, TypesByPart DEF TypedByPart, CountersTyped, Leave
  <1>7. ChoicesTyped'
    BY <1>2, TypesByPart DEF TypedByPart, ChoicesTyped, Leave, Finish
  <1>8. TurnConsistent'
    BY <1>2 DEF TurnConsistent, Leave
  <1>9. QED
    BY <1>3, <1>4, <1>5, <1>6, <1>7, <1>8, TypesByPart DEF TypedByPart

LEMMA LeaveTypes ==
  ASSUME TurnTypeInv, config' = config, Leave,
         UNCHANGED <<sessionVars, auditFailed, historyVars>>
  PROVE  TurnTypeInv'
  <1> USE DEF TurnTypeInv
  <1>1. config \in Setups /\ MaxIterations \in Nat /\ config.calls \in Nat
    BY SetupFacts, TurnAssumption, TypesByPart DEF TypedByPart, CountersTyped
  <1>2. WordsTyped'
    BY TypesByPart, NothingIsText
       DEF TypedByPart, WordsTyped, Leave, NoPermissions, sessionVars
  <1>3. FlagsTyped' /\ ChoicesTyped'
    BY TypesByPart
       DEF TypedByPart, FlagsTyped, ChoicesTyped, Leave, sessionVars, historyVars
  <1>4. CountersTyped'
    BY <1>1, TypesByPart DEF TypedByPart, CountersTyped, Leave, sessionVars, historyVars
  <1>5. TurnConsistent'
    BY DEF TurnConsistent, Leave
  <1>6. QED
    BY <1>2, <1>3, <1>4, <1>5, UnchangedParts, TypesByPart
       DEF TypedByPart, sessionVars, historyVars

LEMMA EndTypes ==
  ASSUME TurnTypeInv, config' = config
  PROVE  /\ \A r \in config.replies \cup {Nothing} :
              EndTurn(r) \/ Compensation(r) => TurnTypeInv'
         /\ Compensated \/ Abandon \/ Expire => TurnTypeInv'
  <1> USE DEF TurnTypeInv
  <1>1. auditFailed \in BOOLEAN /\ reply \in config.replies \cup {Nothing}
    BY TypesByPart DEF TypedByPart, FlagsTyped, ChoicesTyped
  <1>2. UNCHANGED ran => HistoryTyped'
    BY UnchangedParts
  <1>3. ASSUME NEW r \in config.replies \cup {Nothing}, EndTurn(r)
        PROVE  TurnTypeInv'
    BY <1>1, <1>2, <1>3, FinishTypes DEF EndTurn
  <1>4. ASSUME NEW r \in config.replies \cup {Nothing}, Compensation(r)
        PROVE  TurnTypeInv'
    <2>1. CASE auditFailed' = TRUE /\ Finish(r) /\ UNCHANGED ran
      BY <1>2, <1>4, <2>1, FinishTypes DEF Compensation
    <2>2. CASE /\ ran' = Append(ran, Attempt([tool |-> "undo"], 0))
               /\ reply' = r /\ pc' = "undoing"
               /\ UNCHANGED <<pending, request, wordsVars, iterations, calls,
                              acted, placed, auditFailed, shown>>
      <3>1. pc # "idle" /\ UNCHANGED <<turn, unanswered, issued>>
        BY <1>4 DEF Compensation
      <3>2. HistoryTyped'
        BY <2>2, AttemptType, AppendProperties DEF HistoryTyped, Undo
      <3>3. ChoicesTyped'
        BY <2>2, TypesByPart DEF TypedByPart, ChoicesTyped
      <3>4. TurnConsistent'
        BY <2>2, <3>1 DEF TurnConsistent, wordsVars
      <3>5. QED
        BY <2>2, <3>1, <3>2, <3>3, <3>4, UnchangedParts, TypesByPart
           DEF TypedByPart, wordsVars
    <2>3. QED
      BY <1>4, <2>1, <2>2 DEF Compensation
  <1>5. CASE Compensated
    BY <1>1, <1>2, <1>5, FinishTypes DEF Compensated
  <1>6. CASE Abandon
    BY <1>6, LeaveTypes DEF Abandon
  <1>7. CASE Expire
    <2>1. pending \in Held /\ PendingConsistent
      BY <1>7, TypesByPart DEF TypedByPart, PendingTyped, Expire, IsPending
    <2>2. PendingTyped'
      BY <1>7, <2>1 DEF PendingTyped, Held, Expire, historyVars
    <2>3. PendingConsistent'
      BY <1>7, <2>1 DEF PendingConsistent, Held, Expire, IsPending, historyVars
    <2>4. QED
      BY <1>7, <2>2, <2>3, UnchangedParts, TypesByPart
         DEF TypedByPart, Expire, turnVars, wordsVars, historyVars
  <1>8. QED
    BY <1>3, <1>4, <1>5, <1>6, <1>7

LEMMA InitTypes == Init => TurnTypeInv
  <1> SUFFICES ASSUME Init PROVE TurnTypeInv
    OBVIOUS
  <1>1. MaxIterations \in Nat /\ config.turns \in Nat /\ config.calls \in Nat
    BY SetupFacts, TurnAssumption DEF Init
  <1>2. PendingTyped /\ FlagsTyped /\ CountersTyped /\ ChoicesTyped
    <2>1. PendingTyped
      BY DEF Init, PendingTyped
    <2>2. FlagsTyped
      BY DEF Init, FlagsTyped
    <2>3. CountersTyped
      BY <1>1 DEF Init, CountersTyped
    <2>4. ChoicesTyped
      BY DEF Init, ChoicesTyped
    <2>5. QED
      BY <2>1, <2>2, <2>3, <2>4
  <1>3. WordsTyped
    BY NothingIsText DEF Init, WordsTyped, NoPermissions
  <1>4. HistoryTyped
    BY EmptySeq DEF Init, HistoryTyped
  <1>5. TurnConsistent /\ PendingConsistent
    BY DEF Init, TurnConsistent, PendingConsistent, IsPending
  <1>6. TurnTypeOK
    BY <1>2, <1>3, TypesByPart DEF TypedByPart
  <1>7. QED
    BY <1>4, <1>5, <1>6 DEF TurnTypeInv

LEMMA TypeStep == TurnTypeInv /\ [Next]_vars => TurnTypeInv'
  <1> SUFFICES ASSUME TurnTypeInv, [Next]_vars PROVE TurnTypeInv'
    OBVIOUS
  <1>1. CASE UNCHANGED vars
    BY <1>1, UnchangedParts, TypesByPart
       DEF TurnTypeInv, TypedByPart, vars, sessionVars, turnVars, wordsVars, historyVars
  <1>2. CASE Next
    <2>1. config' = config
      BY <1>2 DEF Next, Loop, Other
    <2>2. CASE Respond \/ CutOff \/ Pause \/ ReturnResults
      BY <2>1, <2>2, ResponseTypes
    <2>3. CASE Call
      BY <2>1, <2>3, CallTypes DEF Call
    <2>4. CASE \E ok \in BOOLEAN : Answer(ok)
      BY <2>1, <2>4, AnswerTypes
    <2>5. CASE \E m \in config.messages : Begin(m)
      BY <2>1, <2>5, BeginTypes
    <2>6. CASE \E r \in config.replies \cup {Nothing} : EndTurn(r) \/ Compensation(r)
      BY <2>1, <2>6, EndTypes
    <2>7. CASE Compensated \/ Abandon \/ Expire
      BY <2>1, <2>7, EndTypes
    <2>8. QED
      BY <1>2, <2>2, <2>3, <2>4, <2>5, <2>6, <2>7 DEF Next, Loop, Other
  <1>3. QED
    BY <1>1, <1>2

(* Every variable keeps its type, the text a turn is judged by and the     *)
(* action that awaits confirmation included; a pending action that counts  *)
(* as disclosed has been shown (agent.rs:276-640).                         *)
THEOREM TurnTypes == Spec => []TurnTypeInv
  BY InitTypes, TypeStep, PTL DEF Spec

-----------------------------------------------------------------------------
(* How the history grows.                                                  *)

LEMMA HistoryFacts ==
  ASSUME TurnTypeInv
  PROVE  /\ ran \in Seq(Sent) /\ Len(ran) \in Nat /\ DOMAIN ran = 1 .. Len(ran)
         /\ \A i \in DOMAIN ran : ran[i] \in Sent
         /\ turn \in Nat /\ issued \in Nat /\ acted \in 0 .. 1
         /\ confirming \in BOOLEAN /\ placed \in BOOLEAN /\ config \in Setups
         /\ config.actions \subseteq Action
  <1>1. ran \in Seq(Sent)
    BY DEF TurnTypeInv, HistoryTyped
  <1>2. turn \in Nat /\ issued \in Nat /\ acted \in 0 .. 1 /\ config \in Setups
    BY TypesByPart, SetupFacts DEF TurnTypeInv, TypedByPart, CountersTyped
  <1>3. confirming \in BOOLEAN /\ placed \in BOOLEAN
    BY TypesByPart DEF TurnTypeInv, TypedByPart, FlagsTyped
  <1>4. QED
    BY <1>1, <1>2, <1>3, SetupFacts

(* A new entry leaves the ones before it alone.                            *)
LEMMA Appended ==
  ASSUME TurnTypeInv, NEW x, ran' = Append(ran, x)
  PROVE  /\ DOMAIN ran' = 1 .. Len(ran) + 1 /\ Len(ran') = Len(ran) + 1
         /\ ran'[Len(ran) + 1] = x
         /\ \A i \in DOMAIN ran : i \in DOMAIN ran' /\ ran'[i] = ran[i]
  BY HistoryFacts

(* An answer changes no more than whether the action succeeded.            *)
LEMMA Answered ==
  ASSUME TurnTypeInv, NEW ok \in BOOLEAN, Answer(ok)
  PROVE  /\ DOMAIN ran' = DOMAIN ran /\ Len(ran') = Len(ran) /\ Len(ran) > 0
         /\ \A i \in DOMAIN ran :
              /\ ran'[i].turn = ran[i].turn /\ ran'[i].action = ran[i].action
              /\ ran'[i].token = ran[i].token /\ ran'[i].text = ran[i].text
              /\ ran'[i].confirmed = ran[i].confirmed /\ ran'[i].seen = ran[i].seen
  <1>1. ran # <<>> /\ ran' = [ran EXCEPT ![Len(ran)].ok = ok]
    BY DEF Answer, TurnTypeInv, TurnConsistent
  <1>2. Len(ran) > 0 /\ DOMAIN ran' = DOMAIN ran
    BY <1>1, HistoryFacts, EmptySeq
  <1>3. Len(ran') = Len(ran)
    BY <1>1, HistoryFacts
  <1>4. ASSUME NEW i \in DOMAIN ran
        PROVE  ran'[i] = ran[i] \/ ran'[i] = [ran[i] EXCEPT !.ok = ok]
    BY <1>1
  <1>5. ASSUME NEW r \in Sent, NEW s, s = r \/ s = [r EXCEPT !.ok = ok]
        PROVE  /\ s.turn = r.turn /\ s.action = r.action /\ s.token = r.token
               /\ s.text = r.text /\ s.confirmed = r.confirmed /\ s.seen = r.seen
    BY <1>5 DEF Sent
  <1>6. QED
    BY <1>2, <1>3, <1>4, <1>5, HistoryFacts

(* An action is sent with no token, or with that of the pending one.       *)
LEMMA SentToken ==
  ASSUME TurnTypeInv, NEW a \in config.actions, NEW token \in Token, Send(a, token)
  PROVE  /\ ran' = Append(ran, Attempt(a, token))
         /\ UNCHANGED <<turn, placed, issued>>
         /\ pc = "tools" /\ pc' = "calling" /\ acted = 0 /\ acted' = 1 /\ ~placed
         /\ \/ token = 0 /\ pending' = pending /\ RunsAtOnce(a, token)
            \/ /\ IsPending /\ token = pending.token /\ token \in 1 .. issued
               /\ pending' = NoPending /\ Confirms(a, token)
  <1>1. /\ ran' = Append(ran, Attempt(a, token))
        /\ UNCHANGED <<turn, placed, issued>>
        /\ pc = "tools" /\ pc' = "calling" /\ acted = 0 /\ acted' = 1
    BY DEF Send, MayCall, Runs, MayAct
  <1>2. ~placed
    BY <1>1 DEF TurnTypeInv, TurnConsistent
  <1>3. CASE RunsAtOnce(a, token)
    BY <1>1, <1>2, <1>3 DEF RunsAtOnce, Send, Spend
  <1>4. CASE Confirms(a, token)
    <2>1. token # 0 /\ pending.token = token
      BY <1>4 DEF Confirms
    <2>2. IsPending /\ token \in 1 .. issued
      BY <2>1, PendingFacts DEF TurnTypeInv, IsPending
    <2>3. pending' = NoPending
      BY <2>1 DEF Send, Spend
    <2>4. QED
      BY <1>1, <1>2, <1>4, <2>1, <2>2, <2>3
  <1>5. QED
    BY <1>3, <1>4 DEF Send, Runs

(* A step that sends nothing and answers nothing. It is of the same turn,  *)
(* or begins the next one; what the turn has done is as before, until the  *)
(* turn is over; and the pending action keeps its token, is gone, or is a  *)
(* new one with a new token.                                               *)
Quiet ==
  /\ UNCHANGED ran
  /\ \/ UNCHANGED turn /\ (pc' # "idle" => pc # "idle" /\ UNCHANGED <<acted, placed>>)
     \/ pc = "idle" /\ turn' = turn + 1 /\ UNCHANGED placed /\ pc' = "model"
  /\ pc' = "calling" => pc = "calling"
  /\ pc = "undoing" => pc' \in {"undoing", "idle"}
  /\ \/ UNCHANGED issued /\ (IsPending' => IsPending /\ pending'.token = pending.token)
     \/ issued' = issued + 1 /\ pending'.token = issued + 1

LEMMA QuietLoop ==
  ASSUME TurnTypeInv, Respond \/ CutOff \/ Pause \/ ReturnResults
  PROVE  Quiet
  BY DEF Quiet, Respond, CutOff, Pause, ReturnResults, CallsForTools, historyVars,
         sessionVars, turnVars, IsPending

LEMMA QuietBegin ==
  ASSUME TurnTypeInv, NEW m, Begin(m)
  PROVE  Quiet
  BY DEF Quiet, Begin, historyVars, IsPending

LEMMA QuietCall ==
  ASSUME TurnTypeInv, NEW a \in config.actions, NEW token \in Token,
         RefuseCall(a, token) \/ Hold(a, token) \/ RefuseUnaudited(a, token)
  PROVE  Quiet
  <1>1. CASE RefuseCall(a, token)
    BY <1>1 DEF Quiet, RefuseCall, MayCall, historyVars, sessionVars, IsPending
  <1>2. CASE Hold(a, token)
    BY <1>2 DEF Quiet, Hold, MayCall, IsPending
  <1>3. CASE RefuseUnaudited(a, token)
    BY <1>3 DEF Quiet, RefuseUnaudited, MayCall, Spend, historyVars, IsPending
  <1>4. QED
    BY <1>1, <1>2, <1>3

LEMMA QuietFinish ==
  ASSUME TurnTypeInv, NEW r, Finish(r), UNCHANGED <<turn, issued, ran>>
  PROVE  Quiet
  <1>1. pc' = "idle"
    BY DEF Finish, Leave
  <1>2. IsPending' => IsPending /\ pending'.token = pending.token
    <2>1. CASE ~IsPending
      BY <2>1 DEF Finish, IsPending
    <2>2. CASE IsPending
      <3>1. pending \in Held
        BY <2>2, TypesByPart DEF TurnTypeInv, TypedByPart, PendingTyped, IsPending
      <3>2. pending' = pending \/ pending' = [pending EXCEPT !.disclosed = TRUE]
        BY <2>2 DEF Finish, Disclosed
      <3>3. QED
        BY <2>2, <3>1, <3>2 DEF Held
    <2>3. QED
      BY <2>1, <2>2
  <1>3. QED
    BY <1>1, <1>2 DEF Quiet

LEMMA QuietOther ==
  ASSUME TurnTypeInv, Abandon \/ Expire \/ UNCHANGED vars
  PROVE  Quiet
  <1>1. CASE Abandon
    BY <1>1 DEF Quiet, Abandon, Leave, historyVars, sessionVars, IsPending
  <1>2. CASE Expire
    <2>1. pending \in Held
      BY <1>2, TypesByPart DEF TurnTypeInv, TypedByPart, PendingTyped, Expire, IsPending
    <2>2. IsPending /\ pending'.token = pending.token
      BY <1>2, <2>1 DEF Expire, Held
    <2>3. QED
      BY <1>2, <2>2 DEF Quiet, Expire, turnVars, historyVars
  <1>3. CASE UNCHANGED vars
    BY <1>3 DEF Quiet, vars, sessionVars, turnVars, historyVars, IsPending
  <1>4. QED
    BY <1>1, <1>2, <1>3

(* The compensation of the turn's order goes into the history.             *)
Undone ==
  /\ ran' = Append(ran, Attempt(Undo, 0)) /\ pc' = "undoing"
  /\ UNCHANGED <<turn, pending, issued, acted, placed>>
  /\ Unrequested /\ pc \in {"model", "cut"}

(* Every step is quiet, sends an action, takes its answer, or compensates. *)
LEMMA Steps ==
  ASSUME TurnTypeInv, [Next]_vars
  PROVE  \/ Quiet \/ Undone
         \/ \E a \in config.actions, token \in Token : Send(a, token)
         \/ \E ok \in BOOLEAN : Answer(ok)
  <1>1. CASE UNCHANGED vars
    BY <1>1, QuietOther
  <1>2. CASE Respond \/ CutOff \/ Pause \/ ReturnResults
    BY <1>2, QuietLoop
  <1>3. CASE Call
    BY <1>3, QuietCall DEF Call
  <1>4. ASSUME NEW m \in config.messages, Begin(m)
        PROVE  Quiet
    BY <1>4, QuietBegin
  <1>5. ASSUME NEW r \in config.replies \cup {Nothing}, EndTurn(r)
        PROVE  Quiet
    BY <1>5, QuietFinish DEF EndTurn
  <1>6. ASSUME NEW r \in config.replies \cup {Nothing}, Compensation(r)
        PROVE  Quiet \/ Undone
    <2>1. CASE Finish(r) /\ UNCHANGED ran
      BY <1>6, <2>1, QuietFinish DEF Compensation
    <2>2. CASE ~(Finish(r) /\ UNCHANGED ran)
      BY <1>6, <2>2 DEF Compensation, Undone, Undo
    <2>3. QED
      BY <2>1, <2>2
  <1>7. CASE Compensated
    BY <1>7, QuietFinish DEF Compensated
  <1>8. CASE Abandon \/ Expire
    BY <1>8, QuietOther
  <1>9. QED
    BY <1>1, <1>2, <1>3, <1>4, <1>5, <1>6, <1>7, <1>8 DEF Next, Loop, Other

-----------------------------------------------------------------------------
(* One action a turn, and one a confirmation.                              *)

(* An entry is of its turn; while a turn has sent nothing, none is of it;  *)
(* a token that was used is not that of the pending action; and each turn  *)
(* and each token is good for one action.                                  *)
EachSpentOnce ==
  \A i, j \in DOMAIN ran :
    i < j /\ ran[j].action.tool # "undo" =>
      /\ ran[i].turn # ran[j].turn
      /\ ran[i].token # 0 => ran[i].token # ran[j].token

Spent ==
  /\ \A i \in DOMAIN ran : ran[i].turn <= turn /\ ran[i].token <= issued
  /\ pc # "idle" /\ acted = 0 => \A i \in DOMAIN ran : ran[i].turn # turn
  /\ IsPending => \A i \in DOMAIN ran : ran[i].token # pending.token
  /\ EachSpentOnce

LEMMA SpentInit == Init => Spent
  BY DEF Init, Spent, EachSpentOnce, IsPending

LEMMA SpentBySend ==
  ASSUME TurnTypeInv, Spent,
         NEW a \in config.actions, NEW token \in Token, Send(a, token)
  PROVE  Spent'
  <1> DEFINE n == Len(ran) + 1
             x == Attempt(a, token)
  <1>1. /\ ran' = Append(ran, x) /\ UNCHANGED <<turn, placed, issued>>
        /\ pc = "tools" /\ acted = 0 /\ acted' = 1
        /\ \/ token = 0 /\ pending' = pending
           \/ /\ IsPending /\ token = pending.token /\ token \in 1 .. issued
              /\ pending' = NoPending
    BY SentToken
  <1>2. x.turn = turn /\ x.token = token /\ x.action = a
    BY DEF Attempt
  <1>3. /\ DOMAIN ran' = 1 .. n /\ ran'[n] = x /\ n \in Nat
        /\ \A i \in DOMAIN ran : ran'[i] = ran[i]
        /\ \A i \in DOMAIN ran' : i # n => i \in DOMAIN ran
    BY <1>1, Appended, HistoryFacts
  <1>4. turn \in Nat /\ issued \in Nat /\ token \in Nat /\ token <= issued
    BY <1>1, HistoryFacts
  <1> HIDE DEF n, x
  <1>5. \A i \in DOMAIN ran' : ran'[i].turn <= turn' /\ ran'[i].token <= issued'
    BY <1>1, <1>2, <1>3, <1>4 DEF Spent
  <1>6. IsPending' => \A i \in DOMAIN ran' : ran'[i].token # pending'.token
    <2>1. SUFFICES ASSUME token = 0, pending' = pending, IsPending
                   PROVE  \A i \in DOMAIN ran' : ran'[i].token # pending'.token
      BY <1>1 DEF IsPending
    <2>2. pending.token # 0
      BY <2>1, PendingFacts, <1>4 DEF TurnTypeInv
    <2>3. QED
      BY <1>2, <1>3, <2>1, <2>2 DEF Spent
  <1>7. EachSpentOnce'
    <2>1. SUFFICES ASSUME NEW i \in DOMAIN ran', NEW j \in DOMAIN ran',
                          i < j, ran'[j].action.tool # "undo"
                   PROVE  /\ ran'[i].turn # ran'[j].turn
                          /\ ran'[i].token # 0 => ran'[i].token # ran'[j].token
      BY DEF EachSpentOnce
    <2>2. i # n /\ i \in DOMAIN ran /\ ran'[i] = ran[i]
      BY <1>3, <2>1
    <2>3. CASE j = n
      BY <1>1, <1>2, <1>3, <2>2, <2>3 DEF Spent
    <2>4. CASE j # n
      BY <1>3, <2>1, <2>2, <2>4 DEF Spent, EachSpentOnce
    <2>5. QED
      BY <2>3, <2>4
  <1>8. QED
    BY <1>1, <1>5, <1>6, <1>7 DEF Spent

LEMMA SpentByAnswer ==
  ASSUME TurnTypeInv, Spent, NEW ok \in BOOLEAN, Answer(ok)
  PROVE  Spent'
  <1>1. UNCHANGED <<turn, pending, issued, acted>> /\ pc = "calling"
    BY DEF Answer, sessionVars
  <1>2. acted = 1
    BY <1>1 DEF TurnTypeInv, TurnConsistent
  <1>3. EachSpentOnce'
    BY Answered DEF Spent, EachSpentOnce
  <1>4. QED
    BY <1>1, <1>2, <1>3, Answered DEF Spent, IsPending

LEMMA SpentByUndo ==
  ASSUME TurnTypeInv, Spent, Undone
  PROVE  Spent'
  <1> DEFINE n == Len(ran) + 1
             x == Attempt(Undo, 0)
  <1>1. UNCHANGED <<turn, pending, issued, acted>> /\ ran' = Append(ran, x) /\ placed
    BY DEF Undone, Unrequested
  <1>2. acted = 1
    BY <1>1 DEF TurnTypeInv, TurnConsistent
  <1>3. x.turn = turn /\ x.token = 0 /\ x.action = Undo
    BY DEF Attempt
  <1>4. /\ DOMAIN ran' = 1 .. n /\ ran'[n] = x /\ n \in Nat
        /\ \A i \in DOMAIN ran : ran'[i] = ran[i]
        /\ \A i \in DOMAIN ran' : i # n => i \in DOMAIN ran
    BY <1>1, Appended, HistoryFacts
  <1> HIDE DEF n, x
  <1>5. EachSpentOnce'
    <2>1. SUFFICES ASSUME NEW i \in DOMAIN ran', NEW j \in DOMAIN ran',
                          i < j, ran'[j].action.tool # "undo"
                   PROVE  /\ ran'[i].turn # ran'[j].turn
                          /\ ran'[i].token # 0 => ran'[i].token # ran'[j].token
      BY DEF EachSpentOnce
    <2>2. j # n
      BY <1>3, <1>4, <2>1 DEF Undo
    <2>3. i # n
      BY <1>4, <2>1
    <2>4. QED
      BY <1>4, <2>1, <2>2, <2>3 DEF Spent, EachSpentOnce
  <1>6. IsPending => pending.token # 0
    BY PendingFacts, HistoryFacts DEF TurnTypeInv
  <1>7. IsPending' => \A i \in DOMAIN ran' : ran'[i].token # pending'.token
    BY <1>1, <1>3, <1>4, <1>6 DEF Spent, IsPending
  <1>8. \A i \in DOMAIN ran' : ran'[i].turn <= turn' /\ ran'[i].token <= issued'
    BY <1>1, <1>3, <1>4, HistoryFacts DEF Spent
  <1>9. QED
    BY <1>1, <1>2, <1>5, <1>7, <1>8 DEF Spent

LEMMA SpentByQuiet ==
  ASSUME TurnTypeInv, Spent, Quiet
  PROVE  Spent'
  <1>1. /\ ran' = ran /\ turn \in Nat /\ issued \in Nat
        /\ turn' \in {turn, turn + 1} /\ issued' \in {issued, issued + 1}
    BY HistoryFacts DEF Quiet
  <1>2. \A i \in DOMAIN ran' : ran'[i].turn <= turn' /\ ran'[i].token <= issued'
    BY <1>1, HistoryFacts DEF Spent, Sent
  <1>3. pc' # "idle" /\ acted' = 0 => \A i \in DOMAIN ran' : ran'[i].turn # turn'
    BY <1>1, HistoryFacts DEF Spent, Sent, Quiet
  <1>4. IsPending' => \A i \in DOMAIN ran' : ran'[i].token # pending'.token
    BY <1>1, HistoryFacts DEF Spent, Sent, Quiet
  <1>5. EachSpentOnce'
    BY <1>1 DEF Spent, EachSpentOnce
  <1>6. QED
    BY <1>2, <1>3, <1>4, <1>5 DEF Spent

LEMMA SpentStep == TurnTypeInv /\ Spent /\ [Next]_vars => Spent'
  BY Steps, SpentByQuiet, SpentByUndo, SpentBySend, SpentByAnswer

(* At most one action of a turn crosses to the MCP server, and one         *)
(* confirmation is good for one (agent.rs:464-560).                        *)
THEOREM OneActionPerTurn == Spec => []OneActionEach
  <1>1. TurnTypeInv /\ Spent => OneActionEach
    BY DEF TurnTypeInv, Spent, EachSpentOnce, OneActionEach
  <1>2. QED
    BY <1>1, InitTypes, TypeStep, SpentInit, SpentStep, PTL DEF Spec

-----------------------------------------------------------------------------
(* Every action keeps to the user's words or to what was confirmed.        *)

(* What a turn permits, it permits by its words or by a yes.               *)
PermitsByWords ==
  /\ carried => MentionsConfirmation(said)
  /\ permissions.trade /\ config.gateTools =>
       MentionsTradeIntent(text) \/ MentionsConfirmation(said)
  /\ permissions.cancel /\ config.gateTools =>
       MentionsCancelIntent(text) \/ MentionsConfirmation(said)

LEMMA PermitsStep == PermitsByWords /\ [Next]_vars => PermitsByWords'
  <1> SUFFICES ASSUME PermitsByWords, [Next]_vars PROVE PermitsByWords'
    OBVIOUS
  <1>1. config' = config
    BY DEF Next, Loop, Other, vars
  <1>2. CASE UNCHANGED wordsVars
    BY <1>1, <1>2 DEF PermitsByWords, wordsVars
  <1>3. CASE Leave
    BY <1>3 DEF PermitsByWords, Leave, NoPermissions
  <1>4. ASSUME NEW m \in config.messages, Begin(m) PROVE PermitsByWords'
    <2>1. /\ said' = m /\ (carried' => IsBareConfirmation(m) /\ ~IsPending)
          /\ ~carried' => text' = m
          /\ permissions' = Permissions(text', config.gateTools, IsPending,
                                        Places(pending.action))
      BY <1>4 DEF Begin
    <2>2. carried' => MentionsConfirmation(m)
      BY <2>1 DEF IsBareConfirmation
    <2>3. IsPending /\ MentionsConfirmation(text') => MentionsConfirmation(m)
      BY <2>1, <2>2
    <2>4. /\ permissions'.trade /\ config.gateTools =>
               MentionsTradeIntent(text') \/ (IsPending /\ MentionsConfirmation(text'))
          /\ permissions'.cancel /\ config.gateTools =>
               MentionsCancelIntent(text') \/ (IsPending /\ MentionsConfirmation(text'))
      BY <2>1 DEF Permissions
    <2>5. QED
      BY <1>1, <2>1, <2>2, <2>3, <2>4 DEF PermitsByWords
  <1>5. CASE Loop
    <2>1. CASE \E r \in config.replies \cup {Nothing} : EndTurn(r) \/ Compensation(r)
      BY <1>2, <1>3, <2>1 DEF EndTurn, Compensation, Finish
    <2>2. CASE Compensated
      BY <1>3, <2>2 DEF Compensated, Finish
    <2>3. CASE Respond \/ CutOff \/ Pause \/ ReturnResults \/ \E ok \in BOOLEAN : Answer(ok)
      BY <1>2, <2>3 DEF Respond, CutOff, CallsForTools, Pause, ReturnResults, Answer, turnVars
    <2>4. CASE Call
      BY <1>2, <2>4 DEF Call, RefuseCall, Hold, Send, RefuseUnaudited
    <2>5. QED
      BY <1>5, <2>1, <2>2, <2>3, <2>4 DEF Loop
  <1>6. CASE Abandon
    BY <1>3, <1>6 DEF Abandon
  <1>7. CASE Expire
    BY <1>2, <1>7 DEF Expire, turnVars
  <1>8. CASE UNCHANGED vars
    BY <1>2, <1>8 DEF vars, turnVars
  <1>9. QED
    BY <1>4, <1>5, <1>6, <1>7, <1>8 DEF Next, Other

(* What ActionsKeepToWords says of one action.                             *)
OrderKeeps(r) ==
  LET a == r.action
  IN a.tool = "place" =>
       \/ OnConfirmation(r)
       \/ /\ SideQuoted(r.text, OtherSide(a.side)) => SideQuoted(r.text, a.side)
          /\ Pinned(r.text, config) => PriceQuoted(a, r.text) /\ QuantityQuoted(a, r.text)
          /\ config.confirmUnpriced => AsDescribed(a, r.text)
          /\ a.qty >= Threshold \/ MentionsFraming(r.text) => r.confirmed
          /\ config.gateTools => MentionsTradeIntent(r.text) \/ r.confirmed

CancelKeeps(r) ==
  LET a == r.action
  IN a.tool \in {"cancel", "cancelAll"} =>
       \/ OnConfirmation(r)
       \/ /\ a.tool = "cancelAll" => CancelsAll(r.text)
          /\ a.tool = "cancel" => IdsNamed(r.text) = {} \/ a.id \in IdsNamed(r.text)
          /\ ~MentionsFraming(r.text)
          /\ config.gateTools => MentionsCancelIntent(r.text) \/ r.confirmed

Keeps(r) == OrderKeeps(r) /\ CancelKeeps(r)

LEMMA KeepsEach ==
  ActionsKeepToWords <=> \A i \in DOMAIN ran : Keeps(ran[i])
  BY DEF ActionsKeepToWords, OrdersKeepToWords, CancelsKeepToWords, Actions,
         Keeps, OrderKeeps, CancelKeeps

LEMMA KeepsEachNext ==
  ASSUME config' = config
  PROVE  ActionsKeepToWords' <=> \A i \in DOMAIN ran' : Keeps(ran'[i])
  BY DEF ActionsKeepToWords, OrdersKeepToWords, CancelsKeepToWords, Actions,
         Keeps, OrderKeeps, CancelKeeps

(* The gate lets an action run at once only as the user's words have it.   *)
LEMMA AtOnceKeeps ==
  ASSUME PermitsByWords, NEW a \in Action, NEW token, RunsAtOnce(a, token), config \in Setups
  PROVE  Keeps(Attempt(a, token))
  <1> DEFINE r == Attempt(a, token)
  <1>1. r.action = a /\ r.text = text /\ r.confirmed = MentionsConfirmation(said)
    BY DEF Attempt
  <1>2. /\ AtOnce(a, text, config, Permitted(a), carried)
        /\ ~(Permitted(a) /\ Contradicts(a, text, config))
    BY DEF RunsAtOnce
  <1> HIDE DEF r
  <1>3. CASE a.tool = "place"
    <2>1. /\ Permitted(a) /\ permissions.trade /\ ~Contradicts(a, text, config)
          /\ Pinned(text, config) => PriceQuoted(a, text) /\ QuantityQuoted(a, text)
          /\ \/ carried /\ AsDescribed(a, text)
             \/ /\ a.qty < Threshold
                /\ config.confirmUnpriced => AsDescribed(a, text)
                /\ ~MentionsFraming(text)
      BY <1>2, <1>3 DEF AtOnce, Permitted, Allows, Places
    <2>2. SideQuoted(text, OtherSide(a.side)) => SideQuoted(text, a.side)
      BY <1>3, <2>1 DEF Contradicts
    <2>3. config.gateTools => MentionsTradeIntent(text) \/ r.confirmed
      BY <1>1, <2>1 DEF PermitsByWords
    <2>4. a.qty \in Nat /\ Threshold \in Nat
      BY <1>3, ActionTools, GateAssumption
    <2>5. a.qty >= Threshold \/ MentionsFraming(text) => r.confirmed
      BY <1>1, <2>1, <2>4 DEF PermitsByWords
    <2>6. QED
      BY <1>1, <1>3, <2>1, <2>2, <2>3, <2>5 DEF Keeps, OrderKeeps, CancelKeeps, r
  <1>4. CASE a.tool \in {"cancel", "cancelAll"}
    <2>1. /\ Permitted(a) /\ permissions.cancel /\ ~Contradicts(a, text, config)
          /\ ~MentionsFraming(text)
          /\ a.tool = "cancelAll" => CancelsAll(text)
      BY <1>2, <1>4 DEF AtOnce, Permitted, Allows, Places
    <2>2. a.tool = "cancel" => IdsNamed(text) = {} \/ a.id \in IdsNamed(text)
      BY <2>1 DEF Contradicts
    <2>3. config.gateTools => MentionsCancelIntent(text) \/ r.confirmed
      BY <1>1, <2>1 DEF PermitsByWords
    <2>4. QED
      BY <1>1, <1>4, <2>1, <2>2, <2>3 DEF Keeps, OrderKeeps, CancelKeeps, r
  <1>5. CASE a.tool = "invalid"
    BY <1>1, <1>5 DEF Keeps, OrderKeeps, CancelKeeps, r
  <1>6. QED
    BY <1>3, <1>4, <1>5, ActionTools

(* A token is honoured only for what the user was shown and confirms.      *)
LEMMA ConfirmedKeeps ==
  ASSUME TurnTypeInv, NEW a, NEW token, IsPending, Confirms(a, token)
  PROVE  Keeps(Attempt(a, token))
  <1>1. confirming /\ pending.disclosed /\ pending.action = a
    BY DEF Confirms
  <1>2. MentionsConfirmation(said) /\ a \in shown
    BY <1>1 DEF TurnTypeInv, TurnConsistent, PendingConsistent
  <1>3. OnConfirmation(Attempt(a, token))
    BY <1>2 DEF OnConfirmation, Attempt
  <1>4. QED
    BY <1>3 DEF Keeps, OrderKeeps, CancelKeeps

LEMMA KeepsStep ==
  TurnTypeInv /\ PermitsByWords /\ ActionsKeepToWords /\ [Next]_vars => ActionsKeepToWords'
  <1> SUFFICES ASSUME TurnTypeInv, PermitsByWords, ActionsKeepToWords, [Next]_vars
               PROVE  ActionsKeepToWords'
    OBVIOUS
  <1>6. config' = config
    BY DEF Next, Loop, Other, vars
  <1>7. \A i \in DOMAIN ran : Keeps(ran[i])
    BY KeepsEach
  <1> SUFFICES \A i \in DOMAIN ran' : Keeps(ran'[i])
    BY <1>6, KeepsEachNext
  <1>1. CASE Quiet
    BY <1>7, <1>1 DEF Quiet
  <1>2. ASSUME NEW a \in config.actions, NEW token \in Token, Send(a, token)
        PROVE  \A i \in DOMAIN ran' : Keeps(ran'[i])
    <2>1. Keeps(Attempt(a, token))
      BY <1>2, SentToken, AtOnceKeeps, ConfirmedKeeps, HistoryFacts
    <2>2. ran' = Append(ran, Attempt(a, token))
      BY <1>2, SentToken
    <2>3. QED
      BY <1>7, <2>1, <2>2, Appended, HistoryFacts
  <1>3. ASSUME NEW ok \in BOOLEAN, Answer(ok)
        PROVE  \A i \in DOMAIN ran' : Keeps(ran'[i])
    <2>1. ASSUME NEW i \in DOMAIN ran' PROVE Keeps(ran'[i])
      <3>1. Keeps(ran[i]) /\ i \in DOMAIN ran
        BY <1>7, <1>3, Answered
      <3>2. /\ ran'[i].action = ran[i].action /\ ran'[i].text = ran[i].text
            /\ ran'[i].confirmed = ran[i].confirmed /\ ran'[i].seen = ran[i].seen
        BY <1>3, <3>1, Answered
      <3>3. QED
        BY <3>1, <3>2 DEF Keeps, OrderKeeps, CancelKeeps, OnConfirmation
    <2>2. QED
      BY <2>1
  <1>4. CASE Undone
    <2>1. Keeps(Attempt(Undo, 0))
      BY DEF Keeps, OrderKeeps, CancelKeeps, Attempt, Undo
    <2>2. ran' = Append(ran, Attempt(Undo, 0))
      BY <1>4 DEF Undone
    <2>3. QED
      BY <1>7, <2>1, <2>2, Appended, HistoryFacts
  <1>5. QED
    BY <1>1, <1>2, <1>3, <1>4, Steps

(* An order that crosses keeps to what the words it was judged by fix: it  *)
(* is not on the other side; it has the price and the quantity of words    *)
(* that state an order, and where the service asks about prices the model  *)
(* chose, their side and price in any case; a large one, one for words     *)
(* that set a scene, and one for words that name no trade need at least a  *)
(* yes. A cancel of every order was asked for as such, a cancel of one is  *)
(* of one the user named, if any was named, and both need words that ask   *)
(* for a cancel, or a yes. Or else an earlier reply showed that very action*)
(* and the user's message confirms it (gate.rs:589-834). The quantity that *)
(* words leave open is not fixed by this.                                  *)
THEOREM KeepsToWords == Spec => []ActionsKeepToWords
  <1>1. Init => ActionsKeepToWords /\ PermitsByWords
    BY KeepsEach DEF Init, PermitsByWords, NoPermissions
  <1>2. QED
    BY <1>1, InitTypes, TypeStep, PermitsStep, KeepsStep, PTL DEF Spec

-----------------------------------------------------------------------------
(* Only an unrequested order is taken back.                                *)

(* While a call is out, its action ends the history; once its order is     *)
(* known to be accepted, the order does, until it is taken back.           *)
LastIsTurns ==
  ran # <<>> /\ ran[Len(ran)].turn = turn

OrderIsLast ==
  /\ pc = "calling" => LastIsTurns
  /\ placed /\ pc # "undoing" =>
       LastIsTurns /\ ran[Len(ran)].action.tool = "place"

LEMMA OrderIsLastStep == TurnTypeInv /\ OrderIsLast /\ [Next]_vars => OrderIsLast'
  <1> SUFFICES ASSUME TurnTypeInv, OrderIsLast, [Next]_vars PROVE OrderIsLast'
    OBVIOUS
  <1>1. CASE Quiet
    <2>1. pc = "idle" => ~placed
      BY DEF TurnTypeInv, TurnConsistent
    <2>2. TurnConsistent'
      BY TypeStep DEF TurnTypeInv
    <2>3. ran' = ran /\ (pc' = "calling" => pc = "calling")
      BY <1>1 DEF Quiet
    <2>4. pc' = "calling" => LastIsTurns'
      BY <1>1, <2>3 DEF Quiet, OrderIsLast, LastIsTurns
    <2>5. placed' /\ pc' # "undoing" => placed /\ pc # "undoing" /\ turn' = turn
      BY <1>1, <2>1, <2>2 DEF Quiet, TurnConsistent
    <2>6. placed' /\ pc' # "undoing" =>
            LastIsTurns' /\ ran'[Len(ran')].action.tool = "place"
      BY <2>3, <2>5 DEF OrderIsLast, LastIsTurns
    <2>7. QED
      BY <2>4, <2>6 DEF OrderIsLast
  <1>2. ASSUME NEW a \in config.actions, NEW token \in Token, Send(a, token)
        PROVE  OrderIsLast'
    <2>1. ran' = Append(ran, Attempt(a, token)) /\ UNCHANGED <<turn, placed>> /\ ~placed
      BY <1>2, SentToken
    <2>2. ran'[Len(ran')].turn = turn' /\ ran' # <<>>
      BY <2>1, Appended, HistoryFacts DEF Attempt
    <2>3. QED
      BY <2>1, <2>2 DEF OrderIsLast, LastIsTurns
  <1>3. ASSUME NEW ok \in BOOLEAN, Answer(ok)
        PROVE  OrderIsLast'
    <2>1. /\ turn' = turn /\ pc = "calling" /\ pc' = "tools"
          /\ placed' = (placed \/ (ok /\ ran[Len(ran)].action.tool = "place"))
      BY <1>3 DEF Answer, sessionVars
    <2>2. Len(ran') = Len(ran) /\ Len(ran) \in DOMAIN ran /\ ran' # <<>>
      BY <1>3, Answered, HistoryFacts, EmptySeq
    <2>3. ran'[Len(ran')].turn = ran[Len(ran)].turn
          /\ ran'[Len(ran')].action = ran[Len(ran)].action
      BY <1>3, <2>2, Answered
    <2>4. QED
      BY <2>1, <2>2, <2>3 DEF OrderIsLast, LastIsTurns
  <1>4. CASE Undone
    BY <1>4 DEF Undone, OrderIsLast
  <1>5. QED
    BY <1>1, <1>2, <1>3, <1>4, Steps

LEMMA UndoesStep ==
  TurnTypeInv /\ OrderIsLast /\ UndoesUnrequested /\ [Next]_vars => UndoesUnrequested'
  <1> SUFFICES ASSUME TurnTypeInv, OrderIsLast, UndoesUnrequested, [Next]_vars
               PROVE  UndoesUnrequested'
    OBVIOUS
  <1>1. CASE Quiet
    BY <1>1 DEF Quiet, UndoesUnrequested, Actions
  <1>2. ASSUME NEW a \in config.actions, NEW token \in Token, Send(a, token)
        PROVE  UndoesUnrequested'
    <2>1. ran' = Append(ran, Attempt(a, token)) /\ a \in Action
      BY <1>2, SentToken, HistoryFacts
    <2>2. Attempt(a, token).action.tool # "undo"
      BY <2>1, ActionTools DEF Attempt
    <2>3. QED
      BY <2>1, <2>2, Appended, HistoryFacts DEF UndoesUnrequested, Actions
  <1>3. ASSUME NEW ok \in BOOLEAN, Answer(ok)
        PROVE  UndoesUnrequested'
    <2>1. SUFFICES ASSUME NEW i \in DOMAIN ran', ran'[i].action.tool = "undo"
                   PROVE  /\ i > 1 /\ ran'[i - 1].action.tool = "place"
                          /\ ran'[i - 1].turn = ran'[i].turn
                          /\ ~MentionsTradeIntent(ran'[i].text)
      BY DEF UndoesUnrequested, Actions
    <2>2. i \in Actions("undo") /\ i \in DOMAIN ran
      BY <1>3, <2>1, Answered DEF Actions
    <2>3. i > 1 /\ i - 1 \in DOMAIN ran
      BY <2>2, HistoryFacts DEF UndoesUnrequested
    <2>4. QED
      BY <1>3, <2>2, <2>3, Answered DEF UndoesUnrequested
  <1>4. CASE Undone
    <2> DEFINE n == Len(ran)
               x == Attempt(Undo, 0)
    <2>1. x.turn = turn /\ x.text = text
      BY DEF Attempt
    <2>2. /\ ran # <<>> /\ ran[n].turn = turn /\ ran[n].action.tool = "place"
          /\ ~MentionsTradeIntent(text)
      BY <1>4 DEF Undone, Unrequested, OrderIsLast, LastIsTurns
    <2>3. n \in DOMAIN ran /\ n + 1 > 1 /\ (n + 1) - 1 = n
      BY <2>2, HistoryFacts, EmptySeq
    <2>4. /\ DOMAIN ran' = 1 .. n + 1 /\ ran'[n + 1] = x /\ ran'[n] = ran[n]
          /\ \A i \in DOMAIN ran : ran'[i] = ran[i]
          /\ DOMAIN ran = 1 .. n /\ n \in Nat
      BY <1>4, <2>3, Appended, HistoryFacts DEF Undone
    <2> HIDE DEF n, x
    <2>5. SUFFICES ASSUME NEW i \in DOMAIN ran', ran'[i].action.tool = "undo"
                   PROVE  /\ i > 1 /\ ran'[i - 1].action.tool = "place"
                          /\ ran'[i - 1].turn = ran'[i].turn
                          /\ ~MentionsTradeIntent(ran'[i].text)
      BY DEF UndoesUnrequested, Actions
    <2>6. CASE i = n + 1
      BY <2>1, <2>2, <2>3, <2>4, <2>6
    <2>7. CASE i # n + 1
      <3>1. i \in DOMAIN ran /\ i \in Actions("undo")
        BY <2>4, <2>5, <2>7 DEF Actions
      <3>2. i - 1 \in DOMAIN ran
        BY <2>4, <3>1 DEF UndoesUnrequested
      <3>3. QED
        BY <2>4, <3>1, <3>2 DEF UndoesUnrequested
    <2>8. QED
      BY <2>6, <2>7
  <1>5. QED
    BY <1>1, <1>2, <1>3, <1>4, Steps

(* What is taken back is the order that the same turn placed just before,  *)
(* and no words of the user's asked for an order (agent.rs:596-640).       *)
THEOREM OnlyUnrequestedUndone == Spec => []UndoesUnrequested
  <1>1. Init => OrderIsLast /\ UndoesUnrequested
    BY DEF Init, OrderIsLast, UndoesUnrequested, Actions
  <1>2. QED
    BY <1>1, InitTypes, TypeStep, OrderIsLastStep, UndoesStep, PTL DEF Spec
=============================================================================
