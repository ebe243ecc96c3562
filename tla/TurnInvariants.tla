--------------------------- MODULE TurnInvariants ---------------------------
(***************************************************************************)
(* What the chat service promises about the actions of a session.          *)
(***************************************************************************)
EXTENDS Turn

Actions(tool) == {i \in DOMAIN ran : ran[i].action.tool = tool}

Held ==
  [token : 1 .. issued, action : config.actions, disclosed : BOOLEAN,
   askedOn : 1 .. turn, expired : BOOLEAN]

(* Every variable has its type.                                            *)
TurnTypeOK ==
  /\ config \in Setups
  /\ turn \in 0 .. config.turns
  /\ pending = NoPending \/ pending \in Held
  /\ {request, said} \subseteq config.messages \cup {Nothing}
  /\ text \in Text
  /\ pc \in {"idle", "model", "tools", "calling", "cut", "undoing"}
  /\ {unanswered, carried, confirming, placed, auditFailed} \subseteq BOOLEAN
  /\ permissions \in [trade : BOOLEAN, cancel : BOOLEAN]
  /\ iterations \in 0 .. MaxIterations /\ calls \in 0 .. config.calls
  /\ acted \in 0 .. 1
  /\ reply \in config.replies \cup {Nothing}
  /\ shown \subseteq config.actions /\ issued \in Nat

-----------------------------------------------------------------------------
(* The user confirmed it, knowing what it was.                             *)
OnConfirmation(r) == r.confirmed /\ r.seen

(* At most one action of a turn crosses to the MCP server, whatever the    *)
(* model calls for, and whether or not its answers arrive; and one         *)
(* confirmation is good for one action.                                    *)
OneActionEach ==
  /\ TurnTypeOK
  /\ \A i, j \in DOMAIN ran :
       i < j /\ ran[j].action.tool # "undo" =>
         /\ ran[i].turn # ran[j].turn
         /\ ran[i].token # 0 => ran[i].token # ran[j].token

(* An order that was sent is the one an earlier reply put before the user, *)
(* and the user's message confirms it; or it keeps to the words it was     *)
(* judged by: it is not on the other side than they name; it has the price *)
(* and the quantity of words that state an order, and, in a service that   *)
(* asks about prices the model chose, their side and price in any case;    *)
(* only behind a yes is it a large one or one for words that set a scene;  *)
(* and words that name no trade need a yes. The quantity that words leave  *)
(* open is the model's, behind a carried yes too.                          *)
OrdersKeepToWords ==
  \A i \in Actions("place") :
    LET r == ran[i]
        a == r.action
    IN \/ OnConfirmation(r)
       \/ /\ SideQuoted(r.text, OtherSide(a.side)) => SideQuoted(r.text, a.side)
          /\ Pinned(r.text, config) => PriceQuoted(a, r.text) /\ QuantityQuoted(a, r.text)
          /\ config.confirmUnpriced => AsDescribed(a, r.text)
          /\ a.qty >= Threshold \/ MentionsFraming(r.text) => r.confirmed
          /\ config.gateTools => MentionsTradeIntent(r.text) \/ r.confirmed

(* A cancel was shown and confirmed; or it is of every order as asked for  *)
(* in one clause, or of one order that the user named, if any was named,   *)
(* and then the words set no scene, and either ask for a cancel or say yes *)
(* (to what, CancelsAreAsked is about).                                    *)
CancelsKeepToWords ==
  \A i \in Actions("cancel") \cup Actions("cancelAll") :
    LET r == ran[i]
        a == r.action
    IN \/ OnConfirmation(r)
       \/ /\ a.tool = "cancelAll" => CancelsAll(r.text)
          /\ a.tool = "cancel" => IdsNamed(r.text) = {} \/ a.id \in IdsNamed(r.text)
          /\ ~MentionsFraming(r.text)
          /\ config.gateTools => MentionsCancelIntent(r.text) \/ r.confirmed

(* Where the user's words, those of the request a bare yes stands for too, *)
(* fix something about an action, the action that is sent keeps to it,     *)
(* unless it is the very action an earlier reply showed and the user       *)
(* confirms (gate.rs:589-834). That the user knew of all the rest, it does *)
(* not say: DerivedQuantitiesUseTokens and CancelsAreAsked do.             *)
ActionsKeepToWords == OrdersKeepToWords /\ CancelsKeepToWords

(* Only an order nobody asked for is taken back, and only once.            *)
UndoesUnrequested ==
  \A i \in Actions("undo") :
    /\ i > 1 /\ ran[i - 1].action.tool = "place"
    /\ ran[i - 1].turn = ran[i].turn
    /\ ~MentionsTradeIntent(ran[i].text)

(* A turn ends, however often the model calls for tools.                   *)
TurnEnds == pc # "idle" ~> pc = "idle"

-----------------------------------------------------------------------------
(* A cancel was asked for, or confirmed as shown.                          *)
CancelsAreAsked ==
  \A i \in Actions("cancel") :
    MentionsCancelIntent(ran[i].text) \/ OnConfirmation(ran[i])

(* A yes that stands for an earlier request sends, with no token, only an  *)
(* order of the quantity the request states, or at least the very order    *)
(* that a reply put before the user. The code does not keep this.          *)
DerivedQuantitiesUseTokens ==
  \A i \in Actions("place") :
    LET r == ran[i]
    IN r.carried /\ r.token = 0 => QuantityQuoted(r.action, r.text) \/ r.seen

(* Every call the model made has its result in the history, directly after *)
(* it: no message of the user comes between them, whatever became of the   *)
(* turn that made the calls.                                               *)
CallsAreAnswered == [][turn' # turn => ~unanswered]_vars

=============================================================================
