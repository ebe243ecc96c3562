------------------------------- MODULE Words -------------------------------
(***************************************************************************)
(* What the gate recognises in a text (agent-service/src/gate.rs): a       *)
(* user's message, the summary of a pending action or a reply of the       *)
(* model. A text is its clauses; a clause has words, figures, the order    *)
(* ids it names as ids, and the signs that keep it from instructing. The   *)
(* lists of words, in six languages, are a few words each here, chosen so  *)
(* that they overlap as the lists do: "order" is a trade verb also in      *)
(* "cancel order 7", and a "bid" may be an order or a side of the book.    *)
(*                                                                         *)
(* A figure may be a price or a quantity, so both are plain numbers and a  *)
(* notional is their product.                                              *)
(***************************************************************************)
EXTENDS Integers, Sequences, SequencesExt

TradeVerbs == {"buy", "sell", "bid", "order"}
CancelVerbs == {"cancel", "close"}
FramingWords == {"demo"}
ConfirmWords == {"yes", "confirm"}
AssetWords == {"eth"}
AllWords == {"all", "every"}
BookNouns == {"bid", "ask"}
AskingWords == {"confirm", "should i"}

Side == {"buy", "sell"}
OtherSide(side) == IF side = "buy" THEN "sell" ELSE "buy"
SideWords(side) == IF side = "buy" THEN {"buy", "bid"} ELSE {"sell", "ask"}

Word ==
  TradeVerbs \cup CancelVerbs \cup FramingWords \cup ConfirmWords
    \cup AssetWords \cup AllWords \cup BookNouns \cup AskingWords

Clause ==
  [words : SUBSET Word, figures : Seq(Nat), ids : SUBSET Nat,
   size : Nat,           \* all its words and figures
   negated : BOOLEAN,    \* "not", "n't", "cannot"
   question : BOOLEAN,   \* opens as a question of fact
   asks : BOOLEAN,       \* opens as "can you", "should I"
   mark : BOOLEAN]       \* ends in a question mark

Text == Seq(Clause)

-----------------------------------------------------------------------------
(* Words, figures and ids.                                                 *)

(* Neither a negated clause nor a question instructs.                      *)
Instructs(c) == ~c.negated /\ ~c.question

Says(c, words) == c.words \cap words # {}

(* has_word: as an instruction. word_in: anywhere.                         *)
HasWord(t, words) == \E i \in DOMAIN t : Instructs(t[i]) /\ Says(t[i], words)
WordIn(t, words) == \E i \in DOMAIN t : Says(t[i], words)

Figures(t) == FlattenSeq([i \in DOMAIN t |-> t[i].figures])

(* The figures in clauses that instruct.                                   *)
Stated(t) == Figures(SelectSeq(t, Instructs))

IdsNamed(t) == UNION {t[i].ids : i \in DOMAIN t}

Negated(t) == \E i \in DOMAIN t : t[i].negated

Size(t) == FoldSeq(LAMBDA c, n : c.size + n, 0, t)

-----------------------------------------------------------------------------
(* Intent.                                                                 *)

(* A trade verb, or the shape of an order: the asset and two figures.      *)
MentionsTradeIntent(t) ==
  \/ HasWord(t, TradeVerbs)
  \/ \E i \in DOMAIN t :
       Instructs(t[i]) /\ Says(t[i], AssetWords) /\ Len(t[i].figures) >= 2

MentionsCancelIntent(t) == HasWord(t, CancelVerbs)

(* One clause asks to cancel and says all.                                 *)
CancelsAll(t) ==
  \E i \in DOMAIN t :
    Instructs(t[i]) /\ Says(t[i], CancelVerbs) /\ Says(t[i], AllWords)

MentionsFraming(t) == HasWord(t, FramingWords)

SideQuoted(t, side) == HasWord(t, SideWords(side))

(* A message that asks or denies anything confirms nothing.                *)
MentionsConfirmation(t) ==
  /\ ~Negated(t)
  /\ \A i \in DOMAIN t : ~t[i].mark
  /\ \E i \in DOMAIN t :
       Instructs(t[i]) /\ ~t[i].asks /\ Says(t[i], ConfirmWords)

IsBareConfirmation(t) ==
  /\ MentionsConfirmation(t)
  /\ Figures(t) = <<>>
  /\ ~MentionsTradeIntent(t) /\ ~MentionsCancelIntent(t)
  /\ Size(t) <= 6

-----------------------------------------------------------------------------
(* Replies.                                                                *)

(* The side a summary states, if any.                                      *)
SideOf(summary) ==
  IF WordIn(summary, {"buy"}) THEN {"buy"}
  ELSE IF WordIn(summary, {"sell"}) THEN {"sell"} ELSE {}

(* A reply may speak of bids and asks and mean the book.                   *)
SideVerbs(side) == SideWords(side) \ BookNouns

DisclosesSide_Either(summary, reply) ==
  \A side \in SideOf(summary) : WordIn(reply, SideVerbs(side))

DisclosesSide(summary, reply) ==
  \A side \in SideOf(summary) :
    /\ WordIn(reply, SideVerbs(side))
    /\ ~WordIn(reply, SideVerbs(OtherSide(side)))

DisclosesCancel(summary, reply) ==
  WordIn(summary, {"cancel"}) =>
    /\ WordIn(reply, CancelVerbs)
    /\ WordIn(summary, {"every"}) => WordIn(reply, AllWords)

(* The first two figures: the quantity and the price, or the id.           *)
DisclosesFigures(summary, reply) ==
  \A i \in DOMAIN Figures(summary) :
    i <= 2 => Figures(summary)[i] \in ToSet(Figures(reply))

SummaryIsDisclosed(summary, reply) ==
  /\ DisclosesSide(summary, reply)
  /\ DisclosesCancel(summary, reply)
  /\ DisclosesFigures(summary, reply)

AsksToConfirm(request, reply) ==
  /\ WordIn(reply, AskingWords)
  /\ ~Negated(reply)
  /\ MentionsTradeIntent(request) \/ MentionsCancelIntent(request)
  /\ SummaryIsDisclosed(request, reply)

=============================================================================
