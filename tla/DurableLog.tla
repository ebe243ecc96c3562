----------------------------- MODULE DurableLog -----------------------------
(***************************************************************************)
(* What the journal promises: a log of commands, in the order they were    *)
(* applied. A crash may lose its end, but nothing that a reply has told    *)
(* somebody of.                                                            *)
(***************************************************************************)
EXTENDS Sequences, SequencesExt

CONSTANT Command

VARIABLES log, told

Init == log \in Seq(Command) /\ told = {}

Accept ==
  /\ \E c \in Command \ ToSet(log) : log' = Append(log, c)
  /\ UNCHANGED told

Tell ==
  /\ told' \subseteq ToSet(log)
  /\ told \subseteq told'
  /\ UNCHANGED log

Lose ==
  /\ IsPrefix(log', log)
  /\ told \subseteq ToSet(log')
  /\ UNCHANGED told

Next == Accept \/ Tell \/ Lose

Spec == Init /\ [][Next]_<<log, told>>
=============================================================================
