-------------------------- MODULE EngineInvariants --------------------------
(***************************************************************************)
(* What the engine promises of its journal, its batches and its restarts.  *)
(***************************************************************************)
EXTENDS Engine

-----------------------------------------------------------------------------
(* What a restart would find: the snapshot, the retired journal unless the *)
(* snapshot contains it, and the journal.                                  *)
OnDiskLog ==
  dir.snapshot.book
    \o (IF dir.marker = 0 \/ dir.marker > dir.snapshot.gen
        THEN Records(Content(dir.retired)) ELSE <<>>)
    \o Records(Content(dir.journal))

(* With what the journal still buffers.                                    *)
Log == OnDiskLog \o Records(buffer)

Durable == INSTANCE DurableLog WITH log <- Log, told <- told

(* The journal is a log: each command enters it once and in order, through *)
(* compactions, recoveries and crashes in any step of them, and a crash    *)
(* loses nothing that a reply has told of: not the command it answered,    *)
(* nor, for a read, any command its answer may rest on.                    *)
ImplementsDurableLog == Durable!Spec

(* What that asks of an engine that may lose power: every commit is synced,*)
(* and what is synced has its name on disk.                                *)
DurableSetups == \A s \in Setups : s.powerLosses > 0 => s.fsync /\ s.entries

-----------------------------------------------------------------------------
(* Every variable has its type.                                            *)
EngineTypeOK ==
  /\ setup \in Setups
  /\ dir \in Directory /\ dirs \subseteq Directory /\ dir \in dirs
  /\ data \in [Inode -> Seq(Piece)]
  /\ synced \in [Inode -> Nat]
  /\ \A i \in Inode : synced[i] <= Len(data[i])
  /\ buffer \in Seq(Piece) /\ Len(buffer) <= BufferPieces
  /\ pc \in {"down", "refused", "stopped"} \cup StartupStates \cup MatcherStates
  /\ book \in Seq(Command) /\ generation \in Nat /\ compacting \in BOOLEAN
  /\ queue \in Seq(Request) /\ Len(queue) <= Capacity
  /\ batch \in Seq(Result) /\ Len(batch) <= MaxBatch
  /\ published \in Seq(Command) /\ announced \in Nat
  /\ sent \in 0 .. MaxCommands
  /\ reply \in [Command -> Outcome]
  /\ {told, spoilt} \subseteq SUBSET Command
  /\ {crashes, powerLosses, errors} \subseteq Nat

Increasing(s) == \A i, j \in DOMAIN s : i < j => s[i] < s[j]

(* No crash cuts the funding short: it is one deposit, or the buffer holds *)
(* it all until it is flushed.                                             *)
FundingIsWhole == Funds <= 1 \/ (setup.powerLosses = 0 /\ 3 * Funds <= BufferPieces)

(* While it serves, the book in memory is what a restart would rebuild,    *)
(* once the buffer is written: it never holds a command its journal does   *)
(* not, nor the other way round, but for commands whose append failed. Each*)
(* command is in it once, in the order of their numbers; and the funding of*)
(* a fresh book is in it whole and first, however many starts it took.     *)
BookIsJournal ==
  /\ EngineTypeOK
  /\ Serving =>
       /\ spoilt = {} => book = Log
       /\ ToSet(book) \subseteq ToSet(Log) /\ ToSet(Log) \subseteq ToSet(book) \cup spoilt
       /\ Increasing(book)
       /\ FundingIsWhole => Len(book) >= Funds /\ \A i \in 1 .. Funds : book[i] = i

(* Subscribers hear of a command only when the snapshot shows it, and      *)
(* before its client hears; so a client that reads the book after its own  *)
(* reply sees its order there.                                             *)
EventsBetween ==
  Serving =>
    /\ announced <= Len(published)
    /\ told \subseteq ToSet(SubSeq(published, 1, announced))

(* A command somebody was told of is alone on its line of the journal.     *)
ToldIsReadable ==
  \A i \in DOMAIN Content(dir.journal) :
    LET pieces == Content(dir.journal)
    IN pieces[i].part = 1 /\ pieces[i].cmd \in told =>
         i = 1 \/ pieces[i - 1].part = 3

-----------------------------------------------------------------------------
(* A crashed engine serves again: no state a crash leaves behind makes     *)
(* recovery refuse, the generation of a retired journal included.          *)
OnlyCrashes == setup.powerLosses = 0 /\ setup.errors = 0
RestartServes == OnlyCrashes /\ pc = "down" ~> Serving

(* Every request is answered, or its connection lost.                      *)
EveryRequestAnswered ==
  \A c \in Command : reply[c] = "waiting" ~> reply[c] # "waiting"

=============================================================================
