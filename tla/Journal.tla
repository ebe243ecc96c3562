------------------------------ MODULE Journal ------------------------------
(***************************************************************************)
(* The write-ahead journal of commands and the files beside it             *)
(* (engine/src/journal.rs): what is on disk, what only the operating       *)
(* system holds, and what is still in the journal's own buffer.            *)
(*                                                                         *)
(* A command is a number, given in the order commands are submitted, and a *)
(* book is the sequence of the commands applied to it: the book is         *)
(* deterministic, so equal sequences are equal books. A journal line is    *)
(* three pieces, its text in two halves and its newline, because a write   *)
(* may stop inside it.                                                     *)
(*                                                                         *)
(* The directory is one value. A power loss leaves one of the directories  *)
(* there were since the last sync_dir (directory changes reach the disk in *)
(* order, and a rename is atomic) and, of each file, what was synced and   *)
(* any part of what was written after. The marker and the snapshot are     *)
(* written and synced under another name before they are renamed, so their *)
(* content is never torn and is part of the directory.                     *)
(***************************************************************************)
EXTENDS Integers, Sequences, FiniteSets

CONSTANTS
  Setups,        \* how the engine may be deployed, see Setup
  MaxCommands,   \* bound: commands ever submitted, the funding included
  Inode          \* bound: journal files that may exist at one time

Command == 1 .. MaxCommands

Piece == [cmd : Command, part : 1 .. 3]
Line(c) == [i \in 1 .. 3 |-> [cmd |-> c, part |-> i]]

NoFile == 0
NoSnapshot == [gen |-> 0, book |-> <<>>]

(* The names: the journal, the journal a compaction retired, the           *)
(* generation marker (0 for none) and the snapshot.                        *)
Directory ==
  [journal : {NoFile} \cup Inode, retired : {NoFile} \cup Inode,
   marker : Nat, snapshot : [gen : Nat, book : Seq(Command)]]

ASSUME JournalAssumption ==
  /\ MaxCommands \in Nat
  /\ Inode \subseteq Nat \ {NoFile} /\ IsFiniteSet(Inode)

VARIABLES
  setup,    \* how this engine is deployed: it does not change
  dir,      \* the directory as the operating system shows it
  dirs,     \* the directories a power loss may leave
  data,     \* per file, the pieces written to it
  synced,   \* per file, how many of them a power loss cannot take
  buffer    \* pieces appended and not written yet

fileVars == <<dir, dirs, data, synced>>

Fsync == setup.fsync                \* ENGINE_JOURNAL_FSYNC
BufferPieces == setup.bufferPieces  \* capacity of the BufWriter

-----------------------------------------------------------------------------
(* Reading a journal.                                                      *)

Content(file) == IF file = NoFile THEN <<>> ELSE data[file]

(* Each line parses: a text is whole and alone on its line. The newline of *)
(* the last line may be missing, and empty lines are skipped.              *)
Readable(pieces) ==
  \A i \in DOMAIN pieces :
    /\ pieces[i].part = 1 =>
         /\ i > 1 => pieces[i - 1].part = 3
         /\ i < Len(pieces)
         /\ pieces[i + 1] = [pieces[i] EXCEPT !.part = 2]
    /\ pieces[i].part = 2 =>
         i > 1 /\ pieces[i - 1] = [pieces[i] EXCEPT !.part = 1]

(* The commands whose text is complete, in order.                          *)
Records(pieces) ==
  LET read[n \in 0 .. Len(pieces)] ==
        IF n = 0 THEN <<>>
        ELSE IF pieces[n].part = 2 THEN Append(read[n - 1], pieces[n].cmd)
        ELSE read[n - 1]
  IN read[Len(pieces)]

-----------------------------------------------------------------------------
(* Writing to the open journal.                                            *)

Written(pieces) == data' = [data EXCEPT ![dir.journal] = @ \o pieces]

Room == BufferPieces - Len(buffer)

(* BufWriter: a piece that does not fit flushes the buffer first.          *)
Append1(c) ==
  IF Room >= 3
  THEN buffer' = buffer \o Line(c) /\ UNCHANGED data
  ELSE /\ Written(buffer \o SubSeq(Line(c), 1, Room))
       /\ buffer' = SubSeq(Line(c), Room + 1, 3)

(* That flush fails after a part of it was written. The pieces of the line *)
(* already buffered stay in the buffer.                                    *)
AppendFails(c) ==
  /\ Room < 3
  /\ LET full == buffer \o SubSeq(Line(c), 1, Room)
     IN \E k \in 0 .. Len(full) - 1 :
          /\ Written(SubSeq(full, 1, k))
          /\ buffer' = SubSeq(full, k + 1, Len(full))

Flush == Written(buffer) /\ buffer' = <<>> /\ UNCHANGED synced

(* A failed commit ends the matcher, which drops the journal; dropping the *)
(* BufWriter flushes what it can once more.                                *)
FlushFails ==
  /\ \E k \in 0 .. Len(buffer) : Written(SubSeq(buffer, 1, k))
  /\ buffer' = <<>>

SyncData_Never == UNCHANGED <<synced, dirs>>

(* Where a file is synced with its directory entry, that of a new file too.*)
SyncData ==
  /\ synced' = IF Fsync THEN [synced EXCEPT ![dir.journal] = Len(data[dir.journal])]
                        ELSE synced
  /\ dirs' = IF Fsync /\ setup.entries THEN {dir} ELSE dirs

-----------------------------------------------------------------------------
(* Changing the directory.                                                 *)

NewDir(d) == dir' = d /\ dirs' = dirs \cup {d}

SyncDir == dirs' = {dir}

(* A new, empty file takes a number no directory refers to.                *)
Unused == {i \in Inode : \A d \in dirs : i \notin {d.journal, d.retired}}

CreateJournal ==
  LET i == CHOOSE j \in Unused : TRUE
  IN /\ Unused # {}
     /\ NewDir([dir EXCEPT !.journal = i])
     /\ data' = [data EXCEPT ![i] = <<>>]
     /\ synced' = [synced EXCEPT ![i] = 0]

-----------------------------------------------------------------------------
(* What is left after a crash. The process takes its buffer with it; the   *)
(* machine also what was not synced.                                       *)

DropBuffer == buffer' = <<>>

LosePower ==
  /\ \E d \in dirs : dir' = d /\ dirs' = {d}
  /\ \E kept \in [Inode -> 0 .. 3 * MaxCommands] :
       /\ \A i \in Inode : synced[i] <= kept[i] /\ kept[i] <= Len(data[i])
       /\ data' = [i \in Inode |-> SubSeq(data[i], 1, kept[i])]
       /\ synced' = kept
  /\ DropBuffer

=============================================================================
