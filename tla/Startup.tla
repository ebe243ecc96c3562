------------------------------ MODULE Startup ------------------------------
(***************************************************************************)
(* What the engine does before it serves (engine-server serve, with        *)
(* recover_with_retention and compact of engine/src/journal.rs): it        *)
(* rebuilds the book from the snapshot, a retired journal and the journal, *)
(* compacts a large journal, opens the journal and funds a fresh book.     *)
(*                                                                         *)
(* "pc" names the next system call. Each call that changes the disk is a   *)
(* step, and after every change of the directory comes sync_dir, so that a *)
(* crash can fall between any two. A failing call ends the process: it is  *)
(* a crash there. A restart always configures what the snapshot was taken  *)
(* with.                                                                   *)
(***************************************************************************)
EXTENDS Journal

CONSTANTS
  CompactPieces,  \* ENGINE_JOURNAL_COMPACT_MB, in pieces; 0 never compacts
  Funds           \* accounts in fund_at_start: commands 1 .. Funds

ASSUME StartupAssumption ==
  CompactPieces \in Nat /\ Funds \in 0 .. MaxCommands

VARIABLES
  pc,
  book,        \* the commands applied to the book in memory
  generation,  \* its generation
  compacting   \* the snapshot being published is compact's, not recovery's

memory == <<book, generation, compacting>>

(* Where each sync_dir leads.                                              *)
AfterSync ==
  [adopted |-> "retired",   \* recovery of a journal retired without marker
   published |-> "remove",
   removed |-> "unmark",
   unmarked |-> IF compacting THEN "create" ELSE "replay",
   marked |-> "retire",
   renamed |-> "publish",
   created |-> "recovered"]

-----------------------------------------------------------------------------
(* Recovery.                                                               *)

HasSnapshot == dir.snapshot # NoSnapshot
HasRetired == dir.retired # NoFile

ReadSnapshot ==
  /\ pc = "down"
  /\ pc' = IF HasRetired THEN "retired" ELSE "replay"
  /\ book' = dir.snapshot.book
  /\ generation' = dir.snapshot.gen
  /\ compacting' = FALSE
  /\ UNCHANGED <<fileVars, buffer>>

(* A retirement from before there were markers, and no snapshot yet.       *)
AdoptUnmarked ==
  /\ pc = "retired"
  /\ dir.marker = 0
  /\ generation = 0 /\ ~HasSnapshot
  /\ NewDir([dir EXCEPT !.marker = 1])
  /\ pc' = "adopted"
  /\ UNCHANGED <<memory, data, synced, buffer>>

ContainsRetired_Older == generation > dir.marker

(* The snapshot already contains the retired journal.                      *)
ContainsRetired == generation >= dir.marker

SkipRetired ==
  /\ pc = "retired"
  /\ dir.marker # 0
  /\ ContainsRetired
  /\ pc' = "remove"
  /\ UNCHANGED <<memory, fileVars, buffer>>

ReplayRetired_KeepsGeneration ==
  /\ pc = "retired"
  /\ dir.marker # 0
  /\ ~ContainsRetired
  /\ Readable(Content(dir.retired))
  /\ book' = book \o Records(Content(dir.retired))
  /\ pc' = "publish"
  /\ UNCHANGED <<generation, compacting, fileVars, buffer>>

(* It does not: replay it and finish the compaction.                       *)
ReplayRetired ==
  /\ pc = "retired"
  /\ dir.marker # 0
  /\ ~ContainsRetired
  /\ dir.marker = generation + 1
  /\ Readable(Content(dir.retired))
  /\ book' = book \o Records(Content(dir.retired))
  /\ generation' = dir.marker
  /\ pc' = "publish"
  /\ UNCHANGED <<compacting, fileVars, buffer>>

(* The journal itself, last. A missing one is empty.                       *)
ReplayJournal ==
  /\ pc = "replay"
  /\ Readable(Content(dir.journal))
  /\ book' = book \o Records(Content(dir.journal))
  /\ pc' = "recovered"
  /\ UNCHANGED <<generation, compacting, fileVars, buffer>>

(* A corrupt line fails startup.                                           *)
Refuse ==
  /\ \/ pc = "retired" /\ dir.marker = generation + 1
                       /\ ~Readable(Content(dir.retired))
     \/ pc = "replay" /\ ~Readable(Content(dir.journal))
  /\ pc' = "refused"
  /\ UNCHANGED <<memory, fileVars, buffer>>

-----------------------------------------------------------------------------
(* Publishing a snapshot and removing what it contains.                    *)

PublishSnapshot ==
  /\ pc = "publish"
  /\ NewDir([dir EXCEPT !.snapshot = [gen |-> generation, book |-> book]])
  /\ pc' = "published"
  /\ UNCHANGED <<memory, data, synced, buffer>>

RemoveRetired ==
  /\ pc = "remove"
  /\ NewDir([dir EXCEPT !.retired = NoFile])
  /\ pc' = "removed"
  /\ UNCHANGED <<memory, data, synced, buffer>>

RemoveMarker ==
  /\ pc = "unmark"
  /\ NewDir([dir EXCEPT !.marker = 0])
  /\ pc' = "unmarked"
  /\ UNCHANGED <<memory, data, synced, buffer>>

SyncDirectory ==
  /\ pc \in DOMAIN AfterSync
  /\ SyncDir
  /\ pc' = AfterSync[pc]
  /\ UNCHANGED <<memory, dir, data, synced, buffer>>

-----------------------------------------------------------------------------
(* Compaction, between recovery and opening the journal.                   *)

TooLarge == CompactPieces > 0 /\ Len(Content(dir.journal)) > CompactPieces

MarkGeneration ==
  /\ pc = "recovered"
  /\ TooLarge
  /\ NewDir([dir EXCEPT !.marker = generation + 1])
  /\ pc' = "marked"
  /\ UNCHANGED <<memory, data, synced, buffer>>

(* From here on the book in memory is the next generation.                 *)
RetireJournal ==
  /\ pc = "retire"
  /\ NewDir([dir EXCEPT !.retired = dir.journal, !.journal = NoFile])
  /\ pc' = "renamed"
  /\ generation' = generation + 1
  /\ compacting' = TRUE
  /\ UNCHANGED <<book, data, synced, buffer>>

CreateEmpty ==
  /\ pc = "create"
  /\ CreateJournal
  /\ pc' = "created"
  /\ UNCHANGED <<memory, buffer>>

-----------------------------------------------------------------------------
(* Opening and funding.                                                    *)

Open_Truncates ==
  /\ pc = "recovered"
  /\ ~TooLarge
  /\ IF dir.journal = NoFile
     THEN CreateJournal
     ELSE /\ data' = [data EXCEPT ![dir.journal] = <<>>]
          /\ synced' = [synced EXCEPT ![dir.journal] = 0]
          /\ UNCHANGED <<dir, dirs>>
  /\ pc' = IF book = <<>> /\ Funds > 0 THEN "fund" ELSE "spawn"
  /\ UNCHANGED <<memory, buffer>>

(* Opening creates a missing journal and leaves its directory entry        *)
(* unsynced. Only an empty book is funded.                                 *)
Open ==
  /\ pc = "recovered"
  /\ ~TooLarge
  /\ IF dir.journal = NoFile THEN CreateJournal ELSE UNCHANGED fileVars
  /\ pc' = IF book = <<>> /\ Funds > 0 THEN "fund" ELSE "spawn"
  /\ UNCHANGED <<memory, buffer>>

FundNext_NotJournaled ==
  /\ pc = "fund"
  /\ Len(book) < Funds
  /\ book' = Append(book, Len(book) + 1)
  /\ UNCHANGED <<pc, generation, compacting, fileVars, buffer>>

FundNext ==
  /\ pc = "fund"
  /\ Len(book) < Funds
  /\ book' = Append(book, Len(book) + 1)
  /\ Append1(Len(book) + 1)
  /\ UNCHANGED <<pc, generation, compacting, dir, dirs, synced>>

FundFlush ==
  /\ pc = "fund"
  /\ Len(book) = Funds
  /\ Flush
  /\ pc' = "fundSync"
  /\ UNCHANGED <<memory, dir, dirs>>

FundSync ==
  /\ pc = "fundSync"
  /\ SyncData
  /\ pc' = "spawn"
  /\ UNCHANGED <<memory, dir, data, buffer>>

=============================================================================
