------------------------------- MODULE Engine -------------------------------
(***************************************************************************)
(* A running engine: the bounded command queue, the single matcher thread  *)
(* that applies commands in batches, journals them and answers, and what   *)
(* stops it (engine/src/sequencer.rs), over the disk of Journal.tla and    *)
(* the start of Startup.tla. The process may crash and the machine may     *)
(* lose power between any two steps, and writes to the disk may fail.      *)
(*                                                                         *)
(* A client's request is a write command or a read. The book's own answer, *)
(* a rejection included, is "ok" here. A query has no journal record but   *)
(* its reply tells of the book.                                            *)
(***************************************************************************)
EXTENDS Startup, SequencesExt

CONSTANTS
  Capacity,     \* capacity of the command queue
  MaxBatch      \* MAX_BATCH

(* A setup is what an engine is deployed with (the disk it first finds,    *)
(* ENGINE_JOURNAL_FSYNC, its BufWriter's capacity in pieces of lines,      *)
(* whether its file system puts the directory entry of a new file on disk  *)
(* when the file is synced, as ext4 does) and bounds: commands, crashes    *)
(* (power losses included), power losses, and failing writes and syncs.    *)
ASSUME EngineAssumption ==
  /\ Capacity \in Nat \ {0} /\ MaxBatch \in Nat \ {0}
  /\ \A s \in Setups :
       /\ s.start \in {"fresh", "journal", "legacy"}
       /\ {s.fsync, s.entries} \subseteq BOOLEAN
       /\ s.bufferPieces \in Nat /\ s.bufferPieces >= 3
       /\ s.commands \in 0 .. MaxCommands
       /\ {s.crashes, s.powerLosses, s.errors} \subseteq Nat
       /\ s.start # "fresh" => 1 \in Inode
       /\ s.start = "legacy" => 2 \in Inode

VARIABLES
  queue,      \* requests the matcher has not taken
  batch,      \* requests it has, with their results: the pending replies
  published,  \* the book snapshot readers load
  announced,  \* how many commands' events the feed has sent
  sent,       \* commands given a number so far
  reply,      \* per command, what its client was told
  told,       \* history: commands the replies so far told somebody of
  spoilt,     \* history: commands whose append failed since the start
  crashes, powerLosses, errors

clientVars == <<sent, reply>>
matcherVars == <<queue, batch, published, announced>>
historyVars == <<told, spoilt>>
faultVars == <<crashes, powerLosses, errors>>
diskVars == <<fileVars, buffer>>
vars == <<setup, diskVars, pc, memory, clientVars, matcherVars, historyVars, faultVars>>

Outcome == {"none", "waiting", "ok", "busy", "shutdown", "lost"}
Request == [cmd : Command, writes : BOOLEAN]
Result == [cmd : Command, result : {"ok", "shutdown"}]

StartupStates == {"retired", "replay", "recovered", "publish", "remove",
                  "unmark", "retire", "create", "fund", "fundSync", "spawn"}
                   \cup DOMAIN AfterSync
MatcherStates == {"take", "commit", "sync", "show", "tell", "reply"}

Serving == pc \in MatcherStates

(* The disks an installation may find: nothing, an empty journal whose     *)
(* entry is on disk, or a journal with the funding in it that was retired  *)
(* before there were markers.                                              *)
OnDisk(journal, retired) ==
  [journal |-> journal, retired |-> retired, marker |-> 0, snapshot |-> NoSnapshot]
StartDirectory(start) ==
  CASE start = "fresh" -> OnDisk(NoFile, NoFile)
    [] start = "journal" -> OnDisk(1, NoFile)
    [] start = "legacy" -> OnDisk(1, 2)
Funding == [i \in 1 .. 3 * Funds |-> [cmd |-> (i + 2) \div 3, part |-> ((i + 2) % 3) + 1]]
StartData(start) ==
  [i \in Inode |-> IF start = "legacy" /\ i = 2 THEN Funding ELSE <<>>]

Init ==
  /\ \E s \in Setups :
       /\ setup = s
       /\ dir = StartDirectory(s.start)
       /\ dirs = {StartDirectory(s.start)}
       /\ data = StartData(s.start)
       /\ synced = [i \in Inode |-> Len(data[i])]
  /\ buffer = <<>>
  /\ pc = "down"
  /\ book = <<>> /\ generation = 0 /\ compacting = FALSE
  /\ queue = <<>> /\ batch = <<>> /\ published = <<>> /\ announced = 0
  /\ sent = Funds
  /\ reply = [c \in Command |-> "none"]
  /\ told = {} /\ spoilt = {}
  /\ crashes = 0 /\ powerLosses = 0 /\ errors = 0

-----------------------------------------------------------------------------
(* Clients.                                                                *)

MayAsk == sent < setup.commands

HasRoom == Serving /\ Len(queue) < Capacity

(* submit answers Busy at once when the queue is full, or has no matcher   *)
(* behind it any more.                                                     *)
Submit(writes) ==
  /\ Serving \/ pc = "stopped"
  /\ MayAsk
  /\ sent' = sent + 1
  /\ IF HasRoom
     THEN /\ queue' = Append(queue, [cmd |-> sent', writes |-> writes])
          /\ reply' = [reply EXCEPT ![sent'] = "waiting"]
     ELSE /\ reply' = [reply EXCEPT ![sent'] = "busy"]
          /\ UNCHANGED queue
  /\ UNCHANGED <<diskVars, pc, memory, batch, published, announced, historyVars,
                 faultVars>>

(* enqueue waits for room, and fails only when the matcher has gone.       *)
Enqueue(writes) ==
  /\ HasRoom \/ pc = "stopped"
  /\ MayAsk
  /\ sent' = sent + 1
  /\ IF Serving
     THEN /\ queue' = Append(queue, [cmd |-> sent', writes |-> writes])
          /\ reply' = [reply EXCEPT ![sent'] = "waiting"]
     ELSE /\ reply' = [reply EXCEPT ![sent'] = "shutdown"]
          /\ UNCHANGED queue
  /\ UNCHANGED <<diskVars, pc, memory, batch, published, announced, historyVars,
                 faultVars>>

-----------------------------------------------------------------------------
(* The matcher thread.                                                     *)

(* Events already in a replayed book are history, not news.                *)
Spawn ==
  /\ pc = "spawn"
  /\ published' = book
  /\ announced' = Len(book)
  /\ pc' = "take"
  /\ UNCHANGED <<diskVars, memory, clientVars, queue, batch, historyVars, faultVars>>

MayTake == pc = "take" /\ queue # <<>> /\ Len(batch) < MaxBatch

Pending(result) ==
  /\ batch' = Append(batch, [cmd |-> Head(queue).cmd, result |-> result])
  /\ queue' = Tail(queue)
  /\ UNCHANGED <<pc, generation, compacting, dir, dirs, synced, clientVars,
                 published, announced, told>>

(* A write is journaled, then applied.                                     *)
TakeWrite ==
  /\ MayTake /\ Head(queue).writes
  /\ Append1(Head(queue).cmd)
  /\ book' = Append(book, Head(queue).cmd)
  /\ Pending("ok")
  /\ UNCHANGED <<spoilt, faultVars>>

TakeRead ==
  /\ MayTake /\ ~Head(queue).writes
  /\ Pending("ok")
  /\ UNCHANGED <<book, data, buffer, spoilt, faultVars>>

(* A write the journal does not take is not applied.                       *)
TakeFails ==
  /\ MayTake /\ Head(queue).writes
  /\ errors < setup.errors
  /\ errors' = errors + 1
  /\ AppendFails(Head(queue).cmd)
  /\ Pending("shutdown")
  /\ spoilt' = spoilt \cup {Head(queue).cmd}
  /\ UNCHANGED <<book, crashes, powerLosses>>

(* Nothing more is queued, or the batch is full.                           *)
EndBatch ==
  /\ pc = "take"
  /\ batch # <<>>
  /\ queue = <<>> \/ Len(batch) = MaxBatch
  /\ pc' = "commit"
  /\ UNCHANGED <<diskVars, memory, clientVars, matcherVars, historyVars, faultVars>>

CommitFlush ==
  /\ pc = "commit"
  /\ Flush
  /\ pc' = "sync"
  /\ UNCHANGED <<dir, dirs, memory, clientVars, matcherVars, historyVars, faultVars>>

CommitSync ==
  /\ pc = "sync"
  /\ SyncData
  /\ pc' = "show"
  /\ UNCHANGED <<dir, data, buffer, memory, clientVars, matcherVars, historyVars, faultVars>>

CommitFails_ServesOn ==
  /\ pc = "commit"
  /\ FlushFails
  /\ errors < setup.errors
  /\ errors' = errors + 1
  /\ pc' = "show"
  /\ UNCHANGED <<dir, dirs, synced, memory, clientVars, matcherVars, historyVars,
                 crashes, powerLosses>>

(* A commit that fails stops the matcher: its batch and whatever waits in  *)
(* the queue are answered Shutdown.                                        *)
CommitFails ==
  /\ \/ pc = "commit" /\ FlushFails
     \/ pc = "sync" /\ Fsync /\ UNCHANGED <<data, buffer>>
  /\ errors < setup.errors
  /\ errors' = errors + 1
  /\ reply' = [c \in Command |-> IF reply[c] = "waiting" THEN "shutdown" ELSE reply[c]]
  /\ batch' = <<>>
  /\ queue' = <<>>
  /\ pc' = "stopped"
  /\ UNCHANGED <<dir, dirs, synced, memory, sent, published, announced, historyVars,
                 crashes, powerLosses>>

PublishBook_SkipsEvents ==
  /\ pc = "show"
  /\ published' = book
  /\ pc' = "reply"
  /\ UNCHANGED <<diskVars, memory, clientVars, queue, batch, announced, historyVars,
                 faultVars>>

(* The snapshot first, then the events, then the replies.                  *)
PublishBook ==
  /\ pc = "show"
  /\ published' = book
  /\ pc' = "tell"
  /\ UNCHANGED <<diskVars, memory, clientVars, queue, batch, announced, historyVars,
                 faultVars>>

SendEvents ==
  /\ pc = "tell"
  /\ announced' = Len(book)
  /\ pc' = "reply"
  /\ UNCHANGED <<diskVars, memory, clientVars, queue, batch, published, historyVars,
                 faultVars>>

ReplyNext_DropsRest ==
  /\ pc = "reply"
  /\ reply' = [reply EXCEPT ![Head(batch).cmd] = Head(batch).result]
  /\ told' = IF Head(batch).result = "ok" THEN told \cup ToSet(book) ELSE told
  /\ batch' = <<>>
  /\ pc' = "take"
  /\ UNCHANGED <<diskVars, memory, sent, queue, published, announced, spoilt, faultVars>>

(* Every reply but a refusal shows something of the book, at least its     *)
(* top.                                                                    *)
ReplyNext ==
  /\ pc = "reply"
  /\ reply' = [reply EXCEPT ![Head(batch).cmd] = Head(batch).result]
  /\ told' = IF Head(batch).result = "ok" THEN told \cup ToSet(book) ELSE told
  /\ batch' = Tail(batch)
  /\ pc' = IF Len(batch) = 1 THEN "take" ELSE "reply"
  /\ UNCHANGED <<diskVars, memory, sent, queue, published, announced, spoilt, faultVars>>

-----------------------------------------------------------------------------
(* Faults. Whoever waits for a reply loses the connection.                 *)

Disappear ==
  /\ pc' = "down"
  /\ crashes < setup.crashes
  /\ crashes' = crashes + 1
  /\ book' = <<>> /\ generation' = 0 /\ compacting' = FALSE
  /\ queue' = <<>> /\ batch' = <<>> /\ published' = <<>> /\ announced' = 0
  /\ spoilt' = {}
  /\ reply' = [c \in Command |-> IF reply[c] = "waiting" THEN "lost" ELSE reply[c]]
  /\ UNCHANGED <<sent, told, errors>>

(* Also how an operator ends an engine whose matcher stopped.              *)
Crash ==
  /\ pc \notin {"down", "refused"}
  /\ Disappear
  /\ DropBuffer
  /\ UNCHANGED <<fileVars, powerLosses>>

PowerLoss ==
  /\ pc # "refused"
  /\ powerLosses < setup.powerLosses
  /\ powerLosses' = powerLosses + 1
  /\ Disappear
  /\ LosePower

-----------------------------------------------------------------------------
StartStep ==
  /\ \/ ReadSnapshot \/ AdoptUnmarked \/ SkipRetired \/ ReplayRetired
     \/ ReplayJournal \/ Refuse
     \/ PublishSnapshot \/ RemoveRetired \/ RemoveMarker \/ SyncDirectory
     \/ MarkGeneration \/ RetireJournal \/ CreateEmpty
     \/ Open \/ FundNext \/ FundFlush \/ FundSync
  /\ UNCHANGED <<clientVars, matcherVars, historyVars, faultVars>>

MatcherStep ==
  TakeWrite \/ TakeRead \/ EndBatch \/ CommitFlush \/ CommitSync \/ PublishBook
    \/ SendEvents \/ ReplyNext

Work == (StartStep \/ Spawn \/ MatcherStep) /\ UNCHANGED setup

Fault == (TakeFails \/ CommitFails \/ Crash \/ PowerLoss) /\ UNCHANGED setup

Ask(writes) == (Submit(writes) \/ Enqueue(writes)) /\ UNCHANGED setup

Next == Work \/ (\E writes \in BOOLEAN : Ask(writes)) \/ Fault

(* The process runs, and is restarted whenever it is down: a crashed       *)
(* engine is started again by its supervisor.                              *)
Spec == Init /\ [][Next]_vars /\ WF_vars(Work)
=============================================================================
