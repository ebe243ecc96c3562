-------------------------------- MODULE Audit --------------------------------
(***************************************************************************)
(* The audit log (agent-service/src/audit.rs): a chain of records in a     *)
(* file, appended by the turns that run at the same time, and verified     *)
(* when the service starts. A turn's pre-action record is on disk before   *)
(* its action is sent; its own record comes at its end.                    *)
(*                                                                         *)
(* An entry is a number, and a hash is the sequence of entries it stands   *)
(* for: equal hashes, equal histories. The process may crash and the       *)
(* machine lose power between any two steps, a write or a sync may fail,   *)
(* and while the service is down the file may be edited or copied.         *)
(***************************************************************************)
EXTENDS Integers, Sequences, SequencesExt

CONSTANTS
  Turn,        \* turns that run at the same time
  Nobody,
  MaxEntries,  \* bound: records begun
  MaxFaults    \* bound: crashes, power losses, failing writes and edits

ASSUME AuditAssumption ==
  Nobody \notin Turn /\ MaxEntries \in Nat /\ MaxFaults \in Nat

VARIABLES
  file,     \* the lines of the log
  synced,   \* how many of them a power loss leaves
  service,  \* "down", "up" or "refused"
  prev,     \* Chain.prev
  failed,   \* Chain.failed
  lock,     \* the turn whose append holds the chain
  step,     \* per turn, what it does
  entry,    \* per turn, the record it writes
  acts,     \* per turn, that record precedes an action
  next,     \* entries begun
  written,  \* history: every entry written whole since the log was new
  sent,     \* history: entries whose action was sent to the MCP server
  faults, edited

logVars == <<file, synced>>
chainVars == <<prev, failed, lock>>
turnVars == <<step, entry, acts, next>>
historyVars == <<written, sent>>
faultVars == <<faults, edited>>
vars == <<logVars, service, chainVars, turnVars, historyVars, faultVars>>

Entry == 1 .. MaxEntries
Line == [prev : Seq(Entry), hash : Seq(Entry), entry : Entry, whole : BOOLEAN]
Step == {"idle", "append", "write", "sync", "act"}

Link(before, e) == Append(before, e)
LineOf(before, e) == [prev |-> before, hash |-> Link(before, e), entry |-> e, whole |-> TRUE]
EntriesOf(lines) == [i \in DOMAIN lines |-> lines[i].entry]

Idle == step' = [t \in Turn |-> "idle"]

Init ==
  /\ file = <<>> /\ synced = 0
  /\ service = "down" /\ prev = <<>> /\ failed = FALSE /\ lock = Nobody
  /\ step = [t \in Turn |-> "idle"] /\ entry = [t \in Turn |-> 0]
  /\ acts = [t \in Turn |-> FALSE] /\ next = 1
  /\ written = <<>> /\ sent = {}
  /\ faults = 0 /\ edited = FALSE

-----------------------------------------------------------------------------
(* Opening the log.                                                        *)

Terminated(lines) == \A i \in DOMAIN lines : lines[i].whole

Chained_EntriesOnly(lines) ==
  \A i \in DOMAIN lines : lines[i].hash = Link(lines[i].prev, lines[i].entry)

(* Each line names the hash before it, and its own is that of its entry.   *)
Chained(lines) ==
  \A i \in DOMAIN lines :
    /\ lines[i].prev = IF i = 1 THEN <<>> ELSE lines[i - 1].hash
    /\ lines[i].hash = Link(lines[i].prev, lines[i].entry)

Verifies(lines) == Terminated(lines) /\ Chained(lines)

LastHash(lines) == IF lines = <<>> THEN <<>> ELSE Last(lines).hash

Open ==
  /\ service = "down"
  /\ IF Verifies(file)
     THEN /\ service' = "up"
          /\ prev' = LastHash(file)
          /\ written' = EntriesOf(file)
     ELSE service' = "refused" /\ UNCHANGED <<prev, written>>
  /\ failed' = FALSE
  /\ UNCHANGED <<logVars, lock, turnVars, sent, faultVars>>

-----------------------------------------------------------------------------
(* A turn writes a record before its action, and one when it ends.         *)

Begin(t, action) ==
  /\ service = "up" /\ step[t] = "idle"
  /\ next <= MaxEntries
  /\ next' = next + 1
  /\ entry' = [entry EXCEPT ![t] = next]
  /\ acts' = [acts EXCEPT ![t] = action]
  /\ step' = [step EXCEPT ![t] = "append"]
  /\ UNCHANGED <<logVars, service, chainVars, historyVars, faultVars>>

LockFree_Always == TRUE
LockFree == lock = Nobody

(* An append takes the chain, and is refused once one has failed.          *)
TakeChain(t) ==
  /\ step[t] = "append" /\ LockFree
  /\ IF failed
     THEN step' = [step EXCEPT ![t] = "idle"] /\ UNCHANGED lock
     ELSE step' = [step EXCEPT ![t] = "write"] /\ lock' = t
  /\ UNCHANGED <<logVars, service, prev, failed, entry, acts, next, historyVars, faultVars>>

Return(t) ==
  /\ lock' = Nobody
  /\ step' = [step EXCEPT ![t] = IF acts[t] THEN "act" ELSE "idle"]

WriteLine_Unsynced(t) ==
  /\ step[t] = "write"
  /\ file' = Append(file, LineOf(prev, entry[t]))
  /\ written' = Append(written, entry[t])
  /\ prev' = Link(prev, entry[t])
  /\ Return(t)
  /\ UNCHANGED <<synced, service, failed, entry, acts, next, sent, faultVars>>

WriteLine(t) ==
  /\ step[t] = "write"
  /\ file' = Append(file, LineOf(prev, entry[t]))
  /\ written' = Append(written, entry[t])
  /\ step' = [step EXCEPT ![t] = "sync"]
  /\ UNCHANGED <<synced, service, chainVars, entry, acts, next, sent, faultVars>>

(* sync_data returns: the record is on disk, and append returns.           *)
SyncLine(t) ==
  /\ step[t] = "sync"
  /\ synced' = Len(file)
  /\ prev' = Link(prev, entry[t])
  /\ Return(t)
  /\ UNCHANGED <<file, service, failed, entry, acts, next, historyVars, faultVars>>

(* The action goes to the MCP server.                                      *)
Act(t) ==
  /\ step[t] = "act"
  /\ sent' = sent \cup {entry[t]}
  /\ step' = [step EXCEPT ![t] = "idle"]
  /\ UNCHANGED <<logVars, service, chainVars, entry, acts, next, written, faultVars>>

-----------------------------------------------------------------------------
(* Faults.                                                                 *)

Fault == faults < MaxFaults /\ faults' = faults + 1

Torn(e) == [LineOf(prev, e) EXCEPT !.whole = FALSE]

(* What a write that fails has left of its line.                           *)
AppendFails(t) ==
  /\ Fault
  /\ \/ step[t] = "write" /\ file' \in {file, Append(file, Torn(entry[t]))}
     \/ step[t] = "sync" /\ UNCHANGED file
  /\ failed' = TRUE
  /\ lock' = Nobody
  /\ step' = [step EXCEPT ![t] = "idle"]
  /\ UNCHANGED <<synced, service, prev, entry, acts, next, historyVars, edited>>

Crash ==
  /\ service = "up" /\ Fault
  /\ service' = "down" /\ lock' = Nobody /\ Idle
  /\ file' \in {file} \cup {Append(file, Torn(entry[t])) : t \in {u \in Turn : step[u] = "write"}}
  /\ UNCHANGED <<synced, prev, failed, entry, acts, next, historyVars, edited>>

PowerLoss ==
  /\ Fault
  /\ service' = "down" /\ lock' = Nobody /\ Idle
  /\ \E k \in synced .. Len(file) :
       file' \in {SubSeq(file, 1, k)}
                   \cup {Append(SubSeq(file, 1, j - 1), [file[j] EXCEPT !.whole = FALSE]) :
                           j \in {k} \cap synced + 1 .. Len(file)}
  /\ synced' = Len(file')
  /\ UNCHANGED <<prev, failed, entry, acts, next, historyVars, edited>>

(* A line is removed, changed or moved, or the end is missing; or someone  *)
(* mends the end.                                                          *)
Edit ==
  /\ service # "up" /\ Fault
  /\ file' \in {RemoveAt(file, i) : i \in DOMAIN file}
                 \cup {[file EXCEPT ![i].entry = e] : i \in DOMAIN file, e \in Entry}
                 \cup {[file EXCEPT ![i] = file[i + 1], ![i + 1] = file[i]] :
                         i \in 1 .. Len(file) - 1}
                 \cup {SubSeq(file, 1, i) : i \in 0 .. Len(file)}
  /\ synced' = Len(file')
  /\ edited' = TRUE
  /\ service' = "down"
  /\ UNCHANGED <<chainVars, turnVars, historyVars>>

-----------------------------------------------------------------------------
Next ==
  \/ Open \/ Crash \/ PowerLoss \/ Edit
  \/ \E t \in Turn :
       \/ \E action \in BOOLEAN : Begin(t, action)
       \/ TakeChain(t) \/ WriteLine(t) \/ SyncLine(t) \/ Act(t) \/ AppendFails(t)

Spec == Init /\ [][Next]_vars

-----------------------------------------------------------------------------
(* Nothing reaches the engine that the log does not know about, also after *)
(* the power was lost: a record that preceded an action stays.             *)
ActedIsRecorded ==
  ~edited => sent \subseteq {file[i].entry : i \in {j \in DOMAIN file : file[j].whole}}

(* The appends of concurrent turns make one chain, and the service goes on *)
(* from its end; a torn line is never written behind.                      *)
ChainHolds ==
  service = "up" =>
    /\ \A i \in 1 .. Len(file) - 1 : file[i].whole
    /\ lock = Nobody /\ ~failed => Verifies(file) /\ prev = LastHash(file)

(* The log can be relied on: every action is in it, and what is in it is   *)
(* one chain the service goes on from (audit.rs:135-185, agent.rs:461).    *)
LogIsTrue == ActedIsRecorded /\ ChainHolds

(* A log that opens is the beginning of what was written: no line of it    *)
(* was removed from the middle, changed or moved, or is half there.        *)
OpensOnlyHistory ==
  [][service = "down" /\ service' = "up" =>
       Terminated(file) /\ IsPrefix(EntriesOf(file), written)]_vars
=============================================================================
