------------------------------ MODULE MCEngine ------------------------------
(***************************************************************************)
(* Deployments for the model checker.                                      *)
(***************************************************************************)
EXTENDS EngineInvariants

(* The journal flushed per batch, and the process crashing anywhere.       *)
CrashSetups ==
  {[start |-> start, fsync |-> FALSE, entries |-> FALSE, bufferPieces |-> 12,
    commands |-> 4, crashes |-> 3, powerLosses |-> 0, errors |-> 0] :
     start \in {"fresh", "journal", "legacy"}}

(* ENGINE_JOURNAL_FSYNC where a synced file has its entry on disk, a buffer*)
(* that spills inside a batch, before or after the half of a line, power   *)
(* losses, and one write or sync that fails.                               *)
Powered(start, pieces, restarts) ==
  [start |-> start, fsync |-> TRUE, entries |-> TRUE, bufferPieces |-> pieces,
   commands |-> 4, crashes |-> restarts, powerLosses |-> 2, errors |-> 1]
PowerSetups == {Powered("fresh", 4, 2), Powered("journal", 5, 2), Powered("legacy", 4, 2)}

AllSetups == CrashSetups \cup PowerSetups

(* One power loss, from an empty journal.                                  *)
SyncedJournal ==
  {[start |-> "journal", fsync |-> TRUE, entries |-> TRUE, bufferPieces |-> 12,
    commands |-> 3, crashes |-> 1, powerLosses |-> 1, errors |-> 0]}
=============================================================================
