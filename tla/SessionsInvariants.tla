------------------------- MODULE SessionsInvariants -------------------------
(***************************************************************************)
(* What the chat service promises of its sessions.                         *)
(***************************************************************************)
EXTENDS Sessions

RunOf(i) == requests[runs[i].handler]
SessionOf(i) == lease[runs[i].handler]

(* Every variable has its type, and no session is stored twice.            *)
SessionsTypeOK ==
  /\ now \in 0 .. MaxTime
  /\ requests \in Seq(Requests) /\ Len(requests) <= MaxRequests
  /\ DOMAIN state = Handler /\ DOMAIN lease = Handler /\ DOMAIN answer = Handler
  /\ \A h \in Handler :
       /\ state[h] \in {"waiting", "running", "done", "dropped"}
       /\ lease[h] \in 0 .. Len(session)
       /\ Active(h) => lease[h] > 0
       /\ answer[h].by \in 0 .. Len(requests)
  /\ store \in [SessionId -> 0 .. Len(session)]
  /\ lastSeen \in [SessionId -> 0 .. MaxTime]
  /\ Cardinality(Stored) <= MaxSessions
  /\ \A o \in DOMAIN session :
       /\ session[o].turns \in 0 .. MaxSessionTurns
       /\ session[o].full \in BOOLEAN
       /\ Len(session[o].responses) <= Remembered

(* No two turns of one session id run at once, even when the session was   *)
(* evicted and made anew in between: a session in use stays in the store.  *)
OneTurnAtATime ==
  /\ \A h, g \in Handler :
       /\ state[h] = "running" /\ state[g] = "running"
       /\ requests[h].sid = requests[g].sid
       => h = g
  /\ \A h \in Handler : Active(h) => store[requests[h].sid] = lease[h]

(* In any minute a session starts no more turns than it may, whatever was  *)
(* dropped or failed in between.                                           *)
RateHolds ==
  \A i \in DOMAIN runs :
    Cardinality({j \in i .. Len(runs) :
                   SessionOf(j) = SessionOf(i) /\ runs[j].at - runs[i].at < Minute})
      <= TurnsPerMinute

(* Turns of a session follow one another, no faster than they may, through *)
(* evictions, dropped connections and failures.                            *)
TurnsAreOrderly == SessionsTypeOK /\ OneTurnAtATime /\ RateHolds

(* A request id runs once in a session, dropped connections included,      *)
(* until as many other ids as the session remembers have run in it.        *)
RunsOnce ==
  \A i, j \in DOMAIN runs :
    /\ i < j /\ SessionOf(i) = SessionOf(j)
    /\ RunOf(i).rid = RunOf(j).rid /\ RunOf(i).rid # NoId
    => Cardinality({RunOf(k).rid : k \in {k \in i + 1 .. j - 1 :
                      SessionOf(k) = SessionOf(i) /\ RunOf(k).rid # NoId}})
         >= Remembered

(* A retry is answered with the outcome of the very request it repeats, or *)
(* that it is unknown because that request's connection went away.         *)
ReplayIsOriginal ==
  \A h \in Handler :
    /\ answer[h].by # 0 =>
         /\ requests[answer[h].by] = requests[h]
         /\ answer[answer[h].by] = answer[h]
    /\ answer[h].status = "unknown" =>
         \E g \in Handler :
           requests[g] = requests[h] /\ lease[g] = lease[h] /\ state[g] = "dropped"

(* A client may retry: its request runs once, and the retry tells what     *)
(* became of it (http.rs:257-312).                                         *)
RetriesAreSafe == RunsOnce /\ ReplayIsOriginal

-----------------------------------------------------------------------------
(* Every request is answered unless its client leaves, although others     *)
(* hold the lock, are dropped with it, or fill the store.                  *)
EveryRequestEnds ==
  \A h \in 1 .. MaxRequests :
    (h \in Handler /\ Active(h)) ~> (h \in Handler /\ ~Active(h))

=============================================================================
