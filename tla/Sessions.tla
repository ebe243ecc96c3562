------------------------------ MODULE Sessions ------------------------------
(***************************************************************************)
(* The sessions of the chat service and the requests upon them             *)
(* (agent-service/src/http.rs). A request leases the session it names for  *)
(* as long as it lasts, waits for the session's lock, and is answered from *)
(* memory, refused, or runs a turn. Its connection may go away wherever it *)
(* awaits: the lock, or its turn. What a turn does is Turn.tla; here it    *)
(* ends, well or badly.                                                    *)
(*                                                                         *)
(* A session that is evicted and named again is a new one. The validation  *)
(* of a request comes before all this and is left out.                     *)
(***************************************************************************)
EXTENDS Integers, Sequences, FiniteSets

CONSTANTS
  SessionId, RequestId, Message,
  NoId,            \* a chat request without request_id
  Reads,           \* in place of a message: GET /sessions/{id}
  Requests,        \* the requests clients may make
  MaxSessions, IdleTtl, TurnsPerMinute, MaxSessionTurns,  \* SessionLimits
  Minute,          \* the length of a minute
  Remembered,      \* REMEMBERED_RESPONSES
  MaxRequests,     \* bound: requests ever made
  MaxTime          \* bound: the clock

Request == [sid : SessionId, rid : RequestId \cup {NoId},
            message : Message \cup {Reads}]

ASSUME SessionsAssumption ==
  /\ Requests \subseteq Request
  /\ NoId \notin RequestId /\ Reads \notin Message
  /\ {MaxSessions, IdleTtl, TurnsPerMinute, MaxSessionTurns, Minute,
      Remembered, MaxRequests, MaxTime} \subseteq Nat
  /\ MaxSessions > 0 /\ Remembered > 0

VARIABLES
  now,
  requests,   \* the requests so far; a handler is a place in this list
  state,      \* per handler: "waiting", "running", "done" or "dropped"
  lease,      \* per handler: the session it holds
  answer,     \* per handler: what it answered
  store,      \* per session id: the session in memory, 0 for none
  lastSeen,   \* per session id
  session,    \* the sessions ever made, the evicted ones included
  runs        \* history: the turns started

clientVars == <<requests, lease>>
handlerVars == <<state, answer>>
storeVars == <<store, lastSeen>>
vars == <<now, clientVars, handlerVars, storeVars, session, runs>>

Handler == DOMAIN requests

NewSession == [turns |-> 0, full |-> FALSE, times |-> <<>>, responses |-> <<>>]

(* What a handler answers: the outcome of a turn, its own or the one it    *)
(* replays, by the handler that ran it; or a refusal.                      *)
Outcome(status, by) == [status |-> status, by |-> by]
Refusal(status) == Outcome(status, 0)
Unanswered == Refusal("none")

Init ==
  /\ now = 0
  /\ requests = <<>> /\ state = <<>> /\ lease = <<>> /\ answer = <<>>
  /\ store = [sid \in SessionId |-> 0]
  /\ lastSeen = [sid \in SessionId |-> 0]
  /\ session = <<>>
  /\ runs = <<>>

-----------------------------------------------------------------------------
(* The store.                                                              *)

Stored == {sid \in SessionId : store[sid] # 0}
Active(h) == state[h] \in {"waiting", "running"}
Leased(sid) == \E h \in Handler : Active(h) /\ lease[h] = store[sid]
Unleased_Waiting(sid) ==
  \A h \in Handler : lease[h] = store[sid] => state[h] # "waiting"
Unleased(sid) == ~Leased(sid)

Idle == {sid \in Stored : now - lastSeen[sid] >= IdleTtl /\ Unleased(sid)}
Oldest ==
  {sid \in Stored : /\ Unleased(sid)
                    /\ \A other \in Stored :
                         Unleased(other) => lastSeen[sid] <= lastSeen[other]}

HasRoom_OffByOne == Cardinality(Stored) <= MaxSessions
HasRoom == Cardinality(Stored) < MaxSessions

(* What makes room for one more session: nothing, the idle ones going, or  *)
(* the least recently used one.                                            *)
Evictions ==
  IF HasRoom THEN {{}}
  ELSE IF Idle # {} THEN {Idle}
  ELSE {{sid} : sid \in Oldest}

-----------------------------------------------------------------------------
(* A request arrives.                                                      *)

Ask(r, holds, st, a) ==
  /\ requests' = Append(requests, r)
  /\ lease' = Append(lease, holds)
  /\ state' = Append(state, st)
  /\ answer' = Append(answer, a)
  /\ UNCHANGED <<now, runs>>

Join(r) ==
  /\ store[r.sid] # 0
  /\ lastSeen' = [lastSeen EXCEPT ![r.sid] = now]
  /\ Ask(r, store[r.sid], "waiting", Unanswered)
  /\ UNCHANGED <<store, session>>

(* A read creates no session.                                              *)
ReadMissing(r) ==
  /\ store[r.sid] = 0 /\ r.message = Reads
  /\ Ask(r, 0, "done", Refusal("missing"))
  /\ UNCHANGED <<storeVars, session>>

Create(r) ==
  /\ store[r.sid] = 0 /\ r.message # Reads
  /\ \E evicted \in Evictions :
       LET Entry(entries, mine) ==
             [sid \in SessionId |-> IF sid = r.sid THEN mine
                                   ELSE IF sid \in evicted THEN 0 ELSE entries[sid]]
       IN /\ store' = Entry(store, Len(session) + 1)
          /\ lastSeen' = Entry(lastSeen, now)
  /\ session' = Append(session, NewSession)
  /\ Ask(r, Len(session) + 1, "waiting", Unanswered)

EverySessionBusy(r) ==
  /\ store[r.sid] = 0 /\ r.message # Reads
  /\ Evictions = {}
  /\ Ask(r, 0, "done", Refusal("busy"))
  /\ UNCHANGED <<storeVars, session>>

Arrive(r) ==
  /\ Len(requests) < MaxRequests
  /\ Join(r) \/ ReadMissing(r) \/ Create(r) \/ EverySessionBusy(r)

-----------------------------------------------------------------------------
(* It takes the lock.                                                      *)

LockFree_Never(o) ==
  \A h \in Handler : lease[h] = o => state[h] \notin {"running", "dropped"}
LockFree(o) == \A h \in Handler : lease[h] = o => state[h] # "running"

Enters(h) == state[h] = "waiting" /\ LockFree(lease[h])

(* Where the outcome of a request id is remembered, if it is.              *)
Earlier(s, rid) == {i \in DOMAIN s.responses : s.responses[i].rid = rid}

Old_TooSoon(t) == now - t >= Minute - 1
Old(t) == now - t >= Minute

(* The turns of the last minute: the old ones leave at the front.          *)
Recent(s) ==
  LET first == CHOOSE n \in 1 .. Len(s.times) + 1 :
                 /\ \A i \in 1 .. n - 1 : Old(s.times[i])
                 /\ n <= Len(s.times) => ~Old(s.times[n])
  IN SubSeq(s.times, first, Len(s.times))

Full(s) == s.full \/ s.turns >= MaxSessionTurns

Reply(h, a) ==
  /\ state' = [state EXCEPT ![h] = "done"]
  /\ answer' = [answer EXCEPT ![h] = a]

Show(h) ==
  /\ Enters(h) /\ requests[h].message = Reads
  /\ Reply(h, Refusal("shown"))
  /\ UNCHANGED <<now, clientVars, storeVars, session, runs>>

Replays_AnyMessage(e, r) == TRUE
Replays(e, r) == e.message = r.message

(* A remembered request id: the first answer to it, or a conflict.         *)
Replay(h) ==
  LET r == requests[h]
      s == session[lease[h]]
  IN /\ Enters(h) /\ r.message # Reads
     /\ r.rid # NoId
     /\ \E i \in Earlier(s, r.rid) :
          /\ \A j \in Earlier(s, r.rid) : i <= j
          /\ Reply(h, IF Replays(s.responses[i], r) THEN s.responses[i].answer
                      ELSE Refusal("conflict"))
     /\ UNCHANGED <<now, clientVars, storeVars, session, runs>>

IsNew(h) ==
  LET r == requests[h]
  IN /\ Enters(h) /\ r.message # Reads
     /\ r.rid = NoId \/ Earlier(session[lease[h]], r.rid) = {}

RefuseFull(h) ==
  /\ IsNew(h)
  /\ Full(session[lease[h]])
  /\ Reply(h, Refusal("full"))
  /\ UNCHANGED <<now, clientVars, storeVars, session, runs>>

RefuseRate(h) ==
  LET s == session[lease[h]]
  IN /\ IsNew(h)
     /\ ~Full(s)
     /\ Len(Recent(s)) >= TurnsPerMinute
     /\ session' = [session EXCEPT ![lease[h]].times = Recent(s)]
     /\ Reply(h, Refusal("limited"))
     /\ UNCHANGED <<now, clientVars, storeVars, runs>>

(* The outcome of a request id is reserved before its turn, which counts   *)
(* itself when it begins.                                                  *)
Reserve_Late(responses, r) == responses
Reserve(responses, r) ==
  IF r.rid = NoId THEN responses
  ELSE Append(IF Len(responses) >= Remembered THEN Tail(responses) ELSE responses,
              [rid |-> r.rid, message |-> r.message,
               answer |-> Refusal("unknown")])

StartTurn(h) ==
  LET s == session[lease[h]]
  IN /\ IsNew(h)
     /\ ~Full(s)
     /\ Len(Recent(s)) < TurnsPerMinute
     /\ session' = [session EXCEPT ![lease[h]] =
                      [s EXCEPT !.times = Append(Recent(s), now),
                                !.responses = Reserve(@, requests[h]),
                                !.turns = @ + 1]]
     /\ state' = [state EXCEPT ![h] = "running"]
     /\ runs' = Append(runs, [handler |-> h, at |-> now])
     /\ UNCHANGED <<now, clientVars, answer, storeVars>>

-----------------------------------------------------------------------------
(* A request ends.                                                         *)

(* The turn's outcome takes the place of its reservation.                  *)
Remember(responses, rid, a) ==
  [i \in DOMAIN responses |->
     IF responses[i].rid = rid /\ rid # NoId
     THEN [responses[i] EXCEPT !.answer = a]
     ELSE responses[i]]

EndTurn(h, status, full) ==
  LET a == Outcome(status, h)
  IN /\ state[h] = "running"
     /\ session' = [session EXCEPT
                      ![lease[h]].responses = Remember(@, requests[h].rid, a),
                      ![lease[h]].full = full]
     /\ Reply(h, a)
     /\ UNCHANGED <<now, clientVars, storeVars, runs>>

(* The connection goes away: lock and lease with it. What a turn has added *)
(* to the session stays, so the transcript may be full by now.             *)
Drop(h) ==
  /\ Active(h)
  /\ state' = [state EXCEPT ![h] = "dropped"]
  /\ IF state[h] = "running"
     THEN \E full \in BOOLEAN : session' = [session EXCEPT ![lease[h]].full = full]
     ELSE UNCHANGED session
  /\ UNCHANGED <<now, clientVars, answer, storeVars, runs>>

Tick ==
  /\ now < MaxTime
  /\ now' = now + 1
  /\ UNCHANGED <<clientVars, handlerVars, storeVars, session, runs>>

-----------------------------------------------------------------------------
Serve(h) ==
  \/ Show(h) \/ Replay(h) \/ RefuseFull(h) \/ RefuseRate(h) \/ StartTurn(h)
  \/ \E status \in {"ok", "failed"}, full \in BOOLEAN : EndTurn(h, status, full)

Next ==
  \/ \E r \in Requests : Arrive(r)
  \/ \E h \in Handler : Serve(h) \/ Drop(h)
  \/ Tick

(* A turn ends (TurnEnds of TurnInvariants.tla), and the lock is fair.     *)
Spec ==
  Init /\ [][Next]_vars
    /\ \A h \in 1 .. MaxRequests : WF_vars(h \in Handler /\ Serve(h))
=============================================================================
