--------------------------- MODULE SessionsProofs ---------------------------
(***************************************************************************)
(* What the chat service promises of its sessions, for every set of        *)
(* session and request ids, every limit and any number of requests: one    *)
(* turn at a time in a session, no more turns in a minute than it may      *)
(* start, and a request id that runs once and is answered with its own     *)
(* outcome.                                                                *)
(***************************************************************************)
EXTENDS SessionsInvariants, SequenceLemmas, FiniteSetTheorems

-----------------------------------------------------------------------------
(* The inductive invariant.                                                *)

Status == {"waiting", "running", "done", "dropped"}
AnswerStatus ==
  {"none", "missing", "busy", "shown", "conflict", "full", "limited", "unknown",
   "ok", "failed"}
AnswerType == [status : AnswerStatus, by : Nat]
Response == [rid : RequestId, message : Message, answer : AnswerType]
SessionType ==
  [turns : Nat, full : BOOLEAN, times : Seq(Nat), responses : Seq(Response)]

ListsTyped ==
  /\ now \in 0 .. MaxTime
  /\ requests \in Seq(Requests) /\ Len(requests) <= MaxRequests
  /\ state \in Seq(Status) /\ Len(state) = Len(requests)
  /\ lease \in Seq(Nat) /\ Len(lease) = Len(requests)
  /\ answer \in Seq(AnswerType) /\ Len(answer) = Len(requests)
  /\ session \in Seq(SessionType)
  /\ runs \in Seq([handler : Nat, at : Nat])

(* No session is stored under two names, and there are no more than may be *)
(* in memory.                                                              *)
StoreHolds ==
  /\ store \in [SessionId -> 0 .. Len(session)]
  /\ lastSeen \in [SessionId -> 0 .. MaxTime]
  /\ \A s, t \in SessionId : store[s] = store[t] /\ store[s] # 0 => s = t
  /\ IsFiniteSet(Stored) /\ Cardinality(Stored) <= MaxSessions

(* A session is leased under one name; one in use is in the store under    *)
(* it, and has no more than one turn.                                      *)
LeasesHold ==
  /\ \A h \in Handler :
       /\ lease[h] <= Len(session) /\ answer[h].by <= Len(requests)
       /\ Active(h) => lease[h] > 0 /\ store[requests[h].sid] = lease[h]
       /\ Active(h) => answer[h] = Unanswered
       /\ state[h] = "running" => requests[h].message # Reads
       /\ \A sid \in SessionId :
            lease[h] = store[sid] /\ lease[h] # 0 => requests[h].sid = sid
  /\ \A h, g \in Handler :
       /\ lease[h] = lease[g] /\ lease[h] # 0 => requests[h].sid = requests[g].sid
       /\ state[h] = "running" /\ state[g] = "running" /\ lease[h] = lease[g] => h = g

SessionsHold ==
  \A o \in DOMAIN session :
    session[o].turns <= MaxSessionTurns /\ Len(session[o].responses) <= Remembered

RunsHold ==
  \A i \in DOMAIN runs : runs[i].handler \in Handler /\ SessionOf(i) > 0

RunsOf(o) == {i \in DOMAIN runs : SessionOf(i) = o}
IdRunsOf(o) == {i \in RunsOf(o) : RunOf(i).rid # NoId}
Since(S, i) == {j \in S : j >= i}

(* A session's times are those of its last turns, and the ones it has      *)
(* forgotten are old.                                                      *)
TimesMatch(o, times) ==
  \A i \in RunsOf(o) :
    LET later == Cardinality(Since(RunsOf(o), i))
    IN IF later <= Len(times) THEN times[Len(times) - later + 1] = runs[i].at
       ELSE Old(runs[i].at)

TimesTell == \A o \in DOMAIN session : TimesMatch(o, session[o].times)

(* What it remembers are the last request ids that ran, each one once.     *)
ResponsesMatch(o, responses) ==
  /\ \A i \in IdRunsOf(o) :
       LET later == Cardinality(Since(IdRunsOf(o), i))
       IN IF later <= Len(responses)
          THEN responses[Len(responses) - later + 1].rid = RunOf(i).rid
          ELSE Len(responses) = Remembered
  /\ \A p \in DOMAIN responses : \E i \in IdRunsOf(o) :
       Cardinality(Since(IdRunsOf(o), i)) = Len(responses) - p + 1
  /\ \A p, q \in DOMAIN responses : responses[p].rid = responses[q].rid => p = q

ResponsesTell == \A o \in DOMAIN session : ResponsesMatch(o, session[o].responses)

(* What it remembers of a request id is what its request was answered, or  *)
(* that the outcome is unknown, while it runs or once it was dropped.      *)
IsOutcome(response, o, g) ==
  /\ lease[g] = o /\ requests[g].rid = response.rid
  /\ requests[g].message = response.message
  /\ \/ response.answer = Refusal("unknown") /\ state[g] \in {"running", "dropped"}
     \/ /\ response.answer = answer[g] /\ answer[g].by = g /\ state[g] = "done"
        /\ answer[g].status \in {"ok", "failed"}

AnswersKept ==
  /\ \A o \in DOMAIN session : \A p \in DOMAIN session[o].responses :
       \E g \in Handler : IsOutcome(session[o].responses[p], o, g)
  /\ \A h \in Handler :
       state[h] = "running" /\ requests[h].rid # NoId =>
         LET responses == session[lease[h]].responses
         IN responses # <<>> /\ IsOutcome(responses[Len(responses)], lease[h], h)

SessionsInv ==
  /\ ListsTyped /\ StoreHolds /\ LeasesHold /\ SessionsHold /\ RunsHold
  /\ TimesTell /\ ResponsesTell /\ AnswersKept

-----------------------------------------------------------------------------
(* The lists, and what the history says.                                   *)

LEMMA Assumed ==
  /\ Requests \subseteq Request /\ NoId \notin RequestId /\ Reads \notin Message
  /\ MaxSessions \in Nat /\ IdleTtl \in Nat /\ TurnsPerMinute \in Nat
  /\ MaxSessionTurns \in Nat /\ Minute \in Nat /\ Remembered \in Nat
  /\ MaxRequests \in Nat /\ MaxTime \in Nat /\ MaxSessions > 0 /\ Remembered > 0
  BY SessionsAssumption

LEMMA ListFacts ==
  ASSUME ListsTyped
  PROVE  /\ Len(requests) \in Nat /\ Handler = 1 .. Len(requests)
         /\ DOMAIN state = Handler /\ DOMAIN lease = Handler /\ DOMAIN answer = Handler
         /\ \A h \in Handler :
              /\ requests[h] \in Request /\ state[h] \in Status /\ lease[h] \in Nat
              /\ answer[h] \in AnswerType
         /\ Len(session) \in Nat /\ DOMAIN session = 1 .. Len(session)
         /\ \A o \in DOMAIN session : session[o] \in SessionType
         /\ Len(runs) \in Nat /\ DOMAIN runs = 1 .. Len(runs)
         /\ \A i \in DOMAIN runs : runs[i].handler \in Nat /\ runs[i].at \in Nat
         /\ now \in Nat
  <1>1. /\ requests \in Seq(Requests) /\ state \in Seq(Status) /\ lease \in Seq(Nat)
        /\ answer \in Seq(AnswerType) /\ session \in Seq(SessionType)
        /\ runs \in Seq([handler : Nat, at : Nat]) /\ now \in Nat
        /\ Len(state) = Len(requests) /\ Len(lease) = Len(requests)
        /\ Len(answer) = Len(requests)
    BY Assumed DEF ListsTyped
  <1>2. /\ Len(requests) \in Nat /\ Handler = 1 .. Len(requests)
        /\ DOMAIN state = Handler /\ DOMAIN lease = Handler /\ DOMAIN answer = Handler
        /\ Len(session) \in Nat /\ DOMAIN session = 1 .. Len(session)
        /\ Len(runs) \in Nat /\ DOMAIN runs = 1 .. Len(runs)
    BY <1>1, LenProperties DEF Handler
  <1>3. \A h \in Handler :
          /\ requests[h] \in Request /\ state[h] \in Status /\ lease[h] \in Nat
          /\ answer[h] \in AnswerType
    BY <1>1, <1>2, ElementOfSeq, Assumed
  <1>4. \A o \in DOMAIN session : session[o] \in SessionType
    BY <1>1, <1>2, ElementOfSeq
  <1>5. \A i \in DOMAIN runs : runs[i] \in [handler : Nat, at : Nat]
    BY <1>1, <1>2, ElementOfSeq
  <1>6. QED
    BY <1>1, <1>2, <1>3, <1>4, <1>5

LEMMA SessionFacts ==
  ASSUME NEW s \in SessionType
  PROVE  /\ s.turns \in Nat /\ s.full \in BOOLEAN
         /\ s.times \in Seq(Nat) /\ Len(s.times) \in Nat /\ DOMAIN s.times = 1 .. Len(s.times)
         /\ \A i \in DOMAIN s.times : s.times[i] \in Nat
         /\ s.responses \in Seq(Response) /\ Len(s.responses) \in Nat
         /\ DOMAIN s.responses = 1 .. Len(s.responses)
         /\ \A p \in DOMAIN s.responses : s.responses[p] \in Response
  <1>1. s.turns \in Nat /\ s.full \in BOOLEAN /\ s.times \in Seq(Nat)
        /\ s.responses \in Seq(Response)
    BY DEF SessionType
  <1>2. QED
    BY <1>1, LenProperties, ElementOfSeq

(* The runs that came before are those of the same requests and sessions.  *)
LEMMA RunsStay ==
  ASSUME ListsTyped, RunsHold,
         \A h \in Handler : requests'[h] = requests[h] /\ lease'[h] = lease[h],
         \A i \in DOMAIN runs : i \in DOMAIN runs' /\ runs'[i] = runs[i]
  PROVE  \A i \in DOMAIN runs :
           RunOf(i)' = RunOf(i) /\ SessionOf(i)' = SessionOf(i)
  BY DEF RunsHold, RunOf, SessionOf

LEMMA SameRuns ==
  ASSUME ListsTyped, RunsHold, UNCHANGED runs,
         \A h \in Handler : requests'[h] = requests[h] /\ lease'[h] = lease[h]
  PROVE  \A o : RunsOf(o)' = RunsOf(o) /\ IdRunsOf(o)' = IdRunsOf(o)
  BY RunsStay DEF RunsOf, IdRunsOf

LEMMA RunsOfFacts ==
  ASSUME ListsTyped, NEW o
  PROVE  RunsOf(o) \subseteq 1 .. Len(runs) /\ IdRunsOf(o) \subseteq RunsOf(o)
  BY ListFacts DEF RunsOf, IdRunsOf

LEMMA SinceFacts ==
  ASSUME NEW N \in Nat, NEW S, S \subseteq 1 .. N
  PROVE  /\ \A i : IsFiniteSet(Since(S, i)) /\ Cardinality(Since(S, i)) \in Nat
         /\ \A i \in S : Cardinality(Since(S, i)) >= 1
         /\ \A i, k \in S : i <= k => Cardinality(Since(S, k)) <= Cardinality(Since(S, i))
  <1>1. ASSUME NEW i
        PROVE  IsFiniteSet(Since(S, i)) /\ Cardinality(Since(S, i)) \in Nat
    <2>1. IsFiniteSet(1 .. N) /\ Since(S, i) \in SUBSET (1 .. N)
      <3>1. IsFiniteSet(1 .. N)
        BY FS_Interval
      <3>2. Since(S, i) \subseteq 1 .. N
        BY DEF Since
      <3>3. QED
        BY <3>1, <3>2
    <2> DEFINE T == Since(S, i)
    <2> HIDE DEF T
    <2>2. IsFiniteSet(T)
      BY <2>1, FS_Subset DEF T
    <2>3. Cardinality(T) \in Nat
      BY <2>2, FS_CardinalityType
    <2>4. QED
      BY <2>2, <2>3 DEF T
  <1>2. ASSUME NEW i \in S
        PROVE  Cardinality(Since(S, i)) >= 1
    <2>1. i \in Since(S, i)
      BY DEF Since
    <2>2. QED
      BY <1>1, <2>1, FS_EmptySet
  <1>3. ASSUME NEW i \in S, NEW k \in S, i <= k
        PROVE  Cardinality(Since(S, k)) <= Cardinality(Since(S, i))
    <2> DEFINE T == Since(S, i)
               U == Since(S, k)
    <2>1. U \in SUBSET T
      <3>1. \A j \in S : j >= k => j >= i
        BY <1>3
      <3>2. U \subseteq T
        BY <3>1 DEF Since
      <3>3. QED
        BY <3>2
    <2>2. IsFiniteSet(T)
      BY <1>1
    <2> HIDE DEF T, U
    <2>3. Cardinality(U) <= Cardinality(T)
      BY <2>1, <2>2, FS_Subset
    <2>4. QED
      BY <2>3 DEF T, U
  <1>4. QED
    BY <1>1, <1>2, <1>3

(* One more run makes every earlier one a run further away.                *)
LEMMA SinceGrows ==
  ASSUME NEW M \in Nat, M > 0, NEW S, S \subseteq 1 .. M - 1
  PROVE  /\ \A i \in S : Cardinality(Since(S \cup {M}, i)) = Cardinality(Since(S, i)) + 1
         /\ Cardinality(Since(S \cup {M}, M)) = 1
  <1>0. M - 1 \in Nat
    OBVIOUS
  <1>1. ASSUME NEW i \in S
        PROVE  Cardinality(Since(S \cup {M}, i)) = Cardinality(Since(S, i)) + 1
    <2>1. Since(S \cup {M}, i) = Since(S, i) \cup {M} /\ M \notin Since(S, i)
      BY DEF Since
    <2> DEFINE T == Since(S, i)
    <2>2. IsFiniteSet(T)
      BY <1>0, SinceFacts
    <2> HIDE DEF T
    <2>3. M \notin T => Cardinality(T \cup {M}) = Cardinality(T) + 1
      BY <2>2, FS_AddElement
    <2>4. QED
      BY <2>1, <2>3 DEF T
  <1>2. Since(S \cup {M}, M) = {M}
    <2>1. M >= M /\ \A j \in S : ~(j >= M)
      OBVIOUS
    <2>2. QED
      BY <2>1 DEF Since
  <1>3. QED
    BY <1>1, <1>2, FS_Singleton

-----------------------------------------------------------------------------
(* A request arrives.                                                      *)

LEMMA SessionsInit == Init => SessionsInv
  <1> SUFFICES ASSUME Init PROVE SessionsInv
    OBVIOUS
  <1>1. ListsTyped
    BY EmptySeq, Assumed DEF Init, ListsTyped
  <1>2. StoreHolds
    <2>1. Stored = {}
      BY DEF Init, Stored
    <2>2. IsFiniteSet(Stored) /\ Cardinality(Stored) <= MaxSessions
      BY <2>1, FS_EmptySet, Assumed
    <2>3. QED
      BY <2>2, Assumed DEF Init, StoreHolds
  <1>3. LeasesHold /\ SessionsHold /\ RunsHold
    BY DEF Init, LeasesHold, SessionsHold, RunsHold, Handler
  <1>4. TimesTell /\ ResponsesTell /\ AnswersKept
    BY DEF Init, TimesTell, ResponsesTell, AnswersKept, Handler
  <1>5. QED
    BY <1>1, <1>2, <1>3, <1>4 DEF SessionsInv

LEMMA AskFacts ==
  ASSUME ListsTyped, NEW r \in Requests, NEW holds \in Nat, NEW st \in Status,
         NEW a \in AnswerType, Ask(r, holds, st, a), Len(requests) < MaxRequests
  PROVE  LET n == Len(requests) + 1
         IN /\ requests' \in Seq(Requests) /\ state' \in Seq(Status)
            /\ lease' \in Seq(Nat) /\ answer' \in Seq(AnswerType)
            /\ Len(requests') = n /\ Len(state') = n /\ Len(lease') = n /\ Len(answer') = n
            /\ n <= MaxRequests /\ n \in Nat
            /\ Handler' = 1 .. n /\ Handler' = Handler \cup {n} /\ n \notin Handler
            /\ requests'[n] = r /\ lease'[n] = holds /\ state'[n] = st /\ answer'[n] = a
            /\ \A h \in Handler :
                 /\ requests'[h] = requests[h] /\ lease'[h] = lease[h]
                 /\ state'[h] = state[h] /\ answer'[h] = answer[h]
  <1>1. /\ requests \in Seq(Requests) /\ state \in Seq(Status) /\ lease \in Seq(Nat)
        /\ answer \in Seq(AnswerType)
        /\ Len(state) = Len(requests) /\ Len(lease) = Len(requests)
        /\ Len(answer) = Len(requests)
    BY DEF ListsTyped
  <1>2. /\ requests' = Append(requests, r) /\ lease' = Append(lease, holds)
        /\ state' = Append(state, st) /\ answer' = Append(answer, a)
    BY DEF Ask
  <1>3. Len(requests) \in Nat /\ Handler = 1 .. Len(requests)
    BY ListFacts
  <1>4. /\ requests' \in Seq(Requests) /\ Len(requests') = Len(requests) + 1
        /\ DOMAIN requests' = 1 .. Len(requests) + 1
        /\ requests'[Len(requests) + 1] = r
        /\ \A h \in 1 .. Len(requests) : requests'[h] = requests[h]
    BY <1>1, <1>2, AppendFacts
  <1>5. /\ lease' \in Seq(Nat) /\ Len(lease') = Len(lease) + 1
        /\ lease'[Len(lease) + 1] = holds
        /\ \A h \in 1 .. Len(lease) : lease'[h] = lease[h]
    BY <1>1, <1>2, AppendFacts
  <1>6. /\ state' \in Seq(Status) /\ Len(state') = Len(state) + 1
        /\ state'[Len(state) + 1] = st
        /\ \A h \in 1 .. Len(state) : state'[h] = state[h]
    BY <1>1, <1>2, AppendFacts
  <1>7. /\ answer' \in Seq(AnswerType) /\ Len(answer') = Len(answer) + 1
        /\ answer'[Len(answer) + 1] = a
        /\ \A h \in 1 .. Len(answer) : answer'[h] = answer[h]
    BY <1>1, <1>2, AppendFacts
  <1>8. /\ Len(requests) + 1 <= MaxRequests /\ Len(requests) + 1 \in Nat
        /\ Handler' = 1 .. Len(requests) + 1
        /\ Handler' = Handler \cup {Len(requests) + 1} /\ Len(requests) + 1 \notin Handler
    BY <1>3, <1>4, Assumed DEF Handler
  <1>9. QED
    BY <1>1, <1>3, <1>4, <1>5, <1>6, <1>7, <1>8

(* What a request that arrives does to the store: it finds its session,    *)
(* makes it, or gets none.                                                 *)
Placed(r, holds, st) ==
  /\ StoreHolds'
  /\ \A h \in Handler : Active(h) => store'[requests[h].sid] = lease[h]
  /\ \A sid \in SessionId :
       store'[sid] \in {0, store[sid]} \/ (sid = r.sid /\ store'[sid] = holds)
  /\ \/ holds = 0 /\ st = "done" /\ UNCHANGED session
     \/ /\ holds > 0 /\ st = "waiting" /\ store'[r.sid] = holds
        /\ \/ holds = store[r.sid] /\ UNCHANGED session
           \/ holds = Len(session) + 1 /\ session' = Append(session, NewSession)

LEMMA ArrivalHolds ==
  ASSUME SessionsInv, NEW r \in Requests, NEW holds \in Nat, NEW st,
         NEW a \in AnswerType, a.by = 0, st = "waiting" => a = Unanswered,
         Len(requests) < MaxRequests,
         Ask(r, holds, st, a), Placed(r, holds, st)
  PROVE  SessionsInv'
  <1> USE DEF SessionsInv
  <1> DEFINE n == Len(requests) + 1
  <1>1. st \in {"waiting", "done"} /\ st \in Status
    BY DEF Placed, Status
  <1>2. /\ requests' \in Seq(Requests) /\ state' \in Seq(Status)
        /\ lease' \in Seq(Nat) /\ answer' \in Seq(AnswerType)
        /\ Len(requests') = n /\ Len(state') = n /\ Len(lease') = n /\ Len(answer') = n
        /\ n <= MaxRequests /\ n \in Nat
        /\ Handler' = 1 .. n /\ Handler' = Handler \cup {n} /\ n \notin Handler
        /\ requests'[n] = r /\ lease'[n] = holds /\ state'[n] = st /\ answer'[n] = a
        /\ \A h \in Handler :
             /\ requests'[h] = requests[h] /\ lease'[h] = lease[h]
             /\ state'[h] = state[h] /\ answer'[h] = answer[h]
    BY <1>1, AskFacts
  <1>a. /\ \A h \in Handler' : h \in Handler \/ h = n
        /\ requests'[n] = r /\ lease'[n] = holds /\ state'[n] = st /\ answer'[n] = a
        /\ \A h \in Handler :
             /\ h \in Handler' /\ h # n
             /\ requests'[h] = requests[h] /\ lease'[h] = lease[h]
             /\ state'[h] = state[h] /\ answer'[h] = answer[h]
    BY <1>2
  <1>3. UNCHANGED <<now, runs>>
    BY DEF Ask
  <1>4. /\ session' \in Seq(SessionType) /\ Len(session') >= Len(session)
        /\ Len(session) \in Nat /\ Len(session') \in Nat /\ holds <= Len(session')
        /\ \A o \in DOMAIN session' :
             \/ o \in DOMAIN session /\ session'[o] = session[o]
             \/ o = Len(session) + 1 /\ session'[o] = NewSession
    <2>1. session \in Seq(SessionType) /\ Len(session) \in Nat
          /\ DOMAIN session = 1 .. Len(session)
      BY ListFacts DEF ListsTyped
    <2>2. store[r.sid] <= Len(session)
      BY <2>1, Assumed DEF StoreHolds, Request
    <2>3. CASE UNCHANGED session /\ (holds = 0 \/ holds = store[r.sid])
      BY <2>1, <2>2, <2>3
    <2>4. CASE holds = Len(session) + 1 /\ session' = Append(session, NewSession)
      <3>1. NewSession \in SessionType
        BY EmptySeq DEF NewSession, SessionType
      <3>2. /\ session' \in Seq(SessionType) /\ Len(session') = Len(session) + 1
            /\ DOMAIN session' = 1 .. Len(session) + 1
            /\ session'[Len(session) + 1] = NewSession
            /\ \A o \in 1 .. Len(session) : session'[o] = session[o]
        BY <2>1, <2>4, <3>1, AppendFacts
      <3>3. QED
        BY <2>1, <2>4, <3>2
    <2>5. QED
      BY <2>3, <2>4 DEF Placed
  <1>b. Len(session) \in Nat
    BY <1>4
  <1> HIDE DEF n
  <1>5. ListsTyped'
    BY <1>2, <1>3, <1>4 DEF ListsTyped
  <1>6. StoreHolds'
    BY DEF Placed
  <1>7. \A h \in Handler : lease[h] <= Len(session) /\ lease[h] \in Nat
                           /\ requests[h].sid \in SessionId
    BY ListFacts DEF LeasesHold, Request
  <1>8. r.sid \in SessionId
    BY Assumed DEF Request
  <1>9. \A h \in Handler' : Active(h)' <=> IF h = n THEN st = "waiting" ELSE Active(h)
    BY <1>1, <1>a DEF Active
  <1>10. holds = 0 \/ holds = store[r.sid] \/ holds = Len(session) + 1
    BY DEF Placed
  <1>11. LeasesHold'
    <2>1. \A h \in Handler' : lease'[h] <= Len(session') /\ answer'[h].by <= Len(requests')
      <3>1. ASSUME NEW h \in Handler
            PROVE  lease'[h] <= Len(session') /\ answer'[h].by <= Len(requests')
        <4>1. lease[h] <= Len(session) /\ answer[h].by <= Len(requests) /\ answer[h].by \in Nat
          BY ListFacts DEF LeasesHold, AnswerType
        <4>2. QED
          BY <1>2, <1>4, <1>7, <4>1 DEF n
      <3>2. holds <= Len(session') /\ a.by <= Len(requests')
        BY <1>2, <1>4
      <3>3. QED
        BY <1>a, <3>1, <3>2
    <2>2. \A h \in Handler' : Active(h)' =>
            lease'[h] > 0 /\ store'[requests'[h].sid] = lease'[h] /\ answer'[h] = Unanswered
      BY <1>1, <1>a, <1>9 DEF LeasesHold, Placed
    <2>3. \A h \in Handler' : state'[h] = "running" => requests'[h].message # Reads
      BY <1>1, <1>a DEF LeasesHold
    <2>4. ASSUME NEW h \in Handler', NEW sid \in SessionId,
                 lease'[h] = store'[sid], lease'[h] # 0
          PROVE  requests'[h].sid = sid
      <3>1. CASE h = n
        BY <1>a, <1>6, <1>8, <2>4, <3>1 DEF StoreHolds, Placed
      <3>2. CASE h # n
        <4>1. h \in Handler /\ lease'[h] = lease[h] /\ requests'[h] = requests[h]
              /\ lease[h] <= Len(session) /\ lease[h] \in Nat
          BY <1>a, <1>7, <3>2
        <4>a. \A x \in SessionId : lease[h] = store[x] /\ lease[h] # 0 => requests[h].sid = x
          BY <4>1 DEF LeasesHold
        <4>2. CASE store'[sid] = store[sid]
          BY <2>4, <4>1, <4>2, <4>a
        <4>3. CASE sid = r.sid /\ store'[sid] = holds
          <5>1. holds = lease[h] /\ holds # 0
            BY <2>4, <4>1, <4>3
          <5>2. holds # Len(session) + 1
            BY <1>b, <4>1, <5>1
          <5>3. holds = store[r.sid]
            BY <1>10, <5>1, <5>2
          <5>4. QED
            BY <1>8, <4>1, <4>3, <4>a, <5>1, <5>3
        <4>4. QED
          BY <2>4, <4>1, <4>2, <4>3 DEF Placed
      <3>3. QED
        BY <3>1, <3>2
    <2>5. ASSUME NEW h \in Handler, lease[h] = holds, holds # 0
          PROVE  requests[h].sid = r.sid
      <3>1. holds = store[r.sid]
        BY <1>4, <1>7, <1>10, <2>5
      <3>2. QED
        BY <1>8, <2>5, <3>1 DEF LeasesHold
    <2>6. ASSUME NEW h \in Handler', NEW g \in Handler', lease'[h] = lease'[g], lease'[h] # 0
          PROVE  requests'[h].sid = requests'[g].sid
      BY <1>a, <2>5, <2>6 DEF LeasesHold
    <2>7. ASSUME NEW h \in Handler', NEW g \in Handler',
                 state'[h] = "running", state'[g] = "running", lease'[h] = lease'[g]
          PROVE  h = g
      BY <1>1, <1>a, <2>7 DEF LeasesHold
    <2>8. QED
      BY <2>1, <2>2, <2>3, <2>4, <2>6, <2>7 DEF LeasesHold
  <1>12. SessionsHold'
    BY <1>4, EmptySeq, Assumed DEF SessionsHold, NewSession
  <1>13. RunsHold'
    BY <1>a, <1>3 DEF RunsHold, SessionOf
  <1>14. \A o : RunsOf(o)' = RunsOf(o) /\ IdRunsOf(o)' = IdRunsOf(o)
    BY <1>a, <1>3, SameRuns
  <1>15. \A i \in DOMAIN runs : RunOf(i)' = RunOf(i) /\ runs'[i] = runs[i]
    BY <1>a, <1>3, RunsStay
  <1>16. RunsOf(Len(session) + 1) = {} /\ IdRunsOf(Len(session) + 1) = {}
    BY <1>4, <1>7 DEF RunsOf, IdRunsOf, RunsHold, SessionOf
  <1>17. TimesTell'
    <2>1. ASSUME NEW o \in DOMAIN session'
          PROVE  TimesMatch(o, session[o].times)'
      <3>1. CASE o \in DOMAIN session /\ session'[o] = session[o]
        BY <1>3, <1>14, <3>1 DEF TimesTell, TimesMatch, Old
      <3>2. CASE o = Len(session) + 1
        BY <1>14, <1>16, <3>2 DEF TimesMatch
      <3>3. QED
        BY <1>4, <3>1, <3>2
    <2>2. QED
      BY <2>1 DEF TimesTell
  <1>18. ResponsesTell'
    <2>1. ASSUME NEW o \in DOMAIN session'
          PROVE  ResponsesMatch(o, session[o].responses)'
      <3>1. CASE o \in DOMAIN session /\ session'[o] = session[o]
        <4>1. \A i \in IdRunsOf(o) : RunOf(i)' = RunOf(i)
          BY <1>15 DEF IdRunsOf, RunsOf
        <4>2. QED
          BY <1>14, <3>1, <4>1 DEF ResponsesTell, ResponsesMatch
      <3>2. CASE o = Len(session) + 1 /\ session'[o] = NewSession
        BY <1>14, <1>16, <3>2 DEF NewSession, ResponsesMatch
      <3>3. QED
        BY <1>4, <3>1, <3>2
    <2>2. QED
      BY <2>1 DEF ResponsesTell
  <1>19. AnswersKept'
    <2>1. ASSUME NEW o \in DOMAIN session', NEW p \in DOMAIN session'[o].responses
          PROVE  \E g \in Handler' : IsOutcome(session[o].responses[p], o, g)'
      <3>1. o \in DOMAIN session /\ session'[o] = session[o]
        BY <1>4, <2>1 DEF NewSession
      <3>2. PICK g \in Handler : IsOutcome(session[o].responses[p], o, g)
        BY <2>1, <3>1 DEF AnswersKept
      <3>3. IsOutcome(session[o].responses[p], o, g)'
        BY <1>a, <3>1, <3>2 DEF IsOutcome
      <3>4. QED
        BY <1>a, <3>3
    <2>2. ASSUME NEW h \in Handler', state'[h] = "running", requests'[h].rid # NoId
          PROVE  /\ session'[lease'[h]].responses # <<>>
                 /\ IsOutcome(session[lease[h]].responses[Len(session[lease[h]].responses)],
                              lease[h], h)'
      <3>1. h \in Handler /\ state[h] = "running" /\ requests[h].rid # NoId
        BY <1>1, <1>a, <2>2
      <3>2. lease[h] \in DOMAIN session
        BY <1>7, <3>1, ListFacts DEF LeasesHold, Active
      <3>3. session'[lease[h]] = session[lease[h]]
        BY <1>4, <3>2, ListFacts
      <3>4. /\ session[lease[h]].responses # <<>>
            /\ IsOutcome(session[lease[h]].responses[Len(session[lease[h]].responses)],
                         lease[h], h)
        BY <3>1 DEF AnswersKept
      <3>5. QED
        BY <1>a, <3>1, <3>3, <3>4 DEF IsOutcome
    <2>3. QED
      BY <2>1, <2>2 DEF AnswersKept
  <1>20. QED
    BY <1>5, <1>6, <1>11, <1>12, <1>13, <1>17, <1>18, <1>19

(* What goes to make room is in use by no one, and it makes enough.        *)
LEMMA EvictionsFree ==
  ASSUME StoreHolds, NEW evicted \in Evictions
  PROVE  /\ evicted \subseteq Stored /\ \A sid \in evicted : Unleased(sid)
         /\ IsFiniteSet(Stored \ evicted)
         /\ Cardinality(Stored \ evicted) \in Nat
         /\ Cardinality(Stored \ evicted) < MaxSessions
  <1>1. /\ evicted \subseteq Stored /\ \A sid \in evicted : Unleased(sid)
        /\ HasRoom \/ evicted # {}
    BY DEF Evictions, Idle, Oldest
  <1>2. IsFiniteSet(Stored) /\ Cardinality(Stored) <= MaxSessions /\ MaxSessions \in Nat
    BY Assumed DEF StoreHolds
  <1> DEFINE S == Stored
             T == Stored \ evicted
  <1>3. T \in SUBSET S /\ (evicted # {} => T # S) /\ IsFiniteSet(S)
    BY <1>1, <1>2
  <1>4. Cardinality(S) <= MaxSessions /\ (HasRoom => Cardinality(S) < MaxSessions)
    BY <1>2 DEF HasRoom
  <1> HIDE DEF S, T
  <1>5. /\ IsFiniteSet(T) /\ Cardinality(T) <= Cardinality(S)
        /\ Cardinality(S) = Cardinality(T) => S = T
    BY <1>3, FS_Subset
  <1>6. Cardinality(S) \in Nat /\ Cardinality(T) \in Nat
    BY <1>3, <1>5, FS_CardinalityType
  <1>7. Cardinality(T) < MaxSessions
    BY <1>1, <1>2, <1>3, <1>4, <1>5, <1>6
  <1>8. QED
    BY <1>1, <1>5, <1>6, <1>7 DEF T

LEMMA CreatePlaces ==
  ASSUME SessionsInv, NEW r \in Requests, Create(r)
  PROVE  Placed(r, Len(session) + 1, "waiting")
  <1> DEFINE new == Len(session) + 1
  <1>1. r.sid \in SessionId /\ store[r.sid] = 0
    BY Assumed DEF Create, Request
  <1>2. PICK evicted \in Evictions :
          /\ store' = [sid \in SessionId |-> IF sid = r.sid THEN new
                         ELSE IF sid \in evicted THEN 0 ELSE store[sid]]
          /\ lastSeen' = [sid \in SessionId |-> IF sid = r.sid THEN now
                            ELSE IF sid \in evicted THEN 0 ELSE lastSeen[sid]]
    BY DEF Create
  <1>3. /\ evicted \subseteq Stored /\ \A sid \in evicted : Unleased(sid)
        /\ IsFiniteSet(Stored \ evicted)
        /\ Cardinality(Stored \ evicted) \in Nat
        /\ Cardinality(Stored \ evicted) < MaxSessions
    BY EvictionsFree DEF SessionsInv
  <1>4. /\ session \in Seq(SessionType) /\ Len(session) \in Nat
        /\ now \in 0 .. MaxTime
    BY ListFacts DEF SessionsInv, ListsTyped
  <1>5. session' = Append(session, NewSession) /\ Len(session') = new
    <2>1. session' = Append(session, NewSession)
      BY DEF Create
    <2>2. NewSession \in SessionType
      BY EmptySeq DEF NewSession, SessionType
    <2>3. QED
      BY <1>4, <2>1, <2>2, AppendFacts
  <1>6. \A sid \in SessionId : store[sid] \in 0 .. Len(session)
    BY DEF SessionsInv, StoreHolds
  <1>7. \A sid \in SessionId : lastSeen[sid] \in 0 .. MaxTime
    BY DEF SessionsInv, StoreHolds
  <1>8. \A sid \in SessionId :
          store'[sid] = IF sid = r.sid THEN new
                        ELSE IF sid \in evicted THEN 0 ELSE store[sid]
    BY <1>2
  <1>9. new > 0 /\ new \in Nat /\ \A sid \in SessionId : store[sid] < new
    BY <1>4, <1>6
  <1>10. store' \in [SessionId -> 0 .. Len(session')]
    <2>1. \A sid \in SessionId :
            (IF sid = r.sid THEN new ELSE IF sid \in evicted THEN 0 ELSE store[sid])
              \in 0 .. new
      BY <1>4, <1>6, <1>9
    <2> HIDE DEF new
    <2>2. QED
      BY <1>2, <1>5, <2>1
  <1>11. lastSeen' \in [SessionId -> 0 .. MaxTime]
    <2>1. 0 \in 0 .. MaxTime
      BY Assumed
    <2>2. QED
      BY <1>2, <1>4, <1>7, <2>1
  <1> HIDE DEF new
  <1>12. \A s, t \in SessionId : store'[s] = store'[t] /\ store'[s] # 0 => s = t
    <2>1. \A s, t \in SessionId : store[s] = store[t] /\ store[s] # 0 => s = t
      BY DEF SessionsInv, StoreHolds
    <2>2. \A sid \in SessionId : store[sid] # new
      BY <1>9
    <2>3. QED
      BY <1>8, <2>1, <2>2
  <1>13. IsFiniteSet(Stored') /\ Cardinality(Stored') <= MaxSessions
    <2> DEFINE T == Stored \ evicted
    <2>1. Stored' = T \cup {r.sid} /\ r.sid \notin T
      BY <1>1, <1>8, <1>9 DEF Stored
    <2>2. IsFiniteSet(T) /\ Cardinality(T) \in Nat /\ Cardinality(T) < MaxSessions
      BY <1>3
    <2> HIDE DEF T
    <2>3. /\ IsFiniteSet(T \cup {r.sid})
          /\ Cardinality(T \cup {r.sid}) = Cardinality(T) + 1
      BY <2>1, <2>2, FS_AddElement
    <2>4. QED
      BY <2>1, <2>2, <2>3, Assumed
  <1>14. StoreHolds'
    BY <1>10, <1>11, <1>12, <1>13 DEF StoreHolds
  <1>15. ASSUME NEW h \in Handler, Active(h)
         PROVE  store'[requests[h].sid] = lease[h]
    <2>1. /\ lease[h] > 0 /\ store[requests[h].sid] = lease[h]
          /\ requests[h].sid \in SessionId
      BY <1>15, ListFacts DEF SessionsInv, LeasesHold, Request
    <2>2. lease[h] # 0
      BY <2>1
    <2>3. requests[h].sid \notin evicted
      BY <1>3, <1>15, <2>1 DEF Unleased, Leased
    <2>4. QED
      BY <1>1, <1>8, <2>1, <2>2, <2>3
  <1>16. QED
    BY <1>1, <1>5, <1>8, <1>9, <1>14, <1>15 DEF Placed, new

LEMMA JoinPlaces ==
  ASSUME SessionsInv, NEW r \in Requests, Join(r)
  PROVE  Placed(r, store[r.sid], "waiting")
  <1>1. r.sid \in SessionId /\ store[r.sid] # 0 /\ store[r.sid] \in 0 .. Len(session)
    BY Assumed DEF Join, Request, SessionsInv, StoreHolds
  <1>2. UNCHANGED <<store, session, now>> /\ now \in 0 .. MaxTime
        /\ lastSeen' = [lastSeen EXCEPT ![r.sid] = now]
    BY DEF Join, Ask, SessionsInv, ListsTyped
  <1>3. StoreHolds'
    BY <1>1, <1>2 DEF SessionsInv, StoreHolds, Stored
  <1>4. \A h \in Handler : Active(h) => store'[requests[h].sid] = lease[h]
    BY <1>2 DEF SessionsInv, LeasesHold
  <1>5. store[r.sid] > 0
    BY <1>1, ListFacts DEF SessionsInv
  <1>6. QED
    BY <1>2, <1>3, <1>4, <1>5 DEF Placed

LEMMA RefusalPlaces ==
  ASSUME SessionsInv, NEW r \in Requests, UNCHANGED <<storeVars, session>>
  PROVE  Placed(r, 0, "done")
  <1>1. UNCHANGED <<store, lastSeen, session>>
    BY DEF storeVars
  <1>2. StoreHolds'
    BY <1>1 DEF SessionsInv, StoreHolds, Stored
  <1>3. \A h \in Handler : Active(h) => store'[requests[h].sid] = lease[h]
    BY <1>1 DEF SessionsInv, LeasesHold
  <1>4. QED
    BY <1>1, <1>2, <1>3 DEF Placed

LEMMA ArriveHolds ==
  ASSUME SessionsInv, NEW r \in Requests, Arrive(r)
  PROVE  SessionsInv'
  <1>1. /\ Unanswered \in AnswerType /\ Unanswered.by = 0
        /\ Refusal("missing") \in AnswerType /\ Refusal("missing").by = 0
        /\ Refusal("busy") \in AnswerType /\ Refusal("busy").by = 0
    BY DEF Unanswered, Refusal, Outcome, AnswerType, AnswerStatus
  <1>2. Len(requests) < MaxRequests
    BY DEF Arrive
  <1>3. CASE Join(r)
    <2>1. store[r.sid] \in Nat /\ Ask(r, store[r.sid], "waiting", Unanswered)
      BY <1>3, Assumed, ListFacts DEF Join, Request, SessionsInv, StoreHolds
    <2>2. QED
      BY <1>1, <1>2, <1>3, <2>1, JoinPlaces, ArrivalHolds
  <1>4. CASE Create(r)
    <2>1. Len(session) + 1 \in Nat /\ Ask(r, Len(session) + 1, "waiting", Unanswered)
      BY <1>4, ListFacts DEF Create, SessionsInv
    <2>2. QED
      BY <1>1, <1>2, <1>4, <2>1, CreatePlaces, ArrivalHolds
  <1>5. CASE ReadMissing(r)
    <2>1. /\ Ask(r, 0, "done", Refusal("missing")) /\ UNCHANGED <<storeVars, session>>
          /\ 0 \in Nat /\ "done" # "waiting"
      BY <1>5 DEF ReadMissing
    <2>2. QED
      BY <1>1, <1>2, <2>1, RefusalPlaces, ArrivalHolds
  <1>6. CASE EverySessionBusy(r)
    <2>1. /\ Ask(r, 0, "done", Refusal("busy")) /\ UNCHANGED <<storeVars, session>>
          /\ 0 \in Nat /\ "done" # "waiting"
      BY <1>6 DEF EverySessionBusy
    <2>2. QED
      BY <1>1, <1>2, <2>1, RefusalPlaces, ArrivalHolds
  <1>7. QED
    BY <1>3, <1>4, <1>5, <1>6 DEF Arrive

-----------------------------------------------------------------------------
(* A request goes on, with the session it leased.                          *)

(* The handler h goes on to st and answers a; no other handler changes.    *)
Proceeds(h, st, a) ==
  /\ state' = [state EXCEPT ![h] = st]
  /\ answer' = [answer EXCEPT ![h] = a]
  /\ UNCHANGED <<now, clientVars, storeVars>>
  /\ \/ st \in {"done", "dropped"}
     \/ /\ st = "running" /\ a = Unanswered /\ LockFree(lease[h])
        /\ requests[h].message # Reads

LEMMA ProceedsFacts ==
  ASSUME SessionsInv, NEW h \in Handler, Active(h), NEW st, NEW a, Proceeds(h, st, a)
  PROVE  /\ lease[h] \in DOMAIN session /\ requests[h] \in Request
         /\ answer[h] = Unanswered
         /\ Handler' = Handler /\ UNCHANGED <<now, requests, lease, store, lastSeen>>
         /\ DOMAIN state' = Handler /\ DOMAIN answer' = Handler
         /\ state'[h] = st /\ answer'[h] = a
         /\ \A g \in Handler : g # h => state'[g] = state[g] /\ answer'[g] = answer[g]
  <1>1. DOMAIN state = Handler /\ DOMAIN answer = Handler /\ requests[h] \in Request
    BY ListFacts DEF SessionsInv
  <1>2. UNCHANGED <<now, requests, lease, store, lastSeen>> /\ Handler' = Handler
    BY DEF Proceeds, clientVars, storeVars, Handler
  <1>3. lease[h] > 0 /\ lease[h] <= Len(session) /\ answer[h] = Unanswered
    BY DEF SessionsInv, LeasesHold
  <1>4. lease[h] \in Nat /\ Len(session) \in Nat /\ DOMAIN session = 1 .. Len(session)
    BY ListFacts DEF SessionsInv
  <1>5. lease[h] \in DOMAIN session
    BY <1>3, <1>4
  <1>6. QED
    BY <1>1, <1>2, <1>3, <1>5 DEF Proceeds

LEMMA ProceedsHolds ==
  ASSUME SessionsInv, NEW h \in Handler, Active(h), NEW st \in Status,
         NEW a \in AnswerType, a.by <= Len(requests), Proceeds(h, st, a),
         session' \in Seq(SessionType), Len(session') = Len(session),
         runs' \in Seq([handler : Nat, at : Nat])
  PROVE  ListsTyped' /\ StoreHolds' /\ LeasesHold'
  <1>1. /\ lease[h] \in DOMAIN session /\ requests[h] \in Request
        /\ answer[h] = Unanswered
        /\ Handler' = Handler /\ UNCHANGED <<now, requests, lease, store, lastSeen>>
        /\ DOMAIN state' = Handler /\ DOMAIN answer' = Handler
        /\ state'[h] = st /\ answer'[h] = a
        /\ \A g \in Handler : g # h => state'[g] = state[g] /\ answer'[g] = answer[g]
    BY ProceedsFacts
  <1>2. ListsTyped'
    <2>1. /\ state \in Seq(Status) /\ Len(state) = Len(requests)
          /\ answer \in Seq(AnswerType) /\ Len(answer) = Len(requests)
          /\ now \in 0 .. MaxTime /\ requests \in Seq(Requests)
          /\ Len(requests) <= MaxRequests /\ lease \in Seq(Nat) /\ Len(lease) = Len(requests)
      BY DEF SessionsInv, ListsTyped
    <2>2. h \in 1 .. Len(state) /\ h \in 1 .. Len(answer)
      BY <2>1, LenProperties DEF Handler
    <2>3. state' \in Seq(Status) /\ Len(state') = Len(state)
      BY <2>1, <2>2, ExceptSeq DEF Proceeds
    <2>4. answer' \in Seq(AnswerType) /\ Len(answer') = Len(answer)
      BY <2>1, <2>2, ExceptSeq DEF Proceeds
    <2>5. QED
      BY <1>1, <2>1, <2>3, <2>4 DEF ListsTyped
  <1>3. StoreHolds'
    BY <1>1 DEF SessionsInv, StoreHolds, Stored
  <1>4. st # "waiting"
    BY DEF Proceeds
  <1>5. LeasesHold'
    <2>1. \A g \in Handler' :
            /\ lease'[g] <= Len(session') /\ answer'[g].by <= Len(requests')
            /\ \A sid \in SessionId :
                 lease'[g] = store'[sid] /\ lease'[g] # 0 => requests'[g].sid = sid
      BY <1>1 DEF SessionsInv, LeasesHold
    <2>2. \A g \in Handler' :
            Active(g)' => lease'[g] > 0 /\ store'[requests'[g].sid] = lease'[g]
      BY <1>1 DEF SessionsInv, LeasesHold, Active
    <2>3. \A g \in Handler' :
            /\ Active(g)' => answer'[g] = Unanswered
            /\ state'[g] = "running" => requests'[g].message # Reads
      BY <1>1, <1>4 DEF SessionsInv, LeasesHold, Active, Proceeds
    <2>4. \A g, f \in Handler' :
            lease'[g] = lease'[f] /\ lease'[g] # 0 => requests'[g].sid = requests'[f].sid
      BY <1>1 DEF SessionsInv, LeasesHold
    <2>5. ASSUME NEW g \in Handler', NEW f \in Handler',
                 state'[g] = "running", state'[f] = "running", lease'[g] = lease'[f]
          PROVE  g = f
      <3>1. \A k, l \in Handler :
              state[k] = "running" /\ state[l] = "running" /\ lease[k] = lease[l] => k = l
        BY DEF SessionsInv, LeasesHold
      <3>2. g \in Handler /\ f \in Handler /\ lease[g] = lease[f]
        BY <1>1, <2>5
      <3>3. CASE g # h /\ f # h
        BY <1>1, <2>5, <3>1, <3>2, <3>3
      <3>4. CASE g = h /\ f # h
        <4>1. st = "running" /\ state[f] = "running"
          BY <1>1, <2>5, <3>2, <3>4
        <4>2. QED
          BY <3>2, <3>4, <4>1 DEF Proceeds, LockFree
      <3>5. CASE f = h /\ g # h
        <4>1. st = "running" /\ state[g] = "running"
          BY <1>1, <2>5, <3>2, <3>5
        <4>2. QED
          BY <3>2, <3>5, <4>1 DEF Proceeds, LockFree
      <3>6. QED
        BY <3>3, <3>4, <3>5
    <2>6. QED
      BY <2>1, <2>2, <2>3, <2>4, <2>5 DEF LeasesHold
  <1>6. QED
    BY <1>2, <1>3, <1>5

(* No turn begins: the runs stay, and what a session knows of them.        *)
LEMMA NoTurnHolds ==
  ASSUME SessionsInv, NEW h \in Handler, Active(h), NEW st \in {"done", "dropped"},
         NEW a \in AnswerType, a.by <= Len(requests), Proceeds(h, st, a),
         session' \in Seq(SessionType), Len(session') = Len(session), UNCHANGED runs,
         \A o \in DOMAIN session :
           /\ session'[o].turns = session[o].turns
           /\ TimesMatch(o, session[o].times) => TimesMatch(o, session'[o].times)
           /\ Len(session'[o].responses) = Len(session[o].responses)
           /\ \A p \in DOMAIN session[o].responses :
                session'[o].responses[p].rid = session[o].responses[p].rid
  PROVE  /\ ListsTyped' /\ StoreHolds' /\ LeasesHold' /\ SessionsHold' /\ RunsHold'
         /\ TimesTell' /\ ResponsesTell'
  <1>1. Handler' = Handler /\ UNCHANGED <<now, requests, lease>>
    BY ProceedsFacts
  <1>2. /\ Len(session) \in Nat /\ DOMAIN session = 1 .. Len(session)
        /\ runs \in Seq([handler : Nat, at : Nat])
        /\ \A o \in DOMAIN session : session[o] \in SessionType
    BY ListFacts DEF SessionsInv, ListsTyped
  <1>3. ListsTyped' /\ StoreHolds' /\ LeasesHold'
    BY <1>2, ProceedsHolds DEF Status
  <1>4. DOMAIN session' = DOMAIN session
    BY <1>2, LenProperties
  <1>5. SessionsHold'
    BY <1>4 DEF SessionsInv, SessionsHold
  <1>6. RunsHold'
    BY <1>1 DEF SessionsInv, RunsHold, SessionOf
  <1>7. \A o : RunsOf(o)' = RunsOf(o) /\ IdRunsOf(o)' = IdRunsOf(o)
    BY <1>1, SameRuns DEF SessionsInv
  <1>8. TimesTell'
    BY <1>1, <1>4, <1>7 DEF SessionsInv, TimesTell, TimesMatch, Old
  <1>9. ResponsesTell'
    <2>1. ASSUME NEW o \in DOMAIN session
          PROVE  ResponsesMatch(o, session[o].responses)'
      <3>1. /\ DOMAIN session[o].responses = 1 .. Len(session[o].responses)
            /\ Len(session[o].responses) \in Nat
            /\ session'[o] \in SessionType
        BY <1>2, <1>4, SessionFacts, LenProperties, ElementOfSeq
      <3>2. DOMAIN session'[o].responses = DOMAIN session[o].responses
        BY <3>1, SessionFacts
      <3>3. \A i \in IdRunsOf(o) : RunOf(i)' = RunOf(i)
        BY <1>1 DEF RunOf
      <3>4. ResponsesMatch(o, session[o].responses)
        BY DEF SessionsInv, ResponsesTell
      <3>5. \A i \in IdRunsOf(o) :
              LET later == Cardinality(Since(IdRunsOf(o), i))
                  responses == session[o].responses
              IN /\ later \in Nat /\ later >= 1
                 /\ later <= Len(responses) => Len(responses) - later + 1 \in DOMAIN responses
        <4>1. IdRunsOf(o) \subseteq 1 .. Len(runs) /\ Len(runs) \in Nat
          BY RunsOfFacts, ListFacts DEF SessionsInv
        <4>2. \A i \in IdRunsOf(o) :
                /\ Cardinality(Since(IdRunsOf(o), i)) \in Nat
                /\ Cardinality(Since(IdRunsOf(o), i)) >= 1
          BY <4>1, SinceFacts
        <4>3. QED
          BY <3>1, <4>2
      <3> DEFINE before == session[o].responses
                 after == session'[o].responses
      <3>6. /\ Len(after) = Len(before) /\ DOMAIN after = DOMAIN before
            /\ \A p \in DOMAIN before : after[p].rid = before[p].rid
        BY <3>2
      <3>7. \A i \in IdRunsOf(o)' :
              LET later == Cardinality(Since(IdRunsOf(o)', i))
              IN IF later <= Len(after)
                 THEN after[Len(after) - later + 1].rid = RunOf(i)'.rid
                 ELSE Len(after) = Remembered
        <4>1. ASSUME NEW i \in IdRunsOf(o)
              PROVE  LET later == Cardinality(Since(IdRunsOf(o), i))
                     IN IF later <= Len(after)
                        THEN after[Len(after) - later + 1].rid = RunOf(i).rid
                        ELSE Len(after) = Remembered
          <5> DEFINE later == Cardinality(Since(IdRunsOf(o), i))
          <5>1. IF later <= Len(before)
                THEN before[Len(before) - later + 1].rid = RunOf(i).rid
                ELSE Len(before) = Remembered
            BY <3>4 DEF ResponsesMatch
          <5>2. later <= Len(before) => Len(before) - later + 1 \in DOMAIN before
            BY <3>5
          <5> HIDE DEF later, before, after
          <5>3. IF later <= Len(after)
                THEN after[Len(after) - later + 1].rid = RunOf(i).rid
                ELSE Len(after) = Remembered
            BY <3>6, <5>1, <5>2
          <5>4. QED
            BY <5>3 DEF later
        <4>2. QED
          BY <1>7, <3>3, <4>1
      <3>8. \A p \in DOMAIN after : \E i \in IdRunsOf(o)' :
              Cardinality(Since(IdRunsOf(o)', i)) = Len(after) - p + 1
        BY <1>7, <3>4, <3>6 DEF ResponsesMatch
      <3>9. \A p, q \in DOMAIN after : after[p].rid = after[q].rid => p = q
        BY <3>4, <3>6 DEF ResponsesMatch
      <3>10. QED
        BY <3>7, <3>8, <3>9 DEF ResponsesMatch
    <2>2. QED
      BY <1>4, <2>1 DEF ResponsesTell
  <1>10. QED
    BY <1>3, <1>5, <1>6, <1>8, <1>9

(* What is remembered stays so: a request that waited takes no answer away, *)
(* and one that is dropped leaves its outcome unknown.                     *)
LEMMA QuietHolds ==
  ASSUME SessionsInv, NEW h \in Handler, Active(h), NEW st \in {"done", "dropped"},
         state[h] = "waiting" \/ st = "dropped",
         NEW a \in AnswerType, a.by <= Len(requests), Proceeds(h, st, a),
         session' \in Seq(SessionType), Len(session') = Len(session), UNCHANGED runs,
         \A o \in DOMAIN session :
           /\ session'[o].turns = session[o].turns
           /\ TimesMatch(o, session[o].times) => TimesMatch(o, session'[o].times)
           /\ session'[o].responses = session[o].responses
  PROVE  SessionsInv'
  <1>1. /\ Handler' = Handler /\ UNCHANGED <<requests, lease>>
        /\ answer[h] = Unanswered
        /\ state'[h] = st
        /\ \A g \in Handler : g # h => state'[g] = state[g] /\ answer'[g] = answer[g]
    BY ProceedsFacts
  <1>2. DOMAIN session' = DOMAIN session
    BY LenProperties, ListFacts DEF SessionsInv, ListsTyped
  <1>3. ASSUME NEW g \in Handler, NEW o \in DOMAIN session,
               NEW p \in DOMAIN session[o].responses,
               IsOutcome(session[o].responses[p], o, g), g # h \/ st = "dropped"
        PROVE  IsOutcome(session[o].responses[p], o, g)'
    <2>1. session'[o].responses[p] = session[o].responses[p]
      OBVIOUS
    <2>2. CASE g # h
      BY <1>1, <1>3, <2>1, <2>2 DEF IsOutcome
    <2>3. CASE g = h /\ st = "dropped"
      BY <1>1, <1>3, <2>1, <2>3 DEF IsOutcome, Active
    <2>4. QED
      BY <1>3, <2>2, <2>3
  <1>4. ASSUME NEW o, NEW e, IsOutcome(e, o, h)
        PROVE  state[h] # "waiting"
    BY <1>4 DEF IsOutcome
  <1>5. AnswersKept'
    <2>1. ASSUME NEW o \in DOMAIN session', NEW p \in DOMAIN session'[o].responses
          PROVE  \E g \in Handler' : IsOutcome(session[o].responses[p], o, g)'
      <3>1. o \in DOMAIN session /\ p \in DOMAIN session[o].responses
        BY <1>2, <2>1
      <3>2. PICK g \in Handler : IsOutcome(session[o].responses[p], o, g)
        BY <3>1 DEF SessionsInv, AnswersKept
      <3>3. g # h \/ st = "dropped"
        BY <1>4, <3>2
      <3>4. QED
        BY <1>1, <1>3, <3>1, <3>2, <3>3
    <2>2. ASSUME NEW g \in Handler', state'[g] = "running", requests'[g].rid # NoId
          PROVE  /\ session'[lease'[g]].responses # <<>>
                 /\ IsOutcome(session[lease[g]].responses[Len(session[lease[g]].responses)],
                              lease[g], g)'
      <3>1. g \in Handler /\ g # h /\ state[g] = "running" /\ requests[g].rid # NoId
        BY <1>1, <2>2
      <3>2. lease[g] \in DOMAIN session
        <4>1. lease[g] > 0 /\ lease[g] <= Len(session)
          BY <3>1 DEF SessionsInv, LeasesHold, Active
        <4>2. QED
          BY <3>1, <4>1, ListFacts DEF SessionsInv
      <3>3. session'[lease'[g]].responses = session[lease[g]].responses
        BY <1>1, <3>2
      <3>4. /\ session[lease[g]].responses # <<>>
            /\ IsOutcome(session[lease[g]].responses[Len(session[lease[g]].responses)],
                         lease[g], g)
        BY <3>1 DEF SessionsInv, AnswersKept
      <3>5. QED
        BY <1>1, <3>1, <3>3, <3>4 DEF IsOutcome
    <2>3. QED
      BY <2>1, <2>2 DEF AnswersKept
  <1>6. /\ ListsTyped' /\ StoreHolds' /\ LeasesHold' /\ SessionsHold' /\ RunsHold'
        /\ TimesTell' /\ ResponsesTell'
    BY NoTurnHolds
  <1>7. QED
    BY <1>5, <1>6 DEF SessionsInv

(* The turns of the last minute: the last ones of the list, and only old   *)
(* ones are missing.                                                       *)
LEMMA RecentFacts ==
  ASSUME NEW s \in SessionType, now \in Nat
  PROVE  LET recent == Recent(s)
             gone == Len(s.times) - Len(recent)
         IN /\ recent \in Seq(Nat) /\ Len(recent) \in 0 .. Len(s.times)
            /\ \A i \in 1 .. Len(recent) : recent[i] = s.times[gone + i]
            /\ \A i \in 1 .. gone : Old(s.times[i])
  <1> DEFINE times == s.times
             T == {n \in 1 .. Len(times) + 1 : n <= Len(times) => ~Old(times[n])}
             Opens(n) == /\ \A i \in 1 .. n - 1 : Old(times[i])
                         /\ n <= Len(times) => ~Old(times[n])
             first == CHOOSE n \in 1 .. Len(times) + 1 : Opens(n)
  <1>1. times \in Seq(Nat) /\ Len(times) \in Nat
    BY SessionFacts
  <1>2. T \subseteq Nat /\ T # {}
    <2>1. Len(times) + 1 \in T
      BY <1>1
    <2>2. QED
      BY <1>1, <2>1
  <1>3. PICK n \in T : \A m \in T : n <= m
    BY <1>2, LeastNumber
  <1>4. n \in 1 .. Len(times) + 1 /\ Opens(n)
    <2>1. \A i \in 1 .. n - 1 : i \in 1 .. Len(times) + 1 /\ ~(n <= i)
      BY <1>1, <1>3
    <2>2. QED
      BY <1>3, <2>1
  <1>5. first \in 1 .. Len(times) + 1 /\ Opens(first)
    BY <1>4
  <1>6. Recent(s) = SubSeq(times, first, Len(times))
    BY DEF Recent
  <1> HIDE DEF first, times
  <1>7. Len(times) \in first - 1 .. Len(times)
    BY <1>1, <1>5
  <1> DEFINE recent == SubSeq(times, first, Len(times))
  <1>8. /\ recent \in Seq(Nat) /\ Len(recent) = Len(times) - first + 1
        /\ \A i \in 1 .. Len(times) - first + 1 : recent[i] = times[first + i - 1]
    BY <1>1, <1>5, <1>7, SubSeqFacts
  <1> HIDE DEF recent
  <1>9. /\ Len(recent) \in 0 .. Len(times) /\ Len(times) - Len(recent) = first - 1
        /\ \A i \in 1 .. Len(recent) : first + i - 1 = Len(times) - Len(recent) + i
    BY <1>1, <1>5, <1>8
  <1>10. /\ \A i \in 1 .. Len(recent) : recent[i] = times[Len(times) - Len(recent) + i]
         /\ \A i \in 1 .. Len(times) - Len(recent) : Old(times[i])
    BY <1>5, <1>8, <1>9
  <1>11. QED
    BY <1>6, <1>8, <1>9, <1>10 DEF recent, times

LEMMA RecentMatches ==
  ASSUME SessionsInv, NEW o \in DOMAIN session
  PROVE  TimesMatch(o, Recent(session[o]))
  <1> DEFINE times == session[o].times
             recent == Recent(session[o])
  <1>1. session[o] \in SessionType /\ now \in Nat
    BY ListFacts DEF SessionsInv
  <1>2. Len(times) \in Nat
    BY <1>1, SessionFacts
  <1>3. /\ Len(recent) \in 0 .. Len(times)
        /\ \A i \in 1 .. Len(recent) : recent[i] = times[Len(times) - Len(recent) + i]
        /\ \A i \in 1 .. Len(times) - Len(recent) : Old(times[i])
    BY <1>1, RecentFacts
  <1>4. \A i \in RunsOf(o) :
          LET later == Cardinality(Since(RunsOf(o), i))
          IN IF later <= Len(times) THEN times[Len(times) - later + 1] = runs[i].at
             ELSE Old(runs[i].at)
    BY DEF SessionsInv, TimesTell, TimesMatch
  <1>5. \A i \in RunsOf(o) : /\ Cardinality(Since(RunsOf(o), i)) \in Nat
                            /\ Cardinality(Since(RunsOf(o), i)) >= 1
    <2>1. RunsOf(o) \subseteq 1 .. Len(runs) /\ Len(runs) \in Nat
      BY RunsOfFacts, ListFacts DEF SessionsInv
    <2>2. QED
      BY <2>1, SinceFacts
  <1> HIDE DEF times, recent
  <1>6. ASSUME NEW i \in RunsOf(o)
        PROVE  LET later == Cardinality(Since(RunsOf(o), i))
               IN IF later <= Len(recent) THEN recent[Len(recent) - later + 1] = runs[i].at
                  ELSE Old(runs[i].at)
    <2> DEFINE later == Cardinality(Since(RunsOf(o), i))
    <2>1. /\ later \in Nat /\ later >= 1
          /\ IF later <= Len(times) THEN times[Len(times) - later + 1] = runs[i].at
             ELSE Old(runs[i].at)
      BY <1>4, <1>5
    <2> HIDE DEF later
    <2>2. CASE later <= Len(recent)
      <3>1. /\ Len(recent) - later + 1 \in 1 .. Len(recent) /\ later <= Len(times)
            /\ Len(times) - Len(recent) + (Len(recent) - later + 1) = Len(times) - later + 1
        BY <1>2, <1>3, <2>1, <2>2
      <3>2. recent[Len(recent) - later + 1] = runs[i].at
        BY <1>3, <2>1, <3>1
      <3>3. QED
        BY <2>2, <3>2 DEF later
    <2>3. CASE ~(later <= Len(recent)) /\ later <= Len(times)
      <3>1. Len(times) - later + 1 \in 1 .. Len(times) - Len(recent)
        BY <1>2, <1>3, <2>1, <2>3
      <3>2. Old(runs[i].at)
        BY <1>3, <2>1, <2>3, <3>1
      <3>3. QED
        BY <2>3, <3>2 DEF later
    <2>4. CASE ~(later <= Len(recent)) /\ ~(later <= Len(times))
      BY <2>1, <2>4 DEF later
    <2>5. QED
      BY <2>2, <2>3, <2>4
  <1>7. QED
    BY <1>6 DEF TimesMatch, recent

(* A refusal names no turn.                                                *)
LEMMA RefusalTypes ==
  ASSUME NEW status \in AnswerStatus
  PROVE  Refusal(status) \in AnswerType /\ Refusal(status).by = 0
  BY DEF Refusal, Outcome, AnswerType

LEMMA WaitingFacts ==
  ASSUME SessionsInv, NEW h \in Handler, Enters(h)
  PROVE  /\ Active(h) /\ state[h] = "waiting" /\ LockFree(lease[h])
         /\ lease[h] \in DOMAIN session /\ session[lease[h]] \in SessionType
         /\ requests[h] \in Request
         /\ session \in Seq(SessionType) /\ Len(session) \in Nat
         /\ DOMAIN session = 1 .. Len(session) /\ Len(requests) \in Nat
  <1>1. Active(h) /\ state[h] = "waiting" /\ LockFree(lease[h])
    BY DEF Enters, Active
  <1>2. lease[h] > 0 /\ lease[h] <= Len(session)
    BY <1>1 DEF SessionsInv, LeasesHold
  <1>3. /\ lease[h] \in Nat /\ Len(session) \in Nat /\ DOMAIN session = 1 .. Len(session)
        /\ \A o \in DOMAIN session : session[o] \in SessionType
        /\ requests[h] \in Request /\ Len(requests) \in Nat /\ session \in Seq(SessionType)
    BY ListFacts DEF SessionsInv, ListsTyped
  <1>4. lease[h] \in DOMAIN session
    BY <1>2, <1>3
  <1>5. QED
    BY <1>1, <1>3, <1>4

(* A request that is answered at once leaves its session as it is.         *)
LEMMA AnswerHolds ==
  ASSUME SessionsInv, NEW h \in Handler, Enters(h), NEW a \in AnswerType,
         a.by <= Len(requests), Reply(h, a),
         UNCHANGED <<now, clientVars, storeVars, session, runs>>
  PROVE  SessionsInv'
  <1>1. Active(h) /\ state[h] = "waiting" /\ session \in Seq(SessionType)
    BY WaitingFacts
  <1>2. Proceeds(h, "done", a)
    BY DEF Reply, Proceeds
  <1>3. UNCHANGED <<session, runs>>
    OBVIOUS
  <1>4. QED
    BY <1>1, <1>2, <1>3, QuietHolds

LEMMA ReplayHolds ==
  ASSUME SessionsInv, NEW h \in Handler, Replay(h)
  PROVE  SessionsInv'
  <1> DEFINE s == session[lease[h]]
  <1>1. Enters(h) /\ UNCHANGED <<now, clientVars, storeVars, session, runs>>
    BY DEF Replay
  <1>2. PICK i \in Earlier(s, requests[h].rid) :
          Reply(h, IF Replays(s.responses[i], requests[h]) THEN s.responses[i].answer
                   ELSE Refusal("conflict"))
    BY DEF Replay
  <1>3. s \in SessionType /\ lease[h] \in DOMAIN session
    BY <1>1, WaitingFacts
  <1>4. i \in DOMAIN s.responses
    BY <1>2 DEF Earlier
  <1>5. s.responses[i] \in Response
    BY <1>3, <1>4, SessionFacts
  <1>6. s.responses[i].answer \in AnswerType
    BY <1>5 DEF Response
  <1>7. PICK g \in Handler : IsOutcome(s.responses[i], lease[h], g)
    BY <1>3, <1>4 DEF SessionsInv, AnswersKept
  <1>8. s.responses[i].answer.by <= Len(requests)
    <2>1. g <= Len(requests) /\ 0 <= Len(requests)
      BY ListFacts DEF SessionsInv
    <2>2. QED
      BY <1>7, <2>1 DEF IsOutcome, Refusal, Outcome
  <1>9. Refusal("conflict") \in AnswerType /\ Refusal("conflict").by <= Len(requests)
    BY <1>1, WaitingFacts, RefusalTypes DEF AnswerStatus
  <1> HIDE DEF s
  <1>10. CASE Replays(s.responses[i], requests[h])
    <2>1. Reply(h, s.responses[i].answer)
      BY <1>2, <1>10
    <2>2. QED
      BY <1>1, <1>6, <1>8, <2>1, AnswerHolds
  <1>11. CASE ~Replays(s.responses[i], requests[h])
    <2>1. Reply(h, Refusal("conflict"))
      BY <1>2, <1>11
    <2>2. QED
      BY <1>1, <1>9, <2>1, AnswerHolds
  <1>12. QED
    BY <1>10, <1>11

LEMMA RefusalsHold ==
  ASSUME SessionsInv, NEW h \in Handler, Show(h) \/ RefuseFull(h)
  PROVE  SessionsInv'
  <1>1. Enters(h) /\ UNCHANGED <<now, clientVars, storeVars, session, runs>>
    BY DEF Show, RefuseFull, IsNew
  <1>2. Len(requests) \in Nat
    BY <1>1, WaitingFacts
  <1>3. ASSUME NEW status \in {"shown", "full"}
        PROVE  Refusal(status) \in AnswerType /\ Refusal(status).by <= Len(requests)
    BY <1>2, RefusalTypes DEF AnswerStatus
  <1>4. PICK status \in {"shown", "full"} : Reply(h, Refusal(status))
    BY DEF Show, RefuseFull
  <1>5. QED
    BY <1>1, <1>3, <1>4, AnswerHolds

LEMMA RefuseRateHolds ==
  ASSUME SessionsInv, NEW h \in Handler, RefuseRate(h)
  PROVE  SessionsInv'
  <1> DEFINE o == lease[h]
             s == session[o]
             recent == Recent(s)
  <1>1. Enters(h)
    BY DEF RefuseRate, IsNew
  <1>2. /\ Active(h) /\ state[h] = "waiting" /\ o \in DOMAIN session /\ s \in SessionType
        /\ session \in Seq(SessionType) /\ DOMAIN session = 1 .. Len(session)
        /\ Len(requests) \in Nat
    BY <1>1, WaitingFacts
  <1>3. Reply(h, Refusal("limited")) /\ UNCHANGED <<now, clientVars, storeVars, runs>>
        /\ session' = [session EXCEPT ![o] = [s EXCEPT !.times = recent]]
    BY DEF RefuseRate
  <1>4. Refusal("limited") \in AnswerType /\ Refusal("limited").by <= Len(requests)
    BY <1>2, RefusalTypes DEF AnswerStatus
  <1>5. Proceeds(h, "done", Refusal("limited"))
    BY <1>3 DEF Reply, Proceeds
  <1>6. recent \in Seq(Nat)
    BY <1>2, RecentFacts, ListFacts DEF SessionsInv
  <1>7. TimesMatch(o, recent)
    BY <1>2, RecentMatches
  <1> HIDE DEF recent
  <1> DEFINE after == [s EXCEPT !.times = recent]
  <1>8. /\ after \in SessionType /\ after.turns = s.turns /\ after.times = recent
        /\ after.responses = s.responses
    BY <1>2, <1>6 DEF SessionType
  <1> HIDE DEF after, s
  <1>9. session' \in Seq(SessionType) /\ Len(session') = Len(session)
    BY <1>2, <1>3, <1>8, ExceptSeq DEF after
  <1>10. \A q \in DOMAIN session : session'[q] = IF q = o THEN after ELSE session[q]
    BY <1>2, <1>3 DEF after
  <1>11. \A q \in DOMAIN session :
           /\ session'[q].turns = session[q].turns
           /\ TimesMatch(q, session[q].times) => TimesMatch(q, session'[q].times)
           /\ session'[q].responses = session[q].responses
    BY <1>7, <1>8, <1>10 DEF s
  <1>12. UNCHANGED runs
    BY <1>3
  <1>13. QED
    BY <1>2, <1>4, <1>5, <1>9, <1>11, <1>12, QuietHolds

LEMMA DropHolds ==
  ASSUME SessionsInv, NEW h \in Handler, Drop(h)
  PROVE  SessionsInv'
  <1> DEFINE o == lease[h]
             s == session[o]
  <1>1. Active(h) /\ UNCHANGED <<now, clientVars, answer, storeVars, runs>>
        /\ state' = [state EXCEPT ![h] = "dropped"]
    BY DEF Drop
  <1>2. /\ answer[h] \in AnswerType /\ answer[h].by <= Len(requests)
        /\ DOMAIN answer = Handler
    BY ListFacts DEF SessionsInv, LeasesHold
  <1>3. answer' = [answer EXCEPT ![h] = answer[h]]
    <2>1. answer \in Seq(AnswerType)
      BY DEF SessionsInv, ListsTyped
    <2>2. answer = [g \in DOMAIN answer |-> answer[g]]
      BY <2>1
    <2>3. [answer EXCEPT ![h] = answer[h]] = answer
      BY <2>2
    <2>4. QED
      BY <1>1, <2>3
  <1>4. Proceeds(h, "dropped", answer[h])
    BY <1>1, <1>3 DEF Proceeds
  <1>5. /\ o \in Nat /\ Len(session) \in Nat /\ DOMAIN session = 1 .. Len(session)
        /\ \A q \in DOMAIN session : session[q] \in SessionType
        /\ session \in Seq(SessionType)
    BY ListFacts DEF SessionsInv, ListsTyped
  <1>6. o \in DOMAIN session
    <2>1. o > 0 /\ o <= Len(session)
      BY <1>1 DEF SessionsInv, LeasesHold
    <2>2. QED
      BY <1>5, <2>1
  <1> HIDE DEF o
  <1> DEFINE Kept ==
               /\ session' \in Seq(SessionType) /\ Len(session') = Len(session)
               /\ \A q \in DOMAIN session :
                    /\ session'[q].turns = session[q].turns
                    /\ session'[q].times = session[q].times
                    /\ session'[q].responses = session[q].responses
  <1>7. Kept
    <2>1. CASE UNCHANGED session
      BY <1>5, <2>1
    <2>2. ASSUME NEW full \in BOOLEAN, session' = [session EXCEPT ![o].full = full]
          PROVE  Kept
      <3> DEFINE after == [s EXCEPT !.full = full]
      <3>1. s \in SessionType
        BY <1>5, <1>6
      <3>2. session' = [session EXCEPT ![o] = after]
        BY <2>2
      <3>3. /\ after \in SessionType /\ after.turns = s.turns /\ after.times = s.times
            /\ after.responses = s.responses
        BY <3>1 DEF SessionType
      <3> HIDE DEF after
      <3>4. session' \in Seq(SessionType) /\ Len(session') = Len(session)
        BY <1>5, <1>6, <3>2, <3>3, ExceptSeq
      <3>5. \A q \in DOMAIN session : session'[q] = IF q = o THEN after ELSE session[q]
        BY <1>5, <3>2
      <3>6. QED
        BY <3>3, <3>4, <3>5
    <2>3. QED
      <3> HIDE DEF Kept
      <3>1. (\E full \in BOOLEAN : session' = [session EXCEPT ![o].full = full])
            \/ UNCHANGED session
        BY DEF Drop, o
      <3>2. QED
        BY <2>1, <2>2, <3>1
  <1>8. \A q \in DOMAIN session :
          TimesMatch(q, session[q].times) => TimesMatch(q, session'[q].times)
    BY <1>7
  <1>9. UNCHANGED runs
    BY <1>1
  <1>10. QED
    BY <1>1, <1>2, <1>4, <1>7, <1>8, <1>9, QuietHolds

(* The outcome takes the place of the reservation, which is the last that  *)
(* the session remembers; the ones before it are of other ids.             *)
LEMMA EndTurnHolds ==
  ASSUME SessionsInv, NEW h \in Handler, NEW status \in {"ok", "failed"},
         NEW full \in BOOLEAN, EndTurn(h, status, full)
  PROVE  SessionsInv'
  <1> DEFINE o == lease[h]
             s == session[o]
             rid == requests[h].rid
             a == Outcome(status, h)
             before == s.responses
             after == Remember(before, rid, a)
             later == [s EXCEPT !.responses = after, !.full = full]
  <1>1. /\ state[h] = "running" /\ Active(h) /\ Reply(h, a)
        /\ UNCHANGED <<now, clientVars, storeVars, runs>>
        /\ session' = [session EXCEPT ![o] = later]
    BY DEF EndTurn, Active
  <1>2. /\ h \in Nat /\ h <= Len(requests) /\ Len(requests) \in Nat
        /\ \A q \in DOMAIN session : session[q] \in SessionType
        /\ session \in Seq(SessionType) /\ Len(session) \in Nat
        /\ DOMAIN session = 1 .. Len(session)
    BY ListFacts DEF SessionsInv, ListsTyped
  <1>3. a \in AnswerType /\ a.by = h /\ a.status = status
    BY <1>2 DEF Outcome, AnswerType, AnswerStatus
  <1>4. Proceeds(h, "done", a)
    BY <1>1 DEF Reply, Proceeds
  <1>5. /\ o \in DOMAIN session /\ requests[h] \in Request /\ answer[h] = Unanswered
        /\ Handler' = Handler /\ UNCHANGED <<requests, lease>>
        /\ state'[h] = "done" /\ answer'[h] = a
        /\ \A g \in Handler : g # h => state'[g] = state[g] /\ answer'[g] = answer[g]
    BY <1>1, <1>4, ProceedsFacts
  <1>6. s \in SessionType
    BY <1>2, <1>5
  <1>7. /\ before \in Seq(Response) /\ Len(before) \in Nat
        /\ DOMAIN before = 1 .. Len(before)
        /\ \A p \in DOMAIN before : before[p] \in Response
    BY <1>6, SessionFacts
  <1> HIDE DEF a, rid
  <1>8. \A p \in DOMAIN before :
          after[p] = IF before[p].rid = rid /\ rid # NoId
                     THEN [before[p] EXCEPT !.answer = a] ELSE before[p]
    BY DEF Remember
  <1>9. \A p \in DOMAIN before :
          after[p] \in Response /\ after[p].rid = before[p].rid
          /\ after[p].message = before[p].message
    <2>1. ASSUME NEW p \in DOMAIN before
          PROVE  after[p] \in Response /\ after[p].rid = before[p].rid
                 /\ after[p].message = before[p].message
      <3>1. before[p] \in Response
        BY <1>7
      <3>2. after[p] = before[p] \/ after[p] = [before[p] EXCEPT !.answer = a]
        BY <1>8
      <3> HIDE DEF after, before
      <3>3. QED
        BY <1>3, <3>1, <3>2 DEF Response
    <2>2. QED
      BY <2>1
  <1>10. after \in Seq(Response) /\ Len(after) = Len(before) /\ DOMAIN after = DOMAIN before
    <2>1. after \in [1 .. Len(before) -> Response] /\ DOMAIN after = DOMAIN before
      <3>1. DOMAIN after = DOMAIN before
        BY DEF Remember
      <3>2. after = [p \in DOMAIN before |-> after[p]]
        BY DEF Remember
      <3> HIDE DEF after
      <3>3. QED
        BY <1>7, <1>9, <3>1, <3>2
    <2> HIDE DEF after, before
    <2>2. after \in Seq(Response)
      BY <1>7, <2>1, SeqDef
    <2>3. Len(after) = Len(before)
      BY <1>7, <2>1, <2>2, LenProperties
    <2>4. QED
      BY <2>1, <2>2, <2>3
  <1> HIDE DEF after
  <1>11. /\ later \in SessionType /\ later.turns = s.turns /\ later.times = s.times
         /\ later.responses = after
    BY <1>6, <1>10 DEF SessionType
  <1> HIDE DEF later
  <1>12. session' \in Seq(SessionType) /\ Len(session') = Len(session)
    BY <1>1, <1>2, <1>5, <1>11, ExceptSeq
  <1>13. \A q \in DOMAIN session : session'[q] = IF q = o THEN later ELSE session[q]
    BY <1>1, <1>2
  <1> HIDE DEF o, s, before
  <1>14. DOMAIN session' = DOMAIN session
    BY <1>2, <1>12, LenProperties
  <1>15. \A q \in DOMAIN session :
           /\ session'[q].turns = session[q].turns
           /\ TimesMatch(q, session[q].times) => TimesMatch(q, session'[q].times)
           /\ Len(session'[q].responses) = Len(session[q].responses)
           /\ \A p \in DOMAIN session[q].responses :
                session'[q].responses[p].rid = session[q].responses[p].rid
    BY <1>9, <1>10, <1>11, <1>13 DEF s, before
  <1>16. UNCHANGED runs
    BY <1>1
  <1>17. /\ ListsTyped' /\ StoreHolds' /\ LeasesHold' /\ SessionsHold' /\ RunsHold'
         /\ TimesTell' /\ ResponsesTell'
    BY <1>1, <1>2, <1>3, <1>4, <1>12, <1>15, <1>16, NoTurnHolds
  <1>18. \A p, q \in DOMAIN before : before[p].rid = before[q].rid => p = q
    BY <1>5 DEF SessionsInv, ResponsesTell, ResponsesMatch, before, s
  <1>19. rid # NoId => /\ Len(before) \in DOMAIN before
                       /\ IsOutcome(before[Len(before)], o, h)
    <2>1. rid # NoId => before # <<>> /\ IsOutcome(before[Len(before)], o, h)
      BY <1>1 DEF SessionsInv, AnswersKept, rid, o, s, before
    <2>2. before # <<>> => Len(before) \in DOMAIN before
      BY <1>7, EmptySeq
    <2>3. QED
      BY <2>1, <2>2
  <1>20. ASSUME NEW p \in DOMAIN before
         PROVE  \E g \in Handler' :
                  /\ lease'[g] = o /\ requests'[g].rid = after[p].rid
                  /\ requests'[g].message = after[p].message
                  /\ \/ /\ after[p].answer = Refusal("unknown")
                        /\ state'[g] \in {"running", "dropped"}
                     \/ /\ after[p].answer = answer'[g] /\ answer'[g].by = g
                        /\ state'[g] = "done" /\ answer'[g].status \in {"ok", "failed"}
    <2>1. PICK g \in Handler : IsOutcome(before[p], o, g)
      BY <1>5, <1>20 DEF SessionsInv, AnswersKept, before, s
    <2>2. CASE before[p].rid = rid /\ rid # NoId
      <3>1. IsOutcome(before[p], o, h)
        <4>1. before[Len(before)].rid = rid
          BY <1>19, <2>2 DEF IsOutcome, rid
        <4>2. p = Len(before)
          BY <1>18, <1>19, <1>20, <2>2, <4>1
        <4>3. QED
          BY <1>19, <2>2, <4>2
      <3>2. after[p].answer = a
        BY <1>7, <1>8, <1>20, <2>2 DEF Response
      <3>3. QED
        BY <1>3, <1>5, <1>9, <1>20, <3>1, <3>2 DEF IsOutcome
    <2>3. CASE ~(before[p].rid = rid /\ rid # NoId)
      <3>1. after[p] = before[p]
        BY <1>8, <1>20, <2>3
      <3>2. before[p].rid # NoId
        BY <1>7, <1>20, Assumed DEF Response
      <3>3. g # h
        BY <2>1, <2>3, <3>2 DEF IsOutcome, rid
      <3>4. QED
        BY <1>5, <2>1, <3>1, <3>3 DEF IsOutcome
    <2>4. QED
      BY <2>2, <2>3
  <1>21. AnswersKept'
    <2>1. ASSUME NEW q \in DOMAIN session', NEW p \in DOMAIN session'[q].responses
          PROVE  \E g \in Handler' : IsOutcome(session[q].responses[p], q, g)'
      <3>1. CASE q = o
        BY <1>5, <1>10, <1>11, <1>13, <1>20, <2>1, <3>1 DEF IsOutcome
      <3>2. CASE q # o
        <4>1. q \in DOMAIN session /\ session'[q] = session[q]
          BY <1>13, <1>14, <3>2
        <4>2. PICK g \in Handler : IsOutcome(session[q].responses[p], q, g)
          BY <2>1, <4>1 DEF SessionsInv, AnswersKept
        <4>3. g # h
          BY <3>2, <4>2 DEF IsOutcome, o
        <4>4. QED
          BY <1>5, <4>1, <4>2, <4>3 DEF IsOutcome
      <3>3. QED
        BY <3>1, <3>2
    <2>2. ASSUME NEW g \in Handler', state'[g] = "running", requests'[g].rid # NoId
          PROVE  /\ session'[lease'[g]].responses # <<>>
                 /\ IsOutcome(session[lease[g]].responses[Len(session[lease[g]].responses)],
                              lease[g], g)'
      <3>1. g \in Handler /\ g # h /\ state[g] = "running" /\ requests[g].rid # NoId
        BY <1>5, <2>2
      <3>2. lease[g] \in DOMAIN session
        <4>1. lease[g] > 0 /\ lease[g] <= Len(session)
          BY <3>1 DEF SessionsInv, LeasesHold, Active
        <4>2. QED
          BY <3>1, <4>1, ListFacts DEF SessionsInv
      <3>3. lease[g] # o
        BY <1>1, <3>1 DEF SessionsInv, LeasesHold, o
      <3>4. session'[lease'[g]] = session[lease[g]]
        BY <1>5, <1>13, <3>2, <3>3
      <3>5. /\ session[lease[g]].responses # <<>>
            /\ IsOutcome(session[lease[g]].responses[Len(session[lease[g]].responses)],
                         lease[g], g)
        BY <3>1 DEF SessionsInv, AnswersKept
      <3>6. QED
        BY <1>5, <3>1, <3>4, <3>5 DEF IsOutcome
    <2>3. QED
      BY <2>1, <2>2 DEF AnswersKept
  <1>22. QED
    BY <1>17, <1>21 DEF SessionsInv

-----------------------------------------------------------------------------
(* A turn begins.                                                          *)

(* Its number in the history, and the session it is of.                    *)
LEMMA StartFacts ==
  ASSUME SessionsInv, NEW h \in Handler, StartTurn(h),
         NEW o, o = lease[h], NEW N, N = Len(runs) + 1
  PROVE  /\ Enters(h) /\ IsNew(h) /\ Proceeds(h, "running", Unanswered)
         /\ o \in DOMAIN session /\ Handler' = Handler
         /\ UNCHANGED <<now, requests, lease>>
         /\ N \in Nat /\ DOMAIN runs = 1 .. Len(runs) /\ Len(runs) \in Nat
         /\ runs' \in Seq([handler : Nat, at : Nat])
         /\ DOMAIN runs' = 1 .. N /\ Len(runs') = N
         /\ runs'[N] = [handler |-> h, at |-> now]
         /\ \A i \in DOMAIN runs :
              /\ runs'[i] = runs[i] /\ RunOf(i)' = RunOf(i)
              /\ SessionOf(i)' = SessionOf(i) /\ i # N /\ i \in DOMAIN runs'
         /\ SessionOf(N)' = o /\ RunOf(N)' = requests[h]
  <1>1. IsNew(h) /\ Enters(h) /\ state[h] = "waiting" /\ LockFree(lease[h])
        /\ requests[h].message # Reads
        /\ UNCHANGED <<now, clientVars, answer, storeVars>>
        /\ state' = [state EXCEPT ![h] = "running"]
        /\ runs' = Append(runs, [handler |-> h, at |-> now])
    BY DEF StartTurn, IsNew, Enters
  <1>2. /\ answer[h] = Unanswered /\ o \in DOMAIN session
    <2>1. Active(h) /\ o \in DOMAIN session
      BY <1>1, WaitingFacts
    <2>2. QED
      BY <2>1 DEF SessionsInv, LeasesHold
  <1>3. answer' = [answer EXCEPT ![h] = Unanswered]
    <2>1. answer \in Seq(AnswerType)
      BY DEF SessionsInv, ListsTyped
    <2>2. answer = [g \in DOMAIN answer |-> answer[g]]
      BY <2>1
    <2>3. [answer EXCEPT ![h] = answer[h]] = answer
      BY <2>2
    <2>4. QED
      BY <1>1, <1>2, <2>3
  <1>4. Proceeds(h, "running", Unanswered)
    BY <1>1, <1>3 DEF Proceeds
  <1>5. Handler' = Handler /\ UNCHANGED <<now, requests, lease>>
    BY <1>1, <1>4, ProceedsFacts DEF Active
  <1>6. /\ runs \in Seq([handler : Nat, at : Nat]) /\ now \in Nat /\ h \in Nat
        /\ Len(runs) \in Nat /\ DOMAIN runs = 1 .. Len(runs)
    BY ListFacts DEF SessionsInv, ListsTyped
  <1>7. /\ runs' \in Seq([handler : Nat, at : Nat]) /\ Len(runs') = N
        /\ DOMAIN runs' = 1 .. N /\ runs'[N] = [handler |-> h, at |-> now]
        /\ \A i \in 1 .. Len(runs) : runs'[i] = runs[i]
    <2> DEFINE run == [handler |-> h, at |-> now]
    <2>1. run \in [handler : Nat, at : Nat]
      BY <1>6
    <2> HIDE DEF run
    <2>2. runs' = Append(runs, run)
      BY <1>1 DEF run
    <2>3. /\ runs' \in Seq([handler : Nat, at : Nat]) /\ Len(runs') = N
          /\ DOMAIN runs' = 1 .. N /\ runs'[N] = run
          /\ \A i \in 1 .. Len(runs) : runs'[i] = runs[i]
      BY <1>6, <2>1, <2>2, AppendFacts
    <2>4. QED
      BY <2>3 DEF run
  <1>8. \A i \in DOMAIN runs : i # N /\ i \in DOMAIN runs' /\ runs'[i] = runs[i]
    BY <1>6, <1>7
  <1>9. \A i \in DOMAIN runs :
          RunOf(i)' = RunOf(i) /\ SessionOf(i)' = SessionOf(i)
    BY <1>5, <1>8 DEF RunOf, SessionOf
  <1>10. SessionOf(N)' = o /\ RunOf(N)' = requests[h]
    BY <1>5, <1>7 DEF RunOf, SessionOf
  <1>11. N \in Nat
    BY <1>6
  <1>12. QED
    BY <1>1, <1>2, <1>4, <1>5, <1>6, <1>7, <1>8, <1>9, <1>10, <1>11

LEMMA StartedRuns ==
  ASSUME SessionsInv, NEW h \in Handler, StartTurn(h),
         NEW o, o = lease[h], NEW N, N = Len(runs) + 1
  PROVE  /\ \A q : q # o => RunsOf(q)' = RunsOf(q) /\ IdRunsOf(q)' = IdRunsOf(q)
         /\ RunsOf(o)' = RunsOf(o) \cup {N}
         /\ requests[h].rid # NoId => IdRunsOf(o)' = IdRunsOf(o) \cup {N}
         /\ requests[h].rid = NoId => IdRunsOf(o)' = IdRunsOf(o)
  <1>1. /\ DOMAIN runs' = 1 .. N /\ DOMAIN runs = 1 .. Len(runs) /\ Len(runs) \in Nat
        /\ \A i \in DOMAIN runs : RunOf(i)' = RunOf(i) /\ SessionOf(i)' = SessionOf(i)
        /\ SessionOf(N)' = o /\ RunOf(N)' = requests[h]
    <2>1. DOMAIN runs' = 1 .. N /\ DOMAIN runs = 1 .. Len(runs) /\ Len(runs) \in Nat
      BY StartFacts
    <2>2. \A i \in DOMAIN runs : RunOf(i)' = RunOf(i) /\ SessionOf(i)' = SessionOf(i)
      BY StartFacts
    <2>3. SessionOf(N)' = o /\ RunOf(N)' = requests[h]
      BY StartFacts, Zenon
    <2>4. QED
      BY <2>1, <2>2, <2>3
  <1>2. DOMAIN runs' = DOMAIN runs \cup {N} /\ N \notin DOMAIN runs
    BY <1>1
  <1>3. ASSUME NEW q
        PROVE  RunsOf(q)' = IF q = o THEN RunsOf(q) \cup {N} ELSE RunsOf(q)
    BY <1>1, <1>2 DEF RunsOf
  <1>4. ASSUME NEW q
        PROVE  IdRunsOf(q)' = IF q = o /\ requests[h].rid # NoId
                              THEN IdRunsOf(q) \cup {N} ELSE IdRunsOf(q)
    <2>1. N \notin RunsOf(q) /\ \A i \in RunsOf(q) : RunOf(i)' = RunOf(i)
      BY <1>1, <1>2 DEF RunsOf
    <2>2. QED
      BY <1>1, <1>3, <2>1 DEF IdRunsOf
  <1>5. QED
    BY <1>3, <1>4

(* What a session remembers of its last requests, with one more: the       *)
(* reservation is the last, and the first may have gone.                   *)
Reserved(responses, r, after) ==
  LET gone == Len(responses) + 1 - Len(after)
  IN /\ after \in Seq(Response) /\ Len(after) \in Nat /\ Len(after) <= Remembered
     /\ DOMAIN after = 1 .. Len(after)
     /\ Len(after) >= 1
     /\ after[Len(after)] = [rid |-> r.rid, message |-> r.message,
                             answer |-> Refusal("unknown")]
     /\ gone = (IF Len(responses) = Remembered THEN 1 ELSE 0)
     /\ \A p \in 1 .. Len(after) - 1 :
          after[p] = responses[p + gone] /\ p + gone \in 1 .. Len(responses)

LEMMA ReserveFacts ==
  ASSUME NEW responses \in Seq(Response), Len(responses) <= Remembered,
         NEW r \in Request, r.rid # NoId, r.message # Reads
  PROVE  Reserved(responses, r, Reserve(responses, r))
  <1> DEFINE e == [rid |-> r.rid, message |-> r.message, answer |-> Refusal("unknown")]
             kept == IF Len(responses) >= Remembered THEN Tail(responses) ELSE responses
             gone == IF Len(responses) = Remembered THEN 1 ELSE 0
             after == Reserve(responses, r)
  <1>1. e \in Response
    <2>1. r.rid \in RequestId /\ r.message \in Message
      BY DEF Request
    <2>2. Refusal("unknown") \in AnswerType
      BY RefusalTypes DEF AnswerStatus
    <2>3. QED
      BY <2>1, <2>2 DEF Response
  <1>2. after = Append(kept, e)
    BY DEF Reserve
  <1> HIDE DEF after
  <1>3. Len(responses) \in Nat /\ Remembered \in Nat /\ Remembered > 0
    BY LenProperties, Assumed
  <1>4. /\ kept \in Seq(Response) /\ Len(kept) = Len(responses) - gone
        /\ \A p \in 1 .. Len(kept) : kept[p] = responses[p + gone]
    <2>1. CASE Len(responses) >= Remembered
      <3>1. responses # <<>>
        BY <1>3, <2>1, EmptySeq
      <3>2. /\ Tail(responses) \in Seq(Response) /\ Len(Tail(responses)) = Len(responses) - 1
            /\ \A p \in 1 .. Len(Tail(responses)) : Tail(responses)[p] = responses[p + 1]
        BY <3>1, HeadTailProperties
      <3>3. gone = 1 /\ kept = Tail(responses)
        BY <1>3, <2>1
      <3>4. QED
        BY <3>2, <3>3
    <2>2. CASE ~(Len(responses) >= Remembered)
      <3>1. gone = 0 /\ kept = responses
        BY <1>3, <2>2
      <3> HIDE DEF kept, gone
      <3>2. Len(responses) - 0 = Len(responses) /\ \A p \in 1 .. Len(responses) : p + 0 = p
        BY <1>3
      <3>3. QED
        BY <3>1, <3>2
    <2>3. QED
      BY <2>1, <2>2
  <1>5. gone \in {0, 1} /\ (gone = 0 => Len(responses) < Remembered)
        /\ (gone = 1 => Len(responses) = Remembered)
        /\ gone = IF Len(responses) = Remembered THEN 1 ELSE 0
    BY <1>3
  <1> HIDE DEF kept, e, gone
  <1>6. /\ after \in Seq(Response) /\ Len(after) = Len(kept) + 1
        /\ DOMAIN after = 1 .. Len(kept) + 1 /\ after[Len(kept) + 1] = e
        /\ \A p \in 1 .. Len(kept) : after[p] = kept[p]
    BY <1>1, <1>2, <1>4, AppendFacts
  <1>7. /\ Len(after) \in Nat /\ Len(after) <= Remembered /\ Len(after) >= 1
        /\ Len(responses) + 1 - Len(after) = gone
        /\ Len(kept) + 1 = Len(after) /\ Len(kept) = Len(after) - 1
    BY <1>3, <1>4, <1>5, <1>6
  <1>8. \A p \in 1 .. Len(after) - 1 :
          after[p] = responses[p + gone] /\ p + gone \in 1 .. Len(responses)
    <2>1. \A p \in 1 .. Len(kept) : p + gone \in 1 .. Len(responses)
      BY <1>3, <1>4, <1>5
    <2>2. QED
      BY <1>4, <1>6, <1>7, <2>1
  <1>9. QED
    BY <1>5, <1>6, <1>7, <1>8 DEF e, after, Reserved

LEMMA StartTimes ==
  ASSUME SessionsInv, NEW h \in Handler, StartTurn(h), NEW o, o = lease[h],
         NEW times, times = Append(Recent(session[o]), now)
  PROVE  TimesMatch(o, times)' /\ times \in Seq(Nat)
  <1> DEFINE recent == Recent(session[o])
  <1>1. o \in DOMAIN session
    BY StartFacts
  <1>2. /\ \A i \in RunsOf(o) :
             LET later == Cardinality(Since(RunsOf(o), i))
             IN IF later <= Len(recent) THEN recent[Len(recent) - later + 1] = runs[i].at
                ELSE Old(runs[i].at)
    BY <1>1, RecentMatches DEF TimesMatch
  <1>3. recent \in Seq(Nat) /\ Len(recent) \in Nat /\ now \in Nat
    <2>1. session[o] \in SessionType /\ now \in Nat
      BY <1>1, ListFacts DEF SessionsInv
    <2>2. QED
      BY <2>1, RecentFacts, LenProperties
  <1> HIDE DEF recent
  <1>4. /\ times \in Seq(Nat) /\ Len(times) = Len(recent) + 1
        /\ times[Len(recent) + 1] = now
        /\ \A k \in 1 .. Len(recent) : times[k] = recent[k]
    BY <1>3, AppendFacts DEF recent
  <1>5. PICK N \in Nat : N = Len(runs) + 1
    BY ListFacts DEF SessionsInv
  <1>6. /\ RunsOf(o)' = RunsOf(o) \cup {N} /\ UNCHANGED now
        /\ \A i \in RunsOf(o) : runs'[i].at = runs[i].at
        /\ runs'[N].at = now
    <2>1. RunsOf(o)' = RunsOf(o) \cup {N}
      BY <1>5, StartedRuns
    <2>2. /\ UNCHANGED now /\ \A i \in DOMAIN runs : runs'[i] = runs[i]
          /\ runs'[N] = [handler |-> h, at |-> now]
      BY <1>5, StartFacts
    <2>3. QED
      BY <2>1, <2>2 DEF RunsOf
  <1>7. /\ Len(runs) \in Nat /\ RunsOf(o) \subseteq 1 .. Len(runs)
    BY RunsOfFacts, ListFacts DEF SessionsInv
  <1>8. /\ \A i \in RunsOf(o) :
             /\ Cardinality(Since(RunsOf(o) \cup {N}, i)) = Cardinality(Since(RunsOf(o), i)) + 1
             /\ Cardinality(Since(RunsOf(o), i)) \in Nat
             /\ Cardinality(Since(RunsOf(o), i)) >= 1
        /\ Cardinality(Since(RunsOf(o) \cup {N}, N)) = 1
    <2> DEFINE S == RunsOf(o)
    <2>1. S \subseteq 1 .. Len(runs) /\ S \subseteq 1 .. N - 1 /\ N > 0
      BY <1>5, <1>7
    <2> HIDE DEF S
    <2>2. \A i \in S : /\ Cardinality(Since(S, i)) \in Nat
                       /\ Cardinality(Since(S, i)) >= 1
      BY <1>7, <2>1, SinceFacts
    <2>3. /\ \A i \in S : Cardinality(Since(S \cup {N}, i)) = Cardinality(Since(S, i)) + 1
          /\ Cardinality(Since(S \cup {N}, N)) = 1
      BY <2>1, SinceGrows
    <2>4. QED
      BY <2>2, <2>3 DEF S
  <1>9. ASSUME NEW i \in RunsOf(o)
        PROVE  LET after == Cardinality(Since(RunsOf(o) \cup {N}, i))
               IN IF after <= Len(times) THEN times[Len(times) - after + 1] = runs'[i].at
                  ELSE Old(runs[i].at)
    <2> DEFINE before == Cardinality(Since(RunsOf(o), i))
               after == Cardinality(Since(RunsOf(o) \cup {N}, i))
    <2>1. before \in Nat /\ before >= 1 /\ after = before + 1
      BY <1>8
    <2>2. IF before <= Len(recent) THEN recent[Len(recent) - before + 1] = runs[i].at
          ELSE Old(runs[i].at)
      BY <1>2
    <2>3. runs'[i].at = runs[i].at
      BY <1>6
    <2> HIDE DEF before, after
    <2>4. IF after <= Len(times) THEN times[Len(times) - after + 1] = runs'[i].at
          ELSE Old(runs[i].at)
      <3>1. CASE before <= Len(recent)
        <4>1. Len(recent) - before + 1 \in 1 .. Len(recent)
              /\ Len(times) - after + 1 = Len(recent) - before + 1
              /\ after <= Len(times)
          BY <1>3, <1>4, <2>1, <3>1
        <4>2. QED
          BY <1>4, <2>2, <2>3, <3>1, <4>1
      <3>2. CASE ~(before <= Len(recent))
        <4>1. ~(after <= Len(times))
          BY <1>3, <1>4, <2>1, <3>2
        <4>2. QED
          BY <2>2, <3>2, <4>1
      <3>3. QED
        BY <3>1, <3>2
    <2>5. QED
      BY <2>4 DEF after
  <1>10. LET after == Cardinality(Since(RunsOf(o) \cup {N}, N))
         IN IF after <= Len(times) THEN times[Len(times) - after + 1] = runs'[N].at
            ELSE Old(runs[N].at)
    <2>1. 1 <= Len(times) /\ Len(times) - 1 + 1 = Len(recent) + 1
      BY <1>3, <1>4
    <2>2. QED
      BY <1>4, <1>6, <1>8, <2>1
  <1>11. \A i \in RunsOf(o) : Old(runs[i].at) <=> Old(runs[i].at)'
    BY <1>6 DEF Old
  <1>12. ASSUME NEW i \in RunsOf(o)'
         PROVE  LET after == Cardinality(Since(RunsOf(o)', i))
                IN IF after <= Len(times) THEN times[Len(times) - after + 1] = runs'[i].at
                   ELSE Old(runs[i].at)'
    <2>1. CASE i \in RunsOf(o)
      BY <1>6, <1>9, <1>11, <2>1
    <2>2. CASE i = N
      <3>1. Cardinality(Since(RunsOf(o)', i)) <= Len(times)
        BY <1>3, <1>4, <1>6, <1>8, <2>2
      <3>2. QED
        BY <1>6, <1>10, <2>2, <3>1
    <2>3. QED
      BY <1>6, <2>1, <2>2
  <1>13. QED
    BY <1>4, <1>12 DEF TimesMatch

LEMMA StartResponses ==
  ASSUME SessionsInv, NEW h \in Handler, StartTurn(h), NEW o, o = lease[h],
         NEW after, after = Reserve(session[o].responses, requests[h])
  PROVE  ResponsesMatch(o, after)'
  <1> DEFINE before == session[o].responses
             r == requests[h]
  <1>1. /\ o \in DOMAIN session /\ IsNew(h) /\ r \in Request /\ r.message # Reads
        /\ session[o] \in SessionType
    <2>1. o \in DOMAIN session /\ IsNew(h)
      BY StartFacts
    <2>2. QED
      BY <2>1, ListFacts DEF SessionsInv, IsNew
  <1>2. before \in Seq(Response) /\ Len(before) \in Nat /\ DOMAIN before = 1 .. Len(before)
    BY <1>1, SessionFacts
  <1>3. ResponsesMatch(o, before) /\ Len(before) <= Remembered
    BY <1>1 DEF SessionsInv, ResponsesTell, SessionsHold
  <1>4. PICK N \in Nat : N = Len(runs) + 1
    BY ListFacts DEF SessionsInv
  <1>5. /\ Len(runs) \in Nat /\ IdRunsOf(o) \subseteq 1 .. Len(runs)
    BY RunsOfFacts, ListFacts DEF SessionsInv
  <1>6. \A i \in IdRunsOf(o) : RunOf(i)' = RunOf(i)
    BY <1>4, StartFacts DEF IdRunsOf, RunsOf
  <1>7. CASE r.rid = NoId
    <2>1. IdRunsOf(o)' = IdRunsOf(o) /\ after = before
      BY <1>4, <1>7, StartedRuns DEF Reserve
    <2>2. QED
      BY <1>3, <1>6, <2>1 DEF ResponsesMatch
  <1>8. CASE r.rid # NoId
    <2>1. IdRunsOf(o)' = IdRunsOf(o) \cup {N} /\ RunOf(N)' = r
      <3>1. IdRunsOf(o)' = IdRunsOf(o) \cup {N}
        BY <1>4, <1>8, StartedRuns
      <3>2. RunOf(N)' = r
        BY <1>4, StartFacts
      <3>3. QED
        BY <3>1, <3>2
    <2> DEFINE gone == Len(before) + 1 - Len(after)
    <2>2. /\ Len(after) \in Nat /\ Len(after) <= Remembered
          /\ DOMAIN after = 1 .. Len(after)
          /\ Len(after) >= 1 /\ after[Len(after)].rid = r.rid
          /\ gone = (IF Len(before) = Remembered THEN 1 ELSE 0)
          /\ \A p \in 1 .. Len(after) - 1 :
               after[p] = before[p + gone] /\ p + gone \in 1 .. Len(before)
      <3>1. /\ after = Reserve(before, r) /\ before \in Seq(Response)
            /\ Len(before) <= Remembered /\ r \in Request /\ r.rid # NoId
            /\ r.message # Reads
        BY <1>1, <1>2, <1>3, <1>8
      <3> HIDE DEF before, r
      <3>2. Reserved(before, r, after)
        BY <3>1, ReserveFacts
      <3>3. after[Len(after)].rid = r.rid
        <4>1. after[Len(after)] = [rid |-> r.rid, message |-> r.message,
                                   answer |-> Refusal("unknown")]
          BY <3>2 DEF Reserved
        <4> HIDE DEF gone
        <4>2. QED
          BY <4>1
      <3>4. Len(after) \in Nat /\ Len(after) <= Remembered
            /\ DOMAIN after = 1 .. Len(after) /\ Len(after) >= 1
        BY <3>2 DEF Reserved
      <3>5. gone = (IF Len(before) = Remembered THEN 1 ELSE 0)
        BY <3>2 DEF Reserved
      <3>6. \A p \in 1 .. Len(after) - 1 :
              after[p] = before[p + gone] /\ p + gone \in 1 .. Len(before)
        BY <3>2 DEF Reserved
      <3> HIDE DEF gone
      <3>7. QED
        BY <3>3, <3>4, <3>5, <3>6
    <2>3. /\ \A i \in IdRunsOf(o) :
               /\ Cardinality(Since(IdRunsOf(o) \cup {N}, i))
                    = Cardinality(Since(IdRunsOf(o), i)) + 1
               /\ Cardinality(Since(IdRunsOf(o), i)) \in Nat
               /\ Cardinality(Since(IdRunsOf(o), i)) >= 1
          /\ Cardinality(Since(IdRunsOf(o) \cup {N}, N)) = 1
      <3> DEFINE S == IdRunsOf(o)
      <3>1. S \subseteq 1 .. Len(runs) /\ S \subseteq 1 .. N - 1 /\ N > 0
        BY <1>4, <1>5
      <3> HIDE DEF S
      <3>2. \A i \in S : /\ Cardinality(Since(S, i)) \in Nat
                         /\ Cardinality(Since(S, i)) >= 1
        BY <1>5, <3>1, SinceFacts
      <3>3. /\ \A i \in S : Cardinality(Since(S \cup {N}, i)) = Cardinality(Since(S, i)) + 1
            /\ Cardinality(Since(S \cup {N}, N)) = 1
        BY <3>1, SinceGrows
      <3>4. QED
        BY <3>2, <3>3 DEF S
    <2>4. \A p \in DOMAIN before : before[p].rid # r.rid
      BY <1>1, <1>8 DEF IsNew, Earlier
    <2> HIDE DEF before, r
    <2>5. /\ gone \in {0, 1} /\ Len(after) = Len(before) + 1 - gone
          /\ Len(after) \in Nat /\ Len(before) \in Nat
          /\ gone = 1 <=> Len(before) = Remembered
      <3>1. /\ Len(after) \in Nat /\ Len(before) \in Nat /\ Remembered \in Nat
            /\ gone = (IF Len(before) = Remembered THEN 1 ELSE 0)
        BY <1>2, <2>2, Assumed
      <3>2. Len(after) = Len(before) + 1 - gone
        BY <3>1
      <3> HIDE DEF gone, before
      <3>3. QED
        BY <3>1, <3>2
    <2>6. ASSUME NEW i \in IdRunsOf(o)'
          PROVE  LET now_later == Cardinality(Since(IdRunsOf(o)', i))
                 IN IF now_later <= Len(after)
                    THEN after[Len(after) - now_later + 1].rid = RunOf(i)'.rid
                    ELSE Len(after) = Remembered
      <3>1. CASE i = N
        <4>1. 1 <= Len(after) /\ Len(after) - 1 + 1 = Len(after)
          BY <2>2
        <4>2. Cardinality(Since(IdRunsOf(o)', i)) = 1
          BY <2>1, <2>3, <3>1
        <4>3. QED
          BY <2>1, <2>2, <3>1, <4>1, <4>2
      <3>2. CASE i \in IdRunsOf(o)
        <4> DEFINE later == Cardinality(Since(IdRunsOf(o), i))
        <4>1. /\ later \in Nat /\ later >= 1
              /\ Cardinality(Since(IdRunsOf(o)', i)) = later + 1
          BY <2>1, <2>3, <3>2
        <4>2. IF later <= Len(before) THEN before[Len(before) - later + 1].rid = RunOf(i).rid
              ELSE Len(before) = Remembered
          BY <1>3, <3>2 DEF ResponsesMatch
        <4>3. RunOf(i)' = RunOf(i)
          BY <1>6, <3>2
        <4> HIDE DEF later, gone
        <4>4. CASE later + 1 <= Len(after)
          <5>1. /\ later <= Len(before)
                /\ Len(after) - (later + 1) + 1 \in 1 .. Len(after) - 1
                /\ Len(after) - (later + 1) + 1 + gone = Len(before) - later + 1
            BY <2>5, <4>1, <4>4
          <5>2. after[Len(after) - (later + 1) + 1] = before[Len(before) - later + 1]
            BY <2>2, <5>1
          <5>3. QED
            BY <4>1, <4>2, <4>3, <4>4, <5>1, <5>2
        <4>5. CASE ~(later + 1 <= Len(after))
          <5>1. Len(after) = Remembered
            <6>1. CASE gone = 1
              BY <2>5, <6>1
            <6>2. CASE gone = 0
              <7>1. Len(before) # Remembered /\ ~(later <= Len(before))
                BY <2>5, <4>1, <4>5, <6>2
              <7>2. QED
                BY <4>2, <7>1
            <6>3. QED
              BY <2>5, <6>1, <6>2
          <5>2. QED
            BY <4>1, <4>5, <5>1
        <4>6. QED
          BY <4>4, <4>5
      <3>3. QED
        BY <2>1, <3>1, <3>2
    <2>7. ASSUME NEW p \in DOMAIN after
          PROVE  \E i \in IdRunsOf(o)' :
                   Cardinality(Since(IdRunsOf(o)', i)) = Len(after) - p + 1
      <3> HIDE DEF gone
      <3>1. CASE p = Len(after)
        <4>1. Len(after) - p + 1 = 1
          BY <2>2, <3>1
        <4>2. N \in IdRunsOf(o)' /\ Cardinality(Since(IdRunsOf(o)', N)) = 1
          BY <2>1, <2>3
        <4>3. QED
          BY <4>1, <4>2
      <3>2. CASE p # Len(after)
        <4>1. p \in 1 .. Len(after) - 1 /\ p \in Nat
          BY <2>2, <3>2
        <4>2. p + gone \in DOMAIN before
          BY <1>2, <2>2, <4>1
        <4>3. PICK i \in IdRunsOf(o) :
                Cardinality(Since(IdRunsOf(o), i)) = Len(before) - (p + gone) + 1
          BY <1>3, <4>2 DEF ResponsesMatch, before
        <4>4. Cardinality(Since(IdRunsOf(o)', i)) = Len(before) - (p + gone) + 1 + 1
          BY <2>1, <2>3, <4>3
        <4>5. Len(before) - (p + gone) + 1 + 1 = Len(after) - p + 1
          BY <1>2, <2>2, <2>5, <4>1
        <4>6. QED
          BY <2>1, <4>4, <4>5
      <3>3. QED
        BY <3>1, <3>2
    <2>8. ASSUME NEW p \in DOMAIN after, NEW q \in DOMAIN after, after[p].rid = after[q].rid
          PROVE  p = q
      <3> HIDE DEF gone
      <3>1. \A k \in DOMAIN after : k # Len(after) =>
              k \in Nat /\ after[k] = before[k + gone] /\ k + gone \in DOMAIN before
        BY <1>2, <2>2
      <3>2. \A k \in DOMAIN after : k # Len(after) => after[k].rid # r.rid
        BY <2>4, <3>1
      <3>3. CASE p = Len(after) \/ q = Len(after)
        <4>1. after[Len(after)].rid = r.rid
          BY <2>2
        <4> HIDE DEF r
        <4>2. QED
          BY <2>8, <3>2, <3>3, <4>1
      <3>4. CASE p # Len(after) /\ q # Len(after)
        <4>1. p + gone = q + gone
          BY <1>3, <2>8, <3>1, <3>4 DEF ResponsesMatch
        <4>2. QED
          BY <2>5, <3>1, <3>4, <4>1
      <3>5. QED
        BY <3>3, <3>4
    <2>9. QED
      BY <2>6, <2>7, <2>8 DEF ResponsesMatch
  <1>9. QED
    BY <1>7, <1>8

LEMMA TurnRecord ==
  ASSUME NEW s \in [turns : Nat, full : BOOLEAN, times : Seq(Nat), responses : Seq(Response)],
         NEW times \in Seq(Nat), NEW after \in Seq(Response)
  PROVE  [s EXCEPT !.times = times, !.responses = after, !.turns = s.turns + 1]
           = [turns |-> s.turns + 1, full |-> s.full, times |-> times, responses |-> after]
  <1> DEFINE l == [s EXCEPT !.times = times, !.responses = after, !.turns = s.turns + 1]
  <1>1. DOMAIN l = {"turns", "full", "times", "responses"}
    OBVIOUS
  <1>2. l.turns = s.turns + 1 /\ l.full = s.full /\ l.times = times /\ l.responses = after
    OBVIOUS
  <1>3. l = [x \in {"turns", "full", "times", "responses"} |-> l[x]]
    BY <1>1
  <1> HIDE DEF l
  <1>4. l = [turns |-> s.turns + 1, full |-> s.full, times |-> times, responses |-> after]
    BY <1>2, <1>3
  <1>5. QED
    BY <1>4 DEF l

LEMMA StartTurnHolds ==
  ASSUME SessionsInv, NEW h \in Handler, StartTurn(h)
  PROVE  SessionsInv'
  <1>0. PICK o : o = lease[h]
    OBVIOUS
  <1>1. PICK N \in Nat : N = Len(runs) + 1
    BY ListFacts DEF SessionsInv
  <1>2. PICK times : times = Append(Recent(session[o]), now)
    OBVIOUS
  <1> DEFINE s == session[o]
             r == requests[h]
  <1>3. PICK after : after = Reserve(s.responses, r)
    OBVIOUS
  <1>4. /\ Enters(h) /\ IsNew(h) /\ Proceeds(h, "running", Unanswered)
        /\ o \in DOMAIN session /\ Handler' = Handler
        /\ UNCHANGED <<now, requests, lease>>
        /\ DOMAIN runs = 1 .. Len(runs) /\ Len(runs) \in Nat
        /\ runs' \in Seq([handler : Nat, at : Nat])
        /\ DOMAIN runs' = 1 .. N
        /\ runs'[N] = [handler |-> h, at |-> now]
        /\ \A i \in DOMAIN runs :
             runs'[i] = runs[i] /\ RunOf(i)' = RunOf(i) /\ SessionOf(i)' = SessionOf(i)
        /\ SessionOf(N)' = o
    BY <1>0, <1>1, StartFacts
  <1>5. /\ Active(h) /\ state[h] = "waiting" /\ LockFree(o)
        /\ s \in SessionType /\ r \in Request /\ r.message # Reads
        /\ session \in Seq(SessionType) /\ Len(session) \in Nat
        /\ DOMAIN session = 1 .. Len(session) /\ Len(requests) \in Nat
    <2>1. Enters(h) /\ r.message # Reads
      BY <1>4 DEF IsNew
    <2>2. QED
      BY <1>0, <2>1, WaitingFacts
  <1>6. /\ s.responses \in Seq(Response) /\ Len(s.responses) \in Nat
        /\ DOMAIN s.responses = 1 .. Len(s.responses)
        /\ s.turns \in Nat /\ Len(s.responses) <= Remembered
    BY <1>4, <1>5, SessionFacts DEF SessionsInv, SessionsHold
  <1>7. TimesMatch(o, times)' /\ times \in Seq(Nat)
    BY <1>0, <1>2, StartTimes
  <1>8. ResponsesMatch(o, after)'
    BY <1>0, <1>3, StartResponses
  <1>9. r.rid = NoId => after = s.responses
    BY <1>3 DEF Reserve
  <1>10. r.rid # NoId =>
           Reserved(s.responses, r, after)
    <2>1. SUFFICES ASSUME r.rid # NoId
                   PROVE  Reserved(s.responses, r, after)
      OBVIOUS
    <2> DEFINE before == s.responses
    <2>2. /\ after = Reserve(before, r) /\ before \in Seq(Response)
          /\ Len(before) <= Remembered /\ r \in Request /\ r.rid # NoId
          /\ r.message # Reads
      BY <1>3, <1>5, <1>6, <2>1
    <2> HIDE DEF before, r
    <2>3. QED
      BY <2>2, ReserveFacts DEF before
  <1>11. after \in Seq(Response) /\ Len(after) <= Remembered
    BY <1>6, <1>9, <1>10 DEF Reserved
  <1> HIDE DEF r
  <1> DEFINE later == [turns |-> s.turns + 1, full |-> s.full, times |-> times,
                       responses |-> after]
  <1>12. session' = [session EXCEPT ![o] = later] /\ s.turns < MaxSessionTurns
    <2>1. session' = [session EXCEPT ![o] = later]
      <3>1. session' = [session EXCEPT ![o] =
                          [s EXCEPT !.times = times, !.responses = after,
                                    !.turns = s.turns + 1]]
        BY <1>0, <1>2, <1>3 DEF StartTurn, r
      <3>2. s \in [turns : Nat, full : BOOLEAN, times : Seq(Nat), responses : Seq(Response)]
            /\ times \in Seq(Nat) /\ after \in Seq(Response)
        BY <1>5, <1>7, <1>11 DEF SessionType
      <3>3. [s EXCEPT !.times = times, !.responses = after, !.turns = s.turns + 1] = later
        BY <3>2, TurnRecord
      <3>4. QED
        BY <3>1, <3>3
    <2>2. ~(s.turns >= MaxSessionTurns)
      BY <1>0 DEF StartTurn, Full
    <2>3. QED
      BY <1>6, <2>1, <2>2, Assumed
  <1>13. /\ later \in SessionType /\ later.times = times /\ later.responses = after
         /\ later.turns <= MaxSessionTurns
    <2> HIDE DEF s
    <2>1. later \in SessionType /\ later.times = times /\ later.responses = after
          /\ later.turns = s.turns + 1
      <3>1. s \in [turns : Nat, full : BOOLEAN, times : Seq(Nat), responses : Seq(Response)]
            /\ s.turns + 1 \in Nat
        BY <1>5, <1>6 DEF SessionType
      <3>2. times \in Seq(Nat) /\ after \in Seq(Response)
        BY <1>7, <1>11
      <3>3. QED
        BY <3>1, <3>2 DEF SessionType
    <2>2. s.turns + 1 <= MaxSessionTurns
      BY <1>6, <1>12, Assumed
    <2>3. QED
      BY <2>1, <2>2
  <1> HIDE DEF later, s
  <1>14. session' \in Seq(SessionType) /\ Len(session') = Len(session)
    BY <1>4, <1>5, <1>12, <1>13, ExceptSeq
  <1>15. \A q \in DOMAIN session : session'[q] = IF q = o THEN later ELSE session[q]
    BY <1>5, <1>12
  <1>16. DOMAIN session' = DOMAIN session
    BY <1>5, <1>14, LenProperties
  <1>17. ListsTyped' /\ StoreHolds' /\ LeasesHold'
    <2>1. Unanswered \in AnswerType /\ Unanswered.by <= Len(requests)
      BY <1>5, RefusalTypes DEF Unanswered, AnswerStatus
    <2>2. QED
      BY <1>4, <1>5, <1>14, <2>1, ProceedsHolds DEF Status
  <1>18. SessionsHold'
    BY <1>11, <1>13, <1>15, <1>16 DEF SessionsInv, SessionsHold
  <1>19. RunsHold'
    <2>1. o > 0
      BY <1>4, <1>5
    <2>2. \A i \in DOMAIN runs' : i \in DOMAIN runs \/ i = N
      BY <1>1, <1>4
    <2>3. \A i \in DOMAIN runs : runs[i].handler \in Handler /\ SessionOf(i) > 0
      BY DEF SessionsInv, RunsHold
    <2>4. ASSUME NEW i \in DOMAIN runs'
          PROVE  runs'[i].handler \in Handler' /\ SessionOf(i)' > 0
      BY <1>4, <2>1, <2>2, <2>3
    <2>5. QED
      BY <2>4 DEF RunsHold
  <1>20. /\ \A q : q # o => RunsOf(q)' = RunsOf(q) /\ IdRunsOf(q)' = IdRunsOf(q)
    BY <1>0, <1>1, StartedRuns
  <1>21. TimesTell'
    <2>1. ASSUME NEW q \in DOMAIN session, q # o
          PROVE  TimesMatch(q, session[q].times)'
      <3>1. TimesMatch(q, session[q].times)
        BY DEF SessionsInv, TimesTell
      <3>2. \A i \in RunsOf(q) : runs'[i] = runs[i]
        BY <1>4 DEF RunsOf
      <3>3. session'[q] = session[q] /\ RunsOf(q)' = RunsOf(q) /\ UNCHANGED now
        BY <1>4, <1>15, <1>20, <2>1
      <3>4. QED
        BY <3>1, <3>2, <3>3 DEF TimesMatch, Old
    <2>2. ASSUME NEW q \in DOMAIN session, q = o
          PROVE  TimesMatch(q, session[q].times)'
      <3>1. session'[q].times = times
        BY <1>13, <1>15, <2>2
      <3>2. QED
        BY <1>7, <2>2, <3>1 DEF TimesMatch
    <2>3. QED
      BY <1>16, <2>1, <2>2 DEF TimesTell
  <1>22. ResponsesTell'
    <2>1. ASSUME NEW q \in DOMAIN session, q # o
          PROVE  ResponsesMatch(q, session[q].responses)'
      <3>1. ResponsesMatch(q, session[q].responses)
        BY DEF SessionsInv, ResponsesTell
      <3>2. \A i \in IdRunsOf(q) : RunOf(i)' = RunOf(i)
        BY <1>4 DEF IdRunsOf, RunsOf
      <3>3. session'[q] = session[q] /\ IdRunsOf(q)' = IdRunsOf(q)
        BY <1>15, <1>20, <2>1
      <3>4. QED
        BY <3>1, <3>2, <3>3 DEF ResponsesMatch
    <2>2. ASSUME NEW q \in DOMAIN session, q = o
          PROVE  ResponsesMatch(q, session[q].responses)'
      <3>1. session'[q].responses = after
        BY <1>13, <1>15, <2>2
      <3>2. QED
        BY <1>8, <2>2, <3>1 DEF ResponsesMatch
    <2>3. QED
      BY <1>16, <2>1, <2>2 DEF ResponsesTell
  <1>23. /\ \A g \in Handler : g # h => state'[g] = state[g] /\ answer'[g] = answer[g]
         /\ state'[h] = "running"
    BY <1>4, <1>5, ProceedsFacts
  <1>24. ASSUME NEW e, NEW q, NEW g \in Handler, IsOutcome(e, q, g)
         PROVE  g # h /\ IsOutcome(e, q, g)'
    <2>1. g # h
      BY <1>5, <1>24 DEF IsOutcome
    <2>2. QED
      BY <1>4, <1>23, <1>24, <2>1 DEF IsOutcome
  <1>25. AnswersKept'
    <2>1. ASSUME NEW q \in DOMAIN session, NEW p \in DOMAIN session[q].responses,
                 NEW e, e = session[q].responses[p]
          PROVE  \E g \in Handler' : IsOutcome(e, q, g)'
      <3>1. PICK g \in Handler : IsOutcome(e, q, g)
        BY <2>1 DEF SessionsInv, AnswersKept
      <3>2. QED
        BY <1>4, <1>24, <3>1
    <2>2. r.rid # NoId => IsOutcome(after[Len(after)], o, h)'
      <3>1. SUFFICES ASSUME r.rid # NoId PROVE IsOutcome(after[Len(after)], o, h)'
        OBVIOUS
      <3>2. after[Len(after)] = [rid |-> r.rid, message |-> r.message,
                                 answer |-> Refusal("unknown")]
        BY <1>10, <3>1 DEF Reserved
      <3>3. lease'[h] = o /\ requests'[h] = r /\ state'[h] = "running"
        BY <1>0, <1>4, <1>23 DEF r
      <3>4. QED
        BY <3>2, <3>3 DEF IsOutcome
    <2>3. ASSUME NEW p \in DOMAIN after
          PROVE  \E g \in Handler' : IsOutcome(after[p], o, g)'
      <3>1. CASE r.rid = NoId
        BY <1>4, <1>9, <2>1, <2>3, <3>1 DEF s
      <3>2. CASE r.rid # NoId /\ p = Len(after)
        BY <1>4, <2>2, <3>2
      <3>3. CASE r.rid # NoId /\ p # Len(after)
        <4>1. p \in 1 .. Len(after) - 1
          BY <1>10, <2>3, <3>3 DEF Reserved
        <4>2. \E k \in DOMAIN s.responses : after[p] = s.responses[k]
          BY <1>6, <1>10, <3>3, <4>1 DEF Reserved
        <4>3. QED
          BY <1>4, <2>1, <4>2 DEF s
      <3>4. QED
        BY <3>1, <3>2, <3>3
    <2>4. ASSUME NEW q \in DOMAIN session', NEW p \in DOMAIN session'[q].responses
          PROVE  \E g \in Handler' : IsOutcome(session[q].responses[p], q, g)'
      <3>1. CASE q = o
        <4>1. session'[q].responses = after
          BY <1>4, <1>13, <1>15, <3>1
        <4>2. PICK g \in Handler' : IsOutcome(after[p], o, g)'
          BY <2>3, <2>4, <4>1
        <4>3. QED
          BY <3>1, <4>1, <4>2 DEF IsOutcome
      <3>2. CASE q # o
        <4>1. session'[q] = session[q] /\ q \in DOMAIN session
          BY <1>15, <1>16, <3>2
        <4>2. PICK e : e = session[q].responses[p]
          OBVIOUS
        <4>3. PICK g \in Handler' : IsOutcome(e, q, g)'
          BY <2>1, <2>4, <3>2, <4>1, <4>2
        <4>4. QED
          BY <4>1, <4>2, <4>3 DEF IsOutcome
      <3>3. QED
        BY <3>1, <3>2
    <2>5. ASSUME NEW g \in Handler', state'[g] = "running", requests'[g].rid # NoId
          PROVE  /\ session'[lease'[g]].responses # <<>>
                 /\ IsOutcome(session[lease[g]].responses[Len(session[lease[g]].responses)],
                              lease[g], g)'
      <3>1. CASE g = h
        <4>1. r.rid # NoId /\ lease'[g] = o
          BY <1>0, <1>4, <2>5, <3>1 DEF r
        <4>2. session'[lease'[g]].responses = after
          BY <1>4, <1>13, <1>15, <4>1
        <4>3. after # <<>>
          BY <1>10, <4>1, EmptySeq DEF Reserved
        <4>4. QED
          BY <2>2, <3>1, <4>1, <4>2, <4>3 DEF IsOutcome
      <3>2. CASE g # h
        <4>1. g \in Handler /\ state[g] = "running" /\ requests[g].rid # NoId
              /\ lease'[g] = lease[g]
          BY <1>4, <1>23, <2>5, <3>2
        <4>2. lease[g] \in DOMAIN session
          <5>1. lease[g] > 0 /\ lease[g] <= Len(session)
            BY <4>1 DEF SessionsInv, LeasesHold, Active
          <5>2. QED
            BY <4>1, <5>1, ListFacts DEF SessionsInv
        <4>3. lease[g] # o
          BY <1>5, <4>1 DEF LockFree
        <4>4. session'[lease'[g]] = session[lease[g]]
          BY <1>15, <4>1, <4>2, <4>3
        <4>5. /\ session[lease[g]].responses # <<>>
              /\ IsOutcome(session[lease[g]].responses[Len(session[lease[g]].responses)],
                           lease[g], g)
          BY <4>1 DEF SessionsInv, AnswersKept
        <4>6. QED
          BY <1>4, <1>23, <3>2, <4>1, <4>4, <4>5 DEF IsOutcome
      <3>3. QED
        BY <3>1, <3>2
    <2>6. QED
      BY <2>4, <2>5 DEF AnswersKept
  <1>26. QED
    BY <1>17, <1>18, <1>19, <1>21, <1>22, <1>25 DEF SessionsInv

-----------------------------------------------------------------------------
(* The invariant holds of every reachable state.                           *)

(* What is old stays old.                                                  *)
LEMMA TickHolds ==
  ASSUME SessionsInv, Tick
  PROVE  SessionsInv'
  <1>1. /\ now' = now + 1 /\ now' <= MaxTime /\ now \in Nat /\ MaxTime \in Nat
        /\ now' \in 0 .. MaxTime
    BY ListFacts, Assumed DEF Tick, SessionsInv
  <1>2. UNCHANGED <<requests, lease, state, answer, store, lastSeen, session, runs>>
    BY DEF Tick, clientVars, handlerVars, storeVars
  <1>3. ListsTyped' /\ StoreHolds' /\ SessionsHold'
    BY <1>1, <1>2 DEF SessionsInv, ListsTyped, StoreHolds, Stored, SessionsHold
  <1>4. LeasesHold'
    BY <1>2 DEF SessionsInv, LeasesHold, Handler, Active
  <1>5. RunsHold'
    BY <1>2 DEF SessionsInv, RunsHold, SessionOf, Handler
  <1>6. \A o : RunsOf(o)' = RunsOf(o) /\ IdRunsOf(o)' = IdRunsOf(o)
    BY <1>2 DEF RunsOf, IdRunsOf, SessionOf, RunOf
  <1>7. \A i \in DOMAIN runs : runs[i].at \in Nat /\ RunOf(i)' = RunOf(i)
    BY <1>2, ListFacts DEF SessionsInv, RunOf
  <1>8. \A i \in DOMAIN runs : Old(runs[i].at) => Old(runs[i].at)'
    <2>1. \A t \in Nat : now - t >= Minute => now + 1 - t >= Minute
      BY <1>1, Assumed
    <2>2. QED
      BY <1>1, <1>2, <1>7, <2>1 DEF Old
  <1>9. TimesTell'
    <2>1. ASSUME NEW o \in DOMAIN session
          PROVE  TimesMatch(o, session[o].times)'
      <3>1. TimesMatch(o, session[o].times)
        BY DEF SessionsInv, TimesTell
      <3>2. RunsOf(o) \subseteq DOMAIN runs
        BY DEF RunsOf
      <3>3. QED
        BY <1>2, <1>6, <1>8, <3>1, <3>2 DEF TimesMatch
    <2>2. QED
      BY <1>2, <2>1 DEF TimesTell
  <1>10. ResponsesTell'
    <2>1. ASSUME NEW o \in DOMAIN session
          PROVE  ResponsesMatch(o, session[o].responses)'
      <3>1. ResponsesMatch(o, session[o].responses)
        BY DEF SessionsInv, ResponsesTell
      <3>2. IdRunsOf(o) \subseteq DOMAIN runs
        BY DEF IdRunsOf, RunsOf
      <3>3. QED
        BY <1>2, <1>6, <1>7, <3>1, <3>2 DEF ResponsesMatch
    <2>2. QED
      BY <1>2, <2>1 DEF ResponsesTell
  <1>11. AnswersKept'
    BY <1>2 DEF SessionsInv, AnswersKept, IsOutcome, Handler
  <1>12. QED
    BY <1>3, <1>4, <1>5, <1>9, <1>10, <1>11 DEF SessionsInv

LEMMA SessionsNext ==
  ASSUME SessionsInv, [Next]_vars
  PROVE  SessionsInv'
  <1>1. ASSUME NEW r \in Requests, Arrive(r) PROVE SessionsInv'
    BY <1>1, ArriveHolds
  <1>2. ASSUME NEW h \in Handler, Serve(h) PROVE SessionsInv'
    <2>1. CASE Show(h) \/ RefuseFull(h)
      BY <2>1, RefusalsHold
    <2>2. CASE Replay(h)
      BY <2>2, ReplayHolds
    <2>3. CASE RefuseRate(h)
      BY <2>3, RefuseRateHolds
    <2>4. CASE StartTurn(h)
      BY <2>4, StartTurnHolds
    <2>5. CASE \E status \in {"ok", "failed"}, full \in BOOLEAN : EndTurn(h, status, full)
      BY <2>5, EndTurnHolds
    <2>6. QED
      BY <1>2, <2>1, <2>2, <2>3, <2>4, <2>5 DEF Serve
  <1>3. ASSUME NEW h \in Handler, Drop(h) PROVE SessionsInv'
    BY <1>3, DropHolds
  <1>4. CASE Tick
    BY <1>4, TickHolds
  <1>5. CASE UNCHANGED vars
    <2>1. UNCHANGED <<now, requests, lease, state, answer, store, lastSeen, session, runs>>
      BY <1>5 DEF vars, clientVars, handlerVars, storeVars
    <2>2. ListsTyped' /\ StoreHolds' /\ SessionsHold' /\ LeasesHold' /\ RunsHold'
      BY <2>1 DEF SessionsInv, ListsTyped, StoreHolds, Stored, SessionsHold, LeasesHold,
                  Handler, Active, RunsHold, SessionOf
    <2>3. \A o : RunsOf(o)' = RunsOf(o) /\ IdRunsOf(o)' = IdRunsOf(o)
      BY <2>1 DEF RunsOf, IdRunsOf, SessionOf, RunOf
    <2>4. TimesTell' /\ ResponsesTell'
      <3>1. TimesTell'
        BY <2>1, <2>3 DEF SessionsInv, TimesTell, TimesMatch, Old
      <3>2. ResponsesTell'
        BY <2>1, <2>3 DEF SessionsInv, ResponsesTell, ResponsesMatch, RunOf
      <3>3. QED
        BY <3>1, <3>2
    <2>5. AnswersKept'
      BY <2>1 DEF SessionsInv, AnswersKept, IsOutcome, Handler
    <2>6. QED
      BY <2>2, <2>4, <2>5 DEF SessionsInv
  <1>6. QED
    BY <1>1, <1>2, <1>3, <1>4, <1>5 DEF Next

-----------------------------------------------------------------------------
(* The turns of a session follow one another.                              *)

LEMMA TypesAndTurns ==
  ASSUME SessionsInv
  PROVE  SessionsTypeOK /\ OneTurnAtATime
  <1>1. /\ Len(requests) \in Nat /\ Handler = 1 .. Len(requests)
        /\ DOMAIN state = Handler /\ DOMAIN lease = Handler /\ DOMAIN answer = Handler
        /\ \A h \in Handler :
             /\ requests[h] \in Request /\ state[h] \in Status /\ lease[h] \in Nat
             /\ answer[h] \in AnswerType
        /\ Len(session) \in Nat /\ DOMAIN session = 1 .. Len(session)
        /\ \A o \in DOMAIN session : session[o] \in SessionType
    BY ListFacts DEF SessionsInv
  <1>2. ASSUME NEW h \in Handler
        PROVE  /\ state[h] \in {"waiting", "running", "done", "dropped"}
               /\ lease[h] \in 0 .. Len(session)
               /\ Active(h) => lease[h] > 0
               /\ answer[h].by \in 0 .. Len(requests)
    <2>1. /\ lease[h] <= Len(session) /\ answer[h].by <= Len(requests)
          /\ Active(h) => lease[h] > 0
      BY DEF SessionsInv, LeasesHold
    <2>2. answer[h].by \in Nat
      BY <1>1 DEF AnswerType
    <2>3. QED
      BY <1>1, <2>1, <2>2 DEF Status
  <1>3. ASSUME NEW o \in DOMAIN session
        PROVE  /\ session[o].turns \in 0 .. MaxSessionTurns
               /\ session[o].full \in BOOLEAN
               /\ Len(session[o].responses) <= Remembered
    <2>1. session[o].turns \in Nat /\ session[o].full \in BOOLEAN
      BY <1>1, SessionFacts
    <2>2. QED
      BY <2>1, Assumed DEF SessionsInv, SessionsHold
  <1>4. SessionsTypeOK
    BY <1>1, <1>2, <1>3 DEF SessionsInv, ListsTyped, StoreHolds, SessionsTypeOK
  <1>5. \A h \in Handler : Active(h) => store[requests[h].sid] = lease[h]
    BY DEF SessionsInv, LeasesHold
  <1>6. \A h, g \in Handler :
          state[h] = "running" /\ state[g] = "running" /\ lease[h] = lease[g] => h = g
    BY DEF SessionsInv, LeasesHold
  <1>7. OneTurnAtATime
    BY <1>5, <1>6 DEF OneTurnAtATime, Active
  <1>8. QED
    BY <1>4, <1>7

(* Only the start of a turn makes history.                                 *)
LEMMA OtherSteps ==
  ASSUME SessionsInv, [Next]_vars, ~\E h \in Handler : StartTurn(h)
  PROVE  /\ UNCHANGED runs
         /\ \A h \in Handler : requests'[h] = requests[h] /\ lease'[h] = lease[h]
  <1>1. ASSUME NEW r \in Requests, Arrive(r)
        PROVE  /\ UNCHANGED runs
               /\ \A h \in Handler : requests'[h] = requests[h] /\ lease'[h] = lease[h]
    <2>0. PICK holds \in Nat : \E st, a : Ask(r, holds, st, a)
      <3>1. 0 \in Nat /\ Len(session) + 1 \in Nat /\ store[r.sid] \in Nat
        BY ListFacts, Assumed DEF SessionsInv, StoreHolds, Request
      <3>2. QED
        BY <1>1, <3>1 DEF Arrive, Join, ReadMissing, Create, EverySessionBusy
    <2>1. PICK st, a : Ask(r, holds, st, a)
      BY <2>0
    <2>2. /\ requests \in Seq(Requests) /\ lease \in Seq(Nat) /\ Len(lease) = Len(requests)
          /\ Handler = 1 .. Len(requests)
      BY ListFacts DEF SessionsInv, ListsTyped
    <2>3. \A h \in 1 .. Len(requests) : requests'[h] = requests[h]
      BY <2>1, <2>2, AppendFacts DEF Ask
    <2>4. \A h \in 1 .. Len(lease) : lease'[h] = lease[h]
      BY <2>1, <2>2, AppendFacts DEF Ask
    <2>5. QED
      BY <2>1, <2>2, <2>3, <2>4 DEF Ask
  <1>2. ASSUME NEW h \in Handler, Serve(h) \/ Drop(h)
        PROVE  UNCHANGED <<runs, requests, lease>>
    BY <1>2 DEF Serve, Drop, Show, Replay, RefuseFull, RefuseRate, EndTurn, clientVars
  <1>3. CASE Tick \/ UNCHANGED vars
    BY <1>3 DEF Tick, vars, clientVars
  <1>4. QED
    BY <1>1, <1>2, <1>3 DEF Next

(* The turns of the session of i, in the minute from i on.                 *)
Burst(i) ==
  {j \in i .. Len(runs) :
     SessionOf(j) = SessionOf(i) /\ runs[j].at - runs[i].at < Minute}

(* A run whose minute is not over is among the times of its session, so    *)
(* that it counts when the next turn asks to start.                        *)
LEMMA StartRate ==
  ASSUME SessionsInv, RateHolds, NEW h \in Handler, StartTurn(h)
  PROVE  RateHolds'
  <1>0. PICK o : o = lease[h]
    OBVIOUS
  <1>1. PICK N \in Nat : N = Len(runs) + 1
    BY ListFacts DEF SessionsInv
  <1>2. /\ o \in DOMAIN session /\ UNCHANGED now
        /\ DOMAIN runs = 1 .. Len(runs) /\ Len(runs) \in Nat
        /\ DOMAIN runs' = 1 .. N /\ Len(runs') = N
        /\ runs'[N] = [handler |-> h, at |-> now]
        /\ \A i \in DOMAIN runs :
             runs'[i] = runs[i] /\ SessionOf(i)' = SessionOf(i)
        /\ SessionOf(N)' = o
    BY <1>0, <1>1, StartFacts
  <1> DEFINE recent == Recent(session[o])
  <1>3. Len(recent) < TurnsPerMinute /\ Len(recent) \in Nat
    <2>1. session[o] \in SessionType /\ now \in Nat
      BY <1>2, ListFacts DEF SessionsInv
    <2>2. recent \in Seq(Nat)
      BY <2>1, RecentFacts
    <2>3. Len(recent) < TurnsPerMinute
      BY <1>0 DEF StartTurn
    <2>4. QED
      BY <2>2, <2>3, LenProperties
  <1> HIDE DEF recent
  <1>4. \A i \in DOMAIN runs : Cardinality(Burst(i)) <= TurnsPerMinute
    BY DEF RateHolds, Burst
  <1>5. Cardinality(Burst(N)') <= TurnsPerMinute
    <2>1. N .. Len(runs') = {N}
      BY <1>1, <1>2
    <2>2. Burst(N)' \subseteq {N}
      BY <1>2, <2>1 DEF Burst
    <2> DEFINE T == Burst(N)'
    <2>3. T \in SUBSET {N}
      BY <2>2
    <2> HIDE DEF T
    <2>4. IsFiniteSet({N}) /\ Cardinality({N}) = 1
      BY FS_Singleton
    <2>5. IsFiniteSet(T) /\ Cardinality(T) <= 1
      BY <2>3, <2>4, FS_Subset
    <2>6. Cardinality(T) \in Nat
      BY <2>5, FS_CardinalityType
    <2>7. Cardinality(T) <= TurnsPerMinute
      BY <1>3, <2>5, <2>6, Assumed
    <2>8. QED
      BY <2>7 DEF T
  <1>6. ASSUME NEW i \in DOMAIN runs
        PROVE  Cardinality(Burst(i)') <= TurnsPerMinute
    <2>1. /\ i .. Len(runs') = (i .. Len(runs)) \cup {N} /\ i \in 1 .. Len(runs)
          /\ i .. Len(runs) \subseteq DOMAIN runs
      BY <1>1, <1>2
    <2>2. CASE SessionOf(i) = o /\ ~Old(runs[i].at)
      <3> DEFINE S == RunsOf(o)
                 later == Cardinality(Since(S, i))
                 T == Burst(i)'
                 U == Since(S \cup {N}, i)
      <3>1. i \in S
        BY <2>2 DEF RunsOf
      <3>2. S \subseteq 1 .. Len(runs)
        BY RunsOfFacts DEF SessionsInv
      <3>3. TimesMatch(o, recent)
        BY <1>2, RecentMatches DEF recent
      <3>4. later <= Len(recent)
        BY <2>2, <3>1, <3>3 DEF TimesMatch
      <3>5. T \subseteq U
        BY <1>2, <2>1, <2>2 DEF Burst, Since, RunsOf
      <3> HIDE DEF S, T
      <3>6. S \subseteq 1 .. N - 1 /\ N > 0
        BY <1>1, <1>2, <3>2
      <3>7. Cardinality(U) = later + 1
        BY <3>1, <3>6, SinceGrows
      <3>8. later \in Nat
        BY <1>2, <3>2, SinceFacts
      <3>9. IsFiniteSet(U)
        <4>1. S \cup {N} \subseteq 1 .. N
          <5>1. \A j \in 1 .. N - 1 : j \in 1 .. N
            BY <1>1
          <5>2. N \in 1 .. N
            BY <1>1, <3>6
          <5>3. QED
            BY <3>6, <5>1, <5>2
        <4>2. QED
          BY <4>1, SinceFacts
      <3> HIDE DEF later, U
      <3>10. IsFiniteSet(T) /\ Cardinality(T) <= Cardinality(U)
        BY <3>5, <3>9, FS_Subset
      <3>11. Cardinality(T) \in Nat
        BY <3>10, FS_CardinalityType
      <3>12. Cardinality(T) <= TurnsPerMinute
        BY <1>3, <3>4, <3>7, <3>8, <3>10, <3>11, Assumed
      <3>13. QED
        BY <3>12 DEF T
    <2>3. CASE ~(SessionOf(i) = o /\ ~Old(runs[i].at))
      <3>1. N \notin Burst(i)'
        <4>1. CASE SessionOf(i) # o
          BY <1>2, <4>1 DEF Burst
        <4>2. CASE Old(runs[i].at)
          <5>1. ~(now - runs[i].at < Minute)
            <6>1. now \in Nat /\ runs[i].at \in Nat /\ Minute \in Nat
              BY ListFacts, Assumed DEF SessionsInv
            <6>2. QED
              BY <4>2, <6>1 DEF Old
          <5>2. QED
            BY <1>2, <5>1 DEF Burst
        <4>3. QED
          BY <2>3, <4>1, <4>2
      <3>2. \A j \in i .. Len(runs) :
              runs'[j] = runs[j] /\ SessionOf(j)' = SessionOf(j) /\ runs'[i] = runs[i]
              /\ SessionOf(i)' = SessionOf(i)
        BY <1>2, <2>1
      <3>3. Burst(i)' = Burst(i)
        BY <2>1, <3>1, <3>2 DEF Burst
      <3>4. QED
        BY <1>4, <3>3
    <2>4. QED
      BY <2>2, <2>3
  <1>7. ASSUME NEW i \in DOMAIN runs'
        PROVE  Cardinality(Burst(i)') <= TurnsPerMinute
    <2>1. i \in DOMAIN runs \/ i = N
      BY <1>1, <1>2
    <2>2. QED
      BY <1>5, <1>6, <2>1
  <1>8. QED
    BY <1>7 DEF RateHolds, Burst

LEMMA RateNext ==
  ASSUME SessionsInv, RateHolds, [Next]_vars
  PROVE  RateHolds'
  <1>1. CASE \E h \in Handler : StartTurn(h)
    BY <1>1, StartRate
  <1>2. CASE ~\E h \in Handler : StartTurn(h)
    <2>1. UNCHANGED runs /\ \A h \in Handler : requests'[h] = requests[h] /\ lease'[h] = lease[h]
      BY <1>2, OtherSteps
    <2>2. \A i \in DOMAIN runs : SessionOf(i)' = SessionOf(i)
      BY <2>1, RunsStay DEF SessionsInv
    <2>3. DOMAIN runs = 1 .. Len(runs) /\ Len(runs) \in Nat
      BY ListFacts DEF SessionsInv
    <2>4. ASSUME NEW i \in DOMAIN runs
          PROVE  Burst(i)' = Burst(i)
      <3>1. i .. Len(runs) \subseteq DOMAIN runs
        BY <2>3
      <3>2. QED
        BY <2>1, <2>2, <3>1 DEF Burst
    <2>5. \A i \in DOMAIN runs : Cardinality(Burst(i)) <= TurnsPerMinute
      BY DEF RateHolds, Burst
    <2>6. \A i \in DOMAIN runs' : Cardinality(Burst(i)') <= TurnsPerMinute
      BY <2>1, <2>4, <2>5
    <2>7. QED
      BY <2>6 DEF RateHolds, Burst
  <1>3. QED
    BY <1>1, <1>2

(* Turns of a session follow one another, no faster than they may          *)
(* (http.rs:257-312), for any limits and any number of requests.           *)
THEOREM SessionsOrderly == Spec => []TurnsAreOrderly
  <1>1. Init => SessionsInv /\ RateHolds
    <2>1. Init => SessionsInv
      BY SessionsInit
    <2>2. Init => RateHolds
      BY DEF Init, RateHolds
    <2>3. QED
      BY <2>1, <2>2
  <1>2. SessionsInv /\ RateHolds /\ [Next]_vars => SessionsInv' /\ RateHolds'
    BY SessionsNext, RateNext
  <1>3. SessionsInv /\ RateHolds => TurnsAreOrderly
    BY TypesAndTurns DEF TurnsAreOrderly
  <1>4. QED
    BY <1>1, <1>2, <1>3, PTL DEF Spec

-----------------------------------------------------------------------------
(* A client may retry.                                                     *)

(* The ids that ran in the session of i between its run and j's.           *)
Between(i, j) ==
  {k \in i + 1 .. j - 1 : SessionOf(k) = SessionOf(i) /\ RunOf(k).rid # NoId}
IdsBetween(i, j) == {RunOf(k).rid : k \in Between(i, j)}

SameId(i, j) ==
  /\ i < j /\ SessionOf(i) = SessionOf(j)
  /\ RunOf(i).rid = RunOf(j).rid /\ RunOf(i).rid # NoId

LEMMA IdsBetweenFacts ==
  ASSUME ListsTyped, NEW i \in DOMAIN runs, NEW j \in Nat
  PROVE  IsFiniteSet(IdsBetween(i, j)) /\ Cardinality(IdsBetween(i, j)) \in Nat
  <1> DEFINE S == Between(i, j)
             T == IdsBetween(i, j)
             f == [k \in S |-> RunOf(k).rid]
  <1>1. IsFiniteSet(S)
    <2>1. i \in Nat
      BY ListFacts
    <2>2. i + 1 \in Int /\ j - 1 \in Int
      BY <2>1
    <2>3. IsFiniteSet(i + 1 .. j - 1)
      BY <2>2, FS_Interval
    <2>4. S \subseteq i + 1 .. j - 1
      BY DEF Between
    <2> HIDE DEF S
    <2>5. QED
      BY <2>3, <2>4, FS_Subset
  <1>2. f \in Surjection(S, T)
    BY DEF IdsBetween, Surjection
  <1> HIDE DEF S, T, f
  <1>3. IsFiniteSet(T)
    BY <1>1, <1>2, FS_Surjection
  <1>4. Cardinality(T) \in Nat
    BY <1>3, FS_CardinalityType
  <1>5. QED
    BY <1>3, <1>4 DEF T

(* An id that its session has forgotten ran before all that it remembers.  *)
LEMMA ForgottenId ==
  ASSUME SessionsInv, NEW o \in DOMAIN session, NEW i \in IdRunsOf(o),
         Earlier(session[o], RunOf(i).rid) = {}
  PROVE  Remembered <= Cardinality(IdsBetween(i, Len(runs) + 1))
  <1> DEFINE responses == session[o].responses
             S == IdRunsOf(o)
             T == IdsBetween(i, Len(runs) + 1)
             later(k) == Cardinality(Since(S, k))
  <1>1. session[o] \in SessionType
    BY ListFacts DEF SessionsInv
  <1>2. Len(responses) \in Nat /\ DOMAIN responses = 1 .. Len(responses)
    BY <1>1, SessionFacts
  <1>3. ResponsesMatch(o, responses)
    BY DEF SessionsInv, ResponsesTell
  <1>4. /\ \A k \in S : IF later(k) <= Len(responses)
                        THEN responses[Len(responses) - later(k) + 1].rid = RunOf(k).rid
                        ELSE Len(responses) = Remembered
        /\ \A p \in DOMAIN responses : \E k \in S : later(k) = Len(responses) - p + 1
        /\ \A p, q \in DOMAIN responses : responses[p].rid = responses[q].rid => p = q
    BY <1>3 DEF ResponsesMatch
  <1>5. \A p \in DOMAIN responses : responses[p].rid # RunOf(i).rid
    BY DEF Earlier
  <1>6. Len(runs) \in Nat /\ S \subseteq 1 .. Len(runs) /\ DOMAIN runs = 1 .. Len(runs)
    BY RunsOfFacts, ListFacts DEF SessionsInv
  <1> HIDE DEF S
  <1>7. /\ \A k \in S : later(k) \in Nat /\ later(k) >= 1
        /\ \A k \in S : k <= i => later(i) <= later(k)
    BY <1>6, SinceFacts DEF S
  <1>8. i \in S
    BY DEF S
  <1> HIDE DEF responses, later
  <1>9. ~(later(i) <= Len(responses)) /\ Len(responses) = Remembered
    <2>1. ASSUME later(i) <= Len(responses) PROVE FALSE
      <3>1. Len(responses) - later(i) + 1 \in DOMAIN responses
        BY <1>2, <1>7, <1>8, <2>1
      <3>2. QED
        BY <1>4, <1>5, <1>8, <2>1, <3>1
    <2>2. QED
      BY <1>4, <1>8, <2>1
  <1>10. ASSUME NEW p \in DOMAIN responses
         PROVE  responses[p].rid \in T
    <2>1. PICK k \in S : later(k) = Len(responses) - p + 1
      BY <1>4
    <2>2. later(k) <= Len(responses) /\ Len(responses) - later(k) + 1 = p
      BY <1>2, <2>1
    <2>3. responses[p].rid = RunOf(k).rid
      BY <1>4, <2>2
    <2>4. i \in Nat /\ k \in Nat /\ ~(k <= i)
      <3>1. i \in Nat /\ k \in Nat
        BY <1>6, <1>8
      <3>2. later(i) \in Nat /\ later(k) \in Nat
        BY <1>7, <1>8
      <3>3. ~(later(i) <= later(k))
        BY <1>2, <1>9, <2>2, <3>2
      <3>4. QED
        BY <1>7, <3>1, <3>3
    <2>5. k \in i + 1 .. Len(runs) + 1 - 1
      BY <1>6, <2>4
    <2>6. SessionOf(k) = o /\ RunOf(k).rid # NoId /\ SessionOf(i) = o
      BY <1>8 DEF S, IdRunsOf, RunsOf
    <2>7. k \in Between(i, Len(runs) + 1)
      BY <2>5, <2>6 DEF Between
    <2>8. QED
      BY <2>3, <2>7 DEF IdsBetween
  <1> DEFINE f == [p \in 1 .. Len(responses) |-> responses[p].rid]
             P == 1 .. Len(responses)
  <1>11. f \in Injection(P, T)
    <2>1. f \in [P -> T]
      BY <1>2, <1>10
    <2>2. \A p, q \in P : f[p] = f[q] => p = q
      BY <1>2, <1>4
    <2>3. QED
      BY <2>1, <2>2 DEF Injection, IsInjective
  <1>12. IsFiniteSet(T) /\ Cardinality(T) \in Nat
    <2>1. i \in DOMAIN runs /\ Len(runs) + 1 \in Nat
      BY <1>6, <1>8
    <2>2. QED
      BY <2>1, IdsBetweenFacts DEF SessionsInv
  <1>13. Cardinality(P) = Len(responses)
    <2>1. 1 \in Int /\ Len(responses) \in Int /\ (1 > Len(responses) => Len(responses) = 0)
          /\ Len(responses) - 1 + 1 = Len(responses)
      BY <1>2
    <2>2. QED
      BY <2>1, FS_Interval
  <1> HIDE DEF T, f, P
  <1>14. Cardinality(P) <= Cardinality(T)
    BY <1>11, <1>12, FS_Injection
  <1>15. QED
    BY <1>9, <1>13, <1>14 DEF T

LEMMA StartOnce ==
  ASSUME SessionsInv, RunsOnce, NEW h \in Handler, StartTurn(h)
  PROVE  RunsOnce'
  <1>0. PICK o : o = lease[h]
    OBVIOUS
  <1>1. PICK N \in Nat : N = Len(runs) + 1
    BY ListFacts DEF SessionsInv
  <1>2. /\ o \in DOMAIN session /\ IsNew(h)
        /\ DOMAIN runs = 1 .. Len(runs) /\ Len(runs) \in Nat
        /\ DOMAIN runs' = 1 .. N
        /\ \A i \in DOMAIN runs : RunOf(i)' = RunOf(i) /\ SessionOf(i)' = SessionOf(i)
        /\ SessionOf(N)' = o /\ RunOf(N)' = requests[h]
    <2>1. o = lease[h] /\ N = Len(runs) + 1
      BY <1>0, <1>1
    <2>2. o \in DOMAIN session /\ IsNew(h)
      BY <2>1, StartFacts
    <2>3. DOMAIN runs = 1 .. Len(runs) /\ Len(runs) \in Nat /\ DOMAIN runs' = 1 .. N
      BY <2>1, StartFacts
    <2>4. \A i \in DOMAIN runs : RunOf(i)' = RunOf(i) /\ SessionOf(i)' = SessionOf(i)
      BY <2>1, StartFacts
    <2>5. SessionOf(N)' = o /\ RunOf(N)' = requests[h]
      BY <2>1, StartFacts
    <2>6. QED
      BY <2>2, <2>3, <2>4, <2>5
  <1>3. \A i, j \in DOMAIN runs :
          SameId(i, j) => Cardinality(IdsBetween(i, j)) >= Remembered
    BY DEF RunsOnce, SameId, IdsBetween, Between
  <1>4. ASSUME NEW i \in DOMAIN runs, NEW j \in 1 .. N
        PROVE  IdsBetween(i, j)' = IdsBetween(i, j)
    <2>1. i + 1 .. j - 1 \subseteq DOMAIN runs
      BY <1>1, <1>2
    <2>2. Between(i, j)' = Between(i, j)
      BY <1>2, <2>1 DEF Between
    <2>3. \A k \in Between(i, j) : RunOf(k)' = RunOf(k)
      BY <1>2, <2>1 DEF Between
    <2>4. QED
      BY <2>2, <2>3 DEF IdsBetween
  <1>5. ASSUME NEW i \in DOMAIN runs', NEW j \in DOMAIN runs', SameId(i, j)'
        PROVE  Cardinality(IdsBetween(i, j)') >= Remembered
    <2>1. i < j /\ i \in DOMAIN runs
      BY <1>1, <1>2, <1>5 DEF SameId
    <2>2. CASE j \in DOMAIN runs
      <3>1. SameId(i, j)
        BY <1>2, <1>5, <2>1, <2>2 DEF SameId
      <3>2. QED
        BY <1>1, <1>2, <1>3, <1>4, <2>1, <2>2, <3>1
    <2>3. CASE j = N
      <3>1. SessionOf(i) = o /\ RunOf(i).rid = requests[h].rid /\ RunOf(i).rid # NoId
        BY <1>2, <1>5, <2>1, <2>3 DEF SameId
      <3>2. i \in IdRunsOf(o)
        BY <2>1, <3>1 DEF IdRunsOf, RunsOf
      <3>3. Earlier(session[o], RunOf(i).rid) = {}
        BY <1>0, <1>2, <3>1 DEF IsNew
      <3>4. Remembered <= Cardinality(IdsBetween(i, N))
        BY <1>1, <1>2, <3>2, <3>3, ForgottenId
      <3>5. IdsBetween(i, j)' = IdsBetween(i, N) /\ Cardinality(IdsBetween(i, N)) \in Nat
        BY <1>2, <1>4, <2>1, <2>3, IdsBetweenFacts DEF SessionsInv
      <3>6. QED
        BY <3>4, <3>5, Assumed
    <2>4. QED
      BY <1>1, <1>2, <2>2, <2>3
  <1>6. QED
    BY <1>5 DEF RunsOnce, SameId, IdsBetween, Between

LEMMA OnceNext ==
  ASSUME SessionsInv, RunsOnce, [Next]_vars
  PROVE  RunsOnce'
  <1>1. CASE \E h \in Handler : StartTurn(h)
    BY <1>1, StartOnce
  <1>2. CASE ~\E h \in Handler : StartTurn(h)
    <2>1. UNCHANGED runs /\ \A h \in Handler : requests'[h] = requests[h] /\ lease'[h] = lease[h]
      BY <1>2, OtherSteps
    <2>2. \A i \in DOMAIN runs : RunOf(i)' = RunOf(i) /\ SessionOf(i)' = SessionOf(i)
      BY <2>1, RunsStay DEF SessionsInv
    <2>3. DOMAIN runs = 1 .. Len(runs) /\ Len(runs) \in Nat
      BY ListFacts DEF SessionsInv
    <2>4. ASSUME NEW i \in DOMAIN runs, NEW j \in DOMAIN runs
          PROVE  IdsBetween(i, j)' = IdsBetween(i, j) /\ (SameId(i, j)' <=> SameId(i, j))
      <3>1. i + 1 .. j - 1 \subseteq DOMAIN runs
        BY <2>3
      <3>2. Between(i, j)' = Between(i, j) /\ \A k \in Between(i, j) : RunOf(k)' = RunOf(k)
        BY <2>2, <3>1 DEF Between
      <3>3. QED
        BY <2>2, <3>2 DEF IdsBetween, SameId
    <2>5. \A i, j \in DOMAIN runs :
            SameId(i, j) => Cardinality(IdsBetween(i, j)) >= Remembered
      BY DEF RunsOnce, SameId, IdsBetween, Between
    <2>6. \A i, j \in DOMAIN runs' :
            SameId(i, j)' => Cardinality(IdsBetween(i, j)') >= Remembered
      BY <2>1, <2>4, <2>5
    <2>7. QED
      BY <2>6 DEF RunsOnce, SameId, IdsBetween, Between
  <1>3. QED
    BY <1>1, <1>2

(* A request that is answered tells its own outcome, or the one of the     *)
(* request it repeats.                                                     *)
IsOriginal(h) ==
  /\ answer[h].by # 0 =>
       requests[answer[h].by] = requests[h] /\ answer[answer[h].by] = answer[h]
  /\ answer[h].status = "unknown" =>
       \E g \in Handler :
         requests[g] = requests[h] /\ lease[g] = lease[h] /\ state[g] = "dropped"

LEMMA OriginalKept ==
  ASSUME SessionsInv, ReplayIsOriginal,
         \A g \in Handler :
           /\ g \in Handler' /\ requests'[g] = requests[g] /\ lease'[g] = lease[g]
           /\ ~Active(g) => state'[g] = state[g] /\ answer'[g] = answer[g],
         NEW h \in Handler, answer'[h] = answer[h]
  PROVE  IsOriginal(h)'
  <1>1. IsOriginal(h)
    BY DEF ReplayIsOriginal, IsOriginal
  <1>2. CASE answer[h].by # 0
    <2>1. answer[h].by \in Handler
      <3>1. answer[h].by \in Nat /\ answer[h].by <= Len(requests)
        BY ListFacts DEF SessionsInv, LeasesHold, AnswerType
      <3>2. QED
        BY <1>2, <3>1, ListFacts DEF SessionsInv
    <2>2. ~Active(answer[h].by)
      <3>1. Active(answer[h].by) => answer[answer[h].by] = Unanswered
        BY <2>1 DEF SessionsInv, LeasesHold
      <3>2. Unanswered.by = 0 /\ answer[answer[h].by] = answer[h]
        BY <1>1, <1>2 DEF IsOriginal, Unanswered, Refusal, Outcome
      <3>3. QED
        BY <1>2, <3>1, <3>2
    <2>3. requests'[answer'[h].by] = requests'[h] /\ answer'[answer'[h].by] = answer'[h]
      BY <1>1, <1>2, <2>1, <2>2 DEF IsOriginal
    <2>4. answer[h].status = "unknown" =>
            \E g \in Handler' :
              requests'[g] = requests'[h] /\ lease'[g] = lease'[h] /\ state'[g] = "dropped"
      BY <1>1 DEF IsOriginal, Active
    <2>5. QED
      BY <2>3, <2>4 DEF IsOriginal
  <1>3. CASE answer[h].by = 0
    BY <1>1, <1>3 DEF IsOriginal, Active
  <1>4. QED
    BY <1>2, <1>3

LEMMA ArriveOriginal ==
  ASSUME SessionsInv, ReplayIsOriginal, NEW r \in Requests, Arrive(r)
  PROVE  ReplayIsOriginal'
  <1>1. PICK holds \in Nat, st \in Status,
             a \in {Unanswered, Refusal("missing"), Refusal("busy")} :
          Ask(r, holds, st, a)
    <2>1. 0 \in Nat /\ Len(session) + 1 \in Nat /\ store[r.sid] \in Nat
      BY ListFacts, Assumed DEF SessionsInv, StoreHolds, Request
    <2>2. "waiting" \in Status /\ "done" \in Status
      BY DEF Status
    <2>3. QED
      BY <2>1, <2>2 DEF Arrive, Join, ReadMissing, Create, EverySessionBusy
  <1>2. a \in AnswerType /\ a.by = 0 /\ a.status # "unknown"
    BY DEF Unanswered, Refusal, Outcome, AnswerType, AnswerStatus
  <1>3. PICK n : n = Len(requests) + 1
    OBVIOUS
  <1>4. /\ Handler' = Handler \cup {n} /\ answer'[n] = a
        /\ \A h \in Handler :
             /\ requests'[h] = requests[h] /\ lease'[h] = lease[h]
             /\ state'[h] = state[h] /\ answer'[h] = answer[h]
    <2>1. Len(requests) < MaxRequests
      BY DEF Arrive
    <2>2. QED
      BY <1>1, <1>2, <1>3, <2>1, AskFacts DEF SessionsInv
  <1>5. ASSUME NEW h \in Handler PROVE IsOriginal(h)'
    BY <1>4, OriginalKept
  <1>6. IsOriginal(n)'
    BY <1>2, <1>4 DEF IsOriginal
  <1>7. \A h \in Handler' : IsOriginal(h)'
    BY <1>4, <1>5, <1>6
  <1>8. QED
    BY <1>7 DEF ReplayIsOriginal, IsOriginal

LEMMA AnswerOriginal ==
  ASSUME SessionsInv, ReplayIsOriginal, NEW h \in Handler, Active(h),
         NEW st, NEW a, Proceeds(h, st, a), a = answer[h] \/ IsOriginal(h)'
  PROVE  ReplayIsOriginal'
  <1>1. /\ Handler' = Handler /\ UNCHANGED <<requests, lease>> /\ answer'[h] = a
        /\ \A g \in Handler : g # h => state'[g] = state[g] /\ answer'[g] = answer[g]
    BY ProceedsFacts
  <1>2. \A g \in Handler :
          /\ g \in Handler' /\ requests'[g] = requests[g] /\ lease'[g] = lease[g]
          /\ ~Active(g) => state'[g] = state[g] /\ answer'[g] = answer[g]
    BY <1>1
  <1>3. ASSUME NEW g \in Handler, answer'[g] = answer[g] PROVE IsOriginal(g)'
    BY <1>2, <1>3, OriginalKept
  <1>4. ASSUME NEW g \in Handler' PROVE IsOriginal(g)'
    <2>1. CASE g # h
      BY <1>1, <1>3, <2>1
    <2>2. CASE g = h /\ a = answer[h]
      BY <1>1, <1>3, <2>2
    <2>3. CASE g = h /\ IsOriginal(h)'
      BY <2>3
    <2>4. QED
      BY <2>1, <2>2, <2>3
  <1>5. QED
    BY <1>4 DEF ReplayIsOriginal, IsOriginal

(* The remembered outcome is that of a request in the same session, with   *)
(* the same id and message.                                                *)
LEMMA ReplayOriginal ==
  ASSUME SessionsInv, ReplayIsOriginal, NEW h \in Handler, Replay(h)
  PROVE  ReplayIsOriginal'
  <1> DEFINE s == session[lease[h]]
             r == requests[h]
  <1>1. Enters(h) /\ UNCHANGED <<now, clientVars, storeVars, session, runs>>
    BY DEF Replay
  <1>2. PICK i \in Earlier(s, r.rid) :
          Reply(h, IF Replays(s.responses[i], r) THEN s.responses[i].answer
                   ELSE Refusal("conflict"))
    BY DEF Replay
  <1>3. PICK e : e = s.responses[i]
    OBVIOUS
  <1>4. PICK a : a = IF Replays(e, r) THEN e.answer ELSE Refusal("conflict")
    OBVIOUS
  <1>5. Active(h) /\ state[h] = "waiting" /\ LockFree(lease[h])
        /\ lease[h] \in DOMAIN session /\ requests[h] \in Request /\ s \in SessionType
        /\ DOMAIN session = 1 .. Len(session) /\ Len(session) \in Nat
    BY <1>1, WaitingFacts
  <1>6. Proceeds(h, "done", a)
    BY <1>1, <1>2, <1>3, <1>4 DEF Reply, Proceeds
  <1>7. /\ Handler' = Handler /\ UNCHANGED <<requests, lease>>
        /\ state'[h] = "done" /\ answer'[h] = a
        /\ \A g \in Handler : g # h => state'[g] = state[g] /\ answer'[g] = answer[g]
    BY <1>5, <1>6, ProceedsFacts
  <1>8. CASE Replays(e, r)
    <2>1. i \in DOMAIN s.responses /\ e.rid = r.rid /\ e.message = r.message /\ a = e.answer
      BY <1>2, <1>3, <1>4, <1>8 DEF Earlier, Replays
    <2>2. PICK g \in Handler : IsOutcome(e, lease[h], g)
      BY <1>3, <1>5, <2>1 DEF SessionsInv, AnswersKept
    <2>3. requests[g] = requests[h] /\ lease[g] = lease[h] /\ g # h
      <3>1. lease[g] = lease[h] /\ requests[g].rid = r.rid /\ requests[g].message = r.message
        BY <2>1, <2>2 DEF IsOutcome
      <3>2. lease[h] # 0
        BY <1>5
      <3>3. requests[g].sid = r.sid
        BY <3>1, <3>2 DEF SessionsInv, LeasesHold
      <3>4. requests[g] \in Request
        BY ListFacts DEF SessionsInv
      <3>5. g # h
        BY <1>5, <2>2 DEF IsOutcome
      <3>6. QED
        BY <1>5, <3>1, <3>3, <3>4, <3>5 DEF Request
    <2>4. CASE a = Refusal("unknown") /\ state[g] \in {"running", "dropped"}
      <3>1. state'[g] = "dropped"
        BY <1>5, <1>7, <2>3, <2>4 DEF LockFree
      <3>2. IsOriginal(h)'
        BY <1>7, <2>3, <2>4, <3>1 DEF IsOriginal, Refusal, Outcome
      <3>3. QED
        BY <1>5, <1>6, <3>2, AnswerOriginal
    <2>5. CASE a = answer[g] /\ answer[g].by = g /\ answer[g].status \in {"ok", "failed"}
      <3>1. answer'[g] = a
        BY <1>7, <2>3, <2>5
      <3>2. IsOriginal(h)'
        BY <1>7, <2>3, <2>5, <3>1 DEF IsOriginal
      <3>3. QED
        BY <1>5, <1>6, <3>2, AnswerOriginal
    <2>6. QED
      BY <2>1, <2>2, <2>4, <2>5 DEF IsOutcome
  <1>9. CASE ~Replays(e, r)
    <2>1. IsOriginal(h)'
      BY <1>4, <1>7, <1>9 DEF IsOriginal, Refusal, Outcome
    <2>2. QED
      BY <1>5, <1>6, <2>1, AnswerOriginal
  <1>10. QED
    BY <1>8, <1>9

LEMMA OriginalNext ==
  ASSUME SessionsInv, ReplayIsOriginal, [Next]_vars
  PROVE  ReplayIsOriginal'
  <1>1. ASSUME NEW r \in Requests, Arrive(r) PROVE ReplayIsOriginal'
    BY <1>1, ArriveOriginal
  <1>2. ASSUME NEW h \in Handler, Show(h) \/ RefuseFull(h) \/ RefuseRate(h)
        PROVE  ReplayIsOriginal'
    <2>1. PICK status \in {"shown", "full", "limited"} : Reply(h, Refusal(status))
      BY <1>2 DEF Show, RefuseFull, RefuseRate
    <2>2. Enters(h) /\ UNCHANGED <<now, clientVars, storeVars>>
      BY <1>2 DEF Show, RefuseFull, RefuseRate, IsNew
    <2>3. Proceeds(h, "done", Refusal(status)) /\ Active(h)
      BY <2>1, <2>2 DEF Reply, Proceeds, Enters, Active
    <2>4. answer'[h] = Refusal(status)
      BY <2>3, ProceedsFacts
    <2>5. IsOriginal(h)'
      BY <2>4 DEF IsOriginal, Refusal, Outcome
    <2>6. QED
      BY <2>3, <2>5, AnswerOriginal
  <1>3. ASSUME NEW h \in Handler, Replay(h) PROVE ReplayIsOriginal'
    BY <1>3, ReplayOriginal
  <1>4. ASSUME NEW h \in Handler, StartTurn(h) PROVE ReplayIsOriginal'
    <2>1. Proceeds(h, "running", Unanswered) /\ Active(h)
      <3>1. PICK o, N : o = lease[h] /\ N = Len(runs) + 1
        OBVIOUS
      <3>2. QED
        BY <1>4, <3>1, StartFacts DEF Enters, Active
    <2>2. answer[h] = Unanswered
      BY <2>1, ProceedsFacts
    <2>3. QED
      BY <2>1, <2>2, AnswerOriginal
  <1>5. ASSUME NEW h \in Handler, NEW status \in {"ok", "failed"}, NEW full \in BOOLEAN,
               EndTurn(h, status, full)
        PROVE  ReplayIsOriginal'
    <2>1. PICK a : a = Outcome(status, h)
      OBVIOUS
    <2>2. Proceeds(h, "done", a) /\ Active(h)
      BY <1>5, <2>1 DEF EndTurn, Reply, Proceeds, Active
    <2>3. UNCHANGED requests /\ answer'[h] = a
      BY <2>2, ProceedsFacts
    <2>4. IsOriginal(h)'
      BY <2>1, <2>3 DEF IsOriginal, Outcome
    <2>5. QED
      BY <2>2, <2>4, AnswerOriginal
  <1>6. ASSUME NEW h \in Handler, Drop(h) PROVE ReplayIsOriginal'
    <2>1. Active(h) /\ state' = [state EXCEPT ![h] = "dropped"]
          /\ UNCHANGED <<requests, lease, answer>> /\ DOMAIN state = Handler
      BY <1>6, ListFacts DEF Drop, clientVars, SessionsInv
    <2>2. \A g \in Handler :
            /\ g \in Handler' /\ requests'[g] = requests[g] /\ lease'[g] = lease[g]
            /\ ~Active(g) => state'[g] = state[g] /\ answer'[g] = answer[g]
      BY <2>1 DEF Handler
    <2>3. ASSUME NEW g \in Handler' PROVE IsOriginal(g)'
      <3>1. g \in Handler /\ answer'[g] = answer[g]
        BY <2>1 DEF Handler
      <3>2. QED
        BY <2>2, <3>1, OriginalKept
    <2>4. QED
      BY <2>3 DEF ReplayIsOriginal, IsOriginal
  <1>7. CASE Tick \/ UNCHANGED vars
    BY <1>7 DEF Tick, vars, clientVars, handlerVars, ReplayIsOriginal, Handler
  <1>8. QED
    BY <1>1, <1>2, <1>3, <1>4, <1>5, <1>6, <1>7 DEF Next, Serve

(* A client may retry (http.rs:257-312): its request runs once, and the    *)
(* retry tells what became of it, whatever is dropped or evicted.          *)
THEOREM RetriesSafe == Spec => []RetriesAreSafe
  <1>1. Init => SessionsInv /\ RetriesAreSafe
    <2>1. Init => SessionsInv
      BY SessionsInit
    <2>2. Init => RetriesAreSafe
      BY DEF Init, RetriesAreSafe, RunsOnce, ReplayIsOriginal, Handler
    <2>3. QED
      BY <2>1, <2>2
  <1>2. SessionsInv /\ RetriesAreSafe /\ [Next]_vars => SessionsInv' /\ RetriesAreSafe'
    BY SessionsNext, OnceNext, OriginalNext DEF RetriesAreSafe
  <1>3. QED
    BY <1>1, <1>2, PTL DEF Spec
=============================================================================
