---------------------------- MODULE ServerProofs ----------------------------
(***************************************************************************)
(* What the engine's server promises its clients, for every set of         *)
(* accounts, streams, callers and subscribers, whatever they send, and     *)
(* every capacity: results in the order of their requests, an account's    *)
(* rate, and a feed without a gap it does not tell of.                     *)
(***************************************************************************)
EXTENDS ServerInvariants, SequenceLemmas, FiniteSetTheorems

-----------------------------------------------------------------------------
(* The inductive invariant.                                                *)

ReaderStates == {"reading", "queueing", "sending", "ended"}
FeedStates == {"off", "on", "lagged", "ended"}
Reply == [of : Nat, code : Codes \cup {None}]
Result == [by : Client, n : Nat \ {0}, code : Codes]
Event == [by : Client, n : Nat \ {0}, involves : SUBSET Account]
FeedType == [state : FeedStates, from : Nat, next : Nat, held : Nat, out : Seq(Nat)]

ClientsTyped ==
  /\ asked \in [Client -> Nat]
  /\ answer = [c \in Client |-> answer[c]]
  /\ \A c \in Client :
       /\ asked[c] <= Len(Messages[c])
       /\ answer[c] \in [DOMAIN Messages[c] -> Codes \cup {None}]

StreamsTyped ==
  /\ reader \in [Stream -> ReaderStates] /\ writer \in [Stream -> Int]
  /\ pending \in [Stream -> Seq(Nat)]
  /\ out \in [Stream -> Seq(Reply)] /\ got \in [Stream -> Seq(Reply)]

MatcherTyped ==
  /\ pc \in {"take", "tell", "reply", "stopped"}
  /\ queue \in Seq(Command) /\ Len(queue) <= Capacity
  /\ batch \in Seq(Result) /\ Len(batch) <= MaxBatch
  /\ log \in Seq(Event) /\ published \in Nat /\ announced \in Nat

(* The last request a client's place in the queue was decided for.         *)
Decided(c) == IF c \in Stream /\ reader[c] = "queueing" THEN asked[c] - 1 ELSE asked[c]

(* A client's commands are queued and executed in the order of its         *)
(* requests.                                                               *)
Follows(x, y) == x.by = y.by => x.n < y.n
Ordered(s) == \A i, j \in DOMAIN s : i < j => Follows(s[i], s[j])
Precedes(s, t) == \A i \in DOMAIN s, j \in DOMAIN t : Follows(s[i], t[j])
Behind(s) == \A i \in DOMAIN s : s[i].n <= Decided(s[i].by)

QueueHolds ==
  /\ Ordered(queue) /\ Ordered(log)
  /\ Precedes(batch, queue) /\ Precedes(log, queue)
  /\ Behind(queue) /\ Behind(batch) /\ Behind(log)

(* Nothing is answered that still waits, or that was not asked.            *)
AnswersWait ==
  /\ \A i \in DOMAIN queue : answer[queue[i].by][queue[i].n] = None
  /\ \A i \in DOMAIN batch : answer[batch[i].by][batch[i].n] = None
  /\ \A c \in Client : \A n \in DOMAIN Messages[c] : n > Decided(c) => answer[c][n] = None

(* What a stream's client got or is about to is the beginning of its       *)
(* answers; what its writer holds, what is pending and what its reader     *)
(* holds are the requests after those, until the client hangs up.          *)
Written(s) == Len(got[s]) + Len(out[s])
Holds(s) == IF writer[s] > 0 THEN 1 ELSE 0
Handed(s) == IF reader[s] \in {"queueing", "sending"} THEN asked[s] - 1 ELSE asked[s]

StreamHolds(s) ==
  /\ \A i \in DOMAIN got[s] : got[s][i] = [of |-> i, code |-> answer[s][i]]
  /\ \A i \in DOMAIN out[s] :
       out[s][i] = [of |-> Len(got[s]) + i, code |-> answer[s][Len(got[s]) + i]]
  /\ \A i \in 1 .. Written(s) : answer[s][i] # None
  /\ Written(s) <= Handed(s)
  /\ \A i \in DOMAIN pending[s] : pending[s][i] \in 1 .. asked[s]
  /\ writer[s] \in {Ended} \cup 0 .. asked[s]
  /\ Len(pending[s]) <= PendingRoom /\ Len(out[s]) <= OutRoom
  /\ s \notin hungUp =>
       /\ writer[s] > 0 => writer[s] = Written(s) + 1
       /\ \A i \in DOMAIN pending[s] : pending[s][i] = Written(s) + Holds(s) + i
       /\ Written(s) + Holds(s) + Len(pending[s]) = Handed(s)
       /\ writer[s] = Ended => reader[s] = "ended"

(* The snapshot shows what was broadcast.                                  *)
ShownFirst ==
  /\ announced <= published /\ published <= Len(log)
  /\ pc = "tell" => published = Len(log)

(* A subscription has told its client of the events up to the next one,    *)
(* except for the one it holds.                                            *)
Told(f, read) == Cat(read, f.out)
Concerning(v, f) == {k \in f.from + 1 .. f.next - 1 : Involves(v, k)}
Rising(told) == \A i, j \in DOMAIN told : i < j => told[i] < told[j] \/ told[j] = Loss

FeedRight(v, f, read) ==
  /\ f \in FeedType /\ read \in Seq(Nat) /\ Len(f.out) <= FeedRoom
  /\ f.state = "off" => f = Off /\ read = <<>>
  /\ f.state # "off" => f.from < f.next /\ f.next <= announced + 1
  /\ f.held > 0 => /\ f.state = "on" /\ f.held \in Concerning(v, f)
                   /\ \A i \in DOMAIN Told(f, read) : Told(f, read)[i] < f.held
  /\ ToSet(Told(f, read)) \ {Loss} = Concerning(v, f) \ {f.held}
  /\ Rising(Told(f, read))
  /\ \A i \in DOMAIN Told(f, read) :
       Told(f, read)[i] = Loss => i = Len(Told(f, read)) /\ f.state = "ended"

(* What an account was let through since any of its admissions, with what  *)
(* its bucket still holds, is covered by the burst and the time since:     *)
(* time by the bucket's own readings, with all that the account's calls    *)
(* had waited by then, for that is how far the readings may go back.       *)
Through(h, a, i, j) == {k \in i .. j : h[k].account = a}
Admission == [account : Account, at : Nat, late : Nat]
Paid(e) == e.at + e.late
Bucket == [tokens : 0 .. Rate * TicksPerSecond, last : 0 .. MaxTime]
Mark(b, w) == [tokens |-> b.tokens, last |-> b.last + w]

Covered(h, m, a) ==
  \A i \in DOMAIN h :
    h[i].account = a =>
      Cardinality(Through(h, a, i, Len(h))) * TicksPerSecond + m.tokens
        <= Rate * TicksPerSecond + Rate * (m.last - Paid(h[i]))

Kept(h) ==
  \A i, j \in DOMAIN h :
    i <= j /\ h[i].account = h[j].account =>
      (Cardinality(Through(h, h[i].account, i, j)) - Rate) * TicksPerSecond
        <= Rate * (Paid(h[j]) - Paid(h[i]))

LimiterTyped ==
  /\ now \in 0 .. MaxTime
  /\ bucket \in [Account -> Bucket]
  /\ \A a \in Account : bucket[a].last <= now
  /\ late \in [Account -> Nat]
  /\ clock \in [Client -> {NoReading} \cup 0 .. MaxTime]
  /\ \A c \in Client : clock[c] <= now
  /\ admitted \in Seq(Admission)

LimiterHolds ==
  /\ LimiterTyped /\ Kept(admitted)
  /\ \A a \in Account : Covered(admitted, Mark(bucket[a], late[a]), a)

PipelineHolds ==
  /\ ClientsTyped /\ StreamsTyped /\ MatcherTyped
  /\ QueueHolds /\ AnswersWait
  /\ \A s \in Stream : StreamHolds(s)

FeedsHold ==
  /\ ShownFirst
  /\ feed = [v \in Subscriber |-> feed[v]] /\ seen = [v \in Subscriber |-> seen[v]]
  /\ \A v \in Subscriber : FeedRight(v, feed[v], seen[v])

ServerInv == PipelineHolds /\ FeedsHold /\ LimiterHolds

-----------------------------------------------------------------------------
(* What the constants and the types give.                                  *)

LEMMA ConstantFacts ==
  /\ Stream \subseteq Client /\ Caller \subseteq Client
  /\ \A c \in Caller : c \notin Stream
  /\ \A c \in Client :
       /\ Messages[c] \in Seq(Request) /\ Len(Messages[c]) \in Nat
       /\ DOMAIN Messages[c] = 1 .. Len(Messages[c])
       /\ \A n \in DOMAIN Messages[c] : Messages[c][n] \in Request
  /\ Rate \in Nat /\ MaxTime \in Nat /\ TicksPerSecond \in Nat \ {0} /\ Capacity \in Nat \ {0}
  /\ MaxBatch \in Nat \ {0} /\ PendingRoom \in Nat \ {0} /\ OutRoom \in Nat \ {0}
  /\ EventBuffer \in Nat \ {0} /\ FeedRoom \in Nat \ {0}
  <1>1. Messages \in [Client -> Seq(Request)]
    BY ServerAssumption
  <1>2. \A c \in Client : Messages[c] \in Seq(Request)
    BY <1>1
  <1>3. ASSUME NEW m \in Seq(Request)
        PROVE  Len(m) \in Nat /\ DOMAIN m = 1 .. Len(m) /\ \A n \in DOMAIN m : m[n] \in Request
    OBVIOUS
  <1>4. Stream \subseteq Client /\ Caller \subseteq Client /\ \A c \in Caller : c \notin Stream
    BY ServerAssumption DEF Client
  <1>5. QED
    BY <1>2, <1>3, <1>4, ServerAssumption

LEMMA DecidedFacts ==
  ASSUME ClientsTyped, NEW c \in Client
  PROVE  /\ asked[c] \in Nat /\ Decided(c) \in Int
         /\ Decided(c) <= asked[c] /\ asked[c] - 1 <= Decided(c)
         /\ asked[c] <= Len(Messages[c]) /\ Len(Messages[c]) \in Nat
         /\ DOMAIN Messages[c] = 1 .. Len(Messages[c])
  <1>1. asked[c] \in Nat /\ asked[c] <= Len(Messages[c])
    BY DEF ClientsTyped
  <1>2. Decided(c) = asked[c] \/ Decided(c) = asked[c] - 1
    BY DEF Decided
  <1>3. QED
    BY <1>1, <1>2, ConstantFacts

(* The two ways a list changes: at its end, and at its beginning.          *)
LEMMA AtEnd ==
  ASSUME NEW S, NEW s \in Seq(S), NEW x \in S, NEW t, t = Append(s, x)
  PROVE  /\ t \in Seq(S) /\ Len(t) = Len(s) + 1 /\ Len(s) \in Nat
         /\ DOMAIN s = 1 .. Len(s) /\ DOMAIN t = 1 .. Len(s) + 1
         /\ \A i \in DOMAIN s : i \in DOMAIN t /\ t[i] = s[i]
         /\ \A i \in DOMAIN t : i \in DOMAIN s \/ i = Len(s) + 1
         /\ t[Len(s) + 1] = x
  <1>1. Len(s) \in Nat /\ DOMAIN s = 1 .. Len(s)
    OBVIOUS
  <1>2. QED
    BY <1>1, AppendFacts

LEMMA AtBeginning ==
  ASSUME NEW S, NEW s \in Seq(S), s # <<>>, NEW t, t = Tail(s)
  PROVE  /\ t \in Seq(S) /\ Len(t) = Len(s) - 1 /\ Len(s) \in Nat \ {0}
         /\ DOMAIN s = 1 .. Len(s) /\ DOMAIN t = 1 .. Len(s) - 1
         /\ \A i \in DOMAIN t : i + 1 \in DOMAIN s /\ t[i] = s[i + 1] /\ i < i + 1
         /\ 1 \in DOMAIN s /\ Head(s) = s[1] /\ s[1] \in S
  <1>1. Len(s) \in Nat \ {0} /\ DOMAIN s = 1 .. Len(s) /\ Head(s) = s[1] /\ s[1] \in S
    OBVIOUS
  <1>2. t \in Seq(S) /\ Len(t) = Len(s) - 1 /\ DOMAIN t = 1 .. Len(t)
    OBVIOUS
  <1>3. \A i \in 1 .. Len(s) - 1 : t[i] = s[i + 1]
    OBVIOUS
  <1>4. QED
    BY <1>1, <1>2, <1>3

-----------------------------------------------------------------------------
(* The queue, the batch and the log.                                       *)

LEMMA OrderedAtEnd ==
  ASSUME NEW S, NEW s \in Seq(S), NEW x \in S, NEW t, t = Append(s, x), Ordered(s),
         \A i \in DOMAIN s : Follows(s[i], x)
  PROVE  Ordered(t)
  <1>1. ASSUME NEW i \in DOMAIN t, NEW j \in DOMAIN t, i < j
        PROVE  Follows(t[i], t[j])
    <2>1. i \in DOMAIN s /\ t[i] = s[i]
      BY <1>1, AtEnd
    <2>2. CASE j \in DOMAIN s
      BY <1>1, <2>1, <2>2, AtEnd DEF Ordered
    <2>3. CASE j = Len(s) + 1
      BY <2>1, <2>3, AtEnd
    <2>4. QED
      BY <2>2, <2>3, AtEnd
  <1>2. QED
    BY <1>1 DEF Ordered

LEMMA OrderedAfterFirst ==
  ASSUME NEW S, NEW s \in Seq(S), s # <<>>, NEW t, t = Tail(s), Ordered(s)
  PROVE  Ordered(t) /\ \A j \in DOMAIN t : Follows(s[1], t[j])
  <1>1. ASSUME NEW i \in DOMAIN t, NEW j \in DOMAIN t, i < j
        PROVE  Follows(t[i], t[j])
    <2>1. i + 1 \in DOMAIN s /\ j + 1 \in DOMAIN s /\ i + 1 < j + 1
          /\ t[i] = s[i + 1] /\ t[j] = s[j + 1]
      BY <1>1, AtBeginning
    <2>2. QED
      BY <2>1 DEF Ordered
  <1>2. ASSUME NEW j \in DOMAIN t PROVE Follows(s[1], t[j])
    <2>1. 1 \in DOMAIN s /\ j + 1 \in DOMAIN s /\ 1 < j + 1 /\ t[j] = s[j + 1]
      BY AtBeginning
    <2>2. QED
      BY <2>1 DEF Ordered
  <1>3. QED
    BY <1>1, <1>2 DEF Ordered

(* What is queued, executed and logged.                                    *)
LEMMA ElementFacts ==
  ASSUME MatcherTyped, QueueHolds
  PROVE  /\ \A i \in DOMAIN queue :
              /\ queue[i] \in Command /\ queue[i].by \in Client /\ queue[i].n \in Nat \ {0}
              /\ queue[i].n <= Decided(queue[i].by)
         /\ \A i \in DOMAIN batch :
              /\ batch[i] \in Result /\ batch[i].by \in Client /\ batch[i].n \in Nat \ {0}
              /\ batch[i].n <= Decided(batch[i].by) /\ batch[i].code \in Codes
         /\ \A i \in DOMAIN log :
              /\ log[i] \in Event /\ log[i].by \in Client /\ log[i].n \in Nat \ {0}
              /\ log[i].n <= Decided(log[i].by)
  <1>1. queue \in Seq(Command) /\ batch \in Seq(Result) /\ log \in Seq(Event)
    BY DEF MatcherTyped
  <1>2. Behind(queue) /\ Behind(batch) /\ Behind(log)
    BY DEF QueueHolds
  <1>3. ASSUME NEW i \in DOMAIN queue
        PROVE  queue[i] \in Command /\ queue[i].n <= Decided(queue[i].by)
    BY <1>1, <1>2 DEF Behind
  <1>4. ASSUME NEW i \in DOMAIN batch
        PROVE  batch[i] \in Result /\ batch[i].n <= Decided(batch[i].by)
    BY <1>1, <1>2 DEF Behind
  <1>5. ASSUME NEW i \in DOMAIN log
        PROVE  log[i] \in Event /\ log[i].n <= Decided(log[i].by)
    BY <1>1, <1>2 DEF Behind
  <1>6. \A e \in Command : e.by \in Client /\ e.n \in Nat \ {0}
    BY DEF Command
  <1>7. \A e \in Result : e.by \in Client /\ e.n \in Nat \ {0} /\ e.code \in Codes
    BY DEF Result
  <1>8. \A e \in Event : e.by \in Client /\ e.n \in Nat \ {0}
    BY DEF Event
  <1>9. QED
    BY <1>3, <1>4, <1>5, <1>6, <1>7, <1>8

(* A request whose place is decided now joins the queue, or is answered.   *)
LEMMA PlaceDecided ==
  ASSUME ClientsTyped, MatcherTyped, QueueHolds, AnswersWait, UNCHANGED <<batch, log>>,
         NEW c \in Client, NEW n \in DOMAIN Messages[c], n > Decided(c),
         \A d \in Client : Decided(d) <= Decided(d)' /\ Decided(d)' \in Int,
         \A d \in Client : \A m \in DOMAIN Messages[d] :
           answer'[d][m] # answer[d][m] => d = c /\ m = n,
         n <= Decided(c)' \/ answer'[c][n] = None,
         \/ queue' = queue
         \/ /\ queue' = Append(queue, [by |-> c, n |-> n])
            /\ answer'[c][n] = answer[c][n] /\ n <= Decided(c)'
  PROVE  QueueHolds' /\ AnswersWait'
  <1> DEFINE x == [by |-> c, n |-> n]
  <1>1. x \in Command /\ n \in Nat \ {0} /\ x.by = c /\ x.n = n
    BY DecidedFacts DEF Command
  <1> HIDE DEF x
  <1>2. queue \in Seq(Command) /\ batch \in Seq(Result) /\ log \in Seq(Event)
    BY DEF MatcherTyped
  <1>3. ASSUME NEW e, e.by \in Client, e.n \in Nat \ {0}, e.n <= Decided(e.by)
        PROVE  /\ e.n <= Decided(e.by)' /\ Follows(e, x) /\ e.n \in DOMAIN Messages[e.by]
               /\ answer'[e.by][e.n] = answer[e.by][e.n]
    <2>1. Decided(e.by)' \in Int /\ Decided(e.by) \in Int /\ Decided(e.by) <= Decided(e.by)'
          /\ e.n \in DOMAIN Messages[e.by] /\ Decided(c) \in Int
      BY <1>3, DecidedFacts
    <2>2. e.by = c => e.n < n
      BY <1>1, <1>3, <2>1
    <2>3. QED
      BY <1>1, <1>3, <2>1, <2>2 DEF Follows
  <1>4. ASSUME NEW i \in DOMAIN queue, NEW e, e = queue[i]
        PROVE  /\ e.n <= Decided(e.by)' /\ Follows(e, x) /\ answer'[e.by][e.n] = None
    <2>1. e.by \in Client /\ e.n \in Nat \ {0} /\ e.n <= Decided(e.by)
          /\ answer[e.by][e.n] = None
      BY <1>4, ElementFacts DEF AnswersWait
    <2>2. QED
      BY <1>3, <2>1
  <1>5. ASSUME NEW i \in DOMAIN batch
        PROVE  /\ batch[i].n <= Decided(batch[i].by)' /\ Follows(batch[i], x)
               /\ answer'[batch[i].by][batch[i].n] = None
    <2>1. batch[i].by \in Client /\ batch[i].n \in Nat \ {0} /\ batch[i].n <= Decided(batch[i].by)
          /\ answer[batch[i].by][batch[i].n] = None
      BY ElementFacts DEF AnswersWait
    <2>2. QED
      BY <1>3, <2>1
  <1>6. ASSUME NEW i \in DOMAIN log
        PROVE  log[i].n <= Decided(log[i].by)' /\ Follows(log[i], x)
    <2>1. log[i].by \in Client /\ log[i].n \in Nat \ {0} /\ log[i].n <= Decided(log[i].by)
      BY ElementFacts
    <2>2. QED
      BY <1>3, <2>1
  <1>7. \A d \in Client : \A m \in DOMAIN Messages[d] : m > Decided(d)' => answer'[d][m] = None
    <2>1. ASSUME NEW d \in Client, NEW m \in DOMAIN Messages[d], m > Decided(d)'
          PROVE  answer'[d][m] = None
      <3>1. m > Decided(d) /\ (d = c /\ m = n => answer'[d][m] = None)
        BY <2>1, DecidedFacts
      <3>2. answer[d][m] = None
        BY <3>1 DEF AnswersWait
      <3>3. QED
        BY <3>1, <3>2
    <2>2. QED
      BY <2>1
  <1>8. ASSUME NEW i \in DOMAIN queue'
        PROVE  \/ i \in DOMAIN queue /\ queue'[i] = queue[i]
               \/ queue'[i] = x /\ answer'[c][n] = None /\ n <= Decided(c)'
    <2>1. answer[c][n] = None
      BY DEF AnswersWait
    <2>2. CASE queue' = Append(queue, x) /\ answer'[c][n] = answer[c][n] /\ n <= Decided(c)'
      BY <1>1, <1>2, <1>8, <2>1, <2>2, AtEnd
    <2>3. QED
      BY <1>8, <2>2 DEF x
  <1>9. Ordered(queue')
    <2>1. Ordered(queue)
      BY DEF QueueHolds
    <2>2. CASE queue' = Append(queue, x)
      BY <1>1, <1>2, <1>4, <2>1, <2>2, OrderedAtEnd
    <2>3. QED
      BY <2>1, <2>2 DEF x
  <1>10. Precedes(batch, queue') /\ Precedes(log, queue')
    BY <1>5, <1>6, <1>8 DEF Precedes, QueueHolds
  <1>11. ASSUME NEW i \in DOMAIN queue', NEW e, e = queue'[i]
         PROVE  e.n <= Decided(e.by)' /\ answer'[e.by][e.n] = None
    <2>1. CASE e = x /\ answer'[c][n] = None /\ n <= Decided(c)'
      BY <1>1, <2>1
    <2>2. CASE i \in DOMAIN queue /\ e = queue[i]
      BY <1>4, <2>2
    <2>3. QED
      BY <1>8, <1>11, <2>1, <2>2
  <1>12. QueueHolds'
    <2>1. batch' = batch /\ log' = log /\ Ordered(log)
      BY DEF QueueHolds
    <2>2. Behind(batch)' /\ Behind(log)'
      BY <1>5, <1>6, <2>1 DEF Behind
    <2>3. ASSUME NEW i \in DOMAIN queue' PROVE queue'[i].n <= Decided(queue[i].by)'
      <3>1. PICK e : e = queue'[i]
        OBVIOUS
      <3>2. Decided(queue[i].by)' = Decided(e.by)'
        BY <3>1 DEF Decided
      <3>3. QED
        BY <1>11, <2>3, <3>1, <3>2
    <2>4. Behind(queue)'
      BY <2>3 DEF Behind
    <2>5. Ordered(queue)' /\ Ordered(log)' /\ Precedes(batch, queue)' /\ Precedes(log, queue)'
      BY <1>9, <1>10, <2>1 DEF Ordered, Precedes
    <2>6. QED
      BY <2>2, <2>4, <2>5 DEF QueueHolds
  <1>13. AnswersWait'
    BY <1>5, <1>7, <1>11 DEF AnswersWait
  <1>14. QED
    BY <1>12, <1>13

Answered(c, n, code) == answer' = [answer EXCEPT ![c][n] = code]

LEMMA AnswerSet ==
  ASSUME ClientsTyped, NEW c \in Client, NEW n \in DOMAIN Messages[c],
         NEW code \in Codes \cup {None}, Answered(c, n, code)
  PROVE  /\ answer' = [d \in Client |-> answer'[d]]
         /\ \A d \in Client : answer'[d] \in [DOMAIN Messages[d] -> Codes \cup {None}]
         /\ answer'[c][n] = code
         /\ \A d \in Client : \A m \in DOMAIN Messages[d] :
              answer'[d][m] # answer[d][m] => d = c /\ m = n
  <1>1. answer = [d \in Client |-> answer[d]]
        /\ \A d \in Client : answer[d] \in [DOMAIN Messages[d] -> Codes \cup {None}]
    BY DEF ClientsTyped
  <1> DEFINE row == [answer[c] EXCEPT ![n] = code]
  <1>2. answer' = [answer EXCEPT ![c] = row]
    BY DEF Answered
  <1>3. row \in [DOMAIN Messages[c] -> Codes \cup {None}] /\ row[n] = code
        /\ \A m \in DOMAIN Messages[c] : m # n => row[m] = answer[c][m]
    BY <1>1
  <1> HIDE DEF row
  <1>4. answer'[c] = row /\ \A d \in Client : d # c => answer'[d] = answer[d]
    BY <1>1, <1>2
  <1>5. answer' = [d \in Client |-> answer'[d]]
    BY <1>1, <1>2
  <1>6. \A d \in Client : answer'[d] \in [DOMAIN Messages[d] -> Codes \cup {None}]
    BY <1>1, <1>3, <1>4
  <1>7. \A d \in Client : \A m \in DOMAIN Messages[d] :
          answer'[d][m] # answer[d][m] => d = c /\ m = n
    BY <1>3, <1>4
  <1>8. QED
    BY <1>3, <1>4, <1>5, <1>6, <1>7

(* What a batch's replies change, and what they do not.                    *)
LEMMA AnswersSet ==
  ASSUME ClientsTyped, NEW results, \A r \in results : r.code \in Codes,
         answer' = Answers(results)
  PROVE  /\ answer' = [d \in Client |-> answer'[d]]
         /\ \A d \in Client : answer'[d] \in [DOMAIN Messages[d] -> Codes \cup {None}]
         /\ \A d \in Client : \A m \in DOMAIN Messages[d] :
              (\A r \in results : ~(r.by = d /\ r.n = m)) => answer'[d][m] = answer[d][m]
  <1> DEFINE of(d, m) == IF \E r \in results : r.by = d /\ r.n = m
                         THEN (CHOOSE r \in results : r.by = d /\ r.n = m).code
                         ELSE answer[d][m]
  <1>1. \A d \in Client : \A m \in DOMAIN Messages[d] : of(d, m) \in Codes \cup {None}
    BY DEF ClientsTyped
  <1>2. \A d \in Client : \A m \in DOMAIN Messages[d] :
          (\A r \in results : ~(r.by = d /\ r.n = m)) => of(d, m) = answer[d][m]
    OBVIOUS
  <1>3. answer' = [d \in Client |-> [m \in DOMAIN Messages[d] |-> of(d, m)]]
    BY DEF Answers
  <1> HIDE DEF of
  <1>4. \A d \in Client : answer'[d] = [m \in DOMAIN Messages[d] |-> of(d, m)]
    BY <1>3
  <1>5. \A d \in Client : answer'[d] \in [DOMAIN Messages[d] -> Codes \cup {None}]
    BY <1>1, <1>4
  <1>6. \A d \in Client : \A m \in DOMAIN Messages[d] : answer'[d][m] = of(d, m)
    BY <1>4
  <1>7. answer' = [d \in Client |-> answer'[d]]
    BY <1>3
  <1>8. QED
    BY <1>2, <1>5, <1>6, <1>7

(* No more was written than was asked and handed on.                       *)
LEMMA StreamBounds ==
  ASSUME ClientsTyped, StreamsTyped, NEW s \in Stream, StreamHolds(s)
  PROVE  /\ s \in Client /\ asked[s] \in Nat /\ Written(s) \in Nat /\ Handed(s) \in Int
         /\ Written(s) <= Handed(s) /\ Handed(s) <= asked[s] /\ asked[s] <= Len(Messages[s])
         /\ Written(s) <= asked[s]
         /\ got[s] \in Seq(Reply) /\ out[s] \in Seq(Reply) /\ pending[s] \in Seq(Nat)
         /\ writer[s] \in Int /\ reader[s] \in ReaderStates
         /\ Len(got[s]) \in Nat /\ Len(out[s]) \in Nat /\ Len(pending[s]) \in Nat
         /\ Written(s) = Len(got[s]) + Len(out[s])
         /\ \A i \in 1 .. Written(s) : i \in DOMAIN Messages[s]
  <1>1. s \in Client /\ asked[s] \in Nat /\ asked[s] <= Len(Messages[s])
        /\ Len(Messages[s]) \in Nat /\ DOMAIN Messages[s] = 1 .. Len(Messages[s])
    BY ConstantFacts DEF ClientsTyped
  <1>2. /\ got[s] \in Seq(Reply) /\ out[s] \in Seq(Reply) /\ pending[s] \in Seq(Nat)
        /\ writer[s] \in Int /\ reader[s] \in ReaderStates
    BY DEF StreamsTyped
  <1>3. Len(got[s]) \in Nat /\ Len(out[s]) \in Nat /\ Len(pending[s]) \in Nat
    BY <1>2, LenProperties
  <1>4. Written(s) = Len(got[s]) + Len(out[s]) /\ Written(s) <= Handed(s)
    BY DEF Written, StreamHolds
  <1>5. Handed(s) = asked[s] \/ Handed(s) = asked[s] - 1
    BY DEF Handed
  <1>6. \A k, m, w, h, a : k \in Nat /\ m \in Nat /\ a \in Nat /\ w = k + m /\ (h = a \/ h = a - 1)
                            => w \in Nat /\ h \in Int /\ h <= a
    OBVIOUS
  <1>7. Written(s) \in Nat /\ Handed(s) \in Int /\ Handed(s) <= asked[s]
    BY ONLY <1>1, <1>3, <1>4, <1>5, <1>6
  <1>8. \A w, h, a, l : w \in Nat /\ h \in Int /\ a \in Nat /\ l \in Nat /\ w <= h /\ h <= a /\ a <= l
                          => w <= a /\ \A i \in 1 .. w : i \in 1 .. l
    OBVIOUS
  <1>9. Written(s) <= asked[s] /\ \A i \in 1 .. Written(s) : i \in DOMAIN Messages[s]
    BY ONLY <1>1, <1>4, <1>7, <1>8
  <1>10. QED
    BY <1>1, <1>2, <1>3, <1>4, <1>7, <1>9

(* A stream keeps what it holds through the steps of others, and those of  *)
(* its reader that hand nothing on.                                        *)
LEMMA StreamKept ==
  ASSUME StreamsTyped, NEW s \in Stream, StreamHolds(s), got'[s] = got[s], out'[s] = out[s],
         pending'[s] = pending[s], writer'[s] = writer[s], s \in hungUp' <=> s \in hungUp,
         Handed(s)' = Handed(s), asked[s] \in Nat, asked'[s] \in Nat, asked[s] <= asked'[s],
         s \notin hungUp /\ writer[s] = Ended => reader'[s] = "ended",
         \A i \in 1 .. Written(s) : answer'[s][i] = answer[s][i]
  PROVE  StreamHolds(s)'
  <1>1. Written(s)' = Written(s) /\ Holds(s)' = Holds(s)
    BY DEF Written, Holds
  <1>2. got[s] \in Seq(Reply) /\ out[s] \in Seq(Reply) /\ pending[s] \in Seq(Nat)
    BY DEF StreamsTyped
  <1>3. /\ Len(got[s]) \in Nat /\ Len(out[s]) \in Nat
        /\ DOMAIN got[s] = 1 .. Len(got[s]) /\ DOMAIN out[s] = 1 .. Len(out[s])
    BY <1>2
  <1>4. \A k, m \in Nat : \A i \in 1 .. k : i \in 1 .. k + m /\ m + i \in 1 .. m + k
    OBVIOUS
  <1>5. /\ \A i \in DOMAIN got[s] : i \in 1 .. Written(s)
        /\ \A i \in DOMAIN out[s] : Len(got[s]) + i \in 1 .. Written(s)
    <2>1. Written(s) = Len(got[s]) + Len(out[s])
      BY DEF Written
    <2>2. QED
      BY ONLY <1>3, <1>4, <2>1
  <1>6. /\ \A i \in DOMAIN got[s] : got[s][i] = [of |-> i, code |-> answer'[s][i]]
        /\ \A i \in DOMAIN out[s] :
             out[s][i] = [of |-> Len(got[s]) + i, code |-> answer'[s][Len(got[s]) + i]]
        /\ \A i \in 1 .. Written(s) : answer'[s][i] # None
    BY <1>5 DEF StreamHolds
  <1>7. /\ Written(s) <= Handed(s) /\ Len(pending[s]) <= PendingRoom /\ Len(out[s]) <= OutRoom
        /\ \A i \in DOMAIN pending[s] : pending[s][i] \in 1 .. asked[s]
        /\ writer[s] \in {Ended} \cup 0 .. asked[s]
    BY DEF StreamHolds
  <1>8. /\ \A i \in DOMAIN pending[s] : pending[s][i] \in 1 .. asked'[s]
        /\ writer[s] \in {Ended} \cup 0 .. asked'[s]
    BY <1>7
  <1>9. s \notin hungUp =>
          /\ writer[s] > 0 => writer[s] = Written(s) + 1
          /\ \A i \in DOMAIN pending[s] : pending[s][i] = Written(s) + Holds(s) + i
          /\ Written(s) + Holds(s) + Len(pending[s]) = Handed(s)
    BY DEF StreamHolds
  <1>10. QED
    BY <1>1, <1>6, <1>7, <1>8, <1>9 DEF StreamHolds

-----------------------------------------------------------------------------
(* Requests.                                                               *)

LEMMA RefusalType ==
  ASSUME NEW r, NEW at
  PROVE  Refusal(r, at) \in Codes \cup {None} /\ "RESOURCE_EXHAUSTED" \in Codes /\ "UNAVAILABLE" \in Codes
  <1>1. Refusal(r, at) \in {"RESOURCE_EXHAUSTED", "INVALID_ARGUMENT", None}
    BY DEF Refusal
  <1>2. QED
    BY <1>1 DEF Codes

(* A client's request is received, answered or queued; its place is        *)
(* decided now unless it waits for room.                                   *)
LEMMA RequestStep ==
  ASSUME PipelineHolds, NEW c \in Client, NEW n \in DOMAIN Messages[c], n > Decided(c),
         asked' = [asked EXCEPT ![c] = n],
         \A d \in Client : d # c => Decided(d)' = Decided(d),
         Decided(c) <= Decided(c)', Decided(c)' \in Int,
         UNCHANGED <<pc, batch, log, published, announced>>,
         \/ /\ queue' = queue
            /\ answer' = answer \/ \E code \in Codes \cup {None} : answer' = [answer EXCEPT ![c][n] = code]
            /\ n <= Decided(c)' \/ answer'[c][n] = None
         \/ /\ HasRoom /\ queue' = Append(queue, [by |-> c, n |-> n])
            /\ answer' = answer /\ n <= Decided(c)'
  PROVE  /\ ClientsTyped' /\ MatcherTyped' /\ QueueHolds' /\ AnswersWait'
         /\ \A d \in Client : \A m \in DOMAIN Messages[d] :
              answer'[d][m] # answer[d][m] => d = c /\ m = n
  <1>1. ClientsTyped /\ MatcherTyped /\ QueueHolds /\ AnswersWait
    BY DEF PipelineHolds
  <1>2. /\ answer' = [d \in Client |-> answer'[d]]
        /\ \A d \in Client : answer'[d] \in [DOMAIN Messages[d] -> Codes \cup {None}]
        /\ \A d \in Client : \A m \in DOMAIN Messages[d] :
             answer'[d][m] # answer[d][m] => d = c /\ m = n
    <2>1. CASE answer' = answer
      BY <1>1, <2>1 DEF ClientsTyped
    <2>2. CASE \E code \in Codes \cup {None} : answer' = [answer EXCEPT ![c][n] = code]
      <3>1. PICK code \in Codes \cup {None} : Answered(c, n, code)
        BY <2>2 DEF Answered
      <3>2. QED
        BY <1>1, <3>1, AnswerSet
    <2>3. QED
      BY <2>1, <2>2
  <1>3. n \in Nat /\ n <= Len(Messages[c])
    BY <1>1, DecidedFacts
  <1>4. asked' \in [Client -> Nat] /\ \A d \in Client : asked'[d] <= Len(Messages[d])
    BY <1>1, <1>3 DEF ClientsTyped
  <1>5. ClientsTyped'
    BY <1>2, <1>4 DEF ClientsTyped
  <1>6. MatcherTyped'
    <2>1. CASE queue' = queue
      BY <1>1, <2>1 DEF MatcherTyped
    <2>2. CASE HasRoom /\ queue' = Append(queue, [by |-> c, n |-> n])
      <3>1. [by |-> c, n |-> n] \in Command
        BY <1>3, DecidedFacts, <1>1 DEF Command
      <3>2. queue \in Seq(Command) /\ Len(queue) < Capacity
        BY <1>1, <2>2 DEF MatcherTyped, HasRoom
      <3>3. queue' \in Seq(Command) /\ Len(queue') = Len(queue) + 1 /\ Len(queue) \in Nat
        BY <2>2, <3>1, <3>2, AtEnd
      <3>4. Len(queue') <= Capacity
        BY <3>2, <3>3, ConstantFacts
      <3>5. QED
        BY <1>1, <3>3, <3>4 DEF MatcherTyped
    <2>3. QED
      BY <2>1, <2>2
  <1>7. \A d \in Client : Decided(d) <= Decided(d)' /\ Decided(d)' \in Int
    BY <1>1, DecidedFacts
  <1>8. QueueHolds' /\ AnswersWait'
    <2>1. /\ n <= Decided(c)' \/ answer'[c][n] = None
          /\ \/ queue' = queue
             \/ /\ queue' = Append(queue, [by |-> c, n |-> n])
                /\ answer'[c][n] = answer[c][n] /\ n <= Decided(c)'
      OBVIOUS
    <2>2. batch' = batch /\ log' = log
      OBVIOUS
    <2>3. QED
      BY <1>1, <1>2, <1>7, <2>1, <2>2, PlaceDecided
  <1>9. QED
    BY <1>2, <1>5, <1>6, <1>8

LEMMA CallHolds ==
  ASSUME PipelineHolds, NEW c \in Caller, Call(c)
  PROVE  PipelineHolds'
  <1> DEFINE n == asked[c] + 1
  <1>1. c \in Client /\ c \notin Stream /\ n \in DOMAIN Messages[c]
    BY ConstantFacts DEF Call, Ready
  <1>2. /\ ClientsTyped /\ StreamsTyped /\ asked[c] \in Nat /\ n > Decided(c) /\ Decided(c) = asked[c]
    BY <1>1, DecidedFacts DEF PipelineHolds, Decided
  <1>3. asked' = [asked EXCEPT ![c] = n] /\ asked \in [Client -> Nat]
    BY <1>2 DEF Call, ClientsTyped
  <1>4. UNCHANGED <<reader, pending, writer, out, got, hungUp, pc, batch, log, published, announced>>
    BY DEF Call, streamVars
  <1>5. \/ answer' = [answer EXCEPT ![c][n] = Refusal(Messages[c][n], clock[c])] /\ queue' = queue
        \/ answer' = [answer EXCEPT ![c][n] = "RESOURCE_EXHAUSTED"] /\ queue' = queue
        \/ answer' = answer /\ HasRoom /\ queue' = Append(queue, [by |-> c, n |-> n])
    BY DEF Call
  <1> HIDE DEF n
  <1>6. Decided(c)' = n /\ \A d \in Client : d # c => Decided(d)' = Decided(d)
    <2>1. asked'[c] = n /\ \A d \in Client : d # c => asked'[d] = asked[d]
      BY <1>1, <1>3
    <2>2. QED
      BY <1>1, <1>4, <2>1 DEF Decided
  <1>7. Decided(c) <= Decided(c)' /\ Decided(c)' \in Int /\ n <= Decided(c)'
    BY <1>2, <1>6 DEF n
  <1>8. \/ /\ queue' = queue
           /\ answer' = answer \/ \E code \in Codes \cup {None} : answer' = [answer EXCEPT ![c][n] = code]
        \/ HasRoom /\ queue' = Append(queue, [by |-> c, n |-> n]) /\ answer' = answer
    BY <1>5, RefusalType
  <1>9. /\ ClientsTyped' /\ MatcherTyped' /\ QueueHolds' /\ AnswersWait'
        /\ \A d \in Client : \A m \in DOMAIN Messages[d] :
             answer'[d][m] # answer[d][m] => d = c /\ m = n
    BY <1>1, <1>2, <1>3, <1>4, <1>6, <1>7, <1>8, RequestStep
  <1>10. StreamsTyped'
    BY <1>2, <1>4 DEF StreamsTyped
  <1>11. ASSUME NEW s \in Stream PROVE StreamHolds(s)'
    <2>1. s \in Client /\ s # c /\ StreamHolds(s)
      BY <1>1, ConstantFacts DEF PipelineHolds
    <2>2. asked'[s] = asked[s] /\ asked[s] \in Nat /\ Handed(s)' = Handed(s)
      BY <1>3, <1>4, <2>1 DEF Handed
    <2>3. \A i \in 1 .. Written(s) : i \in DOMAIN Messages[s]
      BY <1>2, <2>1, StreamBounds
    <2>4. \A i \in 1 .. Written(s) : answer'[s][i] = answer[s][i]
      BY <1>9, <2>1, <2>3
    <2>5. asked'[s] \in Nat /\ asked[s] <= asked'[s]
          /\ (s \notin hungUp /\ writer[s] = Ended => reader'[s] = "ended")
      BY <1>4, <2>1, <2>2 DEF StreamHolds
    <2>6. QED
      BY <1>2, <1>4, <2>1, <2>2, <2>4, <2>5, StreamKept
  <1>12. QED
    BY <1>9, <1>10, <1>11 DEF PipelineHolds

(* The pipeline is left alone.                                             *)
LEMMA QueueKept ==
  ASSUME ClientsTyped, MatcherTyped, QueueHolds, AnswersWait,
         UNCHANGED <<asked, answer, queue, batch, log>>,
         \A c \in Client : Decided(c)' = Decided(c)
  PROVE  ClientsTyped' /\ QueueHolds' /\ AnswersWait'
  <1>1. ClientsTyped'
    BY DEF ClientsTyped
  <1>2. AnswersWait'
    BY DEF AnswersWait
  <1>3. /\ \A i \in DOMAIN queue : queue[i].n <= Decided(queue[i].by)'
        /\ \A i \in DOMAIN batch : batch[i].n <= Decided(batch[i].by)'
        /\ \A i \in DOMAIN log : log[i].n <= Decided(log[i].by)'
    BY ElementFacts
  <1>4. Behind(queue)' /\ Behind(batch)' /\ Behind(log)'
    BY <1>3 DEF Behind
  <1>5. Ordered(queue)' /\ Ordered(log)' /\ Precedes(batch, queue)' /\ Precedes(log, queue)'
    BY DEF QueueHolds, Ordered, Precedes
  <1>6. QED
    BY <1>1, <1>2, <1>4, <1>5 DEF QueueHolds

LEMMA ReadMessageHolds ==
  ASSUME PipelineHolds, NEW s \in Stream, ReadMessage(s)
  PROVE  PipelineHolds'
  <1> DEFINE n == asked[s] + 1
  <1>1. s \in Client /\ n \in DOMAIN Messages[s] /\ reader[s] = "reading"
    BY ConstantFacts DEF ReadMessage, Ready
  <1>2. /\ ClientsTyped /\ StreamsTyped /\ asked[s] \in Nat /\ n > Decided(s) /\ Decided(s) = asked[s]
    BY <1>1, DecidedFacts DEF PipelineHolds, Decided
  <1>3. PICK code : code = Refusal(Messages[s][n], clock[s])
    OBVIOUS
  <1>4. /\ asked' = [asked EXCEPT ![s] = n] /\ asked \in [Client -> Nat]
        /\ answer' = [answer EXCEPT ![s][n] = code]
        /\ reader' = [reader EXCEPT ![s] = IF code = None THEN "queueing" ELSE "sending"]
    BY <1>2, <1>3 DEF ReadMessage, ClientsTyped
  <1>5. UNCHANGED <<pending, writer, out, got, hungUp, pc, queue, batch, log, published, announced>>
    BY DEF ReadMessage, matcherVars
  <1> HIDE DEF n
  <1>6. code \in Codes \cup {None} /\ n = asked[s] + 1
    BY <1>3, RefusalType DEF n
  <1>7. /\ asked'[s] = n /\ \A d \in Client : d # s => asked'[d] = asked[d]
        /\ reader' \in [Stream -> ReaderStates]
        /\ reader'[s] = (IF code = None THEN "queueing" ELSE "sending")
        /\ \A t \in Stream : t # s => reader'[t] = reader[t]
    BY <1>1, <1>2, <1>4 DEF StreamsTyped, ReaderStates
  <1>8. /\ Decided(s)' = (IF code = None THEN n - 1 ELSE n) /\ Handed(s)' = n - 1
        /\ \A d \in Client : d # s => Decided(d)' = Decided(d)
        /\ \A t \in Stream : t # s => Handed(t)' = Handed(t)
    BY <1>1, <1>7, ConstantFacts DEF Decided, Handed
  <1>9. answer'[s][n] = code
    <2>1. answer = [d \in Client |-> answer[d]]
          /\ answer[s] \in [DOMAIN Messages[s] -> Codes \cup {None}]
      BY <1>1, <1>2 DEF ClientsTyped
    <2>2. answer'[s] = [answer[s] EXCEPT ![n] = code]
      BY <1>1, <1>4, <2>1
    <2>3. QED
      BY <1>1, <2>1, <2>2
  <1>10. Decided(s) <= Decided(s)' /\ Decided(s)' \in Int
         /\ (n <= Decided(s)' \/ answer'[s][n] = None)
    BY <1>2, <1>6, <1>8, <1>9
  <1>11. queue' = queue /\ \E d \in Codes \cup {None} : answer' = [answer EXCEPT ![s][n] = d]
    BY <1>4, <1>5, <1>6
  <1>12. /\ ClientsTyped' /\ MatcherTyped' /\ QueueHolds' /\ AnswersWait'
         /\ \A d \in Client : \A m \in DOMAIN Messages[d] :
              answer'[d][m] # answer[d][m] => d = s /\ m = n
    BY <1>1, <1>2, <1>4, <1>5, <1>8, <1>10, <1>11, RequestStep
  <1>13. StreamsTyped'
    BY <1>2, <1>5, <1>7 DEF StreamsTyped
  <1>14. ASSUME NEW t \in Stream PROVE StreamHolds(t)'
    <2>1. t \in Client /\ StreamHolds(t)
      BY ConstantFacts DEF PipelineHolds
    <2>2. \A i \in 1 .. Written(t) : i \in DOMAIN Messages[t]
      BY <1>2, <2>1, StreamBounds
    <2>3. Handed(t)' = Handed(t)
      BY <1>1, <1>2, <1>6, <1>8 DEF Handed
    <2>4. t = s => \A i \in 1 .. Written(t) : i # n
      <3>1. Written(t) <= asked[t] /\ Written(t) \in Nat
        BY <1>2, <2>1, StreamBounds
      <3>2. QED
        BY <1>2, <1>6, <3>1
    <2>5. \A i \in 1 .. Written(t) : answer'[t][i] = answer[t][i]
      BY <1>12, <2>1, <2>2, <2>4
    <2>6. asked[t] \in Nat /\ asked'[t] \in Nat /\ asked[t] <= asked'[t]
      BY <1>2, <1>6, <1>7, <2>1, DecidedFacts
    <2>7. t \notin hungUp /\ writer[t] = Ended => reader'[t] = "ended"
      BY <1>1, <1>7, <2>1 DEF StreamHolds
    <2>8. QED
      BY <1>2, <1>5, <2>1, <2>3, <2>5, <2>6, <2>7, StreamKept
  <1>15. QED
    BY <1>12, <1>13, <1>14 DEF PipelineHolds

LEMMA EnqueueHolds ==
  ASSUME PipelineHolds, NEW s \in Stream, Enqueue(s)
  PROVE  PipelineHolds'
  <1> DEFINE n == asked[s]
  <1>1. s \in Client /\ reader[s] = "queueing"
    BY ConstantFacts DEF Enqueue
  <1>2. /\ ClientsTyped /\ StreamsTyped /\ StreamHolds(s) /\ n \in Nat
        /\ Decided(s) = n - 1 /\ Handed(s) = n - 1
    BY <1>1 DEF PipelineHolds, Decided, Handed, ClientsTyped
  <1>3. Written(s) \in Nat /\ Written(s) <= Handed(s) /\ n <= Len(Messages[s])
        /\ Len(Messages[s]) \in Nat /\ DOMAIN Messages[s] = 1 .. Len(Messages[s])
    BY <1>1, <1>2, StreamBounds, ConstantFacts
  <1>4. n \in DOMAIN Messages[s] /\ n > Decided(s) /\ \A i \in 1 .. Written(s) : i # n
    BY <1>2, <1>3
  <1>5. /\ UNCHANGED <<asked, pending, writer, out, got, hungUp, pc, batch, log, published, announced>>
        /\ reader' = [reader EXCEPT ![s] = "sending"]
    BY DEF Enqueue
  <1>6. \/ HasRoom /\ queue' = Append(queue, [by |-> s, n |-> n]) /\ answer' = answer
        \/ queue' = queue /\ answer' = [answer EXCEPT ![s][n] = "UNAVAILABLE"]
    BY DEF Enqueue
  <1> HIDE DEF n
  <1>7. /\ reader' \in [Stream -> ReaderStates] /\ reader'[s] = "sending"
        /\ \A t \in Stream : t # s => reader'[t] = reader[t]
    BY <1>2, <1>5 DEF StreamsTyped, ReaderStates
  <1>8. /\ Decided(s)' = n /\ \A d \in Client : d # s => Decided(d)' = Decided(d)
        /\ \A t \in Stream : Handed(t)' = Handed(t)
    <2>1. asked[s] = n
      BY DEF n
    <2>2. Decided(s)' = n /\ Handed(s)' = Handed(s)
      BY <1>1, <1>5, <1>7, <2>1 DEF Decided, Handed
    <2>3. \A d \in Client : d # s => Decided(d)' = Decided(d)
      BY <1>5, <1>7 DEF Decided
    <2>4. \A t \in Stream : t # s => Handed(t)' = Handed(t)
      BY <1>5, <1>7 DEF Handed
    <2>5. QED
      BY <2>2, <2>3, <2>4
  <1>9. Decided(s) <= Decided(s)' /\ Decided(s)' \in Int /\ n <= Decided(s)'
    BY <1>2, <1>8
  <1>10. asked' = [asked EXCEPT ![s] = n]
    BY <1>2, <1>5 DEF n, ClientsTyped
  <1>11. \/ /\ queue' = queue
            /\ answer' = answer \/ \E code \in Codes \cup {None} : answer' = [answer EXCEPT ![s][n] = code]
            /\ n <= Decided(s)' \/ answer'[s][n] = None
         \/ /\ HasRoom /\ queue' = Append(queue, [by |-> s, n |-> n])
            /\ answer' = answer /\ n <= Decided(s)'
    <2>1. CASE queue' = queue /\ answer' = [answer EXCEPT ![s][n] = "UNAVAILABLE"]
      <3>1. "UNAVAILABLE" \in Codes \cup {None}
        BY RefusalType
      <3>2. QED
        BY <1>9, <2>1, <3>1
    <2>2. CASE HasRoom /\ queue' = Append(queue, [by |-> s, n |-> n]) /\ answer' = answer
      BY <1>9, <2>2
    <2>3. QED
      BY <1>6, <2>1, <2>2
  <1>12. /\ ClientsTyped' /\ MatcherTyped' /\ QueueHolds' /\ AnswersWait'
         /\ \A d \in Client : \A m \in DOMAIN Messages[d] :
              answer'[d][m] # answer[d][m] => d = s /\ m = n
    <2>1. UNCHANGED <<pc, batch, log, published, announced>>
      BY <1>5
    <2>2. \A d \in Client : d # s => Decided(d)' = Decided(d)
      BY <1>8
    <2>3. n \in DOMAIN Messages[s] /\ n > Decided(s)
      BY <1>4
    <2>4. QED
      BY <1>1, <1>9, <1>10, <1>11, <2>1, <2>2, <2>3, RequestStep
  <1>13. StreamsTyped'
    BY <1>2, <1>5, <1>7 DEF StreamsTyped
  <1>14. ASSUME NEW t \in Stream PROVE StreamHolds(t)'
    <2>1. t \in Client /\ StreamHolds(t)
      BY ConstantFacts DEF PipelineHolds
    <2>2. \A i \in 1 .. Written(t) : i \in DOMAIN Messages[t]
      BY <1>2, <2>1, StreamBounds
    <2>3. \A i \in 1 .. Written(t) : answer'[t][i] = answer[t][i]
      BY <1>4, <1>12, <2>1, <2>2
    <2>4. asked[t] \in Nat /\ asked'[t] \in Nat /\ asked[t] <= asked'[t]
      BY <1>2, <1>5, <2>1, DecidedFacts
    <2>5. t \notin hungUp /\ writer[t] = Ended => reader'[t] = "ended"
      BY <1>1, <1>7, <2>1 DEF StreamHolds
    <2>6. QED
      BY <1>2, <1>5, <1>8, <2>1, <2>3, <2>4, <2>5, StreamKept
  <1>15. QED
    BY <1>12, <1>13, <1>14 DEF PipelineHolds

(* A step of the stream's tasks, which leaves the queue alone.             *)
LEMMA StreamStep ==
  ASSUME PipelineHolds, NEW s \in Stream,
         UNCHANGED <<asked, answer, pc, queue, batch, log, published, announced>>,
         StreamsTyped', StreamHolds(s)', reader[s] = "queueing" <=> reader'[s] = "queueing",
         \A t \in Stream : t # s =>
           /\ reader'[t] = reader[t] /\ pending'[t] = pending[t] /\ writer'[t] = writer[t]
           /\ out'[t] = out[t] /\ got'[t] = got[t] /\ (t \in hungUp' <=> t \in hungUp)
  PROVE  PipelineHolds'
  <1>1. ClientsTyped /\ StreamsTyped /\ MatcherTyped /\ QueueHolds /\ AnswersWait
    BY DEF PipelineHolds
  <1>2. \A c \in Client : Decided(c)' = Decided(c)
    BY DEF Decided
  <1>3. ClientsTyped' /\ MatcherTyped' /\ QueueHolds' /\ AnswersWait'
    <2>1. MatcherTyped'
      BY <1>1 DEF MatcherTyped
    <2>2. QED
      BY <1>1, <1>2, <2>1, QueueKept
  <1>4. ASSUME NEW t \in Stream PROVE StreamHolds(t)'
    <2>1. CASE t # s
      <3>1. StreamHolds(t) /\ t \in Client /\ asked[t] \in Nat
        BY <1>1, StreamBounds DEF PipelineHolds
      <3>2. Handed(t)' = Handed(t)
        BY <2>1 DEF Handed
      <3>3. t \notin hungUp /\ writer[t] = Ended => reader'[t] = "ended"
        BY <2>1, <3>1 DEF StreamHolds
      <3>4. QED
        BY <1>1, <2>1, <3>1, <3>2, <3>3, StreamKept
    <2>2. QED
      BY <2>1
  <1>5. QED
    BY <1>3, <1>4 DEF PipelineHolds

-----------------------------------------------------------------------------
(* A stream's tasks and its client.                                        *)

LEMMA SendPendingHolds ==
  ASSUME PipelineHolds, NEW s \in Stream, SendPending(s)
  PROVE  PipelineHolds'
  <1>1. ClientsTyped /\ StreamsTyped /\ StreamHolds(s) /\ reader[s] = "sending"
    BY DEF PipelineHolds, SendPending
  <1>2. UNCHANGED <<asked, answer, pc, queue, batch, log, published, announced, writer, out, got, hungUp>>
    BY DEF SendPending, matcherVars
  <1>3. /\ pending[s] \in Seq(Nat) /\ asked[s] \in Nat /\ Written(s) \in Nat
        /\ Written(s) <= asked[s] - 1 /\ Handed(s) = asked[s] - 1 /\ Len(pending[s]) \in Nat
    <2>1. Handed(s) = asked[s] - 1
      BY <1>1 DEF Handed
    <2>2. QED
      BY <1>1, <2>1, StreamBounds
  <1>4. asked[s] \in Nat \ {0}
    BY <1>3
  <1>5. Written(s)' = Written(s) /\ Holds(s)' = Holds(s)
    BY <1>2 DEF Written, Holds
  <1>6. CASE writer[s] # Ended /\ Len(pending[s]) < PendingRoom
             /\ pending' = [pending EXCEPT ![s] = Append(@, asked[s])]
             /\ reader' = [reader EXCEPT ![s] = "reading"]
    <2>1. PICK p : p = Append(pending[s], asked[s])
      OBVIOUS
    <2>2. /\ p \in Seq(Nat) /\ Len(p) = Len(pending[s]) + 1 /\ DOMAIN p = 1 .. Len(pending[s]) + 1
          /\ DOMAIN pending[s] = 1 .. Len(pending[s])
          /\ \A i \in DOMAIN pending[s] : p[i] = pending[s][i]
          /\ \A i \in DOMAIN p : i \in DOMAIN pending[s] \/ i = Len(pending[s]) + 1
          /\ p[Len(pending[s]) + 1] = asked[s]
      BY <1>3, <2>1, AtEnd
    <2>3. /\ pending' = [pending EXCEPT ![s] = p] /\ pending'[s] = p
          /\ reader'[s] = "reading" /\ pending' \in [Stream -> Seq(Nat)]
          /\ reader' \in [Stream -> ReaderStates]
      BY <1>1, <1>6, <2>1, <2>2 DEF StreamsTyped, ReaderStates
    <2>4. StreamsTyped'
      BY <1>1, <1>2, <2>3 DEF StreamsTyped
    <2>5. Handed(s)' = asked[s]
      BY <1>2, <2>3 DEF Handed
    <2>6. \A i \in DOMAIN p : p[i] \in 1 .. asked[s]
      BY <1>1, <1>4, <2>2 DEF StreamHolds
    <2>7. s \notin hungUp =>
            /\ Written(s) + Holds(s) + (Len(pending[s]) + 1) = asked[s]
            /\ \A i \in DOMAIN pending[s] : pending[s][i] = Written(s) + Holds(s) + i
      <3>1. Holds(s) \in Nat
        BY DEF Holds
      <3>2. s \notin hungUp =>
              /\ Written(s) + Holds(s) + Len(pending[s]) = asked[s] - 1
              /\ \A i \in DOMAIN pending[s] : pending[s][i] = Written(s) + Holds(s) + i
        BY <1>1, <1>3 DEF StreamHolds
      <3>3. \A w, h, l, a \in Nat : w + h + l = a - 1 => w + h + (l + 1) = a
        OBVIOUS
      <3>4. Written(s) \in Nat /\ Len(pending[s]) \in Nat /\ asked[s] \in Nat
        BY <1>3
      <3>5. s \notin hungUp => Written(s) + Holds(s) + Len(pending[s]) = asked[s] - 1
        BY <3>2
      <3>6. s \notin hungUp => Written(s) + Holds(s) + (Len(pending[s]) + 1) = asked[s]
        BY ONLY <3>1, <3>3, <3>4, <3>5
      <3>7. QED
        BY <3>2, <3>6
    <2>8. s \notin hungUp =>
            /\ Written(s) + Holds(s) + Len(p) = asked[s]
            /\ \A i \in DOMAIN p : p[i] = Written(s) + Holds(s) + i
      BY ONLY <2>2, <2>7
    <2>9. Written(s) <= asked[s] /\ Len(p) <= PendingRoom
      BY <1>3, <1>6, <2>2, ConstantFacts
    <2>10. StreamHolds(s)'
      BY <1>1, <1>2, <1>5, <1>6, <2>3, <2>5, <2>6, <2>8, <2>9 DEF StreamHolds
    <2>11. \A t \in Stream : t # s => reader'[t] = reader[t] /\ pending'[t] = pending[t]
      BY <1>1, <1>6 DEF StreamsTyped
    <2>12. QED
      BY <1>1, <1>2, <2>3, <2>4, <2>10, <2>11, StreamStep
  <1>7. CASE writer[s] = Ended /\ pending' = pending /\ reader' = [reader EXCEPT ![s] = "ended"]
    <2>1. /\ reader'[s] = "ended" /\ reader' \in [Stream -> ReaderStates]
          /\ \A t \in Stream : t # s => reader'[t] = reader[t]
      BY <1>1, <1>7 DEF StreamsTyped, ReaderStates
    <2>2. StreamsTyped'
      BY <1>1, <1>2, <1>7, <2>1 DEF StreamsTyped
    <2>3. s \in hungUp
      BY <1>1, <1>7 DEF StreamHolds
    <2>4. Handed(s)' = asked[s] /\ Written(s) <= asked[s]
      BY <1>2, <1>3, <2>1 DEF Handed
    <2>5. StreamHolds(s)'
      BY <1>1, <1>2, <1>5, <1>7, <2>3, <2>4 DEF StreamHolds
    <2>6. QED
      BY <1>1, <1>2, <1>7, <2>1, <2>2, <2>5, StreamStep
  <1>8. QED
    BY <1>6, <1>7 DEF SendPending

LEMMA StopReadingHolds ==
  ASSUME PipelineHolds, NEW s \in Stream, StopReading(s)
  PROVE  PipelineHolds'
  <1>1. ClientsTyped /\ StreamsTyped /\ StreamHolds(s) /\ reader[s] = "reading"
    BY DEF PipelineHolds, StopReading
  <1>2. /\ UNCHANGED <<asked, answer, pc, queue, batch, log, published, announced, pending, writer, out, got, hungUp>>
        /\ reader' = [reader EXCEPT ![s] = "ended"]
    BY DEF StopReading, matcherVars
  <1>3. /\ reader'[s] = "ended" /\ reader' \in [Stream -> ReaderStates]
        /\ \A t \in Stream : t # s => reader'[t] = reader[t]
    BY <1>1, <1>2 DEF StreamsTyped, ReaderStates
  <1>4. StreamsTyped'
    BY <1>1, <1>2, <1>3 DEF StreamsTyped
  <1>5. Handed(s)' = Handed(s) /\ asked[s] \in Nat
    BY <1>1, <1>2, <1>3, StreamBounds DEF Handed
  <1>6. StreamHolds(s)'
    BY <1>1, <1>2, <1>3, <1>5, StreamKept
  <1>7. QED
    BY <1>1, <1>2, <1>3, <1>4, <1>6, StreamStep

LEMMA NextPendingHolds ==
  ASSUME PipelineHolds, NEW s \in Stream, NextPending(s)
  PROVE  PipelineHolds'
  <1>1. ClientsTyped /\ StreamsTyped /\ StreamHolds(s) /\ writer[s] = 0
    BY DEF PipelineHolds, NextPending
  <1>2. UNCHANGED <<asked, answer, pc, queue, batch, log, published, announced, reader, out, got, hungUp>>
    BY DEF NextPending, matcherVars
  <1>3. Written(s)' = Written(s) /\ Handed(s)' = Handed(s) /\ Holds(s) = 0
    BY <1>1, <1>2 DEF Written, Handed, Holds
  <1>4. /\ pending[s] \in Seq(Nat) /\ asked[s] \in Nat /\ Written(s) \in Nat
        /\ Len(pending[s]) \in Nat
    BY <1>1, StreamBounds
  <1>5. s \notin hungUp =>
          /\ Written(s) + Len(pending[s]) = Handed(s)
          /\ \A i \in DOMAIN pending[s] : pending[s][i] = Written(s) + i
    <2>1. \A w \in Nat : \A i \in Int : w + 0 + i = w + i
      OBVIOUS
    <2>2. \A i \in DOMAIN pending[s] : i \in Int
      BY <1>4
    <2>3. s \notin hungUp =>
            /\ Written(s) + 0 + Len(pending[s]) = Handed(s)
            /\ \A i \in DOMAIN pending[s] : pending[s][i] = Written(s) + 0 + i
      BY <1>1, <1>3 DEF StreamHolds
    <2>4. QED
      BY <1>4, <2>1, <2>2, <2>3
  <1>6. CASE /\ pending[s] # <<>>
             /\ writer' = [writer EXCEPT ![s] = Head(pending[s])]
             /\ pending' = [pending EXCEPT ![s] = Tail(@)]
    <2>1. PICK p, w : p = Tail(pending[s]) /\ w = Head(pending[s])
      OBVIOUS
    <2>2. /\ p \in Seq(Nat) /\ Len(p) = Len(pending[s]) - 1 /\ Len(pending[s]) \in Nat \ {0}
          /\ DOMAIN p = 1 .. Len(pending[s]) - 1
          /\ \A i \in DOMAIN p : i + 1 \in DOMAIN pending[s] /\ p[i] = pending[s][i + 1]
          /\ 1 \in DOMAIN pending[s] /\ w = pending[s][1]
      BY <1>4, <1>6, <2>1, AtBeginning
    <2>3. w \in 1 .. asked[s] /\ \A i \in DOMAIN p : p[i] \in 1 .. asked[s]
      BY <1>1, <2>2 DEF StreamHolds
    <2>4. /\ pending' = [pending EXCEPT ![s] = p] /\ writer' = [writer EXCEPT ![s] = w]
      BY <1>6, <2>1
    <2>5. /\ pending' \in [Stream -> Seq(Nat)] /\ writer' \in [Stream -> Int]
          /\ pending'[s] = p /\ writer'[s] = w
          /\ \A t \in Stream : t # s => pending'[t] = pending[t] /\ writer'[t] = writer[t]
      BY <1>1, <1>4, <2>2, <2>3, <2>4 DEF StreamsTyped
    <2>6. StreamsTyped'
      BY <1>1, <1>2, <2>5 DEF StreamsTyped
    <2>7. w > 0 /\ w # Ended /\ w \in 0 .. asked[s] /\ Holds(s)' = 1 /\ Len(p) <= PendingRoom
      <3>1. w \in Nat \ {0} /\ w <= asked[s]
        BY <1>4, <2>3
      <3>2. Len(p) <= PendingRoom
        BY <1>1, <1>4, <2>2, ConstantFacts DEF StreamHolds
      <3>3. QED
        BY <1>4, <2>5, <3>1, <3>2 DEF Holds, Ended
    <2>8. s \notin hungUp => /\ w = Written(s) + 1
                            /\ Written(s) + 1 + Len(p) = Handed(s)
                            /\ \A i \in DOMAIN p : p[i] = Written(s) + 1 + i
      <3>1. s \notin hungUp => w = Written(s) + 1
        BY <1>5, <2>2
      <3>2. s \notin hungUp => Written(s) + 1 + Len(p) = Handed(s)
        <4>1. \A k, l, m \in Nat : l # 0 => k + 1 + (l - 1) = k + l
          OBVIOUS
        <4>2. QED
          BY <1>4, <1>5, <2>2, <4>1
      <3>3. s \notin hungUp => \A i \in DOMAIN p : p[i] = Written(s) + 1 + i
        <4>1. \A k \in Nat, i \in Int : k + (i + 1) = k + 1 + i
          OBVIOUS
        <4>2. s \notin hungUp => \A i \in DOMAIN p : i \in Int /\ p[i] = Written(s) + (i + 1)
          BY <1>5, <2>2
        <4>3. QED
          BY <1>4, <4>1, <4>2
      <3>4. QED
        BY <3>1, <3>2, <3>3
    <2>9. StreamHolds(s)'
      BY <1>1, <1>2, <1>3, <2>3, <2>5, <2>7, <2>8 DEF StreamHolds
    <2>10. QED
      BY <1>1, <1>2, <2>5, <2>6, <2>9, StreamStep
  <1>7. CASE /\ pending[s] = <<>> /\ reader[s] = "ended"
             /\ writer' = [writer EXCEPT ![s] = Ended] /\ pending' = pending
    <2>1. /\ writer' \in [Stream -> Int] /\ writer'[s] = Ended
          /\ \A t \in Stream : t # s => pending'[t] = pending[t] /\ writer'[t] = writer[t]
      BY <1>1, <1>7 DEF StreamsTyped, Ended
    <2>2. StreamsTyped'
      BY <1>1, <1>2, <1>7, <2>1 DEF StreamsTyped
    <2>3. Holds(s)' = 0 /\ ~(Ended > 0)
      BY <2>1 DEF Holds, Ended
    <2>4. StreamHolds(s)'
      BY <1>1, <1>2, <1>3, <1>7, <2>1, <2>3 DEF StreamHolds
    <2>5. QED
      BY <1>1, <1>2, <1>7, <2>1, <2>2, <2>4, StreamStep
  <1>8. QED
    BY <1>6, <1>7 DEF NextPending

LEMMA WriteResultHolds ==
  ASSUME PipelineHolds, NEW s \in Stream, WriteResult(s)
  PROVE  PipelineHolds'
  <1>1. ClientsTyped /\ StreamsTyped /\ StreamHolds(s) /\ writer[s] > 0
        /\ answer[s][writer[s]] # None
    BY DEF PipelineHolds, WriteResult
  <1>2. UNCHANGED <<asked, answer, pc, queue, batch, log, published, announced, reader, got, hungUp>>
    BY DEF WriteResult, matcherVars
  <1>3. /\ out[s] \in Seq(Reply) /\ got[s] \in Seq(Reply) /\ asked[s] \in Nat
        /\ writer[s] \in Int /\ Len(got[s]) \in Nat /\ Len(out[s]) \in Nat
        /\ Written(s) = Len(got[s]) + Len(out[s]) /\ Written(s) \in Nat
        /\ Written(s) <= Handed(s) /\ Handed(s) \in Int
        /\ DOMAIN Messages[s] = 1 .. Len(Messages[s]) /\ asked[s] <= Len(Messages[s])
        /\ Len(Messages[s]) \in Nat /\ s \in Client
    BY <1>1, StreamBounds, ConstantFacts
  <1>4. Handed(s)' = Handed(s) /\ Holds(s) = 1
    BY <1>1, <1>2 DEF Handed, Holds
  <1>5. writer[s] \in 1 .. asked[s] /\ writer[s] \in DOMAIN Messages[s]
    BY <1>1, <1>3 DEF StreamHolds, Ended
  <1>6. CASE /\ s \notin hungUp /\ Len(out[s]) < OutRoom
             /\ out' = [out EXCEPT ![s] = Append(@, [of |-> writer[s], code |-> answer[s][writer[s]]])]
             /\ writer' = [writer EXCEPT ![s] = 0]
             /\ pending' = pending
    <2>1. PICK e : e = [of |-> writer[s], code |-> answer[s][writer[s]]]
      OBVIOUS
    <2>2. PICK o : o = Append(out[s], e)
      OBVIOUS
    <2>3. e \in Reply
      <3>1. answer[s][writer[s]] \in Codes \cup {None}
        BY <1>1, <1>3, <1>5 DEF ClientsTyped
      <3>2. writer[s] \in Nat
        BY <1>3, <1>5
      <3>3. QED
        BY <2>1, <3>1, <3>2 DEF Reply
    <2>4. /\ o \in Seq(Reply) /\ Len(o) = Len(out[s]) + 1 /\ DOMAIN o = 1 .. Len(out[s]) + 1
          /\ \A i \in DOMAIN out[s] : o[i] = out[s][i]
          /\ \A i \in DOMAIN o : i \in DOMAIN out[s] \/ i = Len(out[s]) + 1
          /\ o[Len(out[s]) + 1] = e
      BY <1>3, <2>2, <2>3, AtEnd
    <2>5. out' = [out EXCEPT ![s] = o]
      BY <1>6, <2>1, <2>2
    <2>6. /\ out' \in [Stream -> Seq(Reply)] /\ out'[s] = o
          /\ writer' \in [Stream -> Int] /\ writer'[s] = 0
          /\ \A t \in Stream : t # s => out'[t] = out[t] /\ writer'[t] = writer[t]
      BY <1>1, <1>6, <2>4, <2>5 DEF StreamsTyped
    <2>7. StreamsTyped'
      BY <1>1, <1>2, <1>6, <2>6 DEF StreamsTyped
    <2>8. writer[s] = Written(s) + 1 /\ Written(s) + 1 + Len(pending[s]) = Handed(s)
          /\ \A i \in DOMAIN pending[s] : pending[s][i] = Written(s) + 1 + i
      BY <1>1, <1>4, <1>6 DEF StreamHolds
    <2>8a. /\ Len(o) = Len(out[s]) + 1 /\ Len(got[s]) \in Nat /\ Len(out[s]) \in Nat
           /\ Written(s) = Len(got[s]) + Len(out[s]) /\ writer[s] = Written(s) + 1
      BY <1>3, <2>4, <2>8
    <2>9. Holds(s)' = 0 /\ Written(s)' = Written(s) + 1
      <3>1. Written(s)' = Len(got[s]) + Len(o)
        BY <1>2, <2>6 DEF Written
      <3>2. \A k, l \in Nat : k + (l + 1) = k + l + 1
        OBVIOUS
      <3>3. Written(s)' = Written(s) + 1
        BY ONLY <2>8a, <3>1, <3>2
      <3>4. QED
        BY <2>6, <3>3 DEF Holds
    <2>10. \A i \in DOMAIN o : o[i] = [of |-> Len(got[s]) + i, code |-> answer[s][Len(got[s]) + i]]
      <3>1. Len(got[s]) + (Len(out[s]) + 1) = writer[s]
        <4>1. \A k, l \in Nat : k + (l + 1) = k + l + 1
          OBVIOUS
        <4>2. QED
          BY ONLY <2>8a, <4>1
      <3>2. o[Len(out[s]) + 1] = [of |-> writer[s], code |-> answer[s][writer[s]]]
        BY <2>1, <2>4
      <3>3. \A i \in DOMAIN out[s] :
              o[i] = [of |-> Len(got[s]) + i, code |-> answer[s][Len(got[s]) + i]]
        BY <1>1, <2>4 DEF StreamHolds
      <3>4. QED
        BY <2>4, <3>1, <3>2, <3>3
    <2>11. \A i \in 1 .. Written(s) + 1 : answer[s][i] # None
      <3>1. \A i \in 1 .. Written(s) : answer[s][i] # None
        BY <1>1 DEF StreamHolds
      <3>2. \A w \in Nat : \A i \in 1 .. w + 1 : i \in 1 .. w \/ i = w + 1
        OBVIOUS
      <3>3. QED
        BY <1>1, <1>3, <2>8, <3>1, <3>2
    <2>12. Written(s) + 1 <= Handed(s) /\ Len(o) <= OutRoom
      <3>1. Len(pending[s]) \in Nat
        BY <1>1, StreamBounds
      <3>2. \A w, l \in Nat : \A h \in Int : w + 1 + l = h => w + 1 <= h
        OBVIOUS
      <3>3. Written(s) + 1 <= Handed(s)
        BY <1>3, <2>8, <3>1, <3>2
      <3>4. \A l, m \in Nat : l < m => l + 1 <= m
        OBVIOUS
      <3>5. OutRoom \in Nat /\ Len(out[s]) < OutRoom
        BY <1>6, ConstantFacts
      <3>6. Len(o) <= OutRoom
        BY ONLY <2>8a, <3>4, <3>5
      <3>7. QED
        BY <3>3, <3>6
    <2>13. \A w \in Nat : \A i \in Int : w + 1 + 0 = w + 1 /\ w + 1 + 0 + i = w + 1 + i
      OBVIOUS
    <2>14. /\ Written(s) + 1 + 0 + Len(pending[s]) = Handed(s)
           /\ \A i \in DOMAIN pending[s] : pending[s][i] = Written(s) + 1 + 0 + i
      <3>1. pending[s] \in Seq(Nat) /\ Len(pending[s]) \in Nat
        BY <1>1, StreamBounds
      <3>2. \A i \in DOMAIN pending[s] : i \in Int
        BY <3>1
      <3>3. QED
        BY <1>3, <2>8, <2>13, <3>1, <3>2
    <2>15. 0 \in {Ended} \cup 0 .. asked[s] /\ ~(0 > 0) /\ 0 # Ended
      BY <1>3 DEF Ended
    <2>16. StreamHolds(s)'
      BY <1>1, <1>2, <1>4, <1>6, <2>6, <2>9, <2>10, <2>11, <2>12, <2>14, <2>15 DEF StreamHolds
    <2>17. QED
      BY <1>1, <1>2, <1>6, <2>6, <2>7, <2>16, StreamStep
  <1>7. CASE /\ s \in hungUp /\ out' = out
             /\ writer' = [writer EXCEPT ![s] = Ended] /\ pending' = [pending EXCEPT ![s] = <<>>]
    <2>1. /\ writer' \in [Stream -> Int] /\ writer'[s] = Ended
          /\ pending' \in [Stream -> Seq(Nat)] /\ pending'[s] = <<>>
          /\ \A t \in Stream : t # s => pending'[t] = pending[t] /\ writer'[t] = writer[t]
      BY <1>1, <1>7 DEF StreamsTyped, Ended
    <2>2. StreamsTyped'
      BY <1>1, <1>2, <1>7, <2>1 DEF StreamsTyped
    <2>3. Written(s)' = Written(s)
      BY <1>2, <1>7 DEF Written
    <2>4. DOMAIN pending'[s] = {} /\ Len(pending'[s]) <= PendingRoom
      BY <2>1, ConstantFacts
    <2>5. StreamHolds(s)'
      BY <1>1, <1>2, <1>4, <1>7, <2>1, <2>3, <2>4 DEF StreamHolds
    <2>6. QED
      BY <1>1, <1>2, <1>7, <2>1, <2>2, <2>5, StreamStep
  <1>8. QED
    BY <1>6, <1>7 DEF WriteResult

LEMMA ClientReadsHolds ==
  ASSUME PipelineHolds, NEW s \in Stream, ClientReads(s)
  PROVE  PipelineHolds'
  <1>1. ClientsTyped /\ StreamsTyped /\ StreamHolds(s) /\ out[s] # <<>>
    BY DEF PipelineHolds, ClientReads
  <1>2. /\ UNCHANGED <<asked, answer, pc, queue, batch, log, published, announced, reader, pending, writer, hungUp>>
        /\ got' = [got EXCEPT ![s] = Append(@, Head(out[s]))]
        /\ out' = [out EXCEPT ![s] = Tail(@)]
    BY DEF ClientReads, matcherVars
  <1>3. /\ out[s] \in Seq(Reply) /\ got[s] \in Seq(Reply) /\ asked[s] \in Nat
        /\ DOMAIN got[s] = 1 .. Len(got[s]) /\ DOMAIN out[s] = 1 .. Len(out[s])
    BY <1>1, StreamBounds, LenProperties
  <1>4. /\ Len(got[s]) \in Nat /\ Len(out[s]) \in Nat /\ Written(s) = Len(got[s]) + Len(out[s])
    BY <1>1, StreamBounds
  <1>5. PICK o, g : o = Tail(out[s]) /\ g = Append(got[s], out[s][1])
    OBVIOUS
  <1>6. /\ o \in Seq(Reply) /\ Len(o) = Len(out[s]) - 1 /\ Len(out[s]) \in Nat \ {0}
        /\ DOMAIN o = 1 .. Len(out[s]) - 1
        /\ \A i \in DOMAIN o : i + 1 \in DOMAIN out[s] /\ o[i] = out[s][i + 1]
        /\ 1 \in DOMAIN out[s] /\ Head(out[s]) = out[s][1] /\ out[s][1] \in Reply
    BY <1>1, <1>3, <1>5, AtBeginning
  <1>7. /\ g \in Seq(Reply) /\ Len(g) = Len(got[s]) + 1
        /\ \A i \in DOMAIN got[s] : g[i] = got[s][i]
        /\ \A i \in DOMAIN g : i \in DOMAIN got[s] \/ i = Len(got[s]) + 1
        /\ g[Len(got[s]) + 1] = out[s][1]
    BY <1>3, <1>5, <1>6, AtEnd
  <1>8. got' = [got EXCEPT ![s] = g] /\ out' = [out EXCEPT ![s] = o]
    BY <1>2, <1>5, <1>6
  <1>9. /\ got' \in [Stream -> Seq(Reply)] /\ out' \in [Stream -> Seq(Reply)]
        /\ got'[s] = g /\ out'[s] = o
        /\ \A t \in Stream : t # s => got'[t] = got[t] /\ out'[t] = out[t]
    BY <1>1, <1>6, <1>7, <1>8 DEF StreamsTyped
  <1>10. StreamsTyped'
    BY <1>1, <1>2, <1>9 DEF StreamsTyped
  <1>11. Holds(s)' = Holds(s) /\ Handed(s)' = Handed(s)
    BY <1>2 DEF Holds, Handed
  <1>12. Written(s)' = Written(s) /\ Len(o) <= Len(out[s])
    <2>1. Written(s)' = Len(g) + Len(o)
      BY <1>9 DEF Written
    <2>2. \A k, l \in Nat : k + 1 + (l - 1) = k + l /\ l - 1 <= l
      OBVIOUS
    <2>3. Len(g) = Len(got[s]) + 1 /\ Len(o) = Len(out[s]) - 1
      BY <1>6, <1>7
    <2>4. QED
      BY ONLY <1>4, <2>1, <2>2, <2>3
  <1>13. out[s][1] = [of |-> Len(got[s]) + 1, code |-> answer[s][Len(got[s]) + 1]]
    BY <1>1, <1>6 DEF StreamHolds
  <1>14. \A i \in DOMAIN g : g[i] = [of |-> i, code |-> answer[s][i]]
    BY <1>1, <1>7, <1>13 DEF StreamHolds
  <1>15. \A i \in DOMAIN o : o[i] = [of |-> Len(g) + i, code |-> answer[s][Len(g) + i]]
    <2>1. \A i \in DOMAIN o :
            o[i] = [of |-> Len(got[s]) + (i + 1), code |-> answer[s][Len(got[s]) + (i + 1)]]
      BY <1>1, <1>6 DEF StreamHolds
    <2>2. \A k \in Nat : \A i \in Int : k + (i + 1) = k + 1 + i
      OBVIOUS
    <2>3. \A i \in DOMAIN o : i \in Int
      BY <1>6
    <2>4. \A i \in DOMAIN o : Len(got[s]) + (i + 1) = Len(g) + i
      BY <1>4, <1>7, <2>2, <2>3
    <2>5. QED
      BY <2>1, <2>4
  <1>16. Len(o) <= OutRoom
    <2>1. \A k, l, m \in Int : k <= l /\ l <= m => k <= m
      OBVIOUS
    <2>2. Len(out[s]) <= OutRoom /\ OutRoom \in Int
      BY <1>1, ConstantFacts DEF StreamHolds
    <2>3. Len(o) \in Int
      BY <1>6
    <2>4. QED
      BY <1>4, <1>12, <2>1, <2>2, <2>3
  <1>17. StreamHolds(s)'
    BY <1>1, <1>2, <1>9, <1>11, <1>12, <1>14, <1>15, <1>16 DEF StreamHolds
  <1>18. QED
    BY <1>2, <1>9, <1>10, <1>17, StreamStep

LEMMA HangUpHolds ==
  ASSUME PipelineHolds, NEW s \in Stream, HangUp(s)
  PROVE  PipelineHolds'
  <1>1. ClientsTyped /\ StreamsTyped /\ StreamHolds(s)
    BY DEF PipelineHolds
  <1>2. /\ UNCHANGED <<asked, answer, pc, queue, batch, log, published, announced, reader, pending, writer, got>>
        /\ hungUp' = hungUp \cup {s} /\ out' = [out EXCEPT ![s] = <<>>]
    BY DEF HangUp, matcherVars
  <1>3. /\ out' \in [Stream -> Seq(Reply)] /\ out'[s] = <<>> /\ Len(out'[s]) = 0 /\ DOMAIN out'[s] = {}
        /\ \A t \in Stream : t # s => out'[t] = out[t] /\ (t \in hungUp' <=> t \in hungUp)
    BY <1>1, <1>2 DEF StreamsTyped
  <1>4. StreamsTyped'
    BY <1>1, <1>2, <1>3 DEF StreamsTyped
  <1>5. /\ Len(got[s]) \in Nat /\ Len(out[s]) \in Nat /\ Written(s) = Len(got[s]) + Len(out[s])
        /\ Handed(s) \in Int /\ Written(s) <= Handed(s) /\ Written(s) \in Nat
    BY <1>1, StreamBounds
  <1>6. Written(s)' = Len(got[s]) /\ Len(got[s]) <= Written(s) /\ Len(got[s]) <= Handed(s)
    <2>1. Written(s)' = Len(got[s]) + 0
      BY <1>2, <1>3 DEF Written
    <2>2. \A k, l \in Nat : k + 0 = k /\ k <= k + l
      OBVIOUS
    <2>3. Written(s)' = Len(got[s]) /\ Len(got[s]) <= Written(s)
      BY ONLY <1>5, <2>1, <2>2
    <2>4. \A k, l, m \in Int : k <= l /\ l <= m => k <= m
      OBVIOUS
    <2>5. Len(got[s]) \in Int /\ Written(s) \in Int
      BY <1>5
    <2>6. Len(got[s]) <= Handed(s)
      BY ONLY <1>5, <2>3, <2>4, <2>5
    <2>7. QED
      BY <2>3, <2>6
  <1>7. \A i \in 1 .. Len(got[s]) : answer[s][i] # None
    <2>1. \A i \in 1 .. Written(s) : answer[s][i] # None
      BY <1>1 DEF StreamHolds
    <2>2. \A k, w \in Nat : k <= w => \A i \in 1 .. k : i \in 1 .. w
      OBVIOUS
    <2>3. \A i \in 1 .. Len(got[s]) : i \in 1 .. Written(s)
      BY ONLY <1>5, <1>6, <2>2
    <2>4. QED
      BY <2>1, <2>3
  <1>8. Handed(s)' = Handed(s) /\ s \in hungUp' /\ 0 <= OutRoom
    BY <1>2, ConstantFacts DEF Handed
  <1>9. StreamHolds(s)'
    BY <1>1, <1>2, <1>3, <1>6, <1>7, <1>8 DEF StreamHolds
  <1>10. QED
    BY <1>2, <1>3, <1>4, <1>9, StreamStep

-----------------------------------------------------------------------------
(* The matcher.                                                            *)

LEMMA MatcherStep ==
  ASSUME PipelineHolds, UNCHANGED <<asked, streamVars>>,
         ClientsTyped', MatcherTyped', QueueHolds', AnswersWait',
         \A s \in Stream : \A i \in 1 .. Written(s) : answer'[s][i] = answer[s][i]
  PROVE  PipelineHolds'
  <1>1. ClientsTyped /\ StreamsTyped
    BY DEF PipelineHolds
  <1>2. UNCHANGED <<asked, reader, pending, writer, out, got, hungUp>>
    BY DEF streamVars
  <1>3. StreamsTyped'
    BY <1>1, <1>2 DEF StreamsTyped
  <1>4. ASSUME NEW s \in Stream PROVE StreamHolds(s)'
    <2>1. StreamHolds(s) /\ asked[s] \in Nat /\ Handed(s)' = Handed(s)
      BY <1>1, <1>2, StreamBounds DEF PipelineHolds, Handed
    <2>2. s \notin hungUp /\ writer[s] = Ended => reader'[s] = "ended"
      BY <1>2, <2>1 DEF StreamHolds
    <2>3. asked'[s] \in Nat /\ asked[s] <= asked'[s]
      BY <1>2, <2>1
    <2>4. QED
      BY <1>1, <1>2, <2>1, <2>2, <2>3, StreamKept
  <1>5. QED
    BY <1>3, <1>4 DEF PipelineHolds

LEMMA DecidedKept ==
  ASSUME UNCHANGED <<asked, streamVars>>
  PROVE  \A c \in Client : Decided(c)' = Decided(c)
  BY DEF Decided, streamVars

(* Results reach only who still waits for them.                            *)
LEMMA ReplyStep ==
  ASSUME PipelineHolds, UNCHANGED <<asked, streamVars>>, NEW results,
         \A r \in results :
           /\ r.by \in Client /\ r.n \in Nat \ {0} /\ r.n <= Decided(r.by) /\ r.code \in Codes
           /\ answer[r.by][r.n] = None,
         answer' = Answers(results)
  PROVE  /\ ClientsTyped'
         /\ \A c \in Client : \A n \in DOMAIN Messages[c] : n > Decided(c)' => answer'[c][n] = None
         /\ \A s \in Stream : \A i \in 1 .. Written(s) : answer'[s][i] = answer[s][i]
         /\ \A c \in Client : \A n \in DOMAIN Messages[c] :
              (\A r \in results : ~(r.by = c /\ r.n = n)) => answer'[c][n] = answer[c][n]
  <1>1. ClientsTyped /\ StreamsTyped /\ AnswersWait
    BY DEF PipelineHolds
  <1>2. /\ answer' = [d \in Client |-> answer'[d]]
        /\ \A d \in Client : answer'[d] \in [DOMAIN Messages[d] -> Codes \cup {None}]
        /\ \A d \in Client : \A m \in DOMAIN Messages[d] :
             (\A r \in results : ~(r.by = d /\ r.n = m)) => answer'[d][m] = answer[d][m]
    BY <1>1, AnswersSet
  <1>3. ClientsTyped'
    BY <1>1, <1>2 DEF ClientsTyped
  <1>4. ASSUME NEW c \in Client, NEW n \in DOMAIN Messages[c], n > Decided(c)'
        PROVE  answer'[c][n] = None
    <2>1. n > Decided(c) /\ n \in Int /\ Decided(c) \in Int
      BY <1>1, <1>4, DecidedKept, DecidedFacts
    <2>2. \A r \in results : ~(r.by = c /\ r.n = n)
      BY <2>1
    <2>3. QED
      BY <1>1, <1>2, <2>1, <2>2 DEF AnswersWait
  <1>5. ASSUME NEW s \in Stream, NEW i \in 1 .. Written(s)
        PROVE  answer'[s][i] = answer[s][i]
    <2>1. StreamHolds(s)
      BY DEF PipelineHolds
    <2>2. s \in Client /\ i \in DOMAIN Messages[s] /\ answer[s][i] # None
      BY <1>1, <2>1, StreamBounds DEF StreamHolds
    <2>3. \A r \in results : ~(r.by = s /\ r.n = i)
      BY <2>2
    <2>4. QED
      BY <1>2, <2>2, <2>3
  <1>6. QED
    BY <1>2, <1>3, <1>4, <1>5

LEMMA PublishHolds ==
  ASSUME PipelineHolds, Publish \/ Announce
  PROVE  PipelineHolds'
  <1>1. ClientsTyped /\ MatcherTyped /\ QueueHolds /\ AnswersWait
    BY DEF PipelineHolds
  <1>2. /\ UNCHANGED <<asked, streamVars>> /\ UNCHANGED <<answer, queue, batch, log>>
        /\ pc' \in {"tell", "reply"}
        /\ \/ published' = Len(log) /\ announced' = announced
           \/ announced' = Len(log) /\ published' = published
    BY DEF Publish, Announce
  <1>3. Len(log) \in Nat
    BY <1>1, LenProperties DEF MatcherTyped
  <1>4. MatcherTyped'
    BY <1>1, <1>2, <1>3 DEF MatcherTyped
  <1>5. ClientsTyped' /\ QueueHolds' /\ AnswersWait'
    BY <1>1, <1>2, DecidedKept, QueueKept
  <1>6. QED
    BY <1>2, <1>4, <1>5, MatcherStep

LEMMA ReplyBatchHolds ==
  ASSUME PipelineHolds, ReplyBatch
  PROVE  PipelineHolds'
  <1>1. ClientsTyped /\ MatcherTyped /\ QueueHolds /\ AnswersWait
    BY DEF PipelineHolds
  <1>2. /\ UNCHANGED <<asked, streamVars>>
        /\ UNCHANGED <<queue, log, published, announced>>
        /\ batch' = <<>> /\ pc' = "take" /\ answer' = Answers(ToSet(batch))
    BY DEF ReplyBatch
  <1>3. ASSUME NEW r \in ToSet(batch)
        PROVE  /\ r.by \in Client /\ r.n \in Nat \ {0} /\ r.n <= Decided(r.by) /\ r.code \in Codes
               /\ answer[r.by][r.n] = None
    <2>1. PICK i \in DOMAIN batch : r = batch[i]
      BY DEF ToSet
    <2>2. QED
      BY <1>1, <2>1, ElementFacts DEF AnswersWait
  <1>4. /\ ClientsTyped'
        /\ \A c \in Client : \A n \in DOMAIN Messages[c] : n > Decided(c)' => answer'[c][n] = None
        /\ \A s \in Stream : \A i \in 1 .. Written(s) : answer'[s][i] = answer[s][i]
        /\ \A c \in Client : \A n \in DOMAIN Messages[c] :
             (\A r \in ToSet(batch) : ~(r.by = c /\ r.n = n)) => answer'[c][n] = answer[c][n]
    <2>1. PICK results : results = ToSet(batch)
      OBVIOUS
    <2>2. \A r \in results :
            /\ r.by \in Client /\ r.n \in Nat \ {0} /\ r.n <= Decided(r.by) /\ r.code \in Codes
            /\ answer[r.by][r.n] = None
      BY <1>3, <2>1
    <2>3. answer' = Answers(results)
      BY <1>2, <2>1
    <2>4. QED
      BY <1>2, <2>1, <2>2, <2>3, ReplyStep
  <1>5. ASSUME NEW j \in DOMAIN queue PROVE answer'[queue[j].by][queue[j].n] = None
    <2>1. PICK c, n : c = queue[j].by /\ n = queue[j].n
      OBVIOUS
    <2>2. c \in Client /\ n \in DOMAIN Messages[c] /\ answer[c][n] = None /\ n \in Nat
      <3>1. c \in Client /\ n \in Nat \ {0} /\ n <= Decided(c) /\ answer[c][n] = None
        BY <1>1, <1>5, <2>1, ElementFacts DEF AnswersWait
      <3>2. QED
        BY <1>1, <3>1, DecidedFacts
    <2>3. ASSUME NEW r \in ToSet(batch) PROVE ~(r.by = c /\ r.n = n)
      <3>1. PICK i \in DOMAIN batch : r = batch[i]
        BY DEF ToSet
      <3>2. Follows(batch[i], queue[j])
        BY <1>1, <1>5, <3>1 DEF QueueHolds, Precedes
      <3>3. r.by = c => r.n < n
        BY <2>1, <3>1, <3>2 DEF Follows
      <3>4. r.n \in Nat
        BY <1>3
      <3>5. QED
        BY <2>2, <3>3, <3>4
    <2>4. QED
      BY <1>4, <2>1, <2>2, <2>3
  <1>6. DOMAIN batch' = {} /\ batch' \in Seq(Result) /\ Len(batch') = 0
    BY <1>2
  <1>7. MatcherTyped'
    BY <1>1, <1>2, <1>6, ConstantFacts DEF MatcherTyped
  <1>8. AnswersWait'
    BY <1>2, <1>4, <1>5, <1>6 DEF AnswersWait
  <1>9. QueueHolds'
    <2>1. Ordered(queue)' /\ Ordered(log)' /\ Precedes(batch, queue)' /\ Precedes(log, queue)'
      BY <1>1, <1>2, <1>6 DEF QueueHolds, Ordered, Precedes
    <2>2. /\ \A i \in DOMAIN queue : queue[i].n <= Decided(queue[i].by)'
          /\ \A i \in DOMAIN log : log[i].n <= Decided(log[i].by)'
      BY <1>1, <1>2, ElementFacts, DecidedKept
    <2>3. Behind(queue)' /\ Behind(batch)' /\ Behind(log)'
      BY <1>2, <1>6, <2>2 DEF Behind
    <2>4. QED
      BY <2>1, <2>3 DEF QueueHolds
  <1>10. QED
    BY <1>2, <1>4, <1>7, <1>8, <1>9, MatcherStep

LEMMA StopHolds ==
  ASSUME PipelineHolds, Stop
  PROVE  PipelineHolds'
  <1>1. ClientsTyped /\ MatcherTyped /\ QueueHolds /\ AnswersWait
    BY DEF PipelineHolds
  <1> DEFINE waiting == ToSet(batch) \cup ToSet(queue)
             refused == {[by |-> c.by, n |-> c.n, code |-> "UNAVAILABLE"] : c \in waiting}
  <1>2. /\ UNCHANGED <<asked, streamVars>>
        /\ UNCHANGED <<log, published, announced>>
        /\ batch' = <<>> /\ queue' = <<>> /\ pc' = "stopped" /\ answer' = Answers(refused)
    BY DEF Stop
  <1>3. ASSUME NEW c \in waiting
        PROVE  c.by \in Client /\ c.n \in Nat \ {0} /\ c.n <= Decided(c.by) /\ answer[c.by][c.n] = None
    <2>1. CASE c \in ToSet(batch)
      <3>1. PICK i \in DOMAIN batch : c = batch[i]
        BY <2>1 DEF ToSet
      <3>2. QED
        BY <1>1, <3>1, ElementFacts DEF AnswersWait
    <2>2. CASE c \in ToSet(queue)
      <3>1. PICK i \in DOMAIN queue : c = queue[i]
        BY <2>2 DEF ToSet
      <3>2. QED
        BY <1>1, <3>1, ElementFacts DEF AnswersWait
    <2>3. QED
      BY <2>1, <2>2
  <1>4. ASSUME NEW r \in refused
        PROVE  /\ r.by \in Client /\ r.n \in Nat \ {0} /\ r.n <= Decided(r.by) /\ r.code \in Codes
               /\ answer[r.by][r.n] = None
    <2>1. PICK c \in waiting : r = [by |-> c.by, n |-> c.n, code |-> "UNAVAILABLE"]
      OBVIOUS
    <2>2. r.by = c.by /\ r.n = c.n /\ r.code = "UNAVAILABLE"
      BY <2>1
    <2>3. QED
      BY <1>3, <2>1, <2>2, RefusalType
  <1> HIDE DEF refused
  <1>5. /\ ClientsTyped'
        /\ \A c \in Client : \A n \in DOMAIN Messages[c] : n > Decided(c)' => answer'[c][n] = None
        /\ \A s \in Stream : \A i \in 1 .. Written(s) : answer'[s][i] = answer[s][i]
    <2>1. PICK results : results = refused
      OBVIOUS
    <2>2. \A r \in results :
            /\ r.by \in Client /\ r.n \in Nat \ {0} /\ r.n <= Decided(r.by) /\ r.code \in Codes
            /\ answer[r.by][r.n] = None
      BY <1>4, <2>1
    <2>3. answer' = Answers(results)
      BY <1>2, <2>1
    <2>4. QED
      BY <1>2, <2>2, <2>3, ReplyStep
  <1>6. /\ DOMAIN batch' = {} /\ batch' \in Seq(Result) /\ Len(batch') = 0
        /\ DOMAIN queue' = {} /\ queue' \in Seq(Command) /\ Len(queue') = 0
    BY <1>2
  <1>7. MatcherTyped'
    BY <1>1, <1>2, <1>6, ConstantFacts DEF MatcherTyped
  <1>8. AnswersWait'
    BY <1>5, <1>6 DEF AnswersWait
  <1>9. QueueHolds'
    <2>1. Ordered(queue)' /\ Ordered(log)' /\ Precedes(batch, queue)' /\ Precedes(log, queue)'
      BY <1>1, <1>2, <1>6 DEF QueueHolds, Ordered, Precedes
    <2>2. \A i \in DOMAIN log : log[i].n <= Decided(log[i].by)'
      BY <1>1, <1>2, ElementFacts, DecidedKept
    <2>3. Behind(queue)' /\ Behind(batch)' /\ Behind(log)'
      BY <1>2, <1>6, <2>2 DEF Behind
    <2>4. QED
      BY <2>1, <2>3 DEF QueueHolds
  <1>10. QED
    BY <1>2, <1>5, <1>7, <1>8, <1>9, MatcherStep

LEMMA TakeHolds ==
  ASSUME PipelineHolds, Take
  PROVE  PipelineHolds'
  <1>1. /\ ClientsTyped /\ MatcherTyped /\ QueueHolds /\ AnswersWait
        /\ queue \in Seq(Command) /\ batch \in Seq(Result) /\ log \in Seq(Event)
    BY DEF PipelineHolds, MatcherTyped
  <1>2. /\ queue # <<>> /\ Len(batch) < MaxBatch /\ queue' = Tail(queue)
        /\ UNCHANGED <<asked, streamVars>> /\ UNCHANGED <<answer, pc, published, announced>>
    BY DEF Take
  <1>3. PICK c : c = queue[1]
    OBVIOUS
  <1>4. /\ queue' \in Seq(Command) /\ Len(queue') = Len(queue) - 1 /\ Len(queue) \in Nat \ {0}
        /\ DOMAIN queue' = 1 .. Len(queue) - 1
        /\ \A i \in DOMAIN queue' : i + 1 \in DOMAIN queue /\ queue'[i] = queue[i + 1]
        /\ 1 \in DOMAIN queue /\ Head(queue) = c
    BY <1>1, <1>2, <1>3, AtBeginning
  <1>5. /\ c.by \in Client /\ c.n \in Nat \ {0} /\ c.n <= Decided(c.by) /\ answer[c.by][c.n] = None
        /\ c.n \in DOMAIN Messages[c.by]
    <2>1. c.by \in Client /\ c.n \in Nat \ {0} /\ c.n <= Decided(c.by) /\ answer[c.by][c.n] = None
      BY <1>1, <1>3, <1>4, ElementFacts DEF AnswersWait
    <2>2. QED
      BY <1>1, <2>1, DecidedFacts
  <1>6. PICK code \in Codes : batch' = Append(batch, [by |-> c.by, n |-> c.n, code |-> code])
    <2>1. "OK" \in Codes /\ "FAILED_PRECONDITION" \in Codes
      BY DEF Codes
    <2>2. \/ batch' = Append(batch, [by |-> c.by, n |-> c.n, code |-> "OK"])
          \/ batch' = Append(batch, [by |-> c.by, n |-> c.n, code |-> "FAILED_PRECONDITION"])
      BY <1>4 DEF Take
    <2>3. QED
      BY <2>1, <2>2
  <1>7. PICK r : r = [by |-> c.by, n |-> c.n, code |-> code]
    OBVIOUS
  <1>8. r \in Result /\ r.by = c.by /\ r.n = c.n
    BY <1>5, <1>7 DEF Result
  <1>9. /\ batch' \in Seq(Result) /\ Len(batch') = Len(batch) + 1 /\ Len(batch) \in Nat
        /\ \A i \in DOMAIN batch' : (i \in DOMAIN batch /\ batch'[i] = batch[i]) \/ batch'[i] = r
    <2>1. batch' = Append(batch, r)
      BY <1>6, <1>7
    <2>2. QED
      BY <1>1, <1>8, <2>1, AtEnd
  <1>10. \/ log' = log
         \/ \E e \in Event : e.by = c.by /\ e.n = c.n /\ log' = Append(log, e)
    <2>1. log' = log \/ \E e \in Events(c) : log' = Append(log, e)
      BY <1>4 DEF Take
    <2>2. ASSUME NEW e \in Events(c) PROVE e \in Event /\ e.by = c.by /\ e.n = c.n
      <3>1. RequestOf(c).account \in Account
        BY <1>5, ConstantFacts DEF RequestOf, Request
      <3>2. e \in [by : {c.by}, n : {c.n}, involves : {{RequestOf(c).account}, Account}]
        BY <2>2 DEF Events
      <3>3. e.by = c.by /\ e.n = c.n /\ e.involves \subseteq Account
            /\ e = [by |-> e.by, n |-> e.n, involves |-> e.involves]
        BY <3>1, <3>2
      <3>4. QED
        BY <1>5, <3>3 DEF Event
    <2>3. QED
      BY <2>1, <2>2
  <1>11. /\ log' \in Seq(Event)
         /\ \A i \in DOMAIN log' :
              \/ i \in DOMAIN log /\ log'[i] = log[i]
              \/ log'[i].by = c.by /\ log'[i].n = c.n
    <2>1. ASSUME NEW e \in Event, e.by = c.by, e.n = c.n, log' = Append(log, e)
          PROVE  /\ log' \in Seq(Event)
                 /\ \A i \in DOMAIN log' :
                      \/ i \in DOMAIN log /\ log'[i] = log[i]
                      \/ log'[i].by = c.by /\ log'[i].n = c.n
      BY <1>1, <2>1, AtEnd
    <2>2. QED
      BY <1>1, <1>10, <2>1
  <1>12. \A i \in DOMAIN log : Follows(log[i], c)
    BY <1>1, <1>3, <1>4 DEF QueueHolds, Precedes
  <1>13. Ordered(log')
    <2>1. ASSUME NEW e \in Event, e.by = c.by, e.n = c.n, log' = Append(log, e)
          PROVE  Ordered(log')
      <3>1. \A i \in DOMAIN log : Follows(log[i], e)
        BY <1>12, <2>1 DEF Follows
      <3>2. Ordered(log)
        BY <1>1 DEF QueueHolds
      <3>3. QED
        BY <1>1, <2>1, <3>1, <3>2, OrderedAtEnd
    <2>2. QED
      BY <1>1, <1>10, <2>1 DEF QueueHolds
  <1>14. Ordered(queue') /\ \A j \in DOMAIN queue' : Follows(c, queue'[j])
    <2>1. Ordered(queue)
      BY <1>1 DEF QueueHolds
    <2>2. QED
      BY <1>1, <1>2, <1>3, <2>1, OrderedAfterFirst
  <1>15. Precedes(batch', queue')
    <2>1. ASSUME NEW i \in DOMAIN batch, NEW j \in DOMAIN queue' PROVE Follows(batch[i], queue'[j])
      BY <1>1, <1>4 DEF QueueHolds, Precedes
    <2>2. \A j \in DOMAIN queue' : Follows(r, queue'[j])
      BY <1>8, <1>14 DEF Follows
    <2>3. QED
      BY <1>9, <2>1, <2>2 DEF Precedes
  <1>16. Precedes(log', queue')
    <2>1. ASSUME NEW i \in DOMAIN log, NEW j \in DOMAIN queue' PROVE Follows(log[i], queue'[j])
      BY <1>1, <1>4 DEF QueueHolds, Precedes
    <2>2. ASSUME NEW i \in DOMAIN log', log'[i].by = c.by, log'[i].n = c.n, NEW j \in DOMAIN queue'
          PROVE  Follows(log'[i], queue'[j])
      BY <1>14, <2>2 DEF Follows
    <2>3. QED
      BY <1>11, <2>1, <2>2 DEF Precedes
  <1>17. ASSUME NEW e, e.by \in Client, e.n <= Decided(e.by)
         PROVE  e.n <= Decided(e.by)'
    BY <1>2, <1>17, DecidedKept
  <1>18. ASSUME NEW i \in DOMAIN queue' PROVE queue'[i].n <= Decided(queue[i].by)'
    <2>1. PICK e : e = queue'[i]
      OBVIOUS
    <2>2. e.by \in Client /\ e.n <= Decided(e.by)
      BY <1>1, <1>4, <1>18, <2>1, ElementFacts
    <2>3. Decided(queue[i].by)' = Decided(e.by)'
      BY <2>1 DEF Decided
    <2>4. QED
      BY <1>17, <2>1, <2>2, <2>3
  <1>19. ASSUME NEW i \in DOMAIN batch' PROVE batch'[i].n <= Decided(batch[i].by)'
    <2>1. PICK e : e = batch'[i]
      OBVIOUS
    <2>2. e.by \in Client /\ e.n <= Decided(e.by)
      BY <1>1, <1>5, <1>8, <1>9, <1>19, <2>1, ElementFacts
    <2>3. Decided(batch[i].by)' = Decided(e.by)'
      BY <2>1 DEF Decided
    <2>4. QED
      BY <1>17, <2>1, <2>2, <2>3
  <1>20. ASSUME NEW i \in DOMAIN log' PROVE log'[i].n <= Decided(log[i].by)'
    <2>1. PICK e : e = log'[i]
      OBVIOUS
    <2>2. e.by \in Client /\ e.n <= Decided(e.by)
      BY <1>1, <1>5, <1>11, <1>20, <2>1, ElementFacts
    <2>3. Decided(log[i].by)' = Decided(e.by)'
      BY <2>1 DEF Decided
    <2>4. QED
      BY <1>17, <2>1, <2>2, <2>3
  <1>21. QueueHolds'
    <2>1. Ordered(queue)' /\ Ordered(log)' /\ Precedes(batch, queue)' /\ Precedes(log, queue)'
      BY <1>13, <1>14, <1>15, <1>16 DEF Ordered, Precedes
    <2>2. Behind(queue)' /\ Behind(batch)' /\ Behind(log)'
      BY <1>18, <1>19, <1>20 DEF Behind
    <2>3. QED
      BY <2>1, <2>2 DEF QueueHolds
  <1>22. AnswersWait'
    <2>1. \A i \in DOMAIN queue' : answer[queue'[i].by][queue'[i].n] = None
      BY <1>1, <1>4 DEF AnswersWait
    <2>2. \A i \in DOMAIN batch' : answer[batch'[i].by][batch'[i].n] = None
      BY <1>1, <1>5, <1>8, <1>9 DEF AnswersWait
    <2>3. \A d \in Client : \A n \in DOMAIN Messages[d] : n > Decided(d)' => answer[d][n] = None
      BY <1>1, <1>2, DecidedKept DEF AnswersWait
    <2>4. QED
      BY <1>2, <2>1, <2>2, <2>3 DEF AnswersWait
  <1>23. MatcherTyped'
    <2>1. Len(queue') <= Capacity
      BY <1>1, <1>4, ConstantFacts DEF MatcherTyped
    <2>2. Len(batch') <= MaxBatch
      BY <1>2, <1>9, ConstantFacts
    <2>3. QED
      BY <1>1, <1>2, <1>4, <1>9, <1>11, <2>1, <2>2 DEF MatcherTyped
  <1>24. ClientsTyped'
    BY <1>1, <1>2 DEF ClientsTyped
  <1>25. QED
    BY <1>2, <1>21, <1>22, <1>23, <1>24, MatcherStep

(* The limiter's clock and the subscriptions leave the pipeline alone.     *)
LEMMA OthersHold ==
  ASSUME PipelineHolds, UNCHANGED <<asked, answer, streamVars, matcherVars>>
  PROVE  PipelineHolds'
  <1>1. ClientsTyped /\ MatcherTyped /\ QueueHolds /\ AnswersWait
    BY DEF PipelineHolds
  <1>2. UNCHANGED <<pc, queue, batch, log, published, announced>> /\ UNCHANGED <<asked, streamVars>>
        /\ answer' = answer
    BY DEF matcherVars
  <1>3. MatcherTyped'
    BY <1>1, <1>2 DEF MatcherTyped
  <1>4. ClientsTyped' /\ QueueHolds' /\ AnswersWait'
    BY <1>1, <1>2, DecidedKept, QueueKept
  <1>5. QED
    BY <1>2, <1>3, <1>4, MatcherStep

-----------------------------------------------------------------------------
(* The subscriptions.                                                      *)

LEMMA FeedFields ==
  ASSUME NEW f \in FeedType
  PROVE  /\ f.state \in FeedStates /\ f.from \in Nat /\ f.next \in Nat /\ f.held \in Nat
         /\ f.out \in Seq(Nat)
         /\ f = [state |-> f.state, from |-> f.from, next |-> f.next, held |-> f.held,
                 out |-> f.out]
  BY DEF FeedType

LEMMA FieldChanges ==
  ASSUME NEW f \in FeedType
  PROVE  /\ \A s \in FeedStates : [f EXCEPT !.state = s] \in FeedType
         /\ \A n \in Nat : [f EXCEPT !.from = n] \in FeedType
         /\ \A n \in Nat : [f EXCEPT !.next = n] \in FeedType
         /\ \A n \in Nat : [f EXCEPT !.held = n] \in FeedType
         /\ \A s \in Seq(Nat) : [f EXCEPT !.out = s] \in FeedType
  BY DEF FeedType

LEMMA ToldFacts ==
  ASSUME NEW f \in FeedType, NEW read \in Seq(Nat)
  PROVE  /\ Told(f, read) \in Seq(Nat) /\ Len(Told(f, read)) \in Nat
         /\ DOMAIN Told(f, read) = 1 .. Len(Told(f, read))
         /\ \A i \in DOMAIN Told(f, read) : Told(f, read)[i] \in Nat
  <1>1. f.out \in Seq(Nat)
    BY FeedFields
  <1>2. PICK t : t = Told(f, read)
    OBVIOUS
  <1>3. t \in Seq(Nat)
    BY <1>1, <1>2, CatType DEF Told
  <1>4. QED
    BY <1>2, <1>3

LEMMA ConcerningFacts ==
  ASSUME NEW v, NEW f \in FeedType
  PROVE  \A k \in Concerning(v, f) : k \in Nat /\ k > f.from /\ k < f.next /\ k # 0
  BY FeedFields DEF Concerning

(* The matcher goes on, and what was told stays true.                      *)
LEMMA FeedKept ==
  ASSUME NEW v \in Subscriber, NEW f, NEW read, FeedRight(v, f, read),
         announced \in Nat, announced' \in Nat, announced <= announced',
         \A k \in 1 .. announced : log'[k] = log[k]
  PROVE  FeedRight(v, f, read)'
  <1>1. f \in FeedType /\ f.from \in Nat /\ f.next \in Nat /\ f.state \in FeedStates
    BY FeedFields DEF FeedRight
  <1>2. \A k \in f.from + 1 .. f.next - 1 : k \in 1 .. announced
    <2>1. CASE f.state = "off"
      <3>1. f.from = 0 /\ f.next = 0
        BY <2>1 DEF FeedRight, Off
      <3>2. QED
        BY <3>1
    <2>2. CASE f.state # "off"
      <3>1. f.next <= announced + 1
        BY <2>2 DEF FeedRight
      <3>2. QED
        BY <1>1, <3>1
    <2>3. QED
      BY <2>1, <2>2
  <1>3. \A k \in f.from + 1 .. f.next - 1 : Involves(v, k)' <=> Involves(v, k)
    BY <1>2 DEF Involves
  <1>4. Concerning(v, f)' = Concerning(v, f)
    BY <1>3 DEF Concerning
  <1>5. f.state # "off" => f.next <= announced' + 1
    BY <1>1 DEF FeedRight
  <1>6. QED
    BY <1>4, <1>5 DEF FeedRight, Told, Rising

LEMMA MoveFirst ==
  ASSUME NEW s \in Seq(Nat), NEW t \in Seq(Nat), t # <<>>
  PROVE  Cat(Append(s, Head(t)), Tail(t)) = Cat(s, t) /\ Tail(t) \in Seq(Nat)
         /\ Append(s, Head(t)) \in Seq(Nat) /\ Len(Tail(t)) <= Len(t)
  <1>1. PICK h, r : h = Head(t) /\ r = Tail(t)
    OBVIOUS
  <1>2. h \in Nat /\ r \in Seq(Nat) /\ Len(r) <= Len(t)
    BY <1>1
  <1>3. PICK u : u = <<h>>
    OBVIOUS
  <1>4. u \in Seq(Nat) /\ Append(s, h) = Cat(s, u)
    BY <1>2, <1>3, PlusIsCat DEF Plus
  <1>5. t = Cat(u, r)
    <2>1. t = <<Head(t)>> \o Tail(t)
      OBVIOUS
    <2>2. QED
      BY <1>1, <1>3, <2>1 DEF Cat
  <1>6. Cat(Cat(s, u), r) = Cat(s, Cat(u, r))
    BY <1>2, <1>4, CatCat
  <1>7. Append(s, h) \in Seq(Nat)
    BY <1>2, <1>4, CatType
  <1>8. QED
    BY <1>1, <1>2, <1>4, <1>5, <1>6, <1>7

LEMMA FeedStep ==
  ASSUME FeedsHold, NEW v \in Subscriber, UNCHANGED <<pc, log, published, announced>>,
         published \in Nat, announced \in Nat,
         NEW f, NEW read, feed' = [feed EXCEPT ![v] = f],
         seen' = [seen EXCEPT ![v] = read] \/ (seen' = seen /\ read = seen[v]),
         FeedRight(v, f, read)
  PROVE  FeedsHold'
  <1>1. feed = [w \in Subscriber |-> feed[w]] /\ seen = [w \in Subscriber |-> seen[w]]
    BY DEF FeedsHold
  <1>2. /\ feed' = [w \in Subscriber |-> feed'[w]] /\ seen' = [w \in Subscriber |-> seen'[w]]
        /\ feed'[v] = f /\ seen'[v] = read
        /\ \A w \in Subscriber : w # v => feed'[w] = feed[w] /\ seen'[w] = seen[w]
    BY <1>1
  <1>3. ASSUME NEW w \in Subscriber PROVE FeedRight(w, feed[w], seen[w])'
    <2>1. PICK g, q : g = feed'[w] /\ q = seen'[w]
      OBVIOUS
    <2>2. FeedRight(w, g, q)
      BY <1>2, <2>1 DEF FeedsHold
    <2>3. FeedRight(w, g, q)'
      BY <2>2, FeedKept
    <2>4. QED
      BY <2>1, <2>3 DEF FeedRight, Concerning, Told, Involves
  <1>4. ShownFirst'
    BY DEF FeedsHold, ShownFirst
  <1>5. QED
    BY <1>2, <1>3, <1>4 DEF FeedsHold

LEMMA SubscribeHolds ==
  ASSUME FeedsHold, published \in Nat, announced \in Nat, NEW v \in Subscriber, Subscribe(v)
  PROVE  FeedsHold'
  <1>1. /\ UNCHANGED <<pc, log, published, announced>> /\ seen' = seen
        /\ feed[v].state = "off" /\ FeedRight(v, feed[v], seen[v])
    BY DEF Subscribe, matcherVars, FeedsHold
  <1>2. PICK f : f = [Off EXCEPT !.state = "on", !.from = announced, !.next = announced + 1]
    OBVIOUS
  <1>3. feed' = [feed EXCEPT ![v] = f]
    BY <1>2 DEF Subscribe
  <1>4. seen[v] = <<>>
    BY <1>1 DEF FeedRight
  <1>5. f \in FeedType /\ f.state = "on" /\ f.from = announced /\ f.next = announced + 1
        /\ f.held = 0 /\ f.out = <<>> /\ Len(f.out) = 0
    <2>1. PICK n : n = announced + 1
      OBVIOUS
    <2>2. Off \in FeedType
      BY DEF Off, FeedType, FeedStates
    <2>3. PICK g : g = [Off EXCEPT !.state = "on"]
      OBVIOUS
    <2>4. PICK h : h = [g EXCEPT !.from = announced]
      OBVIOUS
    <2>5. f = [h EXCEPT !.next = n]
      BY <1>2, <2>1, <2>3, <2>4
    <2>6. n \in Nat /\ "on" \in FeedStates
      BY <2>1 DEF FeedStates
    <2>7. g \in FeedType
      BY <2>2, <2>3, <2>6, FieldChanges
    <2>8. h \in FeedType
      BY <2>4, <2>7, FieldChanges
    <2>9. f \in FeedType
      BY <2>5, <2>6, <2>8, FieldChanges
    <2>10. f.state = "on" /\ f.from = announced /\ f.next = announced + 1
           /\ f.held = 0 /\ f.out = <<>> /\ Len(f.out) = 0
      BY <1>2 DEF Off
    <2>11. QED
      BY <2>9, <2>10
  <1>6. Told(f, seen[v]) = <<>>
    <2>1. <<>> \in Seq(Nat)
      OBVIOUS
    <2>2. QED
      BY <1>4, <1>5, <2>1, CatEmpty DEF Told
  <1>7. ToSet(<<>>) = {} /\ Rising(<<>>) /\ DOMAIN <<>> = {} /\ <<>> \in Seq(Nat)
    BY DEF ToSet, Rising
  <1>8. Concerning(v, f) = {}
    BY <1>5 DEF Concerning
  <1>9. f.from < f.next /\ f.next <= announced + 1 /\ 0 <= FeedRoom /\ ~(f.held > 0)
    BY <1>5, ConstantFacts
  <1>10. FeedRight(v, f, seen[v])
    BY <1>4, <1>5, <1>6, <1>7, <1>8, <1>9 DEF FeedRight
  <1>11. QED
    BY <1>1, <1>3, <1>10, FeedStep

LEMMA ReceiveEventHolds ==
  ASSUME FeedsHold, published \in Nat, announced \in Nat, NEW v \in Subscriber, ReceiveEvent(v)
  PROVE  FeedsHold'
  <1>1. /\ UNCHANGED <<pc, log, published, announced>> /\ seen' = seen
        /\ feed[v].state = "on" /\ feed[v].held = 0 /\ feed[v].next <= announced
        /\ FeedRight(v, feed[v], seen[v])
    BY DEF ReceiveEvent, matcherVars, FeedsHold
  <1>2. PICK d, q : d = feed[v] /\ q = seen[v]
    OBVIOUS
  <1>3. /\ d \in FeedType /\ d.state = "on" /\ d.held = 0 /\ d.next <= announced
        /\ q \in Seq(Nat) /\ FeedRight(v, d, q)
        /\ d.from \in Nat /\ d.next \in Nat /\ d.out \in Seq(Nat)
        /\ d = [state |-> d.state, from |-> d.from, next |-> d.next, held |-> d.held, out |-> d.out]
    BY <1>1, <1>2, FeedFields DEF FeedRight
  <1>4. /\ Len(d.out) <= FeedRoom /\ d.from < d.next
        /\ ToSet(Told(d, q)) \ {Loss} = Concerning(v, d) \ {0}
        /\ Rising(Told(d, q))
        /\ \A i \in DOMAIN Told(d, q) : Told(d, q)[i] # Loss
    BY <1>3 DEF FeedRight
  <1>5. CASE feed' = [feed EXCEPT ![v].state = "lagged"]
    <2>1. PICK f : f = [d EXCEPT !.state = "lagged"]
      OBVIOUS
    <2>2. feed' = [feed EXCEPT ![v] = f]
      BY <1>2, <1>5, <2>1
    <2>3. /\ f \in FeedType /\ f.state = "lagged" /\ f.from = d.from /\ f.next = d.next
          /\ f.held = 0 /\ f.out = d.out
      BY <1>3, <2>1 DEF FeedType, FeedStates
    <2>4. Told(f, q) = Told(d, q) /\ Concerning(v, f) = Concerning(v, d)
      BY <2>3 DEF Told, Concerning
    <2>5. d.next <= announced + 1
      BY <1>3
    <2>6. FeedRight(v, f, q)
      BY <1>3, <1>4, <2>3, <2>4, <2>5 DEF FeedRight
    <2>7. QED
      BY <1>1, <1>2, <2>2, <2>6, FeedStep
  <1>6. CASE feed' = [feed EXCEPT ![v].held = IF Involves(v, feed[v].next) THEN feed[v].next ELSE 0,
                                  ![v].next = @ + 1]
    <2>1. PICK h : h = IF Involves(v, d.next) THEN d.next ELSE 0
      OBVIOUS
    <2>2. PICK f : f = [d EXCEPT !.held = h, !.next = d.next + 1]
      OBVIOUS
    <2>3. feed' = [feed EXCEPT ![v] = f]
      <3>1. feed' = [feed EXCEPT ![v] = [feed[v] EXCEPT !.held = h, !.next = d.next + 1]]
        <4>1. feed = [w \in Subscriber |-> feed[w]]
          BY DEF FeedsHold
        <4>2. feed' = [feed EXCEPT ![v].held = h, ![v].next = d.next + 1]
          BY <1>2, <1>6, <2>1, <4>1
        <4>3. QED
          BY <1>2, <1>3, <4>1, <4>2
      <3>2. QED
        BY <1>2, <2>2, <3>1
    <2>4. /\ f \in FeedType /\ f.state = "on" /\ f.from = d.from /\ f.next = d.next + 1
          /\ f.held = h /\ f.out = d.out /\ h \in Nat
      <3>1. PICK n : n = d.next + 1
        OBVIOUS
      <3>2. PICK g : g = [d EXCEPT !.held = h]
        OBVIOUS
      <3>3. f = [g EXCEPT !.next = n]
        BY <2>2, <3>1, <3>2
      <3>4. h \in Nat /\ n \in Nat
        BY <1>3, <2>1, <3>1
      <3>5. g \in FeedType
        BY <1>3, <3>2, <3>4, FieldChanges
      <3>6. f \in FeedType
        BY <3>3, <3>4, <3>5, FieldChanges
      <3>7. f.state = "on" /\ f.from = d.from /\ f.next = d.next + 1
            /\ f.held = h /\ f.out = d.out
        BY <1>3, <2>2
      <3>8. QED
        BY <3>4, <3>6, <3>7
    <2>5. Told(f, q) = Told(d, q)
      BY <2>4 DEF Told
    <2>6. Concerning(v, f) = Concerning(v, d) \cup {k \in {d.next} : Involves(v, k)}
      <3>1. \A k : k \in d.from + 1 .. d.next + 1 - 1 <=> k \in d.from + 1 .. d.next - 1 \/ k = d.next
        BY <1>3, <1>4
      <3>2. QED
        BY <2>4, <3>1 DEF Concerning
    <2>7. \A k \in Concerning(v, d) : k # 0 /\ k < d.next /\ k \in Nat
      BY <1>3, ConcerningFacts
    <2>8. d.next # 0 /\ d.next <= announced + 1 /\ d.next + 1 <= announced + 1 /\ d.from < d.next + 1
      BY <1>3, <1>4
    <2>9. ToSet(Told(d, q)) \ {Loss} = Concerning(v, f) \ {h}
      BY <1>4, <2>1, <2>6, <2>7, <2>8
    <2>10. h > 0 => h \in Concerning(v, f) /\ \A i \in DOMAIN Told(d, q) : Told(d, q)[i] < h
      <3>1. ASSUME NEW i \in DOMAIN Told(d, q) PROVE Told(d, q)[i] < d.next
        <4>1. Told(d, q)[i] \in ToSet(Told(d, q)) \ {Loss}
          BY <1>4, <3>1 DEF ToSet
        <4>2. QED
          BY <1>4, <2>7, <4>1
      <3>2. h > 0 => h = d.next /\ Involves(v, d.next)
        BY <2>1
      <3>3. QED
        BY <2>6, <3>1, <3>2
    <2>11. FeedRight(v, f, q)
      BY <1>3, <1>4, <2>4, <2>5, <2>8, <2>9, <2>10 DEF FeedRight
    <2>12. QED
      BY <1>1, <1>2, <2>3, <2>11, FeedStep
  <1>7. QED
    BY <1>5, <1>6 DEF ReceiveEvent

(* One more element told.                                                  *)
LEMMA ToldMore ==
  ASSUME NEW t \in Seq(Nat), NEW x \in Nat, NEW u, u = Plus(t, x), Rising(t),
         x = Loss \/ \A i \in DOMAIN t : t[i] < x, \A i \in DOMAIN t : t[i] # Loss
  PROVE  /\ u \in Seq(Nat) /\ Rising(u) /\ ToSet(u) = ToSet(t) \cup {x}
         /\ Len(u) = Len(t) + 1 /\ \A i \in DOMAIN u : u[i] = Loss => x = Loss /\ i = Len(u)
  <1>1. /\ u \in Seq(Nat) /\ Len(u) = Len(t) + 1 /\ Len(t) \in Nat
        /\ DOMAIN t = 1 .. Len(t) /\ DOMAIN u = 1 .. Len(t) + 1
        /\ \A i \in DOMAIN t : i \in DOMAIN u /\ u[i] = t[i]
        /\ \A i \in DOMAIN u : i \in DOMAIN t \/ i = Len(t) + 1
        /\ u[Len(t) + 1] = x
    <2>1. u = Append(t, x)
      BY DEF Plus
    <2>2. QED
      BY <2>1, AtEnd
  <1>2. ToSet(u) = ToSet(t) \cup {x}
    BY PlusSet
  <1>3. ASSUME NEW i \in DOMAIN u, NEW j \in DOMAIN u, i < j
        PROVE  u[i] < u[j] \/ u[j] = Loss
    <2>1. i \in DOMAIN t /\ u[i] = t[i]
      BY <1>1, <1>3
    <2>2. CASE j \in DOMAIN t
      BY <1>1, <1>3, <2>1, <2>2 DEF Rising
    <2>3. CASE j = Len(t) + 1
      BY <1>1, <2>1, <2>3
    <2>4. QED
      BY <1>1, <2>2, <2>3
  <1>4. QED
    BY <1>1, <1>2, <1>3 DEF Rising

LEMMA ForwardEventHolds ==
  ASSUME FeedsHold, published \in Nat, announced \in Nat, NEW v \in Subscriber, ForwardEvent(v)
  PROVE  FeedsHold'
  <1>1. /\ UNCHANGED <<pc, log, published, announced>> /\ seen' = seen
        /\ Len(feed[v].out) < FeedRoom /\ FeedRight(v, feed[v], seen[v])
    BY DEF ForwardEvent, matcherVars, FeedsHold
  <1>2. PICK d, q : d = feed[v] /\ q = seen[v]
    OBVIOUS
  <1>3. /\ d \in FeedType /\ q \in Seq(Nat) /\ FeedRight(v, d, q) /\ Len(d.out) < FeedRoom
        /\ d.from \in Nat /\ d.next \in Nat /\ d.out \in Seq(Nat) /\ d.held \in Nat
    BY <1>1, <1>2, FeedFields DEF FeedRight
  <1>4. PICK t : t = Told(d, q)
    OBVIOUS
  <1>5. /\ t \in Seq(Nat) /\ Rising(t)
        /\ d.state # "off" => d.from < d.next /\ d.next <= announced + 1
        /\ ToSet(t) \ {Loss} = Concerning(v, d) \ {d.held}
        /\ d.state # "ended" => \A i \in DOMAIN t : t[i] # Loss
    BY <1>3, <1>4, ToldFacts DEF FeedRight
  <1>6. feed = [w \in Subscriber |-> feed[w]]
    BY DEF FeedsHold
  <1> DEFINE Sent(x, s) == [d EXCEPT !.out = Append(d.out, x), !.held = 0, !.state = s]
  <1>7. ASSUME NEW x \in Nat, NEW s \in FeedStates, NEW f, f = Sent(x, s)
        PROVE  /\ f \in FeedType /\ f.state = s /\ f.from = d.from /\ f.next = d.next
               /\ f.held = 0 /\ Len(f.out) <= FeedRoom /\ Told(f, q) = Plus(t, x)
    <2>1. PICK u : u = Append(d.out, x)
      OBVIOUS
    <2>2. PICK g : g = [d EXCEPT !.out = u]
      OBVIOUS
    <2>3. PICK h : h = [g EXCEPT !.held = 0]
      OBVIOUS
    <2>4. f = [h EXCEPT !.state = s]
      BY <1>7, <2>1, <2>2, <2>3
    <2>5. u \in Seq(Nat) /\ Len(u) = Len(d.out) + 1 /\ Len(d.out) \in Nat
      BY <1>3, <2>1, AtEnd
    <2>6. g \in FeedType
      BY <1>3, <2>2, <2>5, FieldChanges
    <2>7. h \in FeedType
      BY <2>3, <2>6, FieldChanges
    <2>8. f \in FeedType
      BY <2>4, <2>7, FieldChanges
    <2>9. f.state = s /\ f.from = d.from /\ f.next = d.next /\ f.held = 0 /\ f.out = u
      BY <1>3, <1>7, <2>1 DEF FeedType
    <2>10. Told(f, q) = Plus(t, x)
      <3>1. u = Plus(d.out, x)
        BY <2>1 DEF Plus
      <3>2. QED
        BY <1>3, <1>4, <2>9, <3>1, PlusCat DEF Told
    <2>11. Len(f.out) <= FeedRoom
      BY <1>3, <2>5, <2>9, ConstantFacts
    <2>12. QED
      BY <2>8, <2>9, <2>10, <2>11
  <1>8. CASE d.held > 0 /\ feed' = [feed EXCEPT ![v].out = Append(@, feed[v].held), ![v].held = 0]
    <2>1. PICK x : x = d.held
      OBVIOUS
    <2>2. /\ x \in Nat /\ x > 0 /\ x # Loss /\ d.state = "on" /\ x \in Concerning(v, d)
          /\ \A i \in DOMAIN t : t[i] < x
      BY <1>3, <1>4, <1>8, <2>1 DEF FeedRight, Loss
    <2>3. PICK f : f = Sent(x, "on")
      OBVIOUS
    <2>4. feed' = [feed EXCEPT ![v] = f]
      <3>1. feed' = [feed EXCEPT ![v] = [feed[v] EXCEPT !.out = Append(@, x), !.held = 0]]
        BY <1>2, <1>6, <1>8, <2>1
      <3>2. [d EXCEPT !.out = Append(@, x), !.held = 0] = f
        BY <1>3, <2>2, <2>3 DEF FeedType
      <3>3. QED
        BY <1>2, <3>1, <3>2
    <2>5. /\ f \in FeedType /\ f.state = "on" /\ f.from = d.from /\ f.next = d.next
          /\ f.held = 0 /\ Len(f.out) <= FeedRoom /\ Told(f, q) = Plus(t, x)
      <3>1. "on" \in FeedStates
        BY DEF FeedStates
      <3> HIDE DEF Sent
      <3>2. QED
        BY <1>7, <2>2, <2>3, <3>1
    <2>6. PICK u : u = Told(f, q)
      OBVIOUS
    <2>7. /\ u \in Seq(Nat) /\ Rising(u) /\ ToSet(u) = ToSet(t) \cup {x}
          /\ \A i \in DOMAIN u : u[i] # Loss
      BY <1>5, <2>2, <2>5, <2>6, ToldMore
    <2>8. Concerning(v, f) = Concerning(v, d) /\ \A k \in Concerning(v, d) : k # 0
      <3>1. Concerning(v, f) = Concerning(v, d)
        BY <2>5 DEF Concerning
      <3>2. QED
        BY <1>3, <3>1, ConcerningFacts
    <2>9. ToSet(u) \ {Loss} = Concerning(v, f) \ {0}
      BY <1>5, <2>1, <2>2, <2>7, <2>8
    <2>10. FeedRight(v, f, q)
      BY <1>3, <1>5, <2>2, <2>5, <2>6, <2>7, <2>9 DEF FeedRight
    <2>11. QED
      BY <1>1, <1>2, <2>4, <2>10, FeedStep
  <1>9. CASE d.state = "lagged" /\ feed' = [feed EXCEPT ![v].out = Append(@, Loss),
                                                        ![v].state = "ended"]
    <2>1. d.held = 0 /\ \A i \in DOMAIN t : t[i] # Loss
      BY <1>3, <1>5, <1>9 DEF FeedRight
    <2>2. PICK f : f = Sent(Loss, "ended")
      OBVIOUS
    <2>3. feed' = [feed EXCEPT ![v] = f]
      <3>1. feed' = [feed EXCEPT ![v] = [feed[v] EXCEPT !.out = Append(@, Loss),
                                                        !.state = "ended"]]
        BY <1>6, <1>9
      <3>2. [d EXCEPT !.out = Append(@, Loss), !.state = "ended"] = f
        BY <1>3, <2>1, <2>2 DEF FeedType
      <3>3. QED
        BY <1>2, <3>1, <3>2
    <2>4. /\ f \in FeedType /\ f.state = "ended" /\ f.from = d.from /\ f.next = d.next
          /\ f.held = 0 /\ Len(f.out) <= FeedRoom /\ Told(f, q) = Plus(t, Loss)
      <3>1. "ended" \in FeedStates /\ Loss \in Nat
        BY DEF FeedStates, Loss
      <3> HIDE DEF Sent
      <3>2. QED
        BY <1>7, <2>2, <3>1
    <2>5. PICK u : u = Told(f, q)
      OBVIOUS
    <2>6. /\ u \in Seq(Nat) /\ Rising(u) /\ ToSet(u) = ToSet(t) \cup {Loss}
          /\ \A i \in DOMAIN u : u[i] = Loss => i = Len(u)
      <3>1. Loss \in Nat
        BY DEF Loss
      <3>2. QED
        BY <1>5, <2>1, <2>4, <2>5, <3>1, ToldMore
    <2>7. Concerning(v, f) = Concerning(v, d)
      BY <2>4 DEF Concerning
    <2>8. ToSet(u) \ {Loss} = Concerning(v, f) \ {0}
      BY <1>5, <2>1, <2>6, <2>7
    <2>9. f.from < f.next /\ f.next <= announced + 1
      BY <1>5, <1>9, <2>4
    <2>10. FeedRight(v, f, q)
      BY <1>3, <2>4, <2>5, <2>6, <2>8, <2>9 DEF FeedRight
    <2>11. QED
      BY <1>1, <1>2, <2>3, <2>10, FeedStep
  <1>10. QED
    BY <1>2, <1>8, <1>9 DEF ForwardEvent

(* What the client reads was told already.                                 *)
LEMMA SubscriberReadsHolds ==
  ASSUME FeedsHold, published \in Nat, announced \in Nat, NEW v \in Subscriber, SubscriberReads(v)
  PROVE  FeedsHold'
  <1>1. /\ UNCHANGED <<pc, log, published, announced>>
        /\ feed[v].out # <<>> /\ FeedRight(v, feed[v], seen[v])
    BY DEF SubscriberReads, matcherVars, FeedsHold
  <1>2. PICK d, q : d = feed[v] /\ q = seen[v]
    OBVIOUS
  <1>3. PICK f, r : f = [d EXCEPT !.out = Tail(d.out)] /\ r = Append(q, Head(d.out))
    OBVIOUS
  <1>4. feed = [w \in Subscriber |-> feed[w]]
    BY DEF FeedsHold
  <1>5. feed' = [feed EXCEPT ![v] = f] /\ seen' = [seen EXCEPT ![v] = r]
    BY <1>2, <1>3, <1>4 DEF SubscriberReads
  <1>6. d \in FeedType /\ q \in Seq(Nat) /\ d.out \in Seq(Nat) /\ d.out # <<>>
        /\ FeedRight(v, d, q)
    BY <1>1, <1>2, FeedFields DEF FeedRight
  <1>7. /\ Cat(r, Tail(d.out)) = Cat(q, d.out) /\ Tail(d.out) \in Seq(Nat) /\ r \in Seq(Nat)
        /\ Len(Tail(d.out)) <= Len(d.out) /\ Len(d.out) \in Nat /\ Len(Tail(d.out)) \in Nat
    BY <1>3, <1>6, MoveFirst
  <1>8. f \in FeedType
    BY <1>3, <1>6, <1>7, FieldChanges
  <1>9. f.state = d.state /\ f.from = d.from /\ f.next = d.next /\ f.held = d.held
        /\ f.out = Tail(d.out)
    BY <1>3, <1>6 DEF FeedType
  <1>10. Told(f, r) = Told(d, q) /\ Concerning(v, f) = Concerning(v, d)
    BY <1>7, <1>9 DEF Told, Concerning
  <1>11. d.state # "off"
    BY <1>6 DEF FeedRight, Off
  <1>12. Len(f.out) <= FeedRoom
    <2>1. Len(d.out) <= FeedRoom
      BY <1>6 DEF FeedRight
    <2>2. QED
      BY <1>7, <1>9, <2>1, ConstantFacts
  <1>13. FeedRight(v, f, r)
    BY <1>6, <1>7, <1>8, <1>9, <1>10, <1>11, <1>12 DEF FeedRight
  <1>14. QED
    BY <1>1, <1>2, <1>5, <1>13, FeedStep

(* Everything else leaves them what they were told.                        *)
LEMMA FeedsGoOn ==
  ASSUME FeedsHold, UNCHANGED feedVars, ShownFirst',
         announced \in Nat, announced' \in Nat, announced <= announced',
         \A k \in 1 .. announced : log'[k] = log[k]
  PROVE  FeedsHold'
  <1>1. feed' = feed /\ seen' = seen
    BY DEF feedVars
  <1>2. ASSUME NEW v \in Subscriber PROVE FeedRight(v, feed[v], seen[v])'
    <2>1. PICK d, q : d = feed[v] /\ q = seen[v]
      OBVIOUS
    <2>2. FeedRight(v, d, q)
      BY <2>1 DEF FeedsHold
    <2>3. FeedRight(v, d, q)'
      BY <2>2, FeedKept
    <2>4. QED
      BY <1>1, <2>1, <2>3 DEF FeedRight, Concerning, Told, Involves
  <1>3. QED
    BY <1>1, <1>2 DEF FeedsHold

LEMMA MatcherTells ==
  ASSUME MatcherTyped, FeedsHold, Matcher
  PROVE  FeedsHold'
  <1>1. /\ log \in Seq(Event) /\ Len(log) \in Nat /\ published \in Nat /\ announced \in Nat
        /\ DOMAIN log = 1 .. Len(log)
        /\ announced <= published /\ published <= Len(log)
    BY DEF MatcherTyped, FeedsHold, ShownFirst
  <1>2. CASE Take
    <2>1. /\ UNCHANGED feedVars /\ pc = "take" /\ pc' = pc /\ announced' = announced
          /\ published' = published
          /\ log' = log \/ \E e \in Events(Head(queue)) : log' = Append(log, e)
      BY <1>2 DEF Take
    <2>2. ASSUME NEW e, log' = Append(log, e)
          PROVE  Len(log') = Len(log) + 1 /\ \A k \in 1 .. Len(log) : log'[k] = log[k]
      BY <1>1, <2>2
    <2>3. /\ Len(log') = Len(log) \/ Len(log') = Len(log) + 1
          /\ \A k \in 1 .. Len(log) : log'[k] = log[k]
      <3>1. CASE log' = log
        BY <3>1
      <3>2. CASE \E e \in Events(Head(queue)) : log' = Append(log, e)
        BY ONLY <2>2, <3>2
      <3>3. QED
        BY <2>1, <3>1, <3>2
    <2>4. ShownFirst'
      BY <1>1, <2>1, <2>3 DEF ShownFirst
    <2>5. \A k \in 1 .. announced : log'[k] = log[k]
      BY <1>1, <2>3
    <2>6. QED
      BY <1>1, <2>1, <2>4, <2>5, FeedsGoOn
  <1>3. CASE Publish
    <2>1. UNCHANGED feedVars /\ log' = log /\ announced' = announced /\ published' = Len(log)
      BY <1>3 DEF Publish
    <2>2. ShownFirst'
      BY <1>1, <2>1 DEF ShownFirst
    <2>3. QED
      BY <1>1, <2>1, <2>2, FeedsGoOn
  <1>4. CASE Announce
    <2>1. UNCHANGED feedVars /\ log' = log /\ announced' = Len(log) /\ published' = published
          /\ pc = "tell" /\ pc' = "reply"
      BY <1>4 DEF Announce
    <2>2. published = Len(log)
      BY <2>1 DEF FeedsHold, ShownFirst
    <2>3. ShownFirst'
      BY <1>1, <2>1, <2>2 DEF ShownFirst
    <2>4. QED
      BY <1>1, <2>1, <2>3, FeedsGoOn
  <1>5. CASE ReplyBatch
    <2>1. UNCHANGED feedVars /\ log' = log /\ announced' = announced /\ published' = published
          /\ pc' = "take"
      BY <1>5 DEF ReplyBatch
    <2>2. ShownFirst'
      BY <1>1, <2>1 DEF ShownFirst
    <2>3. QED
      BY <1>1, <2>1, <2>2, FeedsGoOn
  <1>6. QED
    BY <1>2, <1>3, <1>4, <1>5 DEF Matcher

LEMMA FeedsAlone ==
  ASSUME FeedsHold, announced \in Nat, UNCHANGED <<log, published, announced>>,
         pc' = pc \/ pc' # "tell", UNCHANGED feedVars
  PROVE  FeedsHold'
  <1>1. ShownFirst'
    BY DEF FeedsHold, ShownFirst
  <1>2. QED
    BY <1>1, FeedsGoOn

-----------------------------------------------------------------------------
(* The limiter.                                                            *)

LEMMA MinOfTwo ==
  ASSUME NEW x \in Int, NEW y \in Int
  PROVE  Min({x, y}) \in Int /\ Min({x, y}) <= x /\ Min({x, y}) <= y
         /\ (Min({x, y}) = x \/ Min({x, y}) = y)
  <1>1. PICK z \in {x, y} : \A w \in {x, y} : z <= w
    OBVIOUS
  <1>2. Min({x, y}) \in {x, y} /\ \A w \in {x, y} : Min({x, y}) <= w
    BY <1>1 DEF Min
  <1>3. QED
    BY <1>2

LEMMA MaxOfTwo ==
  ASSUME NEW x \in Int, NEW y \in Int
  PROVE  Max({x, y}) \in Int /\ Max({x, y}) >= x /\ Max({x, y}) >= y
         /\ (Max({x, y}) = x \/ Max({x, y}) = y)
  <1>1. PICK z \in {x, y} : \A w \in {x, y} : z >= w
    OBVIOUS
  <1>2. Max({x, y}) \in {x, y} /\ \A w \in {x, y} : Max({x, y}) >= w
    BY <1>1 DEF Max
  <1>3. QED
    BY <1>2

LEMMA AdmissionFields ==
  ASSUME NEW h \in Seq(Admission)
  PROVE  /\ Len(h) \in Nat /\ DOMAIN h = 1 .. Len(h)
         /\ \A i \in DOMAIN h : h[i].account \in Account /\ Paid(h[i]) \in Nat
  <1>1. Len(h) \in Nat /\ DOMAIN h = 1 .. Len(h) /\ \A i \in DOMAIN h : h[i] \in Admission
    OBVIOUS
  <1>2. \A e \in Admission : e.account \in Account /\ Paid(e) \in Nat
    BY DEF Admission, Paid
  <1>3. QED
    BY <1>1, <1>2

LEMMA BucketFields ==
  ASSUME NEW b \in Bucket
  PROVE  b.tokens \in Nat /\ b.tokens <= Rate * TicksPerSecond /\ b.last \in Nat
         /\ b = [tokens |-> b.tokens, last |-> b.last]
         /\ Rate * TicksPerSecond \in Nat
  <1>1. Rate \in Nat /\ TicksPerSecond \in Nat
    BY ConstantFacts
  <1>2. Rate * TicksPerSecond \in Nat
    BY ONLY <1>1
  <1>3. b.tokens \in 0 .. Rate * TicksPerSecond /\ b.last \in 0 .. MaxTime
        /\ b = [tokens |-> b.tokens, last |-> b.last]
    BY DEF Bucket
  <1>4. QED
    BY <1>2, <1>3, ConstantFacts

LEMMA ThroughFinite ==
  ASSUME NEW h, NEW a, NEW i \in Nat, NEW j \in Nat
  PROVE  IsFiniteSet(Through(h, a, i, j)) /\ Cardinality(Through(h, a, i, j)) \in Nat
  <1>1. IsFiniteSet(i .. j)
    BY FS_Interval
  <1>2. Through(h, a, i, j) \subseteq i .. j
    BY DEF Through
  <1>3. IsFiniteSet(Through(h, a, i, j))
    BY <1>1, <1>2, FS_Subset
  <1>4. QED
    BY <1>3, FS_CardinalityType

(* A bucket that fills with the time covers what it covered.               *)
LEMMA StaysCovered ==
  ASSUME NEW h \in Seq(Admission), NEW a \in Account,
         NEW b, Covered(h, b, a), b.tokens \in Int, b.last \in Int, NEW d, d.tokens \in Int, d.last \in Int,
         d.tokens <= b.tokens + (d.last - b.last) * Rate
  PROVE  Covered(h, d, a)
  <1>1. ASSUME NEW i \in DOMAIN h, h[i].account = a
        PROVE  Cardinality(Through(h, a, i, Len(h))) * TicksPerSecond + d.tokens
                 <= Rate * TicksPerSecond + Rate * (d.last - Paid(h[i]))
    <2>1. PICK c, t : c = Cardinality(Through(h, a, i, Len(h))) /\ t = Paid(h[i])
      OBVIOUS
    <2>2. c \in Int /\ t \in Int /\ Rate \in Int /\ TicksPerSecond \in Int
      BY <2>1, ThroughFinite, AdmissionFields, ConstantFacts
    <2>3. c * TicksPerSecond + b.tokens <= Rate * TicksPerSecond + Rate * (b.last - t)
      BY <1>1, <2>1 DEF Covered
    <2>4. \A rate, ticks, k, x, y, l, n, s \in Int :
            k * ticks + x <= rate * ticks + rate * (l - s) /\ y <= x + (n - l) * rate
              => k * ticks + y <= rate * ticks + rate * (n - s)
      OBVIOUS
    <2>5. c * TicksPerSecond + d.tokens <= Rate * TicksPerSecond + Rate * (d.last - t)
      BY ONLY <2>2, <2>3, <2>4, b.tokens \in Int, b.last \in Int, d.tokens \in Int,
              d.last \in Int, d.tokens <= b.tokens + (d.last - b.last) * Rate
    <2>6. QED
      BY <2>1, <2>5
  <1>2. QED
    BY <1>1 DEF Covered

(* One more admission.                                                     *)
LEMMA OneMoreAdmission ==
  ASSUME NEW h \in Seq(Admission), NEW x \in Admission
  PROVE  /\ Plus(h, x) \in Seq(Admission) /\ Len(Plus(h, x)) = Len(h) + 1 /\ Len(h) \in Nat
         /\ DOMAIN h = 1 .. Len(h) /\ DOMAIN Plus(h, x) = 1 .. Len(h) + 1
         /\ \A i \in DOMAIN h : i \in DOMAIN Plus(h, x) /\ Plus(h, x)[i] = h[i]
         /\ \A i \in DOMAIN Plus(h, x) : i \in DOMAIN h \/ i = Len(h) + 1
         /\ Plus(h, x)[Len(h) + 1] = x
  <1>1. PICK g : g = Append(h, x)
    OBVIOUS
  <1>2. g = Plus(h, x)
    BY <1>1 DEF Plus
  <1>3. /\ g \in Seq(Admission) /\ Len(g) = Len(h) + 1 /\ Len(h) \in Nat
        /\ DOMAIN h = 1 .. Len(h) /\ DOMAIN g = 1 .. Len(h) + 1
        /\ \A i \in DOMAIN h : i \in DOMAIN g /\ g[i] = h[i]
        /\ \A i \in DOMAIN g : i \in DOMAIN h \/ i = Len(h) + 1
        /\ g[Len(h) + 1] = x
    BY <1>1, AtEnd
  <1>4. QED
    BY <1>2, <1>3

LEMMA ThroughEarlier ==
  ASSUME NEW h \in Seq(Admission), NEW x \in Admission, NEW a,
         NEW j \in 1 .. Len(h), NEW i \in 1 .. j
  PROVE  Through(Plus(h, x), a, i, j) = Through(h, a, i, j)
  <1>1. PICK g : g = Plus(h, x)
    OBVIOUS
  <1>2. DOMAIN h = 1 .. Len(h) /\ Len(h) \in Nat /\ \A k \in DOMAIN h : g[k] = h[k]
    BY <1>1, OneMoreAdmission
  <1>3. \A k \in i .. j : g[k] = h[k]
    BY <1>2
  <1>4. QED
    BY <1>1, <1>3 DEF Through

LEMMA OneMoreThrough ==
  ASSUME NEW h \in Seq(Admission), NEW x \in Admission, NEW i \in 1 .. Len(h), NEW a
  PROVE  /\ a = x.account =>
              /\ Through(Plus(h, x), a, i, Len(h) + 1)
                   = Through(h, a, i, Len(h)) \cup {Len(h) + 1}
              /\ Len(h) + 1 \notin Through(h, a, i, Len(h))
         /\ a # x.account =>
              Through(Plus(h, x), a, i, Len(h) + 1) = Through(h, a, i, Len(h))
  <1>1. PICK g, m, n : g = Plus(h, x) /\ m = Len(h) /\ n = Len(h) + 1
    OBVIOUS
  <1>2. m \in Nat /\ n = m + 1 /\ g[n] = x /\ DOMAIN h = 1 .. m
        /\ \A k \in DOMAIN h : g[k] = h[k]
    BY <1>1, OneMoreAdmission
  <1>3. /\ \A k : k \in i .. n <=> k \in i .. m \/ k = n
        /\ \A k \in i .. m : g[k] = h[k] /\ k # n
        /\ i \in 1 .. m
    BY ONLY <1>1, <1>2, i \in 1 .. Len(h)
  <1>4. a = x.account => /\ Through(g, a, i, n) = Through(h, a, i, m) \cup {n}
                         /\ n \notin Through(h, a, i, m)
    BY ONLY <1>2, <1>3 DEF Through
  <1>5. a # x.account => Through(g, a, i, n) = Through(h, a, i, m)
    BY ONLY <1>2, <1>3 DEF Through
  <1>6. QED
    BY <1>1, <1>4, <1>5

LEMMA OnlyLast ==
  ASSUME NEW h \in Seq(Admission), NEW x \in Admission
  PROVE  Through(Plus(h, x), x.account, Len(h) + 1, Len(h) + 1) = {Len(h) + 1}
  <1>1. PICK g, n : g = Plus(h, x) /\ n = Len(h) + 1
    OBVIOUS
  <1>2. n \in Nat /\ g[n] = x
    <2>1. Len(h) \in Nat /\ Plus(h, x)[Len(h) + 1] = x
      BY OneMoreAdmission
    <2>2. QED
      BY <1>1, <2>1
  <1>3. n .. n = {n}
    BY <1>2
  <1>4. QED
    BY <1>1, <1>2, <1>3 DEF Through

LEMMA OthersStayCovered ==
  ASSUME NEW h \in Seq(Admission), NEW x \in Admission, NEW g, g = Plus(h, x),
         NEW a \in Account, a # x.account, NEW b, Covered(h, b, a)
  PROVE  Covered(g, b, a)
  <1>1. Len(g) = Len(h) + 1 /\ DOMAIN h = 1 .. Len(h) /\ g[Len(h) + 1] = x
    BY OneMoreAdmission
  <1>2. ASSUME NEW i \in DOMAIN g, g[i].account = a
        PROVE  Cardinality(Through(g, a, i, Len(g))) * TicksPerSecond + b.tokens
                 <= Rate * TicksPerSecond + Rate * (b.last - Paid(g[i]))
    <2>1. i \in DOMAIN h /\ g[i] = h[i] /\ i \in 1 .. Len(h)
      <3>1. i # Len(h) + 1
        BY <1>1, <1>2
      <3>2. QED
        BY <1>1, <3>1, OneMoreAdmission
    <2>2. Through(g, a, i, Len(h) + 1) = Through(h, a, i, Len(h))
      BY <2>1, OneMoreThrough
    <2>3. QED
      BY <1>1, <1>2, <2>1, <2>2 DEF Covered
  <1>3. QED
    BY <1>2 DEF Covered

LEMMA PaidIsCovered ==
  ASSUME NEW h \in Seq(Admission), NEW x \in Admission, NEW g, g = Plus(h, x),
         NEW b, Covered(h, b, x.account), b.tokens \in Int, b.last \in Int,
         NEW d, d.tokens \in Int, d.last = Paid(x),
         d.tokens + TicksPerSecond <= b.tokens + (Paid(x) - b.last) * Rate,
         d.tokens + TicksPerSecond <= Rate * TicksPerSecond
  PROVE  Covered(g, d, x.account)
  <1>1. Paid(x) \in Nat /\ x.account \in Account /\ Rate \in Int /\ TicksPerSecond \in Int
    BY ConstantFacts DEF Admission, Paid
  <1>2. Len(g) = Len(h) + 1 /\ DOMAIN h = 1 .. Len(h) /\ g[Len(h) + 1] = x /\ Len(h) \in Nat
    BY OneMoreAdmission
  <1>3. ASSUME NEW i \in DOMAIN g, g[i].account = x.account
        PROVE  Cardinality(Through(g, x.account, i, Len(g))) * TicksPerSecond + d.tokens
                 <= Rate * TicksPerSecond + Rate * (d.last - Paid(g[i]))
    <2>1. PICK c, t : c = Cardinality(Through(g, x.account, i, Len(h) + 1)) /\ t = Paid(g[i])
      OBVIOUS
    <2>2. CASE i \in DOMAIN h
      <3>1. g[i] = h[i] /\ i \in 1 .. Len(h) /\ i \in Nat
        <4>1. i \in 1 .. Len(h) /\ i \in Nat
          BY <1>2, <2>2
        <4>2. Plus(h, x)[i] = h[i]
          BY <2>2, OneMoreAdmission
        <4>3. QED
          BY <4>1, <4>2
      <3>2. PICK o : o = Cardinality(Through(h, x.account, i, Len(h)))
        OBVIOUS
      <3>3. c = o + 1 /\ o \in Int
        <4>1. IsFiniteSet(Through(h, x.account, i, Len(h))) /\ o \in Int
          BY <1>2, <3>1, <3>2, ThroughFinite
        <4>2. /\ Through(g, x.account, i, Len(h) + 1)
                    = Through(h, x.account, i, Len(h)) \cup {Len(h) + 1}
              /\ Len(h) + 1 \notin Through(h, x.account, i, Len(h))
          BY <3>1, OneMoreThrough
        <4>3. QED
          BY <2>1, <3>2, <4>1, <4>2, FS_AddElement
      <3>4. t \in Int /\ o * TicksPerSecond + b.tokens <= Rate * TicksPerSecond + Rate * (b.last - t)
        <4>1. t \in Int
          BY <2>1, <2>2, <3>1, AdmissionFields
        <4>2. QED
          BY <1>3, <2>1, <2>2, <3>1, <3>2, <4>1 DEF Covered
      <3>5. \A rate, ticks, k, y, z, l, n, s \in Int :
              /\ k * ticks + y <= rate * ticks + rate * (l - s)
              /\ z + ticks <= y + (n - l) * rate
              => (k + 1) * ticks + z <= rate * ticks + rate * (n - s)
        OBVIOUS
      <3>6. (o + 1) * TicksPerSecond + d.tokens <= Rate * TicksPerSecond + Rate * (Paid(x) - t)
        <4>1. PICK y, z, l, n : y = b.tokens /\ z = d.tokens /\ l = b.last /\ n = Paid(x)
          OBVIOUS
        <4>2. y \in Int /\ z \in Int /\ l \in Int /\ n \in Int
          BY <1>1, <4>1
        <4>3. /\ o * TicksPerSecond + y <= Rate * TicksPerSecond + Rate * (l - t)
              /\ z + TicksPerSecond <= y + (n - l) * Rate
          BY <3>4, <4>1
        <4>4. (o + 1) * TicksPerSecond + z <= Rate * TicksPerSecond + Rate * (n - t)
          BY ONLY <1>1, <3>3, <3>4, <3>5, <4>2, <4>3
        <4>5. QED
          BY <4>1, <4>4
      <3>7. QED
        BY <1>2, <2>1, <3>3, <3>6
    <2>3. CASE i = Len(h) + 1
      <3>1. t = Paid(x) /\ Through(g, x.account, i, Len(h) + 1) = {i}
        BY <1>2, <2>1, <2>3, OnlyLast
      <3>2. c = 1
        BY <2>1, <3>1, FS_Singleton
      <3>3. 1 * TicksPerSecond + d.tokens <= Rate * TicksPerSecond + Rate * (Paid(x) - Paid(x))
        BY ONLY <1>1, d.tokens \in Int, d.tokens + TicksPerSecond <= Rate * TicksPerSecond
      <3>4. QED
        BY <1>2, <2>1, <3>1, <3>2, <3>3
    <2>4. QED
      BY <2>2, <2>3, OneMoreAdmission
  <1>4. QED
    BY <1>3 DEF Covered

(* What is covered at an admission keeps the rate up to it.                *)
LEMMA CoveredIsKept ==
  ASSUME NEW h \in Seq(Admission), NEW x \in Admission, NEW g, g = Plus(h, x), Kept(h),
         NEW d, Covered(g, d, x.account), d.tokens \in Nat, d.last = Paid(x)
  PROVE  Kept(g)
  <1>1. Len(g) = Len(h) + 1 /\ DOMAIN h = 1 .. Len(h) /\ g[Len(h) + 1] = x /\ Len(h) \in Nat
        /\ g \in Seq(Admission) /\ DOMAIN g = 1 .. Len(h) + 1
    BY OneMoreAdmission
  <1>2. ASSUME NEW i \in DOMAIN g, NEW j \in DOMAIN g, i <= j, g[i].account = g[j].account
        PROVE  (Cardinality(Through(g, g[i].account, i, j)) - Rate) * TicksPerSecond
                 <= Rate * (Paid(g[j]) - Paid(g[i]))
    <2>1. CASE j \in DOMAIN h
      <3>1. i \in 1 .. j /\ j \in 1 .. Len(h) /\ i \in DOMAIN h
        BY <1>1, <1>2, <2>1
      <3>2. g[i] = h[i] /\ g[j] = h[j]
        BY <2>1, <3>1, OneMoreAdmission
      <3>3. Through(g, g[i].account, i, j) = Through(h, g[i].account, i, j)
        BY <3>1, ThroughEarlier
      <3>4. QED
        BY <1>2, <2>1, <3>1, <3>2, <3>3 DEF Kept
    <2>2. CASE j = Len(g)
      <3>1. g[j] = x /\ g[i].account = x.account /\ Paid(x) \in Int
        BY <1>1, <1>2, <2>2 DEF Admission, Paid
      <3>2. PICK c, t : c = Cardinality(Through(g, x.account, i, j)) /\ t = Paid(g[i])
        OBVIOUS
      <3>3. c * TicksPerSecond + d.tokens <= Rate * TicksPerSecond + Rate * (Paid(x) - t)
        BY <1>2, <2>2, <3>1, <3>2 DEF Covered
      <3>4. c \in Int /\ t \in Int /\ Rate \in Int /\ TicksPerSecond \in Int
        <4>1. i \in Nat /\ j \in Nat
          BY <1>1
        <4>2. t \in Int
          BY <1>1, <3>2, AdmissionFields
        <4>3. c \in Int
          BY <3>2, <4>1, ThroughFinite
        <4>4. QED
          BY <4>2, <4>3, ConstantFacts
      <3>5. \A rate, ticks, k, z, n, s \in Int :
              z >= 0 /\ k * ticks + z <= rate * ticks + rate * (n - s)
                => (k - rate) * ticks <= rate * (n - s)
        OBVIOUS
      <3>6. (c - Rate) * TicksPerSecond <= Rate * (Paid(x) - t)
        BY ONLY <3>1, <3>3, <3>4, <3>5, d.tokens \in Nat
      <3>7. QED
        BY <3>1, <3>2, <3>6
    <2>3. QED
      BY <1>1, <2>1, <2>2
  <1>3. QED
    BY <1>2 DEF Kept

LEMMA RefilledFacts ==
  ASSUME LimiterTyped, NEW a \in Account, NEW c \in Client, clock[c] # NoReading
  PROVE  /\ Refilled(a, clock[c]) \in 0 .. Rate * TicksPerSecond
         /\ Refilled(a, clock[c]) <= bucket[a].tokens + (now - bucket[a].last) * Rate
  <1>1. PICK b, n, at : b = bucket[a] /\ n = now /\ at = clock[c]
    OBVIOUS
  <1>2. b \in Bucket /\ b.last <= n /\ n \in Nat /\ at \in Nat /\ at <= n
    BY <1>1, ConstantFacts DEF LimiterTyped
  <1>3. b.tokens \in Nat /\ b.last \in Nat /\ Rate * TicksPerSecond \in Nat /\ Rate \in Nat
    BY <1>2, BucketFields, ConstantFacts
  <1>4. PICK gap, room : gap = Elapsed(a, at) /\ room = n - b.last
    OBVIOUS
  <1>5. gap \in Nat /\ room \in Nat /\ gap <= room
    <2>1. PICK k : k = at - b.last
      OBVIOUS
    <2>2. gap = Max({k, 0}) /\ k \in Int
      BY <1>1, <1>2, <1>3, <1>4, <2>1 DEF Elapsed
    <2>3. PICK zero : zero = 0
      OBVIOUS
    <2>4. /\ Max({k, zero}) \in Int /\ Max({k, zero}) >= zero
          /\ Max({k, zero}) = k \/ Max({k, zero}) = zero
      BY <2>2, <2>3, MaxOfTwo
    <2>5. gap \in Int /\ gap >= 0 /\ (gap = k \/ gap = 0)
      BY ONLY <2>2, <2>3, <2>4
    <2>6. QED
      BY <1>2, <1>3, <1>4, <2>1, <2>5
  <1>6. PICK more, most : more = gap * Rate /\ most = room * Rate
    OBVIOUS
  <1>7. more \in Nat /\ most \in Nat /\ more <= most
    <2>1. \A i, j, k \in Nat : i <= j => i * k \in Nat /\ j * k \in Nat /\ i * k <= j * k
      OBVIOUS
    <2>2. QED
      BY ONLY <1>3, <1>5, <1>6, <2>1
  <1>8. PICK x, y : x = b.tokens + more /\ y = Rate * TicksPerSecond
    OBVIOUS
  <1>9. x \in Nat /\ y \in Nat
    BY <1>3, <1>7, <1>8
  <1>10. Refilled(a, at) = Min({x, y})
    BY <1>1, <1>4, <1>6, <1>8 DEF Refilled
  <1>11. Refilled(a, at) \in 0 .. y /\ Refilled(a, at) <= x
    <2>1. /\ Min({x, y}) \in Int /\ Min({x, y}) <= x /\ Min({x, y}) <= y
          /\ Min({x, y}) = x \/ Min({x, y}) = y
      BY <1>9, MinOfTwo
    <2>2. PICK f : f = Min({x, y})
      OBVIOUS
    <2>3. f \in 0 .. y /\ f <= x
      BY <1>9, <2>1, <2>2
    <2>4. QED
      BY <1>10, <2>2, <2>3
  <1>12. Refilled(a, at) <= b.tokens + most
    BY <1>3, <1>7, <1>8, <1>9, <1>11
  <1>13. QED
    BY <1>1, <1>4, <1>6, <1>8, <1>11, <1>12

LEMMA AdmitHolds ==
  ASSUME LimiterHolds, NEW e \in Client, clock[e] # NoReading, NEW r \in Request, Admit(e, r)
  PROVE  LimiterHolds'
  <1>1. PICK a, at : a = r.account /\ at = clock[e]
    OBVIOUS
  <1>2. a \in Account
    BY <1>1 DEF Request
  <1>3. /\ LimiterTyped /\ Kept(admitted)
        /\ \A c \in Account : Covered(admitted, Mark(bucket[c], late[c]), c)
    BY DEF LimiterHolds
  <1>4. PICK h, g, n, w : h = admitted /\ g = admitted' /\ n = now /\ w = late[a]
    OBVIOUS
  <1>5. PICK b : b = Mark(bucket[a], w)
    OBVIOUS
  <1>6. /\ h \in Seq(Admission) /\ bucket[a] \in Bucket /\ bucket[a].last <= n
        /\ n \in 0 .. MaxTime /\ n \in Nat /\ w \in Nat
        /\ at \in 0 .. MaxTime /\ at \in Nat /\ at <= n
        /\ Kept(h) /\ Covered(h, b, a) /\ now' = n
    BY <1>1, <1>2, <1>3, <1>4, <1>5, ConstantFacts DEF LimiterTyped, Admit
  <1>7. /\ b.tokens = bucket[a].tokens /\ b.tokens \in Int /\ b.last = bucket[a].last + w
        /\ b.last \in Int /\ bucket[a].last \in Nat /\ TicksPerSecond \in Nat \ {0}
    BY <1>5, <1>6, BucketFields, ConstantFacts DEF Mark
  <1>8. /\ clock' \in [Client -> {NoReading} \cup 0 .. MaxTime]
        /\ \A c \in Client : clock'[c] <= n
    <2>1. clock' = [clock EXCEPT ![e] = NoReading] /\ NoReading <= n
      BY <1>6 DEF Admit, NoReading
    <2>2. QED
      BY <1>3, <1>4, <2>1 DEF LimiterTyped
  <1>9. CASE ~Limited(r)
    <2>1. bucket' = bucket /\ late' = late /\ admitted' = admitted /\ now' = now
      BY <1>9 DEF Admit
    <2>2. QED
      BY <1>3, <1>4, <1>8, <2>1 DEF LimiterHolds, LimiterTyped
  <1>10. CASE Limited(r)
    <2>1. PICK left : left = Refilled(a, at) - (IF Admits(r, at) THEN TicksPerSecond ELSE 0)
      OBVIOUS
    <2>2. PICK d, v : d = [tokens |-> left, last |-> at] /\ v = w + (n - at)
      OBVIOUS
    <2>3. bucket' = [bucket EXCEPT ![a] = d] /\ late' = [late EXCEPT ![a] = v]
      BY <1>1, <1>4, <1>10, <2>1, <2>2 DEF Admit
    <2>4. PICK m : m = Mark(d, v)
      OBVIOUS
    <2>5. d.tokens = left /\ m.tokens = left /\ m.last = at + v /\ v \in Nat /\ m.last = n + w
      BY <1>6, <2>2, <2>4 DEF Mark
    <2>6. PICK f : f = Refilled(a, at)
      OBVIOUS
    <2>7. /\ f \in 0 .. Rate * TicksPerSecond
          /\ f <= bucket[a].tokens + (n - bucket[a].last) * Rate
      BY <1>1, <1>2, <1>3, <1>4, <2>6, RefilledFacts
    <2>8. f <= b.tokens + (m.last - b.last) * Rate
      <3>1. m.last - b.last = n - bucket[a].last
        BY <1>6, <1>7, <2>5
      <3>2. QED
        BY <1>7, <2>7, <3>1
    <2>9. PICK all : all = Rate * TicksPerSecond
      OBVIOUS
    <2>10. all \in Nat
      BY <1>6, <2>9, BucketFields
    <2>11. f \in Int /\ 0 <= f /\ f <= all
      BY <2>7, <2>9, <2>10
    <2>12. left \in 0 .. all
      <3>1. Admits(r, at) => f >= TicksPerSecond
        BY <1>1, <1>10, <2>6 DEF Admits
      <3>2. left = IF Admits(r, at) THEN f - TicksPerSecond ELSE f
        BY <1>7, <2>1, <2>6, <2>11
      <3>3. QED
        BY <1>7, <2>10, <2>11, <3>1, <3>2
    <2>13. d \in Bucket
      BY <1>6, <2>2, <2>9, <2>12 DEF Bucket
    <2>14. /\ bucket' \in [Account -> Bucket] /\ bucket'[a] = d
           /\ late' \in [Account -> Nat] /\ late'[a] = v
           /\ \A c \in Account : c # a => bucket'[c] = bucket[c] /\ late'[c] = late[c]
      BY <1>2, <1>3, <2>3, <2>5, <2>13 DEF LimiterTyped
    <2>15. \A c \in Account : bucket'[c].last <= n
      <3>1. d.last <= n
        BY <1>6, <2>2
      <3>2. QED
        BY <1>3, <1>4, <2>14, <3>1 DEF LimiterTyped
    <2>16. CASE ~Admits(r, at)
      <3>1. g = h /\ left = f
        BY <1>1, <1>4, <1>10, <2>1, <2>6, <2>11, <2>16 DEF Admit
      <3>2. m.tokens \in Int /\ m.last \in Int /\ m.tokens <= b.tokens + (m.last - b.last) * Rate
        BY <1>6, <2>5, <2>8, <2>11, <3>1
      <3>3. Covered(h, m, a)
        BY <1>2, <1>6, <1>7, <3>2, StaysCovered
      <3>4. \A c \in Account : Covered(h, Mark(bucket'[c], late'[c]), c)
        BY <1>3, <1>4, <2>4, <2>14, <3>3
      <3>5. LimiterTyped'
        BY <1>4, <1>6, <1>8, <2>14, <2>15, <3>1 DEF LimiterTyped
      <3>6. QED
        BY <1>4, <1>6, <3>1, <3>4, <3>5 DEF LimiterHolds
    <2>17. CASE Admits(r, at)
      <3>1. PICK x : x = [account |-> a, at |-> at, late |-> v]
        OBVIOUS
      <3>2. x \in Admission /\ x.account = a /\ Paid(x) = m.last
        BY <1>2, <1>6, <2>5, <3>1 DEF Admission, Paid
      <3>3. g = Plus(h, x)
        <4>1. g = Append(h, [account |-> a, at |-> at, late |-> late'[a]])
          BY <1>1, <1>4, <1>10, <2>17 DEF Admit
        <4>2. QED
          BY <2>14, <3>1, <4>1 DEF Plus
      <3>4. g \in Seq(Admission)
        BY <1>6, <3>2, <3>3, OneMoreAdmission
      <3>5. left = f - TicksPerSecond /\ m.tokens \in Nat
        BY <2>1, <2>5, <2>6, <2>10, <2>12, <2>17
      <3>6. /\ m.tokens \in Int /\ m.last = Paid(x)
            /\ m.tokens + TicksPerSecond <= b.tokens + (Paid(x) - b.last) * Rate
            /\ m.tokens + TicksPerSecond <= Rate * TicksPerSecond
        <4>1. m.tokens + TicksPerSecond = f
          BY <1>7, <2>5, <2>11, <3>5
        <4>2. QED
          BY <2>8, <2>9, <2>11, <3>2, <3>5, <4>1
      <3>7. Covered(g, m, a)
        <4>1. Covered(h, b, x.account)
          BY <1>6, <3>2
        <4>2. Covered(g, m, x.account)
          BY ONLY <1>6, <1>7, <3>2, <3>3, <3>6, <4>1, PaidIsCovered
        <4>3. QED
          BY <3>2, <4>2
      <3>8. Kept(g)
        BY <1>6, <3>2, <3>3, <3>5, <3>6, <3>7, CoveredIsKept
      <3>9. \A c \in Account : Covered(g, Mark(bucket'[c], late'[c]), c)
        <4>1. ASSUME NEW c \in Account, c # a PROVE Covered(g, Mark(bucket[c], late[c]), c)
          <5>1. PICK k : k = Mark(bucket[c], late[c])
            OBVIOUS
          <5>2. Covered(h, k, c)
            BY <1>3, <1>4, <5>1
          <5>3. Covered(g, k, c)
            BY <1>6, <3>2, <3>3, <4>1, <5>2, OthersStayCovered
          <5>4. QED
            BY <5>1, <5>3
        <4>2. QED
          BY <2>4, <2>14, <3>7, <4>1
      <3>10. LimiterTyped'
        BY <1>4, <1>6, <1>8, <2>14, <2>15, <3>4 DEF LimiterTyped
      <3>11. QED
        BY <1>4, <3>8, <3>9, <3>10 DEF LimiterHolds
    <2>18. QED
      BY <2>16, <2>17
  <1>11. QED
    BY <1>9, <1>10

(* Time passes, and a request reads it.                                    *)
LEMMA TickHolds ==
  ASSUME LimiterHolds, Tick
  PROVE  LimiterHolds'
  <1>1. now' = now + 1 /\ now < MaxTime
        /\ bucket' = bucket /\ clock' = clock /\ late' = late /\ admitted' = admitted
    BY DEF Tick
  <1>2. now \in 0 .. MaxTime /\ \A a \in Account : bucket[a].last \in Int
    BY BucketFields, ConstantFacts DEF LimiterHolds, LimiterTyped
  <1>3. \A c \in Client : clock[c] \in Int
    BY ConstantFacts DEF LimiterHolds, LimiterTyped, NoReading
  <1>4. /\ now' \in 0 .. MaxTime /\ \A a \in Account : bucket[a].last <= now'
        /\ \A c \in Client : clock[c] <= now'
    BY <1>1, <1>2, <1>3, ConstantFacts DEF LimiterHolds, LimiterTyped
  <1>5. QED
    BY <1>1, <1>4 DEF LimiterHolds, LimiterTyped

LEMMA ArriveHolds ==
  ASSUME LimiterHolds, NEW c \in Client, Arrive(c)
  PROVE  LimiterHolds'
  <1>1. /\ clock' = [clock EXCEPT ![c] = now]
        /\ now' = now /\ bucket' = bucket /\ late' = late /\ admitted' = admitted
    BY DEF Arrive
  <1>2. now \in 0 .. MaxTime /\ now <= now
    BY ConstantFacts DEF LimiterHolds, LimiterTyped
  <1>3. /\ clock' \in [Client -> {NoReading} \cup 0 .. MaxTime]
        /\ \A d \in Client : clock'[d] <= now
    BY <1>1, <1>2 DEF LimiterHolds, LimiterTyped
  <1>4. QED
    BY <1>1, <1>3 DEF LimiterHolds, LimiterTyped

LEMMA LimiterAlone ==
  ASSUME LimiterHolds, UNCHANGED limiterVars
  PROVE  LimiterHolds'
  BY DEF LimiterHolds, LimiterTyped, limiterVars

-----------------------------------------------------------------------------
(* The whole.                                                              *)

LEMMA InitHolds == Init => ServerInv
  <1> SUFFICES ASSUME Init PROVE ServerInv
    OBVIOUS
  <1>1. \A c \in Client : Messages[c] \in Seq(Request) /\ Len(Messages[c]) \in Nat
                          /\ DOMAIN Messages[c] = 1 .. Len(Messages[c])
    BY ConstantFacts
  <1>2. /\ asked = [c \in Client |-> 0]
        /\ answer = [c \in Client |-> [n \in DOMAIN Messages[c] |-> None]]
        /\ reader = [s \in Stream |-> "reading"] /\ pending = [s \in Stream |-> <<>>]
        /\ writer = [s \in Stream |-> 0]
        /\ out = [s \in Stream |-> <<>>] /\ got = [s \in Stream |-> <<>>]
        /\ pc = "take" /\ queue = <<>> /\ batch = <<>>
        /\ log = <<>> /\ published = 0 /\ announced = 0
    BY DEF Init
  <1>3. ClientsTyped
    <2>1. asked \in [Client -> Nat] /\ answer = [c \in Client |-> answer[c]]
      BY <1>2
    <2>2. ASSUME NEW c \in Client
          PROVE  /\ asked[c] <= Len(Messages[c])
                 /\ answer[c] \in [DOMAIN Messages[c] -> Codes \cup {None}]
      BY <1>1, <1>2
    <2>3. QED
      BY <2>1, <2>2 DEF ClientsTyped
  <1>4. \A S : <<>> \in Seq(S)
    OBVIOUS
  <1>5. Len(<<>>) = 0 /\ DOMAIN <<>> = {}
    OBVIOUS
  <1>6. StreamsTyped
    BY <1>2, <1>4 DEF StreamsTyped, ReaderStates
  <1>7. MatcherTyped
    BY <1>2, <1>4, <1>5, ConstantFacts DEF MatcherTyped
  <1>8. QueueHolds
    BY <1>2, <1>5 DEF QueueHolds, Ordered, Precedes, Behind
  <1>9. AnswersWait
    BY <1>2, <1>5 DEF AnswersWait
  <1>10. ASSUME NEW s \in Stream PROVE StreamHolds(s)
    <2>1. /\ got[s] = <<>> /\ out[s] = <<>> /\ pending[s] = <<>> /\ writer[s] = 0
          /\ asked[s] = 0 /\ reader[s] = "reading" /\ s \in Client
      BY <1>2, ConstantFacts
    <2>2. Written(s) = 0 /\ Handed(s) = 0 /\ Holds(s) = 0
      BY <1>5, <2>1 DEF Written, Handed, Holds
    <2>3. 1 .. Written(s) = {}
      BY <2>2
    <2>4. Len(pending[s]) <= PendingRoom /\ Len(out[s]) <= OutRoom
      BY <1>5, <2>1, ConstantFacts
    <2>5. Written(s) + Holds(s) + Len(pending[s]) = Handed(s)
      BY <1>5, <2>1, <2>2
    <2>6. writer[s] \in {Ended} \cup 0 .. asked[s] /\ ~(writer[s] > 0) /\ writer[s] # Ended
      BY <2>1 DEF Ended
    <2>7. QED
      BY <1>5, <2>1, <2>2, <2>3, <2>4, <2>5, <2>6 DEF StreamHolds
  <1>11. PipelineHolds
    BY <1>3, <1>6, <1>7, <1>8, <1>9, <1>10 DEF PipelineHolds
  <1>12. FeedsHold
    <2>1. feed = [v \in Subscriber |-> Off] /\ seen = [v \in Subscriber |-> <<>>]
      BY DEF Init
    <2>2. ShownFirst
      BY <1>2, <1>5 DEF ShownFirst
    <2>3. ASSUME NEW v \in Subscriber PROVE FeedRight(v, feed[v], seen[v])
      <3>1. feed[v] = Off /\ seen[v] = <<>>
        BY <2>1
      <3>2. /\ Off \in FeedType /\ Off.out = <<>> /\ Off.state = "off" /\ Off.held = 0
            /\ Off.from = 0 /\ Off.next = 0
        BY <1>4 DEF Off, FeedType, FeedStates
      <3>3. Told(Off, <<>>) = <<>>
        BY <1>4, <3>2, CatEmpty DEF Told
      <3>4. ToSet(<<>>) = {} /\ Rising(<<>>)
        BY <1>5 DEF ToSet, Rising
      <3>5. Concerning(v, Off) = {}
        BY <3>2 DEF Concerning
      <3>6. Len(<<>>) <= FeedRoom
        BY <1>5, ConstantFacts
      <3>7. FeedRight(v, Off, <<>>)
        BY <1>4, <1>5, <3>2, <3>3, <3>4, <3>5, <3>6 DEF FeedRight
      <3>8. QED
        BY <3>1, <3>7
    <2>4. QED
      BY <2>1, <2>2, <2>3 DEF FeedsHold
  <1>13. LimiterHolds
    <2>1. now = 0 /\ admitted = <<>>
          /\ late = [a \in Account |-> 0] /\ clock = [c \in Client |-> NoReading]
          /\ bucket = [a \in Account |-> [tokens |-> Rate * TicksPerSecond, last |-> 0]]
      BY DEF Init
    <2>2. PICK all : all = Rate * TicksPerSecond
      OBVIOUS
    <2>3. all \in Nat
      <3>1. Rate \in Nat /\ TicksPerSecond \in Nat
        BY ConstantFacts
      <3>2. QED
        BY ONLY <2>2, <3>1
    <2>4. [tokens |-> all, last |-> 0] \in Bucket
      BY <2>2, <2>3, ConstantFacts DEF Bucket
    <2>5. bucket \in [Account -> Bucket] /\ \A a \in Account : bucket[a].last <= 0
      BY <2>1, <2>2, <2>4
    <2>6. LimiterTyped
      BY <1>4, <2>1, <2>5, ConstantFacts DEF LimiterTyped, NoReading
    <2>7. Kept(admitted) /\ \A a \in Account : Covered(admitted, Mark(bucket[a], late[a]), a)
      BY <1>5, <2>1 DEF Kept, Covered
    <2>8. QED
      BY <2>6, <2>7 DEF LimiterHolds
  <1>14. QED
    BY <1>11, <1>12, <1>13 DEF ServerInv

LEMMA PipelineStep ==
  ASSUME PipelineHolds, [Next]_vars
  PROVE  PipelineHolds'
  <1>1. CASE Tick \/ \E c \in Client : Arrive(c)
    BY <1>1, OthersHold DEF Tick, Arrive
  <1>2. CASE Matcher
    BY <1>2, TakeHolds, PublishHolds, ReplyBatchHolds DEF Matcher
  <1>3. CASE Stop
    BY <1>3, StopHolds
  <1>4. ASSUME NEW c \in Caller, Call(c) PROVE PipelineHolds'
    BY <1>4, CallHolds
  <1>5. ASSUME NEW s \in Stream, ReadMessage(s) \/ StreamTask(s) \/ ClientReads(s) \/ HangUp(s)
        PROVE  PipelineHolds'
    BY <1>5, ReadMessageHolds, EnqueueHolds, SendPendingHolds, StopReadingHolds,
       NextPendingHolds, WriteResultHolds, ClientReadsHolds, HangUpHolds DEF StreamTask
  <1>6. ASSUME NEW v \in Subscriber, Subscribe(v) \/ FeedTask(v) \/ SubscriberReads(v)
        PROVE  PipelineHolds'
    <2>1. UNCHANGED <<asked, answer, streamVars, matcherVars>>
      BY <1>6 DEF Subscribe, FeedTask, ReceiveEvent, ForwardEvent, SubscriberReads
    <2>2. QED
      BY <2>1, OthersHold
  <1>7. CASE UNCHANGED vars
    BY <1>7, OthersHold DEF vars
  <1>8. QED
    BY <1>1, <1>2, <1>3, <1>4, <1>5, <1>6, <1>7 DEF Next

LEMMA FeedsStep ==
  ASSUME PipelineHolds, FeedsHold, [Next]_vars
  PROVE  FeedsHold'
  <1>1. MatcherTyped /\ published \in Nat /\ announced \in Nat
    BY DEF PipelineHolds, MatcherTyped
  <1>2. CASE Tick \/ \E c \in Client : Arrive(c)
    <2>1. UNCHANGED <<pc, log, published, announced>> /\ UNCHANGED feedVars
      BY <1>2 DEF Tick, Arrive, matcherVars
    <2>2. QED
      BY <1>1, <2>1, FeedsAlone
  <1>3. CASE Matcher
    BY <1>1, <1>3, MatcherTells
  <1>4. CASE Stop
    <2>1. UNCHANGED <<log, published, announced>> /\ pc' # "tell" /\ UNCHANGED feedVars
      BY <1>4 DEF Stop
    <2>2. QED
      BY <1>1, <2>1, FeedsAlone
  <1>5. ASSUME NEW c \in Caller, Call(c) PROVE FeedsHold'
    <2>1. UNCHANGED <<pc, log, published, announced>> /\ UNCHANGED feedVars
      BY <1>5 DEF Call
    <2>2. QED
      BY <1>1, <2>1, FeedsAlone
  <1>6. ASSUME NEW s \in Stream, ReadMessage(s) \/ StreamTask(s) \/ ClientReads(s) \/ HangUp(s)
        PROVE  FeedsHold'
    <2>1. CASE Enqueue(s)
      <3>1. UNCHANGED <<pc, log, published, announced>> /\ UNCHANGED feedVars
        BY <2>1 DEF Enqueue
      <3>2. QED
        BY <1>1, <3>1, FeedsAlone
    <2>2. CASE ~Enqueue(s)
      <3>1. UNCHANGED matcherVars /\ UNCHANGED feedVars
        BY <1>6, <2>2 DEF ReadMessage, StreamTask, SendPending, StopReading, NextPending,
           WriteResult, ClientReads, HangUp
      <3>2. UNCHANGED <<pc, log, published, announced>>
        BY <3>1 DEF matcherVars
      <3>3. QED
        BY <1>1, <3>1, <3>2, FeedsAlone
    <2>3. QED
      BY <2>1, <2>2
  <1>7. ASSUME NEW v \in Subscriber, Subscribe(v) \/ FeedTask(v) \/ SubscriberReads(v)
        PROVE  FeedsHold'
    BY <1>1, <1>7, SubscribeHolds, ReceiveEventHolds, ForwardEventHolds, SubscriberReadsHolds
       DEF FeedTask
  <1>8. CASE UNCHANGED vars
    <2>1. UNCHANGED <<pc, log, published, announced>> /\ UNCHANGED feedVars
      BY <1>8 DEF vars, matcherVars
    <2>2. QED
      BY <1>1, <2>1, FeedsAlone
  <1>9. QED
    BY <1>2, <1>3, <1>4, <1>5, <1>6, <1>7, <1>8 DEF Next

LEMMA LimiterStep ==
  ASSUME LimiterHolds, [Next]_vars
  PROVE  LimiterHolds'
  <1>1. CASE Tick \/ \E c \in Client : Arrive(c)
    BY <1>1, TickHolds, ArriveHolds
  <1>2. CASE Matcher \/ Stop
    <2>1. UNCHANGED limiterVars
      BY <1>2 DEF Matcher, Take, Publish, Announce, ReplyBatch, Stop
    <2>2. QED
      BY <2>1, LimiterAlone
  <1>3. ASSUME NEW c \in Caller, Call(c) PROVE LimiterHolds'
    <2>1. PICK n : n = asked[c] + 1
      OBVIOUS
    <2>2. /\ c \in Client /\ clock[c] # NoReading
          /\ n \in DOMAIN Messages[c] /\ Admit(c, Messages[c][n])
      BY <1>3, <2>1, ConstantFacts DEF Call, Ready
    <2>3. Messages[c][n] \in Request
      BY <2>2, ConstantFacts
    <2>4. QED
      BY <2>2, <2>3, AdmitHolds
  <1>4. ASSUME NEW s \in Stream, ReadMessage(s) \/ StreamTask(s) \/ ClientReads(s) \/ HangUp(s)
        PROVE  LimiterHolds'
    <2>1. CASE ReadMessage(s)
      <3>1. PICK n : n = asked[s] + 1
        OBVIOUS
      <3>2. /\ s \in Client /\ clock[s] # NoReading
            /\ n \in DOMAIN Messages[s] /\ Admit(s, Messages[s][n])
        BY <2>1, <3>1, ConstantFacts DEF ReadMessage, Ready
      <3>3. Messages[s][n] \in Request
        BY <3>2, ConstantFacts
      <3>4. QED
        BY <3>2, <3>3, AdmitHolds
    <2>2. CASE ~ReadMessage(s)
      <3>1. UNCHANGED limiterVars
        BY <1>4, <2>2 DEF StreamTask, Enqueue, SendPending, StopReading, NextPending,
           WriteResult, ClientReads, HangUp
      <3>2. QED
        BY <3>1, LimiterAlone
    <2>3. QED
      BY <2>1, <2>2
  <1>5. ASSUME NEW v \in Subscriber, Subscribe(v) \/ FeedTask(v) \/ SubscriberReads(v)
        PROVE  LimiterHolds'
    <2>1. UNCHANGED limiterVars
      BY <1>5 DEF Subscribe, FeedTask, ReceiveEvent, ForwardEvent, SubscriberReads
    <2>2. QED
      BY <2>1, LimiterAlone
  <1>6. CASE UNCHANGED vars
    BY <1>6, LimiterAlone DEF vars
  <1>7. QED
    BY <1>1, <1>2, <1>3, <1>4, <1>5, <1>6 DEF Next

(* The invariant of the server: where a request's command is decides who   *)
(* answers it, a stream's results are the beginning of its answers, a      *)
(* feed's words those of the events before its next, and an account's      *)
(* bucket, with what its calls had waited for the limiter, covers what it  *)
(* was let through.                                                        *)
THEOREM ServerInvariant == Spec => []ServerInv
  <1>1. Init => ServerInv
    BY InitHolds
  <1>2. ServerInv /\ [Next]_vars => ServerInv'
    BY PipelineStep, FeedsStep, LimiterStep DEF ServerInv
  <1>3. QED
    BY <1>1, <1>2, PTL DEF Spec

-----------------------------------------------------------------------------
(* What it gives.                                                          *)

LEMMA TypesFollow == ServerInv => ServerTypeOK
  <1> SUFFICES ASSUME ServerInv PROVE ServerTypeOK
    OBVIOUS
  <1>1. /\ ClientsTyped /\ StreamsTyped /\ MatcherTyped /\ LimiterTyped
        /\ \A s \in Stream : StreamHolds(s)
        /\ \A v \in Subscriber : FeedRight(v, feed[v], seen[v])
    BY DEF ServerInv, PipelineHolds, FeedsHold, LimiterHolds
  <1>2. ASSUME NEW c \in Client
        PROVE  /\ asked[c] \in 0 .. Len(Messages[c])
               /\ \A n \in DOMAIN answer[c] : answer[c][n] \in Codes \cup {None}
    BY <1>1, ConstantFacts DEF ClientsTyped
  <1>3. ASSUME NEW a \in Account PROVE bucket[a].tokens \in 0 .. Rate * TicksPerSecond
    BY <1>1, BucketFields DEF LimiterTyped
  <1>4. ASSUME NEW s \in Stream
        PROVE  /\ Len(pending[s]) <= PendingRoom /\ Len(out[s]) <= OutRoom
               /\ writer[s] \in {Ended} \cup 0 .. asked[s]
    BY <1>1 DEF StreamHolds
  <1>5. ASSUME NEW v \in Subscriber PROVE Len(feed[v].out) <= FeedRoom
    BY <1>1 DEF FeedRight
  <1>6. now \in 0 .. MaxTime /\ \A c \in Client : clock[c] \in {NoReading} \cup 0 .. now
    BY <1>1, ConstantFacts DEF LimiterTyped
  <1>7. reader \in [Stream -> {"reading", "queueing", "sending", "ended"}]
    BY <1>1 DEF StreamsTyped, ReaderStates
  <1>8. /\ pc \in {"take", "tell", "reply", "stopped"}
        /\ queue \in Seq(Command) /\ Len(queue) <= Capacity /\ Len(batch) <= MaxBatch
    BY <1>1 DEF MatcherTyped
  <1>9. QED
    BY <1>2, <1>3, <1>4, <1>5, <1>6, <1>7, <1>8 DEF ServerTypeOK

LEMMA ResultsFollow ==
  ASSUME PipelineHolds, NEW s \in Stream
  PROVE  /\ \A i \in DOMAIN (got[s] \o out[s]) :
              (got[s] \o out[s])[i] = [of |-> i, code |-> answer[s][i]]
         /\ \A i, j \in DOMAIN log :
              i < j /\ log[i].by = s /\ log[j].by = s => log[i].n < log[j].n
  <1>1. PICK g, o : g = got[s] /\ o = out[s]
    OBVIOUS
  <1>2. g \in Seq(Reply) /\ o \in Seq(Reply)
    BY <1>1 DEF PipelineHolds, StreamsTyped
  <1>3. /\ \A i \in DOMAIN g : g[i] = [of |-> i, code |-> answer[s][i]]
        /\ \A i \in DOMAIN o : o[i] = [of |-> Len(g) + i, code |-> answer[s][Len(g) + i]]
    BY <1>1 DEF PipelineHolds, StreamHolds
  <1>4. PICK t : t = g \o o
    OBVIOUS
  <1>5. /\ Len(g) \in Nat /\ Len(o) \in Nat /\ DOMAIN g = 1 .. Len(g) /\ DOMAIN o = 1 .. Len(o)
        /\ DOMAIN t = 1 .. Len(g) + Len(o)
        /\ \A i \in 1 .. Len(g) + Len(o) : t[i] = IF i <= Len(g) THEN g[i] ELSE o[i - Len(g)]
    <2>1. /\ g \o o \in Seq(Reply) /\ Len(g \o o) = Len(g) + Len(o)
          /\ \A i \in 1 .. Len(g) + Len(o) :
               (g \o o)[i] = IF i <= Len(g) THEN g[i] ELSE o[i - Len(g)]
      BY <1>2, ConcatProperties
    <2>2. Len(g) \in Nat /\ Len(o) \in Nat /\ DOMAIN g = 1 .. Len(g) /\ DOMAIN o = 1 .. Len(o)
      BY <1>2
    <2>3. DOMAIN (g \o o) = 1 .. Len(g \o o)
      BY <2>1
    <2>4. QED
      BY <1>4, <2>1, <2>2, <2>3
  <1>6. ASSUME NEW i \in DOMAIN t PROVE t[i] = [of |-> i, code |-> answer[s][i]]
    <2>1. CASE i <= Len(g)
      <3>1. i \in DOMAIN g /\ t[i] = g[i]
        BY <1>5, <2>1
      <3>2. QED
        BY <1>3, <3>1
    <2>2. CASE i > Len(g)
      <3>1. PICK k : k = i - Len(g)
        OBVIOUS
      <3>2. k \in DOMAIN o /\ t[i] = o[k] /\ Len(g) + k = i
        BY <1>5, <2>2, <3>1
      <3>3. QED
        BY <1>3, <3>2
    <2>3. QED
      BY <1>5, <2>1, <2>2
  <1>7. ASSUME NEW i \in DOMAIN log, NEW j \in DOMAIN log, i < j, log[i].by = s, log[j].by = s
        PROVE  log[i].n < log[j].n
    BY <1>7 DEF PipelineHolds, QueueHolds, Ordered, Follows
  <1>8. QED
    BY <1>1, <1>4, <1>6, <1>7

(* The i-th result of a stream answers its i-th request, and its orders    *)
(* were executed in the order it sent them, for streams of any length,     *)
(* channels of any size and however the tasks take turns.                  *)
THEOREM InOrder == Spec => []RepliesInOrder
  <1>1. ServerInv => RepliesInOrder
    <2>1. ServerInv => PipelineHolds /\ ServerTypeOK
      BY TypesFollow DEF ServerInv
    <2>2. QED
      BY <2>1, ResultsFollow DEF RepliesInOrder
  <1>2. QED
    BY <1>1, ServerInvariant, PTL

(* From one mutation let through to another, an account gets no more than  *)
(* its burst, and its rate for the time between their readings of the      *)
(* clock and for as long as its calls in between had waited for the        *)
(* limiter's lock, whatever the rate is and however the calls overtake     *)
(* each other on the way to the lock.                                      *)
THEOREM RateIsKept == Spec => []RateKeptButForWaits
  <1>1. ServerInv => RateKeptButForWaits
    <2> SUFFICES ASSUME ServerInv, NEW i \in DOMAIN admitted, NEW j \in DOMAIN admitted,
                        i <= j, admitted[i].account = admitted[j].account
                 PROVE  (Cardinality(Through(admitted, admitted[i].account, i, j)) - Rate)
                            * TicksPerSecond
                          <= Rate * ((admitted[j].at - admitted[i].at)
                                       + (admitted[j].late - admitted[i].late))
      BY DEF RateKeptButForWaits, Through
    <2>1. admitted \in Seq(Admission) /\ Kept(admitted)
      BY DEF ServerInv, LimiterHolds, LimiterTyped
    <2>2. \A k \in DOMAIN admitted : admitted[k] \in Admission
      BY <2>1
    <2>3. PICK e, f : e = admitted[i] /\ f = admitted[j]
      OBVIOUS
    <2>4. e.at \in Nat /\ e.late \in Nat /\ f.at \in Nat /\ f.late \in Nat
      BY <2>2, <2>3 DEF Admission
    <2>5. Paid(f) - Paid(e) = (f.at - e.at) + (f.late - e.late)
      BY <2>4 DEF Paid
    <2>6. (Cardinality(Through(admitted, e.account, i, j)) - Rate) * TicksPerSecond
            <= Rate * (Paid(f) - Paid(e))
      BY <2>1, <2>3 DEF Kept
    <2>7. QED
      BY <2>3, <2>5, <2>6
  <1>2. QED
    BY <1>1, ServerInvariant, PTL

LEMMA ToldFollows ==
  ASSUME ShownFirst, published \in Nat, announced \in Nat, log \in Seq(Event),
         NEW v \in Subscriber, NEW f, NEW read, FeedRight(v, f, read),
         NEW told, f.held > 0 => told = Plus(Told(f, read), f.held),
         ~(f.held > 0) => told = Told(f, read)
  PROVE  /\ ToSet(told) \ {Loss} = Concerning(v, f)
         /\ \A i, j \in DOMAIN told : i < j => told[i] < told[j] \/ told[j] = Loss
         /\ \A i \in DOMAIN told : told[i] = Loss => i = Len(told) /\ f.state = "ended"
         /\ \A i \in DOMAIN told : told[i] <= published
  <1>1. f \in FeedType /\ read \in Seq(Nat) /\ f.held \in Nat /\ f.next \in Nat /\ f.from \in Nat
    BY FeedFields DEF FeedRight
  <1>2. PICK t : t = Told(f, read)
    OBVIOUS
  <1>3. /\ t \in Seq(Nat) /\ Rising(t) /\ ToSet(t) \ {Loss} = Concerning(v, f) \ {f.held}
        /\ \A i \in DOMAIN t : t[i] \in Nat
        /\ \A i \in DOMAIN t : t[i] = Loss => i = Len(t) /\ f.state = "ended"
    BY <1>1, <1>2, ToldFacts DEF FeedRight
  <1>4. \A k \in Concerning(v, f) : k # 0 /\ k \in Nat /\ k <= published
    <2>1. CASE f.state = "off"
      <3>1. f.from = 0 /\ f.next = 0
        BY <2>1 DEF FeedRight, Off
      <3>2. QED
        BY <3>1 DEF Concerning
    <2>2. CASE f.state # "off"
      <3>1. f.next <= announced + 1 /\ announced <= published
        BY <2>2 DEF FeedRight, ShownFirst
      <3>2. \A k \in Concerning(v, f) : k \in Nat /\ k < f.next /\ k # 0
        BY <1>1, ConcerningFacts
      <3>3. QED
        BY <1>1, <3>1, <3>2
    <2>3. QED
      BY <2>1, <2>2
  <1>5. CASE f.held > 0
    <2>1. /\ f.state = "on" /\ f.held \in Concerning(v, f) /\ \A i \in DOMAIN t : t[i] < f.held
      BY <1>2, <1>5 DEF FeedRight
    <2>2. told = Plus(t, f.held) /\ \A i \in DOMAIN t : t[i] # Loss
      BY <1>2, <1>3, <1>5, <2>1
    <2>3. f.held # Loss
      BY <1>1, <1>5 DEF Loss
    <2>4. /\ told \in Seq(Nat) /\ Rising(told) /\ ToSet(told) = ToSet(t) \cup {f.held}
          /\ \A i \in DOMAIN told : told[i] # Loss
      <3>1. PICK x : x = f.held
        OBVIOUS
      <3>2. /\ x \in Nat /\ told = Plus(t, x) /\ \A i \in DOMAIN t : t[i] < x
            /\ \A i \in DOMAIN t : t[i] # Loss
        BY <1>1, <2>1, <2>2, <3>1
      <3>3. /\ told \in Seq(Nat) /\ Rising(told) /\ ToSet(told) = ToSet(t) \cup {x}
            /\ \A i \in DOMAIN told : told[i] = Loss => x = Loss
        BY <1>3, <3>2, ToldMore
      <3>4. QED
        BY <2>3, <3>1, <3>3
    <2>5. ToSet(told) \ {Loss} = Concerning(v, f)
      BY <1>3, <2>1, <2>3, <2>4
    <2>6. \A i \in DOMAIN told : told[i] <= published
      <3>1. \A i \in DOMAIN told : told[i] \in ToSet(told) \ {Loss}
        BY <2>4 DEF ToSet
      <3>2. QED
        BY <1>4, <2>5, <3>1
    <2>7. QED
      BY <2>4, <2>5, <2>6 DEF Rising
  <1>6. CASE ~(f.held > 0)
    <2>1. told = t /\ f.held = 0
      BY <1>1, <1>2, <1>6
    <2>2. ToSet(t) \ {Loss} = Concerning(v, f)
      BY <1>3, <1>4, <2>1
    <2>3. \A i \in DOMAIN t : t[i] <= published
      <3>1. \A i \in DOMAIN t : t[i] \in ToSet(t)
        BY DEF ToSet
      <3>2. \A i \in DOMAIN t : t[i] = 0 \/ t[i] \in Concerning(v, f)
        BY <2>2, <3>1 DEF Loss
      <3>3. QED
        BY <1>4, <3>2
    <2>4. QED
      BY <1>3, <2>1, <2>2, <2>3 DEF Rising
  <1>7. QED
    BY <1>5, <1>6

(* A subscriber is told of every event that involves it since it           *)
(* subscribed, in order, of each once and of no other, until it is told    *)
(* that it lagged, for buffers of any size and readers of any slowness.    *)
THEOREM NoSilentGap == Spec => []FeedHasNoSilentGap
  <1>1. ServerInv => FeedHasNoSilentGap
    <2> SUFFICES ASSUME ServerInv PROVE FeedHasNoSilentGap
      OBVIOUS
    <2>1. /\ ShownFirst /\ published \in Nat /\ announced \in Nat /\ log \in Seq(Event)
          /\ \A v \in Subscriber : FeedRight(v, feed[v], seen[v])
      BY DEF ServerInv, PipelineHolds, FeedsHold, MatcherTyped
    <2>2. ASSUME NEW v \in Subscriber
          PROVE  LET told == Forwarded(v)
                 IN /\ ToSet(told) \ {Loss}
                         = {k \in feed[v].from + 1 .. feed[v].next - 1 : Involves(v, k)}
                    /\ \A i, j \in DOMAIN told : i < j => told[i] < told[j] \/ told[j] = Loss
                    /\ \A i \in DOMAIN told :
                         told[i] = Loss => i = Len(told) /\ feed[v].state = "ended"
                    /\ \A i \in DOMAIN told : told[i] <= published
      <3>1. PICK f, read, told : f = feed[v] /\ read = seen[v] /\ told = Forwarded(v)
        OBVIOUS
      <3>2. FeedRight(v, f, read) /\ f \in FeedType /\ read \in Seq(Nat)
        BY <2>1, <3>1 DEF FeedRight
      <3>3. /\ f.held > 0 => told = Plus(Told(f, read), f.held)
            /\ ~(f.held > 0) => told = Told(f, read)
        <4>1. PICK t : t = Told(f, read)
          OBVIOUS
        <4>2. t \in Seq(Nat) /\ f.held \in Nat /\ f.out \in Seq(Nat)
          BY <3>2, <4>1, ToldFacts, FeedFields
        <4>3. told = Cat(t, IF f.held > 0 THEN <<f.held>> ELSE <<>>)
          BY <3>1, <4>1 DEF Forwarded, Told, Cat
        <4>4. Cat(t, <<f.held>>) = Plus(t, f.held)
          BY <4>2, PlusIsCat
        <4>5. Cat(t, <<>>) = t
          BY <4>2, CatEmpty
        <4>6. QED
          BY <4>1, <4>3, <4>4, <4>5
      <3>4. /\ ToSet(told) \ {Loss} = Concerning(v, f)
            /\ \A i, j \in DOMAIN told : i < j => told[i] < told[j] \/ told[j] = Loss
            /\ \A i \in DOMAIN told : told[i] = Loss => i = Len(told) /\ f.state = "ended"
            /\ \A i \in DOMAIN told : told[i] <= published
        BY <2>1, <3>2, <3>3, ToldFollows
      <3>5. QED
        BY <3>1, <3>4 DEF Concerning
    <2>3. QED
      BY <2>2 DEF FeedHasNoSilentGap
  <1>2. QED
    BY <1>1, ServerInvariant, PTL
=============================================================================
