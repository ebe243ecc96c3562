-------------------------- MODULE ServerInvariants --------------------------
(***************************************************************************)
(* What the engine's server promises its clients.                          *)
(***************************************************************************)
EXTENDS Server

(* Every variable has its type, and no channel holds more than its room.   *)
ServerTypeOK ==
  /\ now \in 0 .. MaxTime
  /\ \A a \in Account : bucket[a].tokens \in 0 .. Rate * TicksPerSecond
  /\ \A c \in Client : clock[c] \in {NoReading} \cup 0 .. now
  /\ \A c \in Client : asked[c] \in 0 .. Len(Messages[c])
  /\ \A c \in Client : \A n \in DOMAIN answer[c] : answer[c][n] \in Codes \cup {None}
  /\ reader \in [Stream -> {"reading", "queueing", "sending", "ended"}]
  /\ \A s \in Stream :
       /\ Len(pending[s]) <= PendingRoom /\ Len(out[s]) <= OutRoom
       /\ writer[s] \in {Ended} \cup 0 .. asked[s]
  /\ pc \in {"take", "tell", "reply", "stopped"}
  /\ queue \in Seq(Command) /\ Len(queue) <= Capacity /\ Len(batch) <= MaxBatch
  /\ \A v \in Subscriber : Len(feed[v].out) <= FeedRoom

(* A pipelined client can only tell its results apart by their order: the  *)
(* i-th result is the answer to its i-th request, and the matcher executed *)
(* its orders in that order too, whatever was refused in between and       *)
(* however many tasks and channels they went through.                      *)
RepliesInOrder ==
  /\ ServerTypeOK
  /\ \A s \in Stream :
       /\ \A i \in DOMAIN (got[s] \o out[s]) :
            (got[s] \o out[s])[i] = [of |-> i, code |-> answer[s][i]]
       /\ \A i, j \in DOMAIN log :
            i < j /\ log[i].by = s /\ log[j].by = s => log[i].n < log[j].n

(* Over any stretch of time an account gets no more mutations through than *)
(* one second's burst and its rate for as long as the stretch is: what the *)
(* configuration says of account_rate_per_sec. A mutation is placed where  *)
(* it read the clock, on its arrival. The code does not keep this.         *)
RateKept ==
  \A a \in Account : \A from \in 0 .. MaxTime : \A to \in from .. MaxTime :
    LET through == {k \in DOMAIN admitted :
                      admitted[k].account = a /\ admitted[k].at \in from .. to}
    IN (Cardinality(through) - Rate) * TicksPerSecond <= Rate * (to - from)

(* What the code keeps: a call that waited for the limiter's lock may set  *)
(* the bucket's time back, for later calls to be credited again, but never *)
(* by more than it waited. So from one mutation let through to another, an *)
(* account gets the burst, and its rate for the time from the first one's  *)
(* reading of the clock to the last one's and for as long as its calls     *)
(* after the first, refused ones too, had waited between reading the clock *)
(* and holding the lock.                                                   *)
RateKeptButForWaits ==
  \A i, j \in DOMAIN admitted :
    i <= j /\ admitted[i].account = admitted[j].account =>
      LET through == {k \in i .. j : admitted[k].account = admitted[i].account}
          stretch == admitted[j].at - admitted[i].at
          waited == admitted[j].late - admitted[i].late
      IN (Cardinality(through) - Rate) * TicksPerSecond <= Rate * (stretch + waited)

(* What a subscription has forwarded to its client, or is about to.        *)
Forwarded(v) ==
  seen[v] \o feed[v].out \o (IF feed[v].held > 0 THEN <<feed[v].held>> ELSE <<>>)

(* A subscriber gets every event since it subscribed that involves it, and *)
(* no other, in order and once, until it is told that it lagged, which is  *)
(* the last it gets. What it gets, the book it can read shows already.     *)
FeedHasNoSilentGap ==
  \A v \in Subscriber :
    LET told == Forwarded(v)
    IN /\ ToSet(told) \ {Loss} = {k \in feed[v].from + 1 .. feed[v].next - 1 : Involves(v, k)}
       /\ \A i, j \in DOMAIN told : i < j => told[i] < told[j] \/ told[j] = Loss
       /\ \A i \in DOMAIN told : told[i] = Loss => i = Len(told) /\ feed[v].state = "ended"
       /\ \A i \in DOMAIN told : told[i] <= published

(* How many requests of a client have reached the server.                  *)
Arrived(c) == IF clock[c] = NoReading THEN asked[c] ELSE asked[c] + 1

(* Whoever waits is answered: a call always, also when streams are full    *)
(* and subscribers do not read; a stream's request, while its client reads *)
(* or until it hangs up. As clients make finitely many requests, it is     *)
(* enough that again and again nobody waits.                               *)
EveryoneIsServed ==
  /\ \A c \in Caller : []<>(\A n \in 1 .. Arrived(c) : answer[c][n] # None)
  /\ \A s \in Stream :
       []<>(out[s] = <<>>) =>
         []<>(Len(got[s] \o out[s]) >= Arrived(s) \/ s \in hungUp)
=============================================================================
