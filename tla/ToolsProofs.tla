----------------------------- MODULE ToolsProofs -----------------------------
(***************************************************************************)
(* The acting tools of Tools.tla, for every value of their constants: the  *)
(* charges cover whatever the engine executed or still may, and the limits *)
(* on open orders and on actions in a minute hold.                         *)
(***************************************************************************)
EXTENDS ToolsInvariants, SequenceLemmas

ToolNames == {"none", "place", "cancel", "cancel_all"}
Outcomes == {"none", "waiting", "ok", "match", "nothing"} \cup Codes
SentKey == Key \cup {Blank, Unsafe}

CallRecord ==
  [step : Steps, tool : ToolNames, key : SentKey, order : Orders \cup {NoOrder},
   reference : Int, open : Nat, now : Nat, answer : Outcomes, acted : BOOLEAN]

RequestRecord ==
  [call : Call \cup {NoCall}, kind : Remote, key : SentKey, order : Orders \cup {NoOrder}]
BookRecord == [key : Key, order : Orders, live : BOOLEAN]

PolicyRight ==
  /\ cfg \in Configs /\ actions \in Seq(0 .. MaxClock) /\ used \in Nat
  /\ clock \in 0 .. MaxClock

BookRight == book \in Seq(BookRecord)

Placing(d) == d.tool = "place" /\ d.step \notin {"idle", "lock", "done"}

(* One call: a placement has its order from the lock on and its key from   *)
(* the reading of the market on; only a call to the engine has an answer.  *)
CallRight(d, t) ==
  /\ d \in CallRecord
  /\ d.step = "idle" => d.tool = "none"
  /\ d.step \in {"lock", "market", "list", "count", "place"} => d.tool = "place"
  /\ d.step \in {"clock", "check"} => d.tool # "none"
  /\ d.step \in {"cancel", "cancel_all"} => d.tool = d.step
  /\ Placing(d) => d.order \in Orders
  /\ Placing(d) /\ d.step # "market" => d.key \in Key
  /\ d.step \notin Remote => d.answer = "none"
  /\ d.acted => d.step \in {"place", "cancel", "cancel_all", "done"}
  /\ d.step = "check" => d.now <= t

(* Exactly the holder of the lock is placing an order.                     *)
CallsRight ==
  /\ call \in [Call -> CallRecord]
  /\ holder \in Call \cup {NoCall}
  /\ \A c \in Call : CallRight(call[c], clock) /\ (holder = c <=> Placing(call[c]))

(* A request of a call is the one the call is waiting with; reads nobody   *)
(* waits for are gone.                                                     *)
Matches(r, calls) ==
  IF r.call = NoCall THEN r.kind \notin {"list", "count"}
  ELSE /\ calls[r.call].answer = "waiting" /\ calls[r.call].step = r.kind
       /\ calls[r.call].key = r.key /\ calls[r.call].order = r.order

(* No placement is queued behind a count.                                  *)
QueueRight ==
  /\ queue \in Seq(RequestRecord)
  /\ Len(queue) <= QueueRoom
  /\ \A i \in DOMAIN queue :
       /\ Matches(queue[i], call)
       /\ queue[i].kind = "place" => queue[i].key \in Key /\ queue[i].order \in Orders
  /\ \A i, j \in DOMAIN queue : queue[i].call = queue[j].call => i = j \/ queue[i].call = NoCall
  /\ \A i, j \in DOMAIN queue : i < j /\ queue[i].kind = "count" => queue[j].kind # "place"

(* From the count of open orders to the sending of the placement, what the *)
(* call counted bounds what is open: the lock keeps other placements out.  *)
Counted(d) ==
  \/ d.step = "count" /\ d.answer = "ok"
  \/ d.step \in {"clock", "check"}
  \/ d.step = "place" /\ d.answer = "none"

CountRight ==
  \A c \in Call :
    /\ holder = c /\ Counted(call[c]) =>
         QueuedPlaces = {} /\ Cardinality(LiveOrders) <= call[c].open
    /\ call[c].step = "place" /\ call[c].answer = "none" => call[c].open < cfg.maxOpenOrders

(* A charge the engine has no order for yet, or is not sure to have.       *)
Charge(d) ==
  IF d.step = "place" /\ d.answer \in {"none"} \cup Definitive THEN Notional(d.order) ELSE 0
Unsettled == IF holder = NoCall THEN 0 ELSE Charge(call[holder])

ChargesRight ==
  /\ Value(book, DOMAIN book) + Value(queue, QueuedPlaces) + Unsettled <= used
  /\ used <= cfg.sessionCap

(* Each recent action has an entry of its own in the window.               *)
Recent == {c \in Call : call[c].acted /\ clock - call[c].now <= Minute}
WindowRight ==
  /\ Len(actions) <= cfg.actionsPerMinute
  /\ \E f \in [Recent -> DOMAIN actions] :
       /\ \A c \in Recent : actions[f[c]] = call[c].now
       /\ \A c, d \in Recent : f[c] = f[d] => c = d

ToolsInv ==
  /\ PolicyRight /\ BookRight /\ CallsRight /\ QueueRight
  /\ CountRight /\ OpenOrdersWithinLimit /\ ChargesRight /\ WindowRight

-----------------------------------------------------------------------------
(* The bounds' assumptions, and what an order comes to.                    *)
LEMMA Assumed ==
  /\ Call \subseteq Nat /\ NoCall \notin Call
  /\ Orders \subseteq Order /\ NoOrder \notin Orders
  /\ \A o \in Orders : Notional(o) \in Nat /\ Notional(o) > 0
  /\ QueueRoom \in Nat /\ MaxClock \in Nat /\ Minute \in Nat /\ Key \subseteq Int
  <1>1. /\ Call \subseteq Nat /\ NoCall \notin Call /\ Orders \subseteq Order
        /\ QueueRoom \in Nat /\ MaxClock \in Nat /\ Minute \in Nat /\ Keys \subseteq Nat
    BY ToolsAssumption, PolicyAssumption
  <1>2. NoOrder \notin Orders
    BY <1>1 DEF NoOrder, Order
  <1>3. ASSUME NEW o \in Orders PROVE Notional(o) \in Nat /\ Notional(o) > 0
    <2>1. o.price \in Nat \ {0} /\ o.qty \in Nat \ {0}
      BY <1>1 DEF Order
    <2>2. \A k, l \in Nat \ {0} : k * l \in Nat /\ k * l > 0
      BY SMT
    <2>3. QED
      BY <2>1, <2>2 DEF Notional
  <1>4. Key \subseteq Int
    <2>1. \A k \in Key : k \in Keys \/ k \in Call
      BY DEF Key, NewKey
    <2>2. Nat \subseteq Int
      OBVIOUS
    <2>3. QED
      BY <1>1, <2>1, <2>2, Zenon
  <1>5. QED
    BY <1>1, <1>2, <1>3, <1>4

LEMMA LimitsAreNumbers ==
  ASSUME PolicyRight
  PROVE  /\ cfg \in Configs /\ cfg.maxOpenOrders \in Nat /\ cfg.actionsPerMinute \in Nat
         /\ cfg.sessionCap \in Nat /\ cfg.halted \in BOOLEAN
         /\ used \in Nat /\ clock \in Nat /\ clock <= MaxClock
  <1>1. cfg \in PolicyConfig /\ clock \in 0 .. MaxClock /\ used \in Nat /\ cfg \in Configs
    BY PolicyAssumption DEF PolicyRight
  <1>2. MaxClock \in Nat
    BY Assumed
  <1>3. QED
    BY <1>1, <1>2 DEF PolicyConfig

(* A step of one call's own: the other calls stay as they are.             *)
Becomes(c) ==
  /\ call' \in [Call -> CallRecord]
  /\ \A e \in Call \ {c} : call'[e] = call[e]

(* What a return leaves of a call.                                         *)
LEMMA Returning ==
  ASSUME NEW calls \in [Call -> CallRecord], NEW c \in Call, ReturnFrom(calls, c)
  PROVE  /\ call' \in [Call -> CallRecord]
         /\ \A e \in Call \ {c} : call'[e] = calls[e]
         /\ call'[c].step = "done" /\ call'[c].answer = "none"
         /\ call'[c].acted = calls[c].acted
         /\ call'[c].acted => call'[c].now = calls[c].now
         /\ holder' = IF holder = c THEN NoCall ELSE holder
  <1> DEFINE r == [Idle EXCEPT !.step = "done",
                               !.tool = IF calls[c].tool = "place" THEN "place" ELSE "none",
                               !.now = IF calls[c].acted THEN calls[c].now ELSE 0,
                               !.acted = calls[c].acted]
  <1>1. calls[c] \in CallRecord
    OBVIOUS
  <1>2. r \in CallRecord
    <2>1. /\ Blank \in SentKey /\ NoOrder \in Orders \cup {NoOrder} /\ 0 \in Nat /\ 0 \in Int
          /\ "done" \in Steps /\ "none" \in Outcomes /\ "none" \in ToolNames /\ "place" \in ToolNames
      BY DEF Steps, ToolNames, Outcomes, SentKey
    <2>2. /\ (IF calls[c].acted THEN calls[c].now ELSE 0) \in Nat
          /\ (IF calls[c].tool = "place" THEN "place" ELSE "none") \in ToolNames
          /\ calls[c].acted \in BOOLEAN
      BY <1>1, <2>1 DEF CallRecord
    <2>3. Idle \in CallRecord
      BY <2>1 DEF Idle, CallRecord, Steps
    <2>4. QED
      BY <2>1, <2>2, <2>3 DEF CallRecord
  <1>3. /\ r.step = "done" /\ r.answer = "none" /\ r.acted = calls[c].acted
        /\ r.acted => r.now = calls[c].now
    BY <1>1 DEF Idle, CallRecord
  <1>4. /\ call' = [calls EXCEPT ![c] = r]
        /\ holder' = IF holder = c THEN NoCall ELSE holder
    BY DEF ReturnFrom
  <1> HIDE DEF r
  <1>5. call'[c] = r /\ call' \in [Call -> CallRecord] /\ \A e \in Call \ {c} : call'[e] = calls[e]
    BY <1>2, <1>4
  <1>6. QED
    BY <1>3, <1>4, <1>5

-----------------------------------------------------------------------------
(* What a step of one call's own leaves, conjunct by conjunct.             *)
LEMMA OwnCalls ==
  ASSUME CallsRight, NEW c \in Call, Becomes(c), clock' = clock,
         CallRight(call'[c], clock), holder' \in {holder, c, NoCall},
         \A e \in Call \ {c} : holder' = e <=> holder = e,
         holder' = c <=> Placing(call'[c])
  PROVE  CallsRight'
  <1>1. \A e \in Call : CallRight(call'[e], clock) /\ (holder' = e <=> Placing(call'[e]))
    BY DEF CallsRight, Becomes
  <1>2. holder' \in Call \cup {NoCall} /\ call' \in [Call -> CallRecord]
    BY DEF CallsRight, Becomes
  <1>3. \A e \in Call : CallRight(call'[e], clock')
    BY <1>1
  <1>4. QED
    BY <1>1, <1>2, <1>3 DEF CallsRight, CallRight, Placing, CallRecord, RequestRecord, Outcomes, SentKey

LEMMA OwnQueue ==
  ASSUME QueueRight, NEW c \in Call, Becomes(c), queue' = queue, call[c].answer # "waiting"
  PROVE  QueueRight'
  <1>1. \A i \in DOMAIN queue : Matches(queue[i], call')
    <2>1. SUFFICES ASSUME NEW i \in DOMAIN queue PROVE Matches(queue[i], call')
      OBVIOUS
    <2>2. Matches(queue[i], call) /\ queue[i] \in RequestRecord
      BY DEF QueueRight
    <2>3. queue[i].call # c
      BY <2>2, Assumed DEF Matches
    <2>4. QED
      BY <2>2, <2>3 DEF Matches, Becomes, RequestRecord
  <1>2. QED
    BY <1>1 DEF QueueRight, Matches

LEMMA OwnCount ==
  ASSUME CountRight, NEW c \in Call, Becomes(c), UNCHANGED <<queue, book, cfg>>,
         \A e \in Call \ {c} : holder' = e <=> holder = e,
         holder' = c /\ Counted(call'[c]) => holder = c /\ Counted(call[c]) /\ call'[c].open = call[c].open,
         call'[c].step = "place" /\ call'[c].answer = "none" => call'[c].open < cfg.maxOpenOrders
  PROVE  CountRight'
  <1>1. QueuedPlaces' = QueuedPlaces /\ LiveOrders' = LiveOrders
    BY DEF QueuedPlaces, LiveOrders
  <1>2. ASSUME NEW e \in Call
        PROVE  /\ holder' = e /\ Counted(call'[e]) =>
                    QueuedPlaces = {} /\ Cardinality(LiveOrders) <= call'[e].open
               /\ call'[e].step = "place" /\ call'[e].answer = "none"
                    => call'[e].open < cfg.maxOpenOrders
    <2>1. CASE e = c
      BY <2>1 DEF CountRight
    <2>2. CASE e # c
      BY <2>2 DEF CountRight, Becomes
    <2>3. QED
      BY <2>1, <2>2
  <1>3. QED
    BY <1>1, <1>2 DEF CountRight, Counted

LEMMA OwnLimit ==
  ASSUME OpenOrdersWithinLimit, UNCHANGED <<queue, book, cfg>>
  PROVE  OpenOrdersWithinLimit'
  BY DEF OpenOrdersWithinLimit, QueuedPlaces, LiveOrders

(* The window does for whatever is left of the recent actions.             *)
LEMMA WindowShrinks ==
  ASSUME WindowRight, UNCHANGED <<actions, cfg>>,
         \A e \in Recent' : e \in Recent /\ call'[e].now = call[e].now
  PROVE  WindowRight'
  <1>1. PICK f \in [Recent -> DOMAIN actions] :
          /\ \A e \in Recent : actions[f[e]] = call[e].now
          /\ \A e, d \in Recent : f[e] = f[d] => e = d
    BY DEF WindowRight
  <1> DEFINE g == [e \in Recent' |-> f[e]]
  <1>2. /\ g \in [Recent' -> DOMAIN actions]
        /\ \A e \in Recent' : actions[g[e]] = call'[e].now
        /\ \A e, d \in Recent' : g[e] = g[d] => e = d
    BY <1>1
  <1> HIDE DEF g
  <1>3. \E h \in [Recent' -> DOMAIN actions] :
          /\ \A e \in Recent' : actions[h[e]] = call'[e].now
          /\ \A e, d \in Recent' : h[e] = h[d] => e = d
    BY <1>2
  <1>4. Len(actions) <= cfg.actionsPerMinute
    BY DEF WindowRight
  <1>5. QED
    BY <1>3, <1>4 DEF WindowRight

LEMMA OwnWindow ==
  ASSUME WindowRight, NEW c \in Call, Becomes(c), UNCHANGED <<clock, actions, cfg>>,
         call'[c].acted => call[c].acted /\ call'[c].now = call[c].now
  PROVE  WindowRight'
  <1>1. \A e \in Recent' : e \in Recent /\ call'[e].now = call[e].now
    BY DEF Recent, Becomes
  <1>2. QED
    BY <1>1, WindowShrinks

-----------------------------------------------------------------------------
(* What lists of orders come to.                                           *)
LEMMA ValueIsNatural ==
  ASSUME NEW list, NEW places, IsFiniteSet(places),
         \A i \in places : list[i].order \in Orders
  PROVE  Value(list, places) \in Nat
  <1> DEFINE f == [i \in places |-> Notional(list[i].order)]
  <1>1. \A i \in places : f[i] \in Nat
    BY Assumed
  <1> HIDE DEF f
  <1>2. SumFunctionOnSet(f, places) \in Nat
    BY <1>1, SumOfNaturals
  <1>3. QED
    BY <1>2 DEF Value, f

(* One more place adds its order's value.                                  *)
LEMMA ValueAdds ==
  ASSUME NEW list, NEW places, IsFiniteSet(places), NEW i \in places,
         \A j \in places : list[j].order \in Orders
  PROVE  Value(list, places) = Notional(list[i].order) + Value(list, places \ {i})
  <1> DEFINE f == [j \in places |-> Notional(list[j].order)]
             g == [j \in places \ {i} |-> Notional(list[j].order)]
  <1>1. \A j \in places : f[j] \in Int
    BY Assumed
  <1>2. \A j \in places \ {i} : f[j] \in Int /\ g[j] = f[j]
    BY <1>1
  <1>3. f[i] = Notional(list[i].order)
    OBVIOUS
  <1>4. IsFiniteSet(places \ {i})
    BY FS_RemoveElement
  <1> HIDE DEF f, g
  <1>5. SumFunctionOnSet(f, places) = f[i] + SumFunctionOnSet(f, places \ {i})
    BY <1>1, SumRemove
  <1>6. SumFunctionOnSet(f, places \ {i}) = SumFunctionOnSet(g, places \ {i})
    BY <1>2, <1>4, SumSame
  <1>7. QED
    BY <1>3, <1>5, <1>6 DEF Value, f, g

(* The same orders, in whatever places, come to the same.                  *)
LEMMA ValueMoves ==
  ASSUME NEW list, NEW places, IsFiniteSet(places), NEW other, NEW b, NEW elsewhere,
         \A i \in places : list[i].order \in Orders /\ list[i].order = other[b[i]].order,
         \A i, j \in places : b[i] = b[j] => i = j,
         elsewhere = {b[i] : i \in places}
  PROVE  Value(list, places) = Value(other, elsewhere)
  <1> DEFINE g == [i \in places |-> Notional(list[i].order)]
             f == [i \in elsewhere |-> Notional(other[i].order)]
  <1>1. \A i \in places : g[i] \in Int /\ g[i] = f[b[i]]
    <2>1. SUFFICES ASSUME NEW i \in places PROVE g[i] \in Int /\ g[i] = f[b[i]]
      OBVIOUS
    <2>2. g[i] = Notional(list[i].order) /\ g[i] \in Int
      BY Assumed
    <2>3. b[i] \in elsewhere
      OBVIOUS
    <2>4. f[b[i]] = Notional(other[b[i]].order)
      BY <2>3
    <2>5. QED
      BY <2>2, <2>4
  <1> HIDE DEF f, g
  <1>2. SumFunctionOnSet(g, places) = SumFunctionOnSet(f, elsewhere)
    <2>1. /\ IsFiniteSet(places) /\ \A x \in places : g[x] \in Int /\ g[x] = f[b[x]]
          /\ \A x, y \in places : b[x] = b[y] => x = y
          /\ elsewhere = {b[x] : x \in places}
      BY <1>1
    <2>2. QED
      BY ONLY <2>1, SumByNames
  <1>3. QED
    BY <1>2 DEF Value, f, g

LEMMA ValueSame ==
  ASSUME NEW list, NEW places, IsFiniteSet(places), NEW other,
         \A i \in places : list[i].order \in Orders /\ list[i].order = other[i].order
  PROVE  Value(list, places) = Value(other, places)
  <1> DEFINE b == [i \in places |-> i]
  <1>1. /\ \A i \in places : list[i].order \in Orders /\ list[i].order = other[b[i]].order
        /\ \A i, j \in places : b[i] = b[j] => i = j
        /\ places = {b[i] : i \in places}
    OBVIOUS
  <1> HIDE DEF b
  <1>2. QED
    BY <1>1, ValueMoves

LEMMA ListsAreFinite ==
  ASSUME QueueRight, BookRight
  PROVE  /\ IsFiniteSet(DOMAIN queue) /\ IsFiniteSet(QueuedPlaces)
         /\ QueuedPlaces \subseteq DOMAIN queue
         /\ \A i \in QueuedPlaces : queue[i].order \in Orders /\ queue[i].key \in Key
         /\ IsFiniteSet(DOMAIN book) /\ IsFiniteSet(LiveOrders) /\ LiveOrders \subseteq DOMAIN book
         /\ \A i \in DOMAIN book : book[i] \in BookRecord /\ book[i].order \in Orders
         /\ DOMAIN book = 1 .. Len(book) /\ DOMAIN queue = 1 .. Len(queue)
         /\ Len(book) \in Nat /\ Len(queue) \in Nat
  <1>1. /\ DOMAIN book = 1 .. Len(book) /\ DOMAIN queue = 1 .. Len(queue)
        /\ Len(book) \in Nat /\ Len(queue) \in Nat
    BY LenProperties DEF QueueRight, BookRight
  <1>2. IsFiniteSet(DOMAIN queue) /\ IsFiniteSet(DOMAIN book)
    BY <1>1, FS_Interval
  <1>3. QueuedPlaces \in SUBSET DOMAIN queue /\ LiveOrders \in SUBSET DOMAIN book
    BY DEF QueuedPlaces, LiveOrders
  <1>4. IsFiniteSet(QueuedPlaces) /\ IsFiniteSet(LiveOrders)
    BY <1>2, <1>3, FS_Subset
  <1>5. \A i \in QueuedPlaces : queue[i].order \in Orders /\ queue[i].key \in Key
    BY DEF QueueRight, QueuedPlaces
  <1>6. \A i \in DOMAIN book : book[i] \in BookRecord /\ book[i].order \in Orders
    <2>1. book \in Seq(BookRecord)
      BY DEF BookRight
    <2>2. \A i \in DOMAIN book : book[i] \in BookRecord
      BY <1>1, <2>1, ElementOfSeq
    <2>3. QED
      BY <2>2 DEF BookRecord
  <1>7. QED
    BY <1>1, <1>2, <1>3, <1>4, <1>5, <1>6

LEMMA ChargesAreNumbers ==
  ASSUME QueueRight, BookRight, CallsRight
  PROVE  /\ Value(book, DOMAIN book) \in Nat /\ Value(queue, QueuedPlaces) \in Nat
         /\ Unsettled \in Nat
  <1>1. Value(book, DOMAIN book) \in Nat /\ Value(queue, QueuedPlaces) \in Nat
    BY ListsAreFinite, ValueIsNatural
  <1>2. \A c \in Call : Charge(call[c]) \in Nat
    BY Assumed DEF CallsRight, CallRight, Charge, Placing
  <1>3. Unsettled \in Nat
    BY <1>2 DEF Unsettled, CallsRight
  <1>4. QED
    BY <1>1, <1>3

LEMMA OwnCharges ==
  ASSUME ChargesRight, CallsRight, QueueRight, BookRight, PolicyRight,
         NEW c \in Call, Becomes(c), UNCHANGED <<queue, book, cfg, used>>,
         holder' \in {holder, c, NoCall}, call'[c].step # "place"
  PROVE  ChargesRight'
  <1>1. Value(book, DOMAIN book)' = Value(book, DOMAIN book)
        /\ Value(queue, QueuedPlaces)' = Value(queue, QueuedPlaces)
    BY DEF Value, QueuedPlaces
  <1>2. Unsettled' \in {0, Unsettled}
    <2>1. CASE holder' = NoCall
      BY <2>1 DEF Unsettled
    <2>2. CASE holder' = c
      BY <2>2 DEF Unsettled, Charge
    <2>3. CASE holder' # NoCall /\ holder' # c
      <3>1. holder' = holder /\ holder \in Call \ {c}
        BY <2>3 DEF CallsRight
      <3>2. call'[holder] = call[holder]
        BY <3>1 DEF Becomes
      <3>3. QED
        BY <2>3, <3>1, <3>2 DEF Unsettled, Charge
    <2>4. QED
      BY <2>1, <2>2, <2>3
  <1>3. /\ Value(book, DOMAIN book) \in Nat /\ Value(queue, QueuedPlaces) \in Nat
        /\ Unsettled \in Nat /\ used \in Nat
    BY ChargesAreNumbers DEF PolicyRight
  <1>4. \A a, b, u, t \in Nat : a + b + u <= t => a + b + 0 <= t
    OBVIOUS
  <1>5. QED
    BY <1>1, <1>2, <1>3, <1>4 DEF ChargesRight

(* The whole invariant, when the policy, the engine and the clock stay.    *)
LEMMA OwnStep ==
  ASSUME ToolsInv, NEW c \in Call, Becomes(c), UNCHANGED <<policyVars, clock, queue, book>>,
         CallRight(call'[c], clock), holder' \in {holder, c, NoCall},
         \A e \in Call \ {c} : holder' = e <=> holder = e,
         holder' = c <=> Placing(call'[c]),
         call[c].answer # "waiting", call'[c].step # "place",
         holder' = c /\ Counted(call'[c]) =>
           holder = c /\ Counted(call[c]) /\ call'[c].open = call[c].open,
         call'[c].acted => call[c].acted /\ call'[c].now = call[c].now
  PROVE  ToolsInv'
  <1>1. UNCHANGED <<cfg, actions, used, clock, queue, book>>
    BY DEF policyVars
  <1>2. PolicyRight' /\ BookRight'
    BY <1>1 DEF ToolsInv, PolicyRight, BookRight
  <1>3. CallsRight'
    BY <1>1, OwnCalls DEF ToolsInv
  <1>4. QueueRight'
    BY <1>1, OwnQueue DEF ToolsInv
  <1>5. CountRight'
    BY <1>1, OwnCount DEF ToolsInv
  <1>6. OpenOrdersWithinLimit'
    BY <1>1, OwnLimit DEF ToolsInv
  <1>7. ChargesRight'
    BY <1>1, OwnCharges DEF ToolsInv
  <1>8. WindowRight'
    BY <1>1, OwnWindow DEF ToolsInv
  <1>9. QED
    BY <1>2, <1>3, <1>4, <1>5, <1>6, <1>7, <1>8 DEF ToolsInv

LEMMA CallFacts ==
  ASSUME ToolsInv, NEW c \in Call
  PROVE  /\ call \in [Call -> CallRecord] /\ call[c] \in CallRecord
         /\ CallRight(call[c], clock) /\ (holder = c <=> Placing(call[c]))
         /\ holder \in Call \cup {NoCall} /\ c # NoCall
  BY Assumed DEF ToolsInv, CallsRight

(* A call that returns drops the lock, if it has it, and is heard of no    *)
(* more.                                                                   *)
LEMMA ReturnedCall ==
  ASSUME NEW calls \in [Call -> CallRecord], NEW c \in Call, ReturnFrom(calls, c),
         \A e \in Call \ {c} : calls[e] = call[e], holder \in Call \cup {NoCall}
  PROVE  /\ Becomes(c) /\ call'[c].step = "done" /\ call'[c].answer = "none"
         /\ call'[c].acted = calls[c].acted
         /\ call'[c].acted => call'[c].now = calls[c].now
         /\ CallRight(call'[c], clock) /\ ~Placing(call'[c])
         /\ holder' \in {holder, c, NoCall} /\ holder' # c
         /\ \A e \in Call \ {c} : holder' = e <=> holder = e
  <1>1. /\ call' \in [Call -> CallRecord]
        /\ \A e \in Call \ {c} : call'[e] = calls[e]
        /\ call'[c].step = "done" /\ call'[c].answer = "none"
        /\ call'[c].acted = calls[c].acted
        /\ call'[c].acted => call'[c].now = calls[c].now
        /\ holder' = IF holder = c THEN NoCall ELSE holder
    BY Returning
  <1>2. Becomes(c) /\ call'[c] \in CallRecord
    BY <1>1 DEF Becomes
  <1>3. ~Placing(call'[c]) /\ "done" \notin Remote
    BY <1>1 DEF Placing, Remote
  <1>4. CallRight(call'[c], clock)
    BY <1>1, <1>2, <1>3 DEF CallRight
  <1>5. NoCall \notin Call
    BY Assumed
  <1>6. QED
    BY <1>1, <1>2, <1>3, <1>4, <1>5

LEMMA ReturnStep ==
  ASSUME ToolsInv, NEW c \in Call, ReturnFrom(call, c),
         UNCHANGED <<policyVars, clock, queue, book>>, call[c].answer # "waiting"
  PROVE  ToolsInv'
  <1>1. call \in [Call -> CallRecord] /\ holder \in Call \cup {NoCall}
    BY CallFacts
  <1>2. /\ Becomes(c) /\ call'[c].step = "done"
        /\ call'[c].acted => call[c].acted /\ call'[c].now = call[c].now
        /\ CallRight(call'[c], clock) /\ ~Placing(call'[c])
        /\ holder' \in {holder, c, NoCall} /\ holder' # c
        /\ \A e \in Call \ {c} : holder' = e <=> holder = e
    BY <1>1, ReturnedCall
  <1>3. QED
    BY <1>2, OwnStep

LEMMA KeepsBeginPlace ==
  ASSUME ToolsInv, NEW c \in Call, BeginPlace(c)
  PROVE  ToolsInv'
  <1>1. PICK a \in Arguments :
          call' = [call EXCEPT ![c].step = "lock", ![c].tool = "place",
                               ![c].key = a.key, ![c].order = a.order]
    BY DEF BeginPlace
  <1>2. /\ call[c].step = "idle" /\ UNCHANGED <<policyVars, clock, holder, queue, book>>
    BY DEF BeginPlace, Begins
  <1>3. /\ call \in [Call -> CallRecord] /\ CallRight(call[c], clock)
        /\ (holder = c <=> Placing(call[c])) /\ call[c] \in CallRecord
    BY CallFacts
  <1>4. a.key \in SentKey /\ a.order \in Orders \cup {NoOrder}
    BY DEF Arguments, SentKey, Key
  <1>5. /\ call'[c].step = "lock" /\ call'[c].tool = "place" /\ call'[c].answer = call[c].answer
        /\ call'[c].acted = call[c].acted /\ call'[c] \in CallRecord /\ Becomes(c)
    BY <1>1, <1>3, <1>4 DEF CallRecord, Becomes, Steps, ToolNames
  <1>6. /\ call[c].answer = "none" /\ ~call[c].acted /\ holder # c
    BY <1>2, <1>3 DEF CallRight, Placing, Remote
  <1>7. CallRight(call'[c], clock) /\ ~Placing(call'[c]) /\ ~Counted(call'[c])
    BY <1>5, <1>6 DEF CallRight, Placing, Remote, Counted
  <1>8. QED
    BY <1>2, <1>5, <1>6, <1>7, OwnStep

LEMMA KeepsBeginCancel ==
  ASSUME ToolsInv, NEW c \in Call, BeginCancel(c)
  PROVE  ToolsInv'
  <1>1. /\ call[c].step = "idle" /\ UNCHANGED <<policyVars, clock, queue, book>>
    BY DEF BeginCancel, Begins
  <1>2. /\ call \in [Call -> CallRecord] /\ CallRight(call[c], clock)
        /\ (holder = c <=> Placing(call[c])) /\ call[c] \in CallRecord
    BY CallFacts
  <1>3. call[c].answer = "none" /\ ~call[c].acted /\ holder # c
    BY <1>1, <1>2 DEF CallRight, Placing, Remote
  <1>4. CASE ReturnFrom(call, c)
    BY <1>1, <1>3, <1>4, ReturnStep
  <1>5. ASSUME NEW tool \in {"cancel", "cancel_all"}, UNCHANGED holder,
               call' = [call EXCEPT ![c].step = "clock", ![c].tool = tool]
        PROVE  ToolsInv'
    <2>1. /\ call'[c].step = "clock" /\ call'[c].tool = tool /\ call'[c].answer = call[c].answer
          /\ call'[c].acted = call[c].acted /\ call'[c] \in CallRecord /\ Becomes(c)
      BY <1>2, <1>5 DEF CallRecord, Becomes, Steps, ToolNames
    <2>2. CallRight(call'[c], clock) /\ ~Placing(call'[c])
      BY <1>3, <2>1 DEF CallRight, Placing, Remote
    <2>3. QED
      BY <1>1, <1>3, <1>5, <2>1, <2>2, OwnStep
  <1>6. QED
    BY <1>4, <1>5 DEF BeginCancel

LEMMA KeepsLock ==
  ASSUME ToolsInv, NEW c \in Call, Lock(c)
  PROVE  ToolsInv'
  <1>1. /\ call[c].step = "lock" /\ holder = NoCall
        /\ UNCHANGED <<policyVars, clock, queue, book>>
    BY DEF Lock, LockFree
  <1>2. /\ call \in [Call -> CallRecord] /\ CallRight(call[c], clock) /\ c # NoCall
        /\ call[c] \in CallRecord
    BY CallFacts
  <1>3. call[c].answer = "none" /\ ~call[c].acted /\ call[c].tool = "place"
    BY <1>1, <1>2 DEF CallRight, Remote
  <1>4. CASE call[c].order = NoOrder
    BY <1>1, <1>3, <1>4, ReturnStep DEF Lock
  <1>5. CASE call[c].order # NoOrder
    <2>1. call' = [call EXCEPT ![c].step = "market", ![c].answer = "none"] /\ holder' = c
      BY <1>5 DEF Lock, Goto
    <2>2. /\ call'[c].step = "market" /\ call'[c].tool = "place" /\ call'[c].answer = "none"
          /\ call'[c].acted = call[c].acted /\ call'[c] \in CallRecord /\ Becomes(c)
          /\ call'[c].order = call[c].order
      BY <1>2, <1>3, <2>1 DEF CallRecord, Becomes, Steps, Outcomes
    <2>3. call[c].order \in Orders
      BY <1>2, <1>5 DEF CallRecord
    <2>4. CallRight(call'[c], clock) /\ Placing(call'[c]) /\ ~Counted(call'[c])
      BY <1>3, <2>2, <2>3 DEF CallRight, Placing, Remote, Counted
    <2>5. \A e \in Call \ {c} : holder' = e <=> holder = e
      BY <1>1, <2>1, Assumed
    <2>6. QED
      BY <1>1, <1>3, <2>1, <2>2, <2>4, <2>5, OwnStep
  <1>6. QED
    BY <1>4, <1>5

LEMMA ReferenceIsNumber ==
  ASSUME NEW m \in Markets
  PROVE  ReferencePrice(m) \in Int
  <1>1. m.bid \in Nat /\ m.ask \in Nat /\ m.last \in Nat
    BY ToolsAssumption
  <1>2. \A k, l \in Nat : k \div 2 + l \div 2 + ((k % 2) + (l % 2)) \div 2 \in Int
    OBVIOUS
  <1>3. QED
    BY <1>1, <1>2 DEF ReferencePrice

LEMMA KeepsReadMarket ==
  ASSUME ToolsInv, NEW c \in Call, ReadMarket(c)
  PROVE  ToolsInv'
  <1>1. call[c].step = "market" /\ UNCHANGED <<policyVars, clock, queue, book>>
    BY DEF ReadMarket
  <1>2. /\ call \in [Call -> CallRecord] /\ CallRight(call[c], clock) /\ c # NoCall
        /\ call[c] \in CallRecord /\ (holder = c <=> Placing(call[c]))
    BY CallFacts
  <1>3. /\ call[c].answer = "none" /\ ~call[c].acted /\ call[c].tool = "place"
        /\ call[c].order \in Orders /\ Placing(call[c]) /\ holder = c
    BY <1>1, <1>2 DEF CallRight, Remote, Placing
  <1>4. CASE ReturnFrom(call, c)
    BY <1>1, <1>3, <1>4, ReturnStep
  <1>5. ASSUME NEW m \in Markets, UNCHANGED holder, call[c].key # Unsafe,
               call' = [call EXCEPT ![c].step = "list",
                                    ![c].reference = ReferencePrice(m),
                                    ![c].key = IF @ = Blank THEN NewKey(c) ELSE @]
        PROVE  ToolsInv'
    <2>1. ReferencePrice(m) \in Int
      BY ReferenceIsNumber
    <2>2. (IF call[c].key = Blank THEN NewKey(c) ELSE call[c].key) \in Key
      <3>1. call[c].key \in Key \cup {Blank, Unsafe}
        BY <1>2 DEF CallRecord, SentKey
      <3>2. NewKey(c) \in Key
        BY DEF Key
      <3>3. QED
        BY <1>5, <3>1, <3>2
    <2>3. PICK k : k = IF call[c].key = Blank THEN NewKey(c) ELSE call[c].key
      OBVIOUS
    <2>4. PICK p : p = ReferencePrice(m)
      OBVIOUS
    <2>5. call' = [call EXCEPT ![c] = [call[c] EXCEPT !.step = "list", !.reference = p, !.key = k]]
      BY <1>2, <1>5, <2>3, <2>4
    <2>6. k \in Key /\ k \in SentKey /\ p \in Int
      BY <2>1, <2>2, <2>3, <2>4 DEF SentKey
    <2>7. /\ call'[c].step = "list" /\ call'[c].tool = "place" /\ call'[c].answer = "none"
          /\ call'[c].acted = call[c].acted /\ call'[c] \in CallRecord /\ Becomes(c)
          /\ call'[c].order \in Orders /\ call'[c].key \in Key
      BY <1>2, <1>3, <2>5, <2>6 DEF CallRecord, Becomes, Steps
    <2>8. CallRight(call'[c], clock) /\ Placing(call'[c]) /\ ~Counted(call'[c])
      BY <1>3, <2>7 DEF CallRight, Placing, Remote, Counted
    <2>9. QED
      BY <1>1, <1>3, <1>5, <2>7, <2>8, OwnStep
  <1>6. QED
    BY <1>4, <1>5 DEF ReadMarket

LEMMA KeepsReplay ==
  ASSUME ToolsInv, NEW c \in Call, Replay(c)
  PROVE  ToolsInv'
  <1>1. /\ call[c].step = "list" /\ UNCHANGED <<policyVars, clock, queue, book>>
        /\ call[c].answer # "waiting"
    BY DEF Replay, Codes, Definitive, Indefinite
  <1>2. /\ call \in [Call -> CallRecord] /\ CallRight(call[c], clock)
        /\ call[c] \in CallRecord /\ (holder = c <=> Placing(call[c]))
    BY CallFacts
  <1>3. /\ ~call[c].acted /\ call[c].tool = "place" /\ call[c].key \in Key
        /\ call[c].order \in Orders /\ Placing(call[c]) /\ holder = c
    BY <1>1, <1>2 DEF CallRight, Placing
  <1>4. CASE call[c].answer = "match"
    BY <1>1, <1>4, ReturnStep DEF Replay
  <1>5. CASE call[c].answer # "match"
    <2>1. call' = [call EXCEPT ![c].step = "count", ![c].answer = "none"] /\ holder' = holder
      BY <1>5 DEF Replay, Goto
    <2>2. /\ call'[c].step = "count" /\ call'[c].tool = "place" /\ call'[c].answer = "none"
          /\ call'[c].acted = call[c].acted /\ call'[c] \in CallRecord /\ Becomes(c)
          /\ call'[c].order \in Orders /\ call'[c].key \in Key
      BY <1>2, <1>3, <2>1 DEF CallRecord, Becomes, Steps, Outcomes
    <2>3. CallRight(call'[c], clock) /\ Placing(call'[c]) /\ ~Counted(call'[c])
      BY <1>3, <2>2 DEF CallRight, Placing, Counted
    <2>4. QED
      BY <1>1, <1>3, <2>1, <2>2, <2>3, OwnStep
  <1>6. QED
    BY <1>4, <1>5

LEMMA KeepsCountOpen ==
  ASSUME ToolsInv, NEW c \in Call, CountOpen(c)
  PROVE  ToolsInv'
  <1>1. /\ call[c].step = "count" /\ UNCHANGED <<policyVars, clock, queue, book>>
        /\ call[c].answer # "waiting"
    BY DEF CountOpen, Codes, Definitive, Indefinite
  <1>2. /\ call \in [Call -> CallRecord] /\ CallRight(call[c], clock)
        /\ call[c] \in CallRecord /\ (holder = c <=> Placing(call[c]))
    BY CallFacts
  <1>3. /\ ~call[c].acted /\ call[c].tool = "place" /\ call[c].key \in Key
        /\ call[c].order \in Orders /\ Placing(call[c]) /\ holder = c
    BY <1>1, <1>2 DEF CallRight, Placing
  <1>4. CASE call[c].answer # "ok"
    BY <1>1, <1>4, ReturnStep DEF CountOpen
  <1>5. CASE call[c].answer = "ok"
    <2>1. call' = [call EXCEPT ![c].step = "clock", ![c].answer = "none"] /\ holder' = holder
      BY <1>5 DEF CountOpen, Goto
    <2>2. /\ call'[c].step = "clock" /\ call'[c].tool = "place" /\ call'[c].answer = "none"
          /\ call'[c].acted = call[c].acted /\ call'[c] \in CallRecord /\ Becomes(c)
          /\ call'[c].order \in Orders /\ call'[c].key \in Key /\ call'[c].open = call[c].open
      BY <1>2, <1>3, <2>1 DEF CallRecord, Becomes, Steps, Outcomes
    <2>3. CallRight(call'[c], clock) /\ Placing(call'[c]) /\ Counted(call[c])
      BY <1>1, <1>3, <1>5, <2>2 DEF CallRight, Placing, Counted
    <2>4. QED
      BY <1>1, <1>3, <2>1, <2>2, <2>3, OwnStep
  <1>6. QED
    BY <1>4, <1>5

LEMMA KeepsReadClock ==
  ASSUME ToolsInv, NEW c \in Call, ReadClock(c)
  PROVE  ToolsInv'
  <1>1. /\ call[c].step = "clock" /\ UNCHANGED <<policyVars, clock, holder, queue, book>>
        /\ call' = [call EXCEPT ![c].step = "check", ![c].now = clock]
    BY DEF ReadClock
  <1>2. /\ call \in [Call -> CallRecord] /\ CallRight(call[c], clock)
        /\ call[c] \in CallRecord /\ (holder = c <=> Placing(call[c]))
    BY CallFacts
  <1>3. call[c].answer = "none" /\ ~call[c].acted /\ call[c].tool # "none"
    BY <1>1, <1>2 DEF CallRight, Remote
  <1>4. clock \in Nat
    BY LimitsAreNumbers DEF ToolsInv
  <1>5. /\ call'[c].step = "check" /\ call'[c].tool = call[c].tool /\ call'[c].answer = "none"
        /\ call'[c].acted = call[c].acted /\ call'[c] \in CallRecord /\ Becomes(c)
        /\ call'[c].order = call[c].order /\ call'[c].key = call[c].key
        /\ call'[c].open = call[c].open /\ call'[c].now = clock
    BY <1>1, <1>2, <1>3, <1>4 DEF CallRecord, Becomes, Steps
  <1>6. /\ CallRight(call'[c], clock) /\ (Placing(call'[c]) <=> Placing(call[c]))
        /\ Counted(call[c])
    BY <1>1, <1>2, <1>3, <1>4, <1>5 DEF CallRight, Placing, Remote, Counted
  <1>7. QED
    BY <1>1, <1>2, <1>3, <1>5, <1>6, OwnStep

LEMMA KeepsCancelReply ==
  ASSUME ToolsInv, NEW c \in Call, CancelReply(c)
  PROVE  ToolsInv'
  <1>1. /\ UNCHANGED <<policyVars, clock, queue, book>> /\ call[c].answer # "waiting"
        /\ ReturnFrom(call, c)
    BY DEF CancelReply, Codes, Definitive, Indefinite
  <1>2. QED
    BY <1>1, ReturnStep

-----------------------------------------------------------------------------
(* Time, and orders that close at the engine.                              *)
LEMMA KeepsTick ==
  ASSUME ToolsInv, Tick
  PROVE  ToolsInv'
  <1>1. /\ clock' = clock + 1 /\ clock < MaxClock
        /\ UNCHANGED <<cfg, actions, used, holder, call, queue, book>>
    BY DEF Tick, policyVars
  <1>2. clock \in Nat /\ MaxClock \in Nat /\ Minute \in Nat
    BY LimitsAreNumbers, Assumed DEF ToolsInv
  <1>3. PolicyRight' /\ BookRight'
    BY <1>1, <1>2 DEF ToolsInv, PolicyRight, BookRight
  <1>4. CallsRight'
    <2>1. \A c \in Call : CallRight(call[c], clock + 1)
      <3>1. SUFFICES ASSUME NEW c \in Call PROVE CallRight(call[c], clock + 1)
        OBVIOUS
      <3>2. CallRight(call[c], clock)
        BY CallFacts
      <3>3. call[c].now \in Nat
        BY <3>2 DEF CallRight, CallRecord
      <3>4. call[c].now <= clock => call[c].now <= clock + 1
        BY <1>2, <3>3
      <3>5. QED
        BY <3>2, <3>4 DEF CallRight
    <2>2. QED
      BY <1>1, <2>1 DEF ToolsInv, CallsRight, CallRight, Placing, CallRecord, Outcomes, SentKey
  <1>5. QueueRight' /\ CountRight' /\ OpenOrdersWithinLimit'
    BY <1>1 DEF ToolsInv, QueueRight, Matches, CountRight, Counted, OpenOrdersWithinLimit,
                QueuedPlaces, LiveOrders, RequestRecord, SentKey
  <1>6. ChargesRight'
    BY <1>1 DEF ToolsInv, ChargesRight, Value, QueuedPlaces, Unsettled, Charge
  <1>7. WindowRight'
    <2>1. \A c \in Recent' : c \in Recent
      <3>1. SUFFICES ASSUME NEW c \in Recent' PROVE c \in Recent
        OBVIOUS
      <3>2. c \in Call /\ call[c].acted /\ (clock + 1) - call[c].now <= Minute
        BY <1>1, <3>1 DEF Recent
      <3>3. call[c].now \in Nat
        BY <3>2, CallFacts DEF CallRecord
      <3>4. \A k, n, m \in Nat : (k + 1) - n <= m => k - n <= m
        OBVIOUS
      <3>5. QED
        BY <1>2, <3>2, <3>3, <3>4 DEF Recent
    <2>2. QED
      BY <1>1, <2>1, WindowShrinks DEF ToolsInv
  <1>8. QED
    BY <1>3, <1>4, <1>5, <1>6, <1>7 DEF ToolsInv

(* Closing orders takes nothing away but what is live.                     *)
Closes ==
  /\ DOMAIN book' = DOMAIN book /\ book' \in Seq(BookRecord)
  /\ \A i \in DOMAIN book : /\ book'[i].key = book[i].key /\ book'[i].order = book[i].order
                            /\ book'[i].live => book[i].live

LEMMA ClosingFacts ==
  ASSUME QueueRight, BookRight, Closes
  PROVE  /\ BookRight'
         /\ LiveOrders' \subseteq LiveOrders /\ Cardinality(LiveOrders') <= Cardinality(LiveOrders)
         /\ Cardinality(LiveOrders) \in Nat /\ Cardinality(LiveOrders') \in Nat
         /\ Value(book, DOMAIN book)' = Value(book, DOMAIN book)
         /\ {book[i].key : i \in DOMAIN book}' = {book[i].key : i \in DOMAIN book}
  <1>1. LiveOrders' \in SUBSET LiveOrders
    BY DEF LiveOrders, Closes
  <1>2. IsFiniteSet(LiveOrders) /\ IsFiniteSet(DOMAIN book)
        /\ \A i \in DOMAIN book : book[i].order \in Orders
    BY ListsAreFinite
  <1>3. /\ IsFiniteSet(LiveOrders') /\ Cardinality(LiveOrders') <= Cardinality(LiveOrders)
        /\ Cardinality(LiveOrders) \in Nat /\ Cardinality(LiveOrders') \in Nat
    BY <1>1, <1>2, FS_Subset, FS_CardinalityType
  <1>4. Value(book, DOMAIN book) = Value(book', DOMAIN book)
    BY <1>2, ValueSame DEF Closes
  <1>5. Value(book, DOMAIN book)' = Value(book', DOMAIN book)
    BY DEF Closes, Value
  <1>6. QED
    BY <1>1, <1>3, <1>4, <1>5 DEF Closes, BookRight, BookRecord

LEMMA ListFromFunction ==
  ASSUME NEW S, NEW n \in Nat, NEW list, list \in [1 .. n -> S]
  PROVE  list \in Seq(S)
  BY SeqDef

LEMMA OneCloses ==
  ASSUME BookRight, QueueRight, NEW i \in LiveOrders, book' = [book EXCEPT ![i].live = FALSE]
  PROVE  Closes
  <1>1. /\ \A j \in DOMAIN book : book[j] \in BookRecord
        /\ i \in DOMAIN book /\ DOMAIN book = 1 .. Len(book) /\ Len(book) \in Nat
    BY ListsAreFinite
  <1>2. DOMAIN book' = DOMAIN book
    OBVIOUS
  <1>3. ASSUME NEW j \in DOMAIN book
        PROVE  /\ book'[j] \in BookRecord
               /\ book'[j].key = book[j].key /\ book'[j].order = book[j].order
               /\ book'[j].live => book[j].live
    BY <1>1 DEF BookRecord
  <1>4. book' \in Seq(BookRecord)
    <2>1. book' \in [1 .. Len(book) -> BookRecord]
      BY <1>1, <1>2, <1>3
    <2>2. QED
      BY ONLY <1>1, <2>1, ListFromFunction
  <1>5. QED
    BY <1>2, <1>3, <1>4 DEF Closes

LEMMA AllClose ==
  ASSUME BookRight, QueueRight, book' = [i \in DOMAIN book |-> [book[i] EXCEPT !.live = FALSE]]
  PROVE  Closes
  <1>1. /\ \A j \in DOMAIN book : book[j] \in BookRecord
        /\ DOMAIN book = 1 .. Len(book) /\ Len(book) \in Nat
    BY ListsAreFinite
  <1>2. DOMAIN book' = DOMAIN book
    OBVIOUS
  <1>3. ASSUME NEW j \in DOMAIN book
        PROVE  /\ book'[j] \in BookRecord
               /\ book'[j].key = book[j].key /\ book'[j].order = book[j].order
               /\ book'[j].live => book[j].live
    BY <1>1 DEF BookRecord
  <1>4. book' \in Seq(BookRecord)
    <2>1. book' \in [1 .. Len(book) -> BookRecord]
      BY <1>1, <1>2, <1>3
    <2>2. QED
      BY ONLY <1>1, <2>1, ListFromFunction
  <1>5. QED
    BY <1>2, <1>3, <1>4 DEF Closes

(* The keys on their way that the engine has not seen.                     *)
BookKeys == {book[i].key : i \in DOMAIN book}
QueuedKeys == {queue[i].key : i \in QueuedPlaces}
Fresh == QueuedKeys \ BookKeys

LEMMA LimitMeans ==
  /\ OpenOrdersWithinLimit <=> Cardinality(LiveOrders) + Cardinality(Fresh) <= cfg.maxOpenOrders
  /\ OpenOrdersWithinLimit' <=>
       Cardinality(LiveOrders') + Cardinality(Fresh') <= cfg'.maxOpenOrders
  BY DEF OpenOrdersWithinLimit, Fresh, BookKeys, QueuedKeys, QueuedPlaces, LiveOrders

LEMMA KeysAreFinite ==
  ASSUME QueueRight, BookRight
  PROVE  /\ IsFiniteSet(QueuedKeys) /\ IsFiniteSet(Fresh) /\ Cardinality(Fresh) \in Nat
         /\ Cardinality(LiveOrders) \in Nat
  <1> DEFINE f == [i \in QueuedPlaces |-> queue[i].key]
  <1>1. f \in Surjection(QueuedPlaces, QueuedKeys)
    BY DEF QueuedKeys, Surjection
  <1>2. IsFiniteSet(QueuedPlaces) /\ IsFiniteSet(LiveOrders)
    BY ListsAreFinite
  <1> HIDE DEF f
  <1>3. IsFiniteSet(QueuedKeys)
    BY <1>1, <1>2, FS_Surjection
  <1>4. Fresh \in SUBSET QueuedKeys
    BY DEF Fresh
  <1>5. QED
    BY <1>2, <1>3, <1>4, FS_Subset, FS_CardinalityType

LEMMA KeepsFills ==
  ASSUME ToolsInv, Fills
  PROVE  ToolsInv'
  <1>1. UNCHANGED <<cfg, actions, used, clock, holder, call, queue>> /\ Closes
    BY OneCloses DEF Fills, policyVars, ToolsInv
  <1>2. PolicyRight'
    BY <1>1 DEF ToolsInv, PolicyRight
  <1>3. CallsRight' /\ QueueRight' /\ WindowRight'
    <2>1. CallsRight'
      BY <1>1 DEF ToolsInv, CallsRight, CallRight, Placing, CallRecord, Outcomes, SentKey
    <2>2. QueueRight'
      BY <1>1 DEF ToolsInv, QueueRight, Matches, RequestRecord, SentKey
    <2>3. WindowRight'
      BY <1>1, WindowShrinks DEF ToolsInv, Recent
    <2>4. QED
      BY <2>1, <2>2, <2>3
  <1>4. /\ BookRight' /\ Cardinality(LiveOrders') <= Cardinality(LiveOrders)
        /\ Cardinality(LiveOrders) \in Nat /\ Cardinality(LiveOrders') \in Nat
        /\ Value(book, DOMAIN book)' = Value(book, DOMAIN book)
        /\ BookKeys' = BookKeys
    BY <1>1, ClosingFacts DEF ToolsInv, BookKeys
  <1>5. QueuedPlaces' = QueuedPlaces /\ QueuedKeys' = QueuedKeys
    BY <1>1 DEF QueuedPlaces, QueuedKeys
  <1>6. \A k, l, m \in Int : k <= l /\ l <= m => k <= m
    OBVIOUS
  <1>7. CountRight'
    <2>1. \A c \in Call : call[c].open \in Nat
      BY CallFacts DEF CallRecord
    <2>2. \A c \in Call : Cardinality(LiveOrders) <= call[c].open =>
                          Cardinality(LiveOrders') <= call[c].open
      BY <1>4, <1>6, <2>1
    <2>3. \A c \in Call :
            /\ holder = c /\ Counted(call[c]) =>
                 QueuedPlaces = {} /\ Cardinality(LiveOrders) <= call[c].open
            /\ call[c].step = "place" /\ call[c].answer = "none" => call[c].open < cfg.maxOpenOrders
      BY DEF ToolsInv, CountRight
    <2> HIDE DEF LiveOrders, QueuedPlaces
    <2>4. QED
      BY <1>1, <1>5, <2>2, <2>3 DEF CountRight, Counted
  <1>8. OpenOrdersWithinLimit'
    <2>1. Fresh' = Fresh
      BY <1>4, <1>5 DEF Fresh
    <2>2. Cardinality(LiveOrders) + Cardinality(Fresh) <= cfg.maxOpenOrders
      BY LimitMeans DEF ToolsInv
    <2>3. Cardinality(Fresh) \in Nat /\ cfg.maxOpenOrders \in Nat
      BY KeysAreFinite, LimitsAreNumbers DEF ToolsInv
    <2>4. \A k, l, f, m \in Nat : k <= l /\ l + f <= m => k + f <= m
      OBVIOUS
    <2>5. Cardinality(LiveOrders') + Cardinality(Fresh) <= cfg.maxOpenOrders
      BY <1>4, <2>2, <2>3, <2>4
    <2>6. QED
      BY <1>1, <2>1, <2>5, LimitMeans
  <1>9. ChargesRight'
    BY <1>1, <1>4, <1>5 DEF ToolsInv, ChargesRight, Value, Unsettled, Charge
  <1>10. QED
    BY <1>2, <1>3, <1>4, <1>7, <1>8, <1>9 DEF ToolsInv

-----------------------------------------------------------------------------
(* The policy.                                                             *)
LEMMA RoomLeft ==
  ASSUME NEW k \in Int
  PROVE  Max({0, k}) = IF k > 0 THEN k ELSE 0
  <1> DEFINE m == IF k > 0 THEN k ELSE 0
  <1>1. m \in {0, k} /\ \A y \in {0, k} : m >= y
    OBVIOUS
  <1>2. \A x \in {0, k} : (\A y \in {0, k} : x >= y) => x = m
    OBVIOUS
  <1> HIDE DEF m
  <1>3. Max({0, k}) = m
    BY <1>1, <1>2 DEF Max
  <1>4. QED
    BY <1>3 DEF m

(* The window loses entries from its front only, none of them recent.      *)
LEMMA WindowFacts ==
  ASSUME actions \in Seq(0 .. MaxClock), NEW now \in Nat
  PROVE  \E m \in 0 .. Len(actions) :
           /\ Window(now) \in Seq(0 .. MaxClock) /\ Len(Window(now)) = Len(actions) - m
           /\ \A i \in 1 .. Len(actions) - m : Window(now)[i] = actions[m + i]
           /\ \A i \in 1 .. Len(actions) : now - actions[i] <= Minute => i > m
  <1> DEFINE kept == {i \in DOMAIN actions : now - actions[i] <= Minute}
             n == Len(actions)
  <1>1. n \in Nat /\ DOMAIN actions = 1 .. n
    BY LenProperties
  <1>2. Window(now) = IF kept = {} THEN <<>> ELSE SubSeq(actions, Min(kept), n)
    BY DEF Window
  <1>3. \A i \in 1 .. n : now - actions[i] <= Minute => i \in kept
    BY <1>1
  <1>4. kept \subseteq 1 .. n
    BY <1>1
  <1> HIDE DEF kept, n
  <1>5. CASE kept = {}
    <2>1. Window(now) = <<>> /\ n \in 0 .. n /\ n - n = 0
      BY <1>1, <1>2, <1>5
    <2>2. Window(now) \in Seq(0 .. MaxClock) /\ Len(Window(now)) = n - n
      BY <2>1
    <2>3. \A i \in 1 .. n : now - actions[i] <= Minute => i > n
      BY <1>3, <1>5
    <2>4. \A i \in 1 .. n - n : Window(now)[i] = actions[n + i]
      BY <2>1
    <2>5. QED
      BY <2>1, <2>2, <2>3, <2>4 DEF n
  <1>6. CASE kept # {}
    <2> DEFINE k == Min(kept)
    <2>1. \E i \in kept : \A j \in kept : i <= j
      <3>1. kept \subseteq Nat
        BY <1>1, <1>4
      <3>2. QED
        BY <1>6, <3>1, LeastNumber
    <2>2. k \in kept /\ \A j \in kept : k <= j
      BY <2>1 DEF Min
    <2>3. Window(now) = SubSeq(actions, k, n)
      BY <1>2, <1>6
    <2> HIDE DEF k
    <2>4. k \in 1 .. n /\ k \in Int
      BY <1>1, <1>4, <2>2
    <2>5. k \in 1 .. Len(actions) + 1 /\ n \in k - 1 .. Len(actions)
      BY <1>1, <2>4 DEF n
    <2>6. /\ SubSeq(actions, k, n) \in Seq(0 .. MaxClock) /\ Len(SubSeq(actions, k, n)) = n - k + 1
          /\ \A i \in 1 .. n - k + 1 : SubSeq(actions, k, n)[i] = actions[k + i - 1]
      BY <2>5, SubSeqFacts
    <2>7. PICK m : m = k - 1
      OBVIOUS
    <2>8. \A a, b \in Int : a - b + 1 = a - (b - 1)
      OBVIOUS
    <2>9. m \in 0 .. n /\ n - k + 1 = n - m
      BY <1>1, <2>4, <2>7, <2>8
    <2>10. \A i \in Int : k + i - 1 = m + i
      BY <2>4, <2>7
    <2>11. \A i \in 1 .. n - m : Window(now)[i] = actions[m + i]
      <3>1. \A i \in 1 .. n - m : Window(now)[i] = actions[k + i - 1]
        BY <2>3, <2>6, <2>9
      <3>2. \A i \in 1 .. n - m : k + i - 1 = m + i
        BY <2>10
      <3>3. QED
        BY <3>1, <3>2
    <2>12. \A i \in 1 .. n : now - actions[i] <= Minute => i > m
      BY <1>3, <2>2, <2>4, <2>7
    <2>13. Window(now) \in Seq(0 .. MaxClock) /\ Len(Window(now)) = n - m
      BY <2>3, <2>6, <2>9
    <2>14. QED
      BY <2>9, <2>11, <2>12, <2>13 DEF n
  <1>7. QED
    BY <1>5, <1>6

(* What a check does to the window keeps an entry for each recent action,  *)
(* the call's own among them.                                              *)
LEMMA ChecksWindow ==
  ASSUME WindowRight, PolicyRight, NEW c \in Call, Becomes(c), UNCHANGED <<clock, cfg>>,
         call \in [Call -> CallRecord], ~call[c].acted,
         NEW now \in Nat, now <= clock, actions' = Entered(now),
         call'[c].acted => CommonVerdict(now) = "ok" /\ call'[c].now = now
  PROVE  WindowRight' /\ actions' \in Seq(0 .. MaxClock)
  <1>1. /\ actions \in Seq(0 .. MaxClock) /\ clock \in Nat /\ clock <= MaxClock
        /\ cfg.actionsPerMinute \in Nat /\ Minute \in Nat /\ MaxClock \in Nat
    BY LimitsAreNumbers, Assumed DEF PolicyRight
  <1>2. Len(actions) \in Nat /\ DOMAIN actions = 1 .. Len(actions)
        /\ \A i \in 1 .. Len(actions) : actions[i] \in Int
    <2>1. Len(actions) \in Nat /\ DOMAIN actions = 1 .. Len(actions)
      BY <1>1, LenProperties
    <2>2. \A i \in 1 .. Len(actions) : actions[i] \in 0 .. MaxClock
      BY <1>1, ElementOfSeq
    <2>3. QED
      BY <2>1, <2>2
  <1>3. ~call'[c].acted => \A e \in Recent' : e \in Recent /\ call'[e].now = call[e].now
    BY DEF Recent, Becomes
  <1>4. \A e \in Recent' \ {c} : e \in Recent /\ call'[e].now = call[e].now
    BY DEF Recent, Becomes
  <1>5. PICK m \in 0 .. Len(actions) :
          /\ Window(now) \in Seq(0 .. MaxClock) /\ Len(Window(now)) = Len(actions) - m
          /\ \A i \in 1 .. Len(actions) - m : Window(now)[i] = actions[m + i]
          /\ \A i \in 1 .. Len(actions) : now - actions[i] <= Minute => i > m
    BY <1>1, WindowFacts
  <1>6. PICK f \in [Recent -> DOMAIN actions] :
          /\ \A e \in Recent : actions[f[e]] = call[e].now
          /\ \A e, d \in Recent : f[e] = f[d] => e = d
    BY DEF WindowRight
  <1>7. \A e \in Recent : /\ f[e] \in 1 .. Len(actions) /\ f[e] > m
                          /\ f[e] - m \in 1 .. Len(actions) - m
                          /\ Window(now)[f[e] - m] = call[e].now
    <2>1. SUFFICES ASSUME NEW e \in Recent
                   PROVE  /\ f[e] \in 1 .. Len(actions) /\ f[e] > m
                          /\ f[e] - m \in 1 .. Len(actions) - m
                          /\ Window(now)[f[e] - m] = call[e].now
      OBVIOUS
    <2>2. PICK i : i = f[e]
      OBVIOUS
    <2>3. i \in 1 .. Len(actions) /\ actions[i] = call[e].now /\ actions[i] \in Int
      BY <1>2, <1>6, <2>2
    <2>4. clock - actions[i] <= Minute
      BY <2>3 DEF Recent
    <2>5. \A t, u, a, l \in Int : t <= u /\ u - a <= l => t - a <= l
      OBVIOUS
    <2>6. now - actions[i] <= Minute
      BY <1>1, <2>3, <2>4, <2>5
    <2>7. i > m
      BY <1>5, <2>3, <2>6
    <2>8. \A k, n, l \in Int : k \in 1 .. n /\ k > l => k - l \in 1 .. n - l /\ l + (k - l) = k
      OBVIOUS
    <2>9. i \in Int /\ m \in Int /\ Len(actions) \in Int
      BY <1>2, <2>3
    <2>10. i - m \in 1 .. Len(actions) - m /\ m + (i - m) = i
      BY <2>3, <2>7, <2>8, <2>9
    <2>11. Window(now)[i - m] = actions[i]
      BY <1>5, <2>10
    <2>12. QED
      BY <2>2, <2>3, <2>7, <2>10, <2>11
  <1>8. Len(actions) - m \in Nat /\ Len(actions) - m <= cfg.actionsPerMinute
        /\ Len(actions) <= cfg.actionsPerMinute
    <2>1. Len(actions) <= cfg.actionsPerMinute
      BY DEF WindowRight
    <2>2. \A n, a \in Nat : \A k \in 0 .. n : n <= a => n - k \in Nat /\ n - k <= a
      OBVIOUS
    <2>3. QED
      BY <1>1, <1>2, <2>1, <2>2
  <1>9. CASE CommonVerdict(now) = "HALTED"
    <2>1. actions' = actions /\ ~call'[c].acted
      BY <1>9 DEF Entered
    <2>2. QED
      BY <1>1, <1>3, <2>1, WindowShrinks
  <1>10. CASE CommonVerdict(now) = "RATE_LIMIT"
    <2>1. actions' = Window(now) /\ ~call'[c].acted
      BY <1>10 DEF Entered
    <2> DEFINE g == [e \in Recent' |-> f[e] - m]
    <2>2. \A e \in Recent' : e \in Recent /\ call'[e].now = call[e].now
      BY <1>3, <2>1
    <2>3. \A e \in Recent' : /\ g[e] \in 1 .. Len(actions) - m
                             /\ Window(now)[g[e]] = call'[e].now
      BY <1>7, <2>2
    <2>4. \A e, d \in Recent' : g[e] = g[d] => e = d
      <3>1. \A i, j, k \in Int : i - k = j - k => i = j
        OBVIOUS
      <3>2. \A e, d \in Recent : f[e] - m = f[d] - m => f[e] = f[d]
        BY <1>7, <3>1
      <3>3. QED
        BY <1>6, <2>2, <3>2
    <2>5. DOMAIN Window(now) = 1 .. Len(actions) - m
      BY <1>5, LenProperties
    <2>6. g = [e \in Recent' |-> g[e]]
      OBVIOUS
    <2> HIDE DEF g
    <2>7. g \in [Recent' -> DOMAIN actions']
      BY <2>1, <2>3, <2>5, <2>6
    <2>8. Len(actions') <= cfg'.actionsPerMinute
      BY <1>5, <1>8, <2>1
    <2>9. \E h \in [Recent' -> DOMAIN actions'] :
            /\ \A e \in Recent' : actions'[h[e]] = call'[e].now
            /\ \A e, d \in Recent' : h[e] = h[d] => e = d
      BY <2>1, <2>3, <2>4, <2>7
    <2>10. QED
      BY <1>5, <2>1, <2>8, <2>9 DEF WindowRight
  <1>11. CASE CommonVerdict(now) \notin {"HALTED", "RATE_LIMIT"}
    <2> DEFINE l == Len(actions) - m
               g == [e \in Recent' |-> IF e = c THEN l + 1 ELSE f[e] - m]
    <2>1. actions' = Append(Window(now), now) /\ Len(Window(now)) < cfg.actionsPerMinute
      <3>1. actions' = Append(Window(now), now)
        BY <1>11 DEF Entered
      <3>2. cfg.halted => CommonVerdict(now) = "HALTED"
        BY DEF CommonVerdict
      <3>3. ~cfg.halted /\ Len(Window(now)) >= cfg.actionsPerMinute =>
              CommonVerdict(now) = "RATE_LIMIT"
        BY DEF CommonVerdict
      <3>4. ~(Len(Window(now)) >= cfg.actionsPerMinute)
        BY <1>11, <3>2, <3>3
      <3>5. Len(Window(now)) \in Nat
        BY <1>5, <1>8
      <3>6. QED
        BY <1>1, <3>1, <3>4, <3>5
    <2>2. now \in 0 .. MaxClock
      BY <1>1
    <2>3. PICK w : w = Append(Window(now), now)
      OBVIOUS
    <2>4. /\ w \in Seq(0 .. MaxClock) /\ Len(w) = l + 1 /\ DOMAIN w = 1 .. l + 1
          /\ w[l + 1] = now /\ \A i \in 1 .. l : w[i] = Window(now)[i]
      <3>1. Window(now) \in Seq(0 .. MaxClock) /\ Len(Window(now)) = l
        BY <1>5
      <3>2. QED
        BY <2>2, <2>3, <3>1, AppendFacts
    <2>5. l \in Nat
      BY <1>8
    <2>6. l + 1 \in 1 .. l + 1 /\ \A i \in 1 .. l : i \in 1 .. l + 1 /\ i # l + 1
      BY <2>5
    <2>7. \A e \in Recent : f[e] - m \in 1 .. l /\ w[f[e] - m] = call[e].now
      BY <1>7, <2>4
    <2>8. \A e, d \in Recent : f[e] - m = f[d] - m => e = d
      <3>1. \A i, j, k \in Int : i - k = j - k => i = j
        OBVIOUS
      <3>2. \A e, d \in Recent : f[e] - m = f[d] - m => f[e] = f[d]
        BY <1>7, <3>1
      <3>3. QED
        BY <1>6, <3>2
    <2>9. c \in Recent' => call'[c].now = now
      BY DEF Recent
    <2> HIDE DEF l
    <2>10. ASSUME NEW e \in Recent'
           PROVE  g[e] \in 1 .. l + 1 /\ w[g[e]] = call'[e].now
      <3>1. CASE e = c
        BY <2>4, <2>6, <2>9, <3>1
      <3>2. CASE e # c
        <4>1. g[e] = f[e] - m /\ e \in Recent /\ call'[e].now = call[e].now
          BY <1>4, <3>2
        <4>2. QED
          BY <2>6, <2>7, <4>1
      <3>3. QED
        BY <3>1, <3>2
    <2>11. ASSUME NEW e \in Recent', NEW d \in Recent', g[e] = g[d]
           PROVE  e = d
      <3>1. CASE e # c /\ d # c
        BY <1>4, <2>8, <2>11, <3>1
      <3>2. CASE e = c /\ d # c
        <4>1. d \in Recent /\ g[d] = f[d] - m /\ g[e] = l + 1
          BY <1>4, <3>2
        <4>2. QED
          BY <2>6, <2>7, <2>11, <4>1
      <3>3. CASE e # c /\ d = c
        <4>1. e \in Recent /\ g[e] = f[e] - m /\ g[d] = l + 1
          BY <1>4, <3>3
        <4>2. QED
          BY <2>6, <2>7, <2>11, <4>1
      <3>4. QED
        BY <3>1, <3>2, <3>3
    <2>12. g = [e \in Recent' |-> g[e]]
      OBVIOUS
    <2> HIDE DEF g
    <2>13. g \in [Recent' -> DOMAIN w]
      BY <2>4, <2>10, <2>12
    <2>14. \A e, d \in Recent' : g[e] = g[d] => e = d
      BY <2>11
    <2>15. actions' = w
      BY <2>1, <2>3
    <2>16. \E h \in [Recent' -> DOMAIN actions'] :
             /\ \A e \in Recent' : actions'[h[e]] = call'[e].now
             /\ \A e, d \in Recent' : h[e] = h[d] => e = d
      BY <2>10, <2>13, <2>14, <2>15
    <2>17. Len(actions') <= cfg'.actionsPerMinute
      <3>1. l < cfg.actionsPerMinute
        BY <1>5, <2>1 DEF l
      <3>2. \A i, j \in Nat : i < j => i + 1 <= j
        OBVIOUS
      <3>3. l + 1 <= cfg.actionsPerMinute
        BY <1>1, <2>5, <3>1, <3>2
      <3>4. QED
        BY <2>4, <2>15, <3>3
    <2>18. QED
      BY <2>4, <2>15, <2>16, <2>17 DEF WindowRight
  <1>12. QED
    BY <1>9, <1>10, <1>11

LEMMA VerdictAllows ==
  ASSUME NEW o, NEW reference, NEW open, NEW now, PlaceVerdict(o, reference, open, now) = "ok"
  PROVE  /\ CommonVerdict(now) = "ok" /\ ~(open >= cfg.maxOpenOrders)
         /\ ~(Notional(o) > Max({0, cfg.sessionCap - used}))
  <1> DEFINE rules == PlaceRules(o, reference, open)
             broken == {i \in DOMAIN rules : rules[i].broken}
  <1>1. DOMAIN rules = 1 .. 5
    BY DEF PlaceRules
  <1>2. \A i \in 1 .. 5 : rules[i].code # "ok"
    BY DEF PlaceRules
  <1>3. /\ rules[4].broken <=> open >= cfg.maxOpenOrders
        /\ rules[5].broken <=> Notional(o) > Max({0, cfg.sessionCap - used})
    BY DEF PlaceRules
  <1>4. PlaceVerdict(o, reference, open, now) =
          IF CommonVerdict(now) # "ok" THEN CommonVerdict(now)
          ELSE IF broken = {} THEN "ok" ELSE rules[Min(broken)].code
    BY DEF PlaceVerdict
  <1> HIDE DEF rules
  <1>5. CommonVerdict(now) = "ok"
    BY <1>4
  <1>6. broken = {}
    <2>1. SUFFICES ASSUME broken # {} PROVE FALSE
      OBVIOUS
    <2>2. broken \subseteq 1 .. 5 /\ broken \subseteq Nat
      BY <1>1
    <2>3. \E i \in broken : \A j \in broken : i <= j
      BY <2>1, <2>2, LeastNumber
    <2> HIDE DEF broken
    <2>4. Min(broken) \in broken
      BY <2>3 DEF Min
    <2>5. rules[Min(broken)].code # "ok"
      BY <1>2, <2>2, <2>4
    <2>6. QED
      BY <1>4, <1>5, <2>1, <2>5
  <1>7. 4 \in DOMAIN rules /\ 5 \in DOMAIN rules
    BY <1>1
  <1>8. QED
    BY <1>3, <1>5, <1>6, <1>7

(* What a check makes of a call.                                           *)
LEMMA CheckedCall ==
  ASSUME ToolsInv, NEW c \in Call, call[c].step = "check", NEW verdict, Checked(c, verdict),
         verdict = "ok" => CommonVerdict(call[c].now) = "ok"
  PROVE  /\ Becomes(c) /\ CallRight(call'[c], clock)
         /\ holder' \in {holder, c, NoCall} /\ \A e \in Call \ {c} : holder' = e <=> holder = e
         /\ holder' = c <=> Placing(call'[c])
         /\ call'[c].acted => CommonVerdict(call[c].now) = "ok" /\ call'[c].now = call[c].now
         /\ verdict = "ok" => /\ call'[c].step = call[c].tool /\ call'[c].answer = "none"
                              /\ call'[c].open = call[c].open /\ call'[c].order = call[c].order
                              /\ holder' = holder
         /\ verdict # "ok" => call'[c].step = "done" /\ holder' # c
  <1>1. /\ call \in [Call -> CallRecord] /\ CallRight(call[c], clock) /\ call[c] \in CallRecord
        /\ (holder = c <=> Placing(call[c])) /\ holder \in Call \cup {NoCall}
    BY CallFacts
  <1>2. call[c].answer = "none" /\ ~call[c].acted /\ call[c].tool \in ToolNames \ {"none"}
    BY <1>1 DEF CallRight, CallRecord, Remote
  <1>3. PICK passes \in BOOLEAN : passes = (CommonVerdict(call[c].now) = "ok")
    OBVIOUS
  <1> DEFINE passed == [call EXCEPT ![c].acted = passes]
  <1>4. passed = [call EXCEPT ![c].acted = CommonVerdict(call[c].now) = "ok"]
    BY <1>3
  <1>5. IF verdict = "ok"
        THEN call' = [passed EXCEPT ![c].step = call[c].tool] /\ UNCHANGED holder
        ELSE ReturnFrom(passed, c)
    BY <1>4 DEF Checked
  <1>6. /\ passed \in [Call -> CallRecord] /\ \A e \in Call \ {c} : passed[e] = call[e]
        /\ passed[c].acted = passes /\ passed[c].now = call[c].now /\ passed[c].key = call[c].key
        /\ passed[c].tool = call[c].tool /\ passed[c].order = call[c].order
        /\ passed[c].open = call[c].open /\ passed[c].answer = call[c].answer
    BY <1>1 DEF CallRecord
  <1> HIDE DEF passed
  <1>7. CASE verdict = "ok"
    <2>1. call' = [passed EXCEPT ![c].step = call[c].tool] /\ holder' = holder
      BY <1>5, <1>7
    <2>2. call[c].tool \in Steps
      BY <1>2 DEF ToolNames, Steps
    <2>3. /\ call' \in [Call -> CallRecord] /\ \A e \in Call \ {c} : call'[e] = passed[e]
          /\ call'[c].acted = passed[c].acted /\ call'[c].now = passed[c].now
          /\ call'[c].tool = passed[c].tool /\ call'[c].order = passed[c].order
          /\ call'[c].open = passed[c].open /\ call'[c].answer = passed[c].answer
          /\ call'[c].step = call[c].tool /\ call'[c] \in CallRecord
          /\ call'[c].key = passed[c].key
      BY <1>6, <2>1, <2>2 DEF CallRecord
    <2>4. Becomes(c)
      BY <1>6, <2>3 DEF Becomes
    <2>5. Placing(call'[c]) <=> Placing(call[c])
      BY <1>2, <1>6, <2>3 DEF Placing, ToolNames
    <2>6. CallRight(call'[c], clock)
      BY <1>1, <1>2, <1>6, <2>3 DEF CallRight, Placing, ToolNames
    <2>7. QED
      BY <1>1, <1>2, <1>3, <1>6, <1>7, <2>1, <2>3, <2>4, <2>5, <2>6
  <1>8. CASE verdict # "ok"
    <2>1. ReturnFrom(passed, c)
      BY <1>5, <1>8
    <2>2. /\ Becomes(c) /\ call'[c].step = "done"
          /\ call'[c].acted = passed[c].acted
          /\ call'[c].acted => call'[c].now = passed[c].now
          /\ CallRight(call'[c], clock) /\ ~Placing(call'[c])
          /\ holder' \in {holder, c, NoCall} /\ holder' # c
          /\ \A e \in Call \ {c} : holder' = e <=> holder = e
      BY <1>1, <1>6, <2>1, ReturnedCall
    <2>3. QED
      BY <1>3, <1>6, <1>8, <2>2
  <1>9. QED
    BY <1>7, <1>8

LEMMA KeepsCheck ==
  ASSUME ToolsInv, NEW c \in Call, Check(c)
  PROVE  ToolsInv'
  <1> DEFINE d == call[c]
             verdict == IF d.tool = "place"
                        THEN PlaceVerdict(d.order, d.reference, d.open, d.now)
                        ELSE CommonVerdict(d.now)
  <1>1. /\ call[c].step = "check" /\ UNCHANGED <<cfg, clock, queue, book>>
        /\ Checked(c, verdict) /\ actions' = Entered(call[c].now)
        /\ used' = IF call[c].tool = "place" /\ verdict = "ok"
                   THEN used + Notional(call[c].order) ELSE used
    BY DEF Check, CheckPlace, CheckCancel
  <1>2. verdict = "ok" =>
          /\ CommonVerdict(call[c].now) = "ok"
          /\ call[c].tool = "place" =>
               /\ ~(call[c].open >= cfg.maxOpenOrders)
               /\ ~(Notional(call[c].order) > Max({0, cfg.sessionCap - used}))
    BY VerdictAllows
  <1> HIDE DEF verdict
  <1>3. /\ Becomes(c) /\ CallRight(call'[c], clock)
        /\ holder' \in {holder, c, NoCall} /\ \A e \in Call \ {c} : holder' = e <=> holder = e
        /\ holder' = c <=> Placing(call'[c])
        /\ call'[c].acted => CommonVerdict(call[c].now) = "ok" /\ call'[c].now = call[c].now
        /\ verdict = "ok" => /\ call'[c].step = call[c].tool /\ call'[c].answer = "none"
                             /\ call'[c].open = call[c].open /\ call'[c].order = call[c].order
                             /\ holder' = holder
        /\ verdict # "ok" => call'[c].step = "done" /\ holder' # c
    BY <1>1, <1>2, CheckedCall
  <1>4. /\ call \in [Call -> CallRecord] /\ CallRight(call[c], clock) /\ call[c] \in CallRecord
        /\ (holder = c <=> Placing(call[c])) /\ c # NoCall
    BY CallFacts
  <1>5. /\ call[c].answer = "none" /\ ~call[c].acted /\ call[c].now \in Nat
        /\ call[c].now <= clock /\ call[c].open \in Nat
        /\ call[c].tool = "place" => call[c].order \in Orders
    BY <1>1, <1>4 DEF CallRight, CallRecord, Remote, Placing
  <1>6. /\ cfg.maxOpenOrders \in Nat /\ cfg.sessionCap \in Nat /\ used \in Nat
    BY LimitsAreNumbers DEF ToolsInv
  <1>7. WindowRight' /\ actions' \in Seq(0 .. MaxClock)
    <2>1. UNCHANGED <<clock, cfg>> /\ WindowRight /\ PolicyRight
      BY <1>1 DEF ToolsInv
    <2>2. QED
      BY <1>1, <1>3, <1>4, <1>5, <2>1, ChecksWindow
  <1>8. used' \in Nat
    BY <1>1, <1>5, <1>6, Assumed
  <1>9. PolicyRight' /\ BookRight'
    BY <1>1, <1>7, <1>8 DEF ToolsInv, PolicyRight, BookRight
  <1>10. CallsRight'
    BY <1>1, <1>3, OwnCalls DEF ToolsInv
  <1>11. QueueRight'
    BY <1>1, <1>3, <1>5, OwnQueue DEF ToolsInv
  <1>12. CountRight'
    <2>1. call'[c].step = "place" => verdict = "ok" /\ call[c].tool = "place"
      BY <1>3
    <2>2. call'[c].step = "place" => call'[c].open < cfg.maxOpenOrders
      <3>1. \A k, l \in Nat : ~(k >= l) => k < l
        OBVIOUS
      <3>2. QED
        BY <1>2, <1>3, <1>5, <1>6, <2>1, <3>1
    <2>3. holder' = c /\ Counted(call'[c]) =>
            holder = c /\ Counted(call[c]) /\ call'[c].open = call[c].open
      BY <1>1, <1>3 DEF Counted
    <2>4. QED
      BY <1>1, <1>3, <2>2, <2>3, OwnCount DEF ToolsInv
  <1>13. OpenOrdersWithinLimit'
    BY <1>1, OwnLimit DEF ToolsInv
  <1>14. ChargesRight'
    <2>1. CASE call'[c].step # "place"
      <3>1. used' = used
        BY <1>1, <1>3, <2>1
      <3>2. QED
        BY <1>1, <1>3, <2>1, <3>1, OwnCharges DEF ToolsInv
    <2>2. CASE call'[c].step = "place"
      <3>1. verdict = "ok" /\ call[c].tool = "place"
        BY <1>3, <2>2
      <3>2. holder = c /\ holder' = c
        BY <1>1, <1>3, <1>4, <3>1 DEF Placing
      <3>3. PICK n : n = Notional(call[c].order)
        OBVIOUS
      <3>4. n \in Nat /\ n > 0
        BY <1>5, <3>1, <3>3, Assumed
      <3>5. used' = used + n /\ Unsettled' = n
        BY <1>1, <1>3, <1>4, <2>2, <3>1, <3>2, <3>3 DEF Unsettled, Charge
      <3>6. Unsettled = 0
        BY <1>1, <1>4, <3>2 DEF Unsettled, Charge
      <3>7. used + n <= cfg.sessionCap
        <4>1. ~(n > IF cfg.sessionCap - used > 0 THEN cfg.sessionCap - used ELSE 0)
          BY <1>2, <1>6, <3>1, <3>3, RoomLeft
        <4>2. QED
          BY <1>6, <3>4, <4>1
      <3>8. PICK vb, vq \in Nat : vb = Value(book, DOMAIN book) /\ vq = Value(queue, QueuedPlaces)
        BY ChargesAreNumbers DEF ToolsInv
      <3>9. vb + vq + 0 <= used
        BY <3>6, <3>8 DEF ToolsInv, ChargesRight
      <3>10. vb + vq + n <= used + n
        BY <1>6, <3>4, <3>9
      <3>11. Value(book, DOMAIN book)' = vb /\ Value(queue, QueuedPlaces)' = vq
        BY <1>1, <3>8 DEF Value, QueuedPlaces
      <3>12. QED
        BY <1>1, <3>5, <3>7, <3>10, <3>11 DEF ChargesRight
    <2>3. QED
      BY <2>1, <2>2
  <1>15. QED
    BY <1>7, <1>9, <1>10, <1>11, <1>12, <1>13, <1>14 DEF ToolsInv

LEMMA KeepsPlaced ==
  ASSUME ToolsInv, NEW c \in Call, Placed(c)
  PROVE  ToolsInv'
  <1>1. /\ call[c].step = "place" /\ call[c].answer # "waiting" /\ ReturnFrom(call, c)
        /\ UNCHANGED <<clock, queue, book>>
        /\ IF Releases(call[c].answer) THEN Release(call[c].order) ELSE UNCHANGED policyVars
    BY DEF Placed, Codes, Definitive, Indefinite
  <1>2. CASE UNCHANGED policyVars
    BY <1>1, <1>2, ReturnStep
  <1>3. CASE Releases(call[c].answer)
    <2>1. /\ used' = Max({0, used - Notional(call[c].order)}) /\ UNCHANGED <<cfg, actions>>
          /\ call[c].answer \in Definitive
      BY <1>1, <1>3 DEF Release, Releases
    <2>2. /\ call \in [Call -> CallRecord] /\ CallRight(call[c], clock) /\ call[c] \in CallRecord
          /\ (holder = c <=> Placing(call[c])) /\ holder \in Call \cup {NoCall} /\ c # NoCall
      BY CallFacts
    <2>3. holder = c /\ call[c].order \in Orders
      BY <1>1, <2>2 DEF CallRight, Placing
    <2>4. /\ Becomes(c) /\ call'[c].step = "done"
          /\ call'[c].acted => call[c].acted /\ call'[c].now = call[c].now
          /\ CallRight(call'[c], clock) /\ ~Placing(call'[c])
          /\ holder' \in {holder, c, NoCall} /\ holder' # c
          /\ \A e \in Call \ {c} : holder' = e <=> holder = e
      BY <1>1, <2>2, ReturnedCall
    <2>5. holder' = NoCall
      BY <2>3, <2>4
    <2>6. PICK n : n = Notional(call[c].order)
      OBVIOUS
    <2>7. n \in Nat /\ Unsettled = n /\ Unsettled' = 0
      BY <1>1, <2>1, <2>2, <2>3, <2>5, <2>6, Assumed DEF Unsettled, Charge
    <2>8. PICK vb, vq \in Nat : vb = Value(book, DOMAIN book) /\ vq = Value(queue, QueuedPlaces)
      BY ChargesAreNumbers DEF ToolsInv
    <2>9. vb + vq + n <= used /\ used <= cfg.sessionCap
      BY <2>7, <2>8 DEF ToolsInv, ChargesRight
    <2>10. used \in Nat /\ cfg.sessionCap \in Nat
      BY LimitsAreNumbers DEF ToolsInv
    <2>11. used' = IF used - n > 0 THEN used - n ELSE 0
      BY <2>1, <2>6, <2>7, <2>10, RoomLeft
    <2>12. \A b, q, k, u, l \in Nat : b + q + k <= u /\ u <= l =>
             /\ (IF u - k > 0 THEN u - k ELSE 0) \in Nat
             /\ b + q + 0 <= (IF u - k > 0 THEN u - k ELSE 0)
             /\ (IF u - k > 0 THEN u - k ELSE 0) <= l
      OBVIOUS
    <2>13. used' \in Nat /\ vb + vq + 0 <= used' /\ used' <= cfg.sessionCap
      BY <2>7, <2>9, <2>10, <2>11, <2>12
    <2>14. PolicyRight' /\ BookRight'
      BY <1>1, <2>1, <2>13 DEF ToolsInv, PolicyRight, BookRight
    <2>15. CallsRight'
      BY <1>1, <2>4, OwnCalls DEF ToolsInv
    <2>16. QueueRight'
      BY <1>1, <2>4, OwnQueue DEF ToolsInv
    <2>17. CountRight'
      BY <1>1, <2>1, <2>4, OwnCount DEF ToolsInv
    <2>18. OpenOrdersWithinLimit'
      BY <1>1, <2>1, OwnLimit DEF ToolsInv
    <2>19. ChargesRight'
      <3>1. Value(book, DOMAIN book)' = vb /\ Value(queue, QueuedPlaces)' = vq
        BY <1>1, <2>8 DEF Value, QueuedPlaces
      <3>2. QED
        BY <2>1, <2>7, <2>13, <3>1 DEF ChargesRight
    <2>20. WindowRight'
      BY <1>1, <2>1, <2>4, OwnWindow DEF ToolsInv
    <2>21. QED
      BY <2>14, <2>15, <2>16, <2>17, <2>18, <2>19, <2>20 DEF ToolsInv
  <1>4. QED
    BY <1>1, <1>2, <1>3

-----------------------------------------------------------------------------
(* Requests to the engine. What a call is told changes its answer, and     *)
(* with a count also what it knows to be open.                             *)
Told(c) ==
  /\ Becomes(c) /\ call'[c].answer # "none"
  /\ call'[c].step = call[c].step /\ call'[c].tool = call[c].tool
  /\ call'[c].key = call[c].key /\ call'[c].order = call[c].order
  /\ call'[c].acted = call[c].acted /\ call'[c].now = call[c].now

LEMMA ToldCalls ==
  ASSUME ToolsInv, NEW c \in Call, Told(c), call[c].step \in Remote, UNCHANGED <<clock, holder>>
  PROVE  CallsRight'
  <1>1. /\ CallRight(call[c], clock) /\ (holder = c <=> Placing(call[c]))
        /\ holder \in Call \cup {NoCall}
    BY CallFacts
  <1>2. call'[c] \in CallRecord
    BY DEF Told, Becomes
  <1>3. CallRight(call'[c], clock)
    <2>1. Placing(call'[c]) <=> Placing(call[c])
      BY DEF Told, Placing
    <2>2. QED
      BY <1>1, <1>2, <2>1 DEF Told, CallRight
  <1>4. holder' = c <=> Placing(call'[c])
    BY <1>1 DEF Told, Placing
  <1>5. QED
    BY <1>1, <1>3, <1>4, OwnCalls DEF ToolsInv, Told

LEMMA ToldWindow ==
  ASSUME ToolsInv, NEW c \in Call, Told(c), UNCHANGED <<clock, actions, cfg>>
  PROVE  WindowRight'
  BY OwnWindow DEF ToolsInv, Told

(* What is charged, once an answer is known.                               *)
LEMMA ToldUnsettled ==
  ASSUME ToolsInv, NEW c \in Call, Told(c), holder' = holder, call[c].step \in Remote
  PROVE  /\ holder # c => Unsettled' = Unsettled /\ call[c].step # "place"
         /\ holder = c => Unsettled = Charge(call[c]) /\ Unsettled' = Charge(call'[c])
  <1>1. /\ (holder = c <=> Placing(call[c])) /\ holder \in Call \cup {NoCall} /\ c # NoCall
        /\ CallRight(call[c], clock)
    BY CallFacts
  <1>2. call[c].step = "place" => holder = c
    BY <1>1 DEF CallRight, Placing
  <1>3. CASE holder = c
    BY <1>1, <1>3 DEF Unsettled, Charge
  <1>4. CASE holder # c
    <2>1. holder # NoCall => call'[holder] = call[holder]
      BY <1>1, <1>4 DEF Told, Becomes
    <2>2. QED
      BY <1>2, <1>4, <2>1 DEF Unsettled, Charge
  <1>5. QED
    BY <1>3, <1>4

LEMMA AnsweredCall ==
  ASSUME ToolsInv, NEW c \in Call, NEW answer \in Outcomes \ {"none"}, Answered(c, answer)
  PROVE  Told(c) /\ call'[c].answer = answer /\ call'[c].open = call[c].open
  <1>1. call \in [Call -> CallRecord] /\ call[c] \in CallRecord
    BY CallFacts
  <1>2. call' = [call EXCEPT ![c].answer = answer]
    BY DEF Answered
  <1>3. QED
    BY <1>1, <1>2 DEF Told, Becomes, CallRecord

(* A call that has an error, while the queue stays as it is, is in nobody's *)
(* way; a refusal leaves its charge to be given back.                      *)
LEMMA ErrorStep ==
  ASSUME ToolsInv, NEW c \in Call, NEW answer \in Codes, Answered(c, answer),
         call[c].step \in Remote, \A i \in DOMAIN queue : queue[i].call # c,
         answer \in Definitive => call[c].answer = "none",
         UNCHANGED <<policyVars, clock, holder, queue, book>>
  PROVE  ToolsInv'
  <1>1. UNCHANGED <<cfg, actions, used, clock, holder, queue, book>>
    BY DEF policyVars
  <1>2. answer \in Outcomes \ {"none", "waiting", "ok"}
    BY DEF Outcomes, Codes, Definitive, Indefinite
  <1>3. Told(c) /\ call'[c].answer = answer
    BY <1>2, AnsweredCall
  <1>4. PolicyRight' /\ BookRight'
    BY <1>1 DEF ToolsInv, PolicyRight, BookRight
  <1>5. CallsRight' /\ WindowRight'
    BY <1>1, <1>3, ToldCalls, ToldWindow
  <1>6. QueueRight'
    <2>1. \A i \in DOMAIN queue : Matches(queue[i], call) /\ queue[i] \in RequestRecord
      BY DEF ToolsInv, QueueRight
    <2>2. \A i \in DOMAIN queue : Matches(queue[i], call')
      BY <1>3, <2>1 DEF Told, Becomes, Matches, RequestRecord
    <2>3. QED
      BY <1>1, <2>2 DEF ToolsInv, QueueRight, Matches
  <1>7. CountRight'
    <2>1. ~Counted(call'[c]) /\ ~(call'[c].step = "place" /\ call'[c].answer = "none")
      BY <1>2, <1>3 DEF Counted, Told, Remote
    <2>2. Becomes(c)
      BY <1>3 DEF Told
    <2>3. QED
      BY <1>1, <2>1, <2>2, OwnCount DEF ToolsInv
  <1>8. OpenOrdersWithinLimit'
    BY <1>1, OwnLimit DEF ToolsInv
  <1>9. ChargesRight'
    <2>1. Unsettled' \in {0, Unsettled}
      <3>1. CASE holder # c
        BY <1>1, <1>3, <3>1, ToldUnsettled
      <3>2. CASE holder = c
        <4>1. Unsettled = Charge(call[c]) /\ Unsettled' = Charge(call'[c])
          BY <1>1, <1>3, <3>2, ToldUnsettled
        <4>2. Charge(call'[c]) \in {0, Charge(call[c])}
          BY <1>2, <1>3 DEF Charge, Told, Definitive
        <4>3. QED
          BY <4>1, <4>2
      <3>3. QED
        BY <3>1, <3>2
    <2>2. /\ Value(book, DOMAIN book) \in Nat /\ Value(queue, QueuedPlaces) \in Nat
          /\ Unsettled \in Nat /\ used \in Nat
      BY ChargesAreNumbers DEF ToolsInv, PolicyRight
    <2>3. Value(book, DOMAIN book)' = Value(book, DOMAIN book)
          /\ Value(queue, QueuedPlaces)' = Value(queue, QueuedPlaces)
      BY <1>1 DEF Value, QueuedPlaces
    <2>4. \A a, b, u, t \in Nat : a + b + u <= t => a + b + 0 <= t
      OBVIOUS
    <2>5. QED
      BY <1>1, <2>1, <2>2, <2>3, <2>4 DEF ToolsInv, ChargesRight
  <1>10. QED
    BY <1>4, <1>5, <1>6, <1>7, <1>8, <1>9 DEF ToolsInv

LEMMA NobodyBehind ==
  ASSUME ToolsInv, NEW c \in Call, call[c].answer # "waiting"
  PROVE  \A i \in DOMAIN queue : queue[i].call # c
  BY Assumed DEF ToolsInv, QueueRight, Matches

(* A placement that is sent finds none queued, and no count of another.    *)
LEMMA SendsAlone ==
  ASSUME ToolsInv, NEW c \in Call, call[c].step = "place", call[c].answer = "none"
  PROVE  /\ holder = c /\ call[c].key \in Key /\ call[c].order \in Orders
         /\ QueuedPlaces = {} /\ Cardinality(LiveOrders) < cfg.maxOpenOrders
         /\ \A i \in DOMAIN queue : queue[i].kind # "count"
  <1>1. CallRight(call[c], clock) /\ (holder = c <=> Placing(call[c])) /\ call[c] \in CallRecord
    BY CallFacts
  <1>2. /\ holder = c /\ call[c].key \in Key /\ call[c].order \in Orders
    BY <1>1 DEF CallRight, Placing
  <1>3. /\ QueuedPlaces = {} /\ Cardinality(LiveOrders) <= call[c].open
        /\ call[c].open < cfg.maxOpenOrders
    BY <1>2 DEF ToolsInv, CountRight, Counted
  <1>4. Cardinality(LiveOrders) \in Nat /\ call[c].open \in Nat /\ cfg.maxOpenOrders \in Nat
    BY <1>1, KeysAreFinite, LimitsAreNumbers DEF ToolsInv, CallRecord
  <1>5. ASSUME NEW i \in DOMAIN queue, queue[i].kind = "count" PROVE FALSE
    <2>1. Matches(queue[i], call) /\ queue[i] \in RequestRecord
      BY DEF ToolsInv, QueueRight
    <2>2. queue[i].call \in Call /\ call[queue[i].call].step = "count"
      BY <1>5, <2>1 DEF Matches, RequestRecord
    <2>3. Placing(call[queue[i].call])
      BY <2>2, CallFacts DEF CallRight, Placing
    <2>4. holder = queue[i].call
      BY <2>2, <2>3, CallFacts
    <2>5. QED
      BY <1>2, <2>2, <2>4
  <1>6. QED
    BY <1>2, <1>3, <1>4, <1>5

LEMMA ValueOfNothing == \A list : Value(list, {}) = 0
  BY SumOfNothing DEF Value

LEMMA KeepsQueued ==
  ASSUME ToolsInv, NEW c \in Call, call[c].step \in Remote, call[c].answer = "none",
         Len(queue) < QueueRoom, queue' = Append(queue, Request(c)), Answered(c, "waiting"),
         UNCHANGED <<policyVars, clock, holder, book>>
  PROVE  ToolsInv'
  <1>1. UNCHANGED <<cfg, actions, used, clock, holder, book>>
    BY DEF policyVars
  <1>2. Told(c) /\ call'[c].answer = "waiting"
    <2>1. "waiting" \in Outcomes \ {"none"}
      BY DEF Outcomes
    <2>2. QED
      BY <2>1, AnsweredCall
  <1>3. /\ CallRight(call[c], clock) /\ call[c] \in CallRecord /\ c # NoCall
        /\ (holder = c <=> Placing(call[c])) /\ holder \in Call \cup {NoCall}
    BY CallFacts
  <1>4. PICK r : r = Request(c)
    OBVIOUS
  <1>5. /\ r \in RequestRecord /\ r.call = c /\ r.kind = call[c].step
        /\ r.key = call[c].key /\ r.order = call[c].order
    BY <1>3, <1>4 DEF Request, RequestRecord, CallRecord
  <1>6. r.kind = "place" => /\ holder = c /\ r.key \in Key /\ r.order \in Orders
                            /\ QueuedPlaces = {} /\ Cardinality(LiveOrders) < cfg.maxOpenOrders
                            /\ \A i \in DOMAIN queue : queue[i].kind # "count"
    BY <1>5, SendsAlone
  <1>7. PICK n : n = Len(queue) + 1
    OBVIOUS
  <1>8. /\ queue \in Seq(RequestRecord) /\ DOMAIN queue = 1 .. Len(queue)
        /\ Len(queue) \in Nat /\ QueueRoom \in Nat
    BY ListsAreFinite, Assumed DEF ToolsInv, QueueRight
  <1>9. /\ queue' \in Seq(RequestRecord) /\ Len(queue') = n /\ DOMAIN queue' = 1 .. n
        /\ queue'[n] = r /\ \A i \in DOMAIN queue : queue'[i] = queue[i]
    <2>1. PICK q : q = Append(queue, r)
      OBVIOUS
    <2>2. /\ q \in Seq(RequestRecord) /\ Len(q) = Len(queue) + 1
          /\ DOMAIN q = 1 .. Len(queue) + 1 /\ q[Len(queue) + 1] = r
          /\ \A i \in 1 .. Len(queue) : q[i] = queue[i]
      BY <1>5, <1>8, <2>1, AppendFacts
    <2>3. queue' = q
      BY <1>4, <2>1
    <2>4. QED
      BY <1>7, <1>8, <2>2, <2>3
  <1>10. /\ 1 .. n = DOMAIN queue \cup {n} /\ n \notin DOMAIN queue /\ n \in Nat /\ n <= QueueRoom
         /\ \A i \in DOMAIN queue : i < n /\ i \in Nat
    BY <1>7, <1>8
  <1>11. /\ \A i \in DOMAIN queue :
              /\ Matches(queue[i], call) /\ queue[i] \in RequestRecord
              /\ queue[i].kind = "place" => queue[i].key \in Key /\ queue[i].order \in Orders
         /\ \A i, j \in DOMAIN queue :
              queue[i].call = queue[j].call => i = j \/ queue[i].call = NoCall
         /\ \A i, j \in DOMAIN queue : i < j /\ queue[i].kind = "count" => queue[j].kind # "place"
         /\ \A i \in DOMAIN queue : queue[i].call # c
    BY NobodyBehind DEF ToolsInv, QueueRight
  <1>12. PolicyRight' /\ BookRight'
    BY <1>1 DEF ToolsInv, PolicyRight, BookRight
  <1>13. CallsRight' /\ WindowRight'
    BY <1>1, <1>2, ToldCalls, ToldWindow
  <1>14. QueueRight'
    <2>1. \A i \in DOMAIN queue' :
            /\ Matches(queue'[i], call')
            /\ queue'[i].kind = "place" => queue'[i].key \in Key /\ queue'[i].order \in Orders
      <3>1. \A i \in DOMAIN queue : Matches(queue[i], call')
        BY <1>2, <1>11 DEF Told, Becomes, Matches, RequestRecord
      <3>2. Matches(r, call')
        BY <1>2, <1>3, <1>5 DEF Matches, Told
      <3>3. QED
        BY <1>6, <1>9, <1>10, <1>11, <3>1, <3>2
    <2>2. \A i, j \in DOMAIN queue' :
            queue'[i].call = queue'[j].call => i = j \/ queue'[i].call = NoCall
      BY <1>5, <1>9, <1>10, <1>11
    <2>3. \A i, j \in DOMAIN queue' : i < j /\ queue'[i].kind = "count" => queue'[j].kind # "place"
      <3>1. SUFFICES ASSUME NEW i \in DOMAIN queue', NEW j \in DOMAIN queue',
                            i < j, queue'[i].kind = "count"
                     PROVE  queue'[j].kind # "place"
        OBVIOUS
      <3>2. i \in DOMAIN queue
        BY <1>9, <1>10, <3>1
      <3>3. CASE j = n
        BY <1>6, <1>9, <3>1, <3>2, <3>3
      <3>4. CASE j # n
        BY <1>9, <1>10, <1>11, <3>1, <3>2, <3>4
      <3>5. QED
        BY <3>3, <3>4
    <2>4. QED
      BY <1>9, <1>10, <2>1, <2>2, <2>3 DEF QueueRight, Matches, RequestRecord, SentKey
  <1>15. QueuedPlaces' = IF r.kind = "place" THEN {n} ELSE QueuedPlaces
    <2>1. QueuedPlaces' = {i \in DOMAIN queue' : queue'[i].kind = "place"}
      BY DEF QueuedPlaces
    <2>2. QueuedPlaces' = QueuedPlaces \cup (IF r.kind = "place" THEN {n} ELSE {})
      BY <1>9, <1>10, <2>1 DEF QueuedPlaces
    <2>3. QED
      BY <1>6, <2>2
  <1>16. LiveOrders' = LiveOrders /\ BookKeys' = BookKeys
    BY <1>1 DEF LiveOrders, BookKeys
  <1>17. CountRight'
    <2>1. ~Counted(call'[c]) /\ call'[c].answer # "none"
      BY <1>2 DEF Counted, Told, Remote
    <2>2. ASSUME NEW e \in Call
          PROVE  /\ holder = e /\ Counted(call'[e]) =>
                      QueuedPlaces' = {} /\ Cardinality(LiveOrders) <= call'[e].open
                 /\ call'[e].step = "place" /\ call'[e].answer = "none"
                      => call'[e].open < cfg.maxOpenOrders
      <3>1. CASE e = c
        BY <2>1, <3>1
      <3>2. CASE e # c
        <4>1. call'[e] = call[e]
          BY <1>2, <3>2 DEF Told, Becomes
        <4>2. holder = e => QueuedPlaces' = QueuedPlaces
          BY <1>6, <1>15, <3>2
        <4>3. QED
          BY <4>1, <4>2 DEF ToolsInv, CountRight
      <3>3. QED
        BY <3>1, <3>2
    <2>3. QED
      BY <1>1, <1>16, <2>2 DEF CountRight, Counted
  <1>18. OpenOrdersWithinLimit'
    <2>1. Cardinality(LiveOrders) + Cardinality(Fresh) <= cfg.maxOpenOrders
          /\ Cardinality(LiveOrders) \in Nat /\ cfg.maxOpenOrders \in Nat
      BY LimitMeans, KeysAreFinite, LimitsAreNumbers DEF ToolsInv
    <2>2. CASE r.kind # "place"
      <3>1. QueuedKeys' = QueuedKeys
        BY <1>9, <1>15, <2>2 DEF QueuedKeys, QueuedPlaces
      <3>2. Fresh' = Fresh
        BY <1>16, <3>1 DEF Fresh
      <3>3. QED
        BY <1>1, <1>16, <2>1, <3>2, LimitMeans
    <2>3. CASE r.kind = "place"
      <3>1. QueuedKeys' = {r.key}
        BY <1>9, <1>15, <2>3 DEF QueuedKeys
      <3>2. Fresh' \in SUBSET {r.key}
        BY <3>1 DEF Fresh
      <3>3. IsFiniteSet({r.key}) /\ Cardinality({r.key}) = 1
        BY FS_Singleton
      <3>4. IsFiniteSet(Fresh') /\ Cardinality(Fresh') <= 1 /\ Cardinality(Fresh') \in Nat
        BY <3>2, <3>3, FS_Subset, FS_CardinalityType
      <3>5. \A l, f, m \in Nat : l < m /\ f <= 1 => l + f <= m
        OBVIOUS
      <3>6. Cardinality(LiveOrders) + Cardinality(Fresh') <= cfg.maxOpenOrders
        BY <1>6, <2>1, <2>3, <3>4, <3>5
      <3>7. QED
        BY <1>1, <1>16, <3>6, LimitMeans
    <2>4. QED
      BY <2>2, <2>3
  <1>19. ChargesRight'
    <2>1. Value(book, DOMAIN book)' = Value(book, DOMAIN book)
      BY <1>1 DEF Value
    <2>2. Value(queue, QueuedPlaces)' = Value(queue', QueuedPlaces')
      BY DEF Value
    <2>3. PICK vb, vq, u \in Nat : /\ vb = Value(book, DOMAIN book)
                                   /\ vq = Value(queue, QueuedPlaces) /\ u = Unsettled
      BY ChargesAreNumbers DEF ToolsInv
    <2>4. vb + vq + u <= used /\ used <= cfg.sessionCap
      BY <2>3 DEF ToolsInv, ChargesRight
    <2>5. used \in Nat
      BY DEF ToolsInv, PolicyRight
    <2>6. CASE r.kind # "place"
      <3>1. Value(queue, QueuedPlaces) = Value(queue', QueuedPlaces)
        <4>1. /\ IsFiniteSet(QueuedPlaces) /\ QueuedPlaces \subseteq DOMAIN queue
              /\ \A i \in QueuedPlaces : queue[i].order \in Orders
          BY ListsAreFinite DEF ToolsInv
        <4>2. \A i \in QueuedPlaces :
                queue[i].order \in Orders /\ queue[i].order = queue'[i].order
          BY <1>9, <4>1
        <4>3. QED
          BY ONLY <4>1, <4>2, ValueSame
      <3>2. Unsettled' = Unsettled
        <4>1. CASE holder # c
          BY <1>1, <1>2, <4>1, ToldUnsettled
        <4>2. CASE holder = c
          BY <1>1, <1>2, <1>5, <2>6, <4>2, ToldUnsettled DEF Charge, Told
        <4>3. QED
          BY <4>1, <4>2
      <3>3. QED
        BY <1>1, <1>15, <2>1, <2>2, <2>6, <3>1, <3>2 DEF ToolsInv, ChargesRight
    <2>7. CASE r.kind = "place"
      <3>1. PICK v : v = Notional(r.order)
        OBVIOUS
      <3>2. v \in Nat /\ r.order \in Orders /\ holder = c
        BY <1>6, <2>7, <3>1, Assumed
      <3>3. vq = 0
        BY <1>6, <2>3, <2>7, ValueOfNothing
      <3>4. Value(queue', {n}) = v
        <4>1. IsFiniteSet({n}) /\ n \in {n} /\ \A j \in {n} : queue'[j].order \in Orders
          BY <1>9, <3>2, FS_Singleton
        <4>2. Value(queue', {n}) = Notional(queue'[n].order) + Value(queue', {n} \ {n})
          BY <4>1, ValueAdds
        <4>3. {n} \ {n} = {}
          OBVIOUS
        <4>4. Value(queue', {n} \ {n}) = 0
          BY <4>3, ValueOfNothing
        <4>5. Notional(queue'[n].order) = v
          BY <1>9, <3>1
        <4>6. \A k \in Nat : k + 0 = k
          OBVIOUS
        <4>7. QED
          BY ONLY <3>2, <4>2, <4>4, <4>5, <4>6
      <3>5. u = v /\ Unsettled' = 0
        BY <1>1, <1>2, <1>5, <2>3, <2>7, <3>1, <3>2, ToldUnsettled DEF Charge, Told, Definitive
      <3>6. vb + v + 0 <= used
        BY <2>4, <2>5, <3>2, <3>3, <3>5
      <3>7. QED
        BY <1>1, <1>15, <2>1, <2>2, <2>3, <2>4, <2>7, <3>4, <3>5, <3>6 DEF ChargesRight
    <2>8. QED
      BY <2>6, <2>7
  <1>20. QED
    BY <1>12, <1>13, <1>14, <1>17, <1>18, <1>19 DEF ToolsInv

LEMMA KeepsSend ==
  ASSUME ToolsInv, NEW c \in Call, Send(c)
  PROVE  ToolsInv'
  <1>1. /\ call[c].step \in Remote /\ call[c].answer = "none"
        /\ UNCHANGED <<policyVars, clock, holder, book>>
    BY DEF Send
  <1>2. CASE /\ Len(queue) < QueueRoom /\ queue' = Append(queue, Request(c))
             /\ Answered(c, "waiting")
    BY <1>1, <1>2, KeepsQueued
  <1>3. ASSUME NEW answer \in {"RESOURCE_EXHAUSTED", "UNAVAILABLE"}, Answered(c, answer),
               UNCHANGED queue
        PROVE  ToolsInv'
    <2>1. answer \in Codes
      BY DEF Codes, Definitive, Indefinite
    <2>2. \A i \in DOMAIN queue : queue[i].call # c
      BY <1>1, NobodyBehind
    <2>3. QED
      BY <1>1, <1>3, <2>1, <2>2, ErrorStep
  <1>4. QED
    BY <1>2, <1>3 DEF Send

-----------------------------------------------------------------------------
(* Requests leave the queue, or lose the call that waits, in no new order. *)
LEMMA RemoveFacts ==
  ASSUME NEW S, NEW s \in Seq(S), NEW i \in 1 .. Len(s), NEW t, t = RemoveAt(s, i)
  PROVE  /\ t \in Seq(S) /\ Len(t) = Len(s) - 1
         /\ \A j \in 1 .. Len(s) - 1 : t[j] = s[IF j < i THEN j ELSE j + 1]
  <1>1. PICK n \in Nat : n = Len(s)
    BY LenProperties
  <1>2. PICK u, v : u = SubSeq(s, 1, i - 1) /\ v = SubSeq(s, i + 1, n)
    OBVIOUS
  <1>3. t = u \o v
    BY <1>1, <1>2 DEF RemoveAt
  <1>4. i \in 1 .. n /\ i \in Int
    BY <1>1
  <1>5. /\ i - 1 \in 0 .. n /\ i + 1 \in 1 .. n + 1 /\ n \in (i + 1) - 1 .. n
        /\ n - (i + 1) + 1 = n - i /\ n - i \in Nat /\ (i - 1) + (n - i) = n - 1
    BY <1>4
  <1>6. u \in Seq(S) /\ Len(u) = i - 1 /\ \A j \in 1 .. i - 1 : u[j] = s[j]
    BY <1>1, <1>2, <1>5, PrefixFacts
  <1>7. v \in Seq(S) /\ Len(v) = n - i /\ \A j \in 1 .. n - i : v[j] = s[(i + 1) + j - 1]
    BY <1>1, <1>2, <1>5, SubSeqFacts
  <1>8. /\ u \o v \in Seq(S) /\ Len(u \o v) = n - 1
        /\ \A j \in 1 .. n - 1 : (u \o v)[j] = IF j <= i - 1 THEN u[j] ELSE v[j - (i - 1)]
    <2>1. /\ u \o v \in Seq(S) /\ Len(u \o v) = Len(u) + Len(v)
          /\ \A j \in 1 .. Len(u) + Len(v) :
               (u \o v)[j] = IF j <= Len(u) THEN u[j] ELSE v[j - Len(u)]
      BY <1>6, <1>7, ConcatProperties
    <2>2. Len(u) + Len(v) = n - 1
      BY <1>5, <1>6, <1>7
    <2>3. QED
      BY <1>6, <2>1, <2>2
  <1>9. ASSUME NEW j \in 1 .. n - 1
        PROVE  t[j] = s[IF j < i THEN j ELSE j + 1]
    <2>1. CASE j < i
      <3>1. j <= i - 1 /\ j \in 1 .. i - 1
        BY <1>4, <2>1
      <3>2. QED
        BY <1>3, <1>6, <1>8, <2>1, <3>1
    <2>2. CASE ~(j < i)
      <3>1. /\ ~(j <= i - 1) /\ j - (i - 1) \in 1 .. n - i
            /\ (i + 1) + (j - (i - 1)) - 1 = j + 1
        BY <1>4, <2>2
      <3>2. PICK k : k = j - (i - 1)
        OBVIOUS
      <3>3. v[k] = s[(i + 1) + k - 1] /\ (i + 1) + k - 1 = j + 1
        BY <1>7, <3>1, <3>2
      <3>4. t[j] = v[k]
        BY <1>3, <1>8, <3>1, <3>2
      <3>5. QED
        BY <2>2, <3>3, <3>4
    <2>3. QED
      BY <2>1, <2>2
  <1>10. QED
    BY <1>1, <1>3, <1>8, <1>9

(* The places in the queue after a step, and where they were before it.    *)
Thins(b) ==
  /\ queue' \in Seq(RequestRecord) /\ Len(queue') <= QueueRoom
  /\ b \in [DOMAIN queue' -> DOMAIN queue]
  /\ \A i, j \in DOMAIN queue' : i < j => b[i] < b[j]
  /\ \A i \in DOMAIN queue' :
       /\ queue'[i].kind = queue[b[i]].kind /\ queue'[i].key = queue[b[i]].key
       /\ queue'[i].order = queue[b[i]].order
       /\ queue'[i].call \in {queue[b[i]].call, NoCall}
       /\ Matches(queue'[i], call')

LEMMA ThinningFacts ==
  ASSUME QueueRight, BookRight, NEW b, Thins(b), NEW left, left = {b[i] : i \in QueuedPlaces'}
  PROVE  /\ QueueRight' /\ left \subseteq QueuedPlaces
         /\ Value(queue, QueuedPlaces)' = Value(queue, left)
         /\ QueuedKeys' = {queue[i].key : i \in left} /\ QueuedKeys' \subseteq QueuedKeys
         /\ QueuedPlaces = {} => QueuedPlaces' = {}
  <1>1. /\ DOMAIN queue' = 1 .. Len(queue') /\ DOMAIN queue = 1 .. Len(queue)
        /\ queue \in Seq(RequestRecord) /\ Len(queue') \in Nat /\ Len(queue) \in Nat
    BY LenProperties DEF QueueRight, Thins
  <1>2. \A i \in DOMAIN queue' : i \in Int /\ b[i] \in DOMAIN queue /\ b[i] \in Int
    BY <1>1 DEF Thins
  <1>3. \A i, j \in DOMAIN queue' : b[i] = b[j] => i = j
    <2>1. SUFFICES ASSUME NEW i \in DOMAIN queue', NEW j \in DOMAIN queue', b[i] = b[j], i # j
                   PROVE  FALSE
      OBVIOUS
    <2>2. i < j \/ j < i
      BY <1>2, <2>1
    <2>3. b[i] < b[j] \/ b[j] < b[i]
      BY <2>2 DEF Thins
    <2>4. QED
      BY <1>2, <2>1, <2>3
  <1>4. \A i \in DOMAIN queue' :
          /\ queue'[i].kind = queue[b[i]].kind /\ queue'[i].key = queue[b[i]].key
          /\ queue'[i].order = queue[b[i]].order
          /\ queue'[i].call \in {queue[b[i]].call, NoCall}
          /\ Matches(queue'[i], call')
    BY DEF Thins
  <1>5. /\ \A i \in DOMAIN queue :
              queue[i].kind = "place" => queue[i].key \in Key /\ queue[i].order \in Orders
        /\ \A i, j \in DOMAIN queue :
             queue[i].call = queue[j].call => i = j \/ queue[i].call = NoCall
        /\ \A i, j \in DOMAIN queue : i < j /\ queue[i].kind = "count" => queue[j].kind # "place"
    BY DEF QueueRight
  <1>6. QueueRight'
    <2>1. \A i, j \in DOMAIN queue' :
            queue'[i].call = queue'[j].call => i = j \/ queue'[i].call = NoCall
      <3>1. SUFFICES ASSUME NEW i \in DOMAIN queue', NEW j \in DOMAIN queue',
                            queue'[i].call = queue'[j].call, queue'[i].call # NoCall
                     PROVE  i = j
        OBVIOUS
      <3>2. queue[b[i]].call = queue[b[j]].call /\ queue[b[i]].call # NoCall
        BY <1>4, <3>1
      <3>3. b[i] = b[j]
        BY <1>2, <1>5, <3>2
      <3>4. QED
        BY <1>3, <3>3
    <2>2. \A i, j \in DOMAIN queue' : i < j /\ queue'[i].kind = "count" => queue'[j].kind # "place"
      <3>1. \A i, j \in DOMAIN queue' : i < j => b[i] < b[j]
        BY DEF Thins
      <3>2. QED
        BY <1>2, <1>4, <1>5, <3>1
    <2>3. \A i \in DOMAIN queue' :
            /\ Matches(queue'[i], call')
            /\ queue'[i].kind = "place" => queue'[i].key \in Key /\ queue'[i].order \in Orders
      BY <1>2, <1>4, <1>5
    <2>4. queue' \in Seq(RequestRecord) /\ Len(queue') <= QueueRoom
      BY DEF Thins
    <2>5. QED
      BY <2>1, <2>2, <2>3, <2>4 DEF QueueRight, Matches, RequestRecord, SentKey
  <1>7. QueuedPlaces' = {i \in DOMAIN queue' : queue'[i].kind = "place"}
    BY DEF QueuedPlaces
  <1>8. left \subseteq QueuedPlaces
    BY <1>2, <1>4, <1>7 DEF QueuedPlaces
  <1>9. Value(queue, QueuedPlaces)' = Value(queue, left)
    <2>1. PICK places : places = QueuedPlaces'
      OBVIOUS
    <2>2. IsFiniteSet(places)
      <3>1. IsFiniteSet(1 .. Len(queue'))
        BY <1>1, FS_Interval
      <3>2. places \in SUBSET (1 .. Len(queue'))
        BY <1>1, <1>7, <2>1
      <3>3. QED
        BY <3>1, <3>2, FS_Subset
    <2>3. \A i \in places :
            queue'[i].order \in Orders /\ queue'[i].order = queue[b[i]].order
      BY <1>2, <1>4, <1>5, <1>7, <2>1
    <2>4. /\ \A i, j \in places : b[i] = b[j] => i = j
          /\ left = {b[i] : i \in places}
      BY <1>3, <1>7, <2>1
    <2>5. PICK q : q = queue'
      OBVIOUS
    <2>6. \A i \in places : q[i].order \in Orders /\ q[i].order = queue[b[i]].order
      BY <2>3, <2>5
    <2>7. Value(q, places) = Value(queue, left)
      BY ONLY <2>2, <2>4, <2>6, ValueMoves
    <2>8. Value(queue, QueuedPlaces)' = Value(q, places)
      BY <2>1, <2>5 DEF Value
    <2>9. QED
      BY <2>7, <2>8
  <1>10. QueuedKeys' = {queue[i].key : i \in left}
    <2>1. QueuedKeys' = {queue'[i].key : i \in QueuedPlaces'}
      BY DEF QueuedKeys
    <2>2. \A i \in QueuedPlaces' : queue'[i].key = queue[b[i]].key
      BY <1>4, <1>7
    <2>3. QED
      BY <2>1, <2>2
  <1>11. QueuedKeys' \subseteq QueuedKeys
    BY <1>8, <1>10 DEF QueuedKeys
  <1>12. QueuedPlaces = {} => QueuedPlaces' = {}
    BY <1>8
  <1>13. QED
    BY <1>6, <1>8, <1>9, <1>10, <1>11, <1>12

(* A call gives up: its request leaves, or stays with nobody waiting.      *)
LEMMA GivenUpStep ==
  ASSUME ToolsInv, NEW c \in Call, Answered(c, "DEADLINE"), call[c].step \in Remote,
         call[c].answer \notin {"none"} \cup Codes, NEW b, Thins(b),
         QueuedPlaces = {b[i] : i \in QueuedPlaces'},
         UNCHANGED <<policyVars, clock, holder, book>>
  PROVE  ToolsInv'
  <1>1. UNCHANGED <<cfg, actions, used, clock, holder, book>>
    BY DEF policyVars
  <1>2. Told(c) /\ call'[c].answer = "DEADLINE"
    <2>1. "DEADLINE" \in Outcomes \ {"none"}
      BY DEF Outcomes, Codes, Indefinite
    <2>2. QED
      BY <2>1, AnsweredCall
  <1>3. PolicyRight' /\ BookRight'
    BY <1>1 DEF ToolsInv, PolicyRight, BookRight
  <1>4. CallsRight' /\ WindowRight'
    BY <1>1, <1>2, ToldCalls, ToldWindow
  <1>5. /\ QueueRight'
        /\ Value(queue, QueuedPlaces)' = Value(queue, QueuedPlaces)
        /\ QueuedKeys' = QueuedKeys /\ (QueuedPlaces = {} => QueuedPlaces' = {})
    <2>1. QueueRight /\ BookRight /\ Thins(b)
      BY DEF ToolsInv
    <2>2. PICK left : left = QueuedPlaces
      OBVIOUS
    <2>3. left = {b[i] : i \in QueuedPlaces'}
      BY <2>2
    <2>4. /\ QueueRight'
          /\ Value(queue, QueuedPlaces)' = Value(queue, left)
          /\ QueuedKeys' = {queue[i].key : i \in left}
          /\ QueuedPlaces = {} => QueuedPlaces' = {}
      BY ONLY <2>1, <2>3, ThinningFacts
    <2>5. QED
      BY <2>2, <2>4 DEF QueuedKeys
  <1>6. LiveOrders' = LiveOrders /\ BookKeys' = BookKeys
        /\ Value(book, DOMAIN book)' = Value(book, DOMAIN book)
    BY <1>1 DEF LiveOrders, BookKeys, Value
  <1>7. CountRight'
    <2>1. ~Counted(call'[c]) /\ call'[c].answer # "none"
      BY <1>2 DEF Counted, Told, Remote
    <2>2. ASSUME NEW e \in Call
          PROVE  /\ holder = e /\ Counted(call'[e]) =>
                      QueuedPlaces' = {} /\ Cardinality(LiveOrders) <= call'[e].open
                 /\ call'[e].step = "place" /\ call'[e].answer = "none"
                      => call'[e].open < cfg.maxOpenOrders
      <3>1. CASE e = c
        BY <2>1, <3>1
      <3>2. CASE e # c
        <4>1. call'[e] = call[e]
          BY <1>2, <3>2 DEF Told, Becomes
        <4>2. QED
          BY <1>5, <4>1 DEF ToolsInv, CountRight
      <3>3. QED
        BY <3>1, <3>2
    <2>3. QED
      BY <1>1, <1>6, <2>2 DEF CountRight, Counted
  <1>8. OpenOrdersWithinLimit'
    <2>1. Fresh' = Fresh
      BY <1>5, <1>6 DEF Fresh
    <2>2. QED
      BY <1>1, <1>6, <2>1, LimitMeans DEF ToolsInv
  <1>9. ChargesRight'
    <2>1. Unsettled' \in {0, Unsettled}
      <3>1. CASE holder # c
        BY <1>1, <1>2, <3>1, ToldUnsettled
      <3>2. CASE holder = c
        BY <1>1, <1>2, <3>2, ToldUnsettled DEF Charge, Definitive
      <3>3. QED
        BY <3>1, <3>2
    <2>2. PICK vb, vq, u \in Nat : /\ vb = Value(book, DOMAIN book)
                                   /\ vq = Value(queue, QueuedPlaces) /\ u = Unsettled
      BY ChargesAreNumbers DEF ToolsInv
    <2>3. vb + vq + u <= used /\ used <= cfg.sessionCap /\ used \in Nat
      BY <2>2 DEF ToolsInv, ChargesRight, PolicyRight
    <2>4. vb + vq + 0 <= used
      BY <2>3
    <2>5. QED
      BY <1>1, <1>5, <1>6, <2>1, <2>2, <2>3, <2>4 DEF ChargesRight
  <1>10. QED
    BY <1>3, <1>4, <1>5, <1>7, <1>8, <1>9 DEF ToolsInv

LEMMA KeepsGiveUp ==
  ASSUME ToolsInv, NEW c \in Call, GiveUp(c)
  PROVE  ToolsInv'
  <1>1. /\ call[c].step \in Remote /\ call[c].answer \notin {"none"} \cup Codes
        /\ Answered(c, "DEADLINE") /\ UNCHANGED <<policyVars, clock, holder, book>>
    BY DEF GiveUp
  <1>2. CASE (\A i \in DOMAIN queue : queue[i].call # c) /\ UNCHANGED queue
    <2>1. "DEADLINE" \in Codes /\ "DEADLINE" \notin Definitive
      BY DEF Codes, Indefinite, Definitive
    <2>2. QED
      BY <1>1, <1>2, <2>1, ErrorStep
  <1>3. ASSUME NEW i \in DOMAIN queue, queue[i].call = c,
               queue' = IF queue[i].kind \in {"list", "count"} THEN RemoveAt(queue, i)
                        ELSE [queue EXCEPT ![i].call = NoCall]
        PROVE  ToolsInv'
    <2>1. /\ queue \in Seq(RequestRecord) /\ DOMAIN queue = 1 .. Len(queue)
          /\ Len(queue) \in Nat /\ Len(queue) <= QueueRoom /\ QueueRoom \in Nat
      BY ListsAreFinite, Assumed DEF ToolsInv, QueueRight
    <2>2. PICK n \in Nat : n = Len(queue)
      BY <2>1
    <2>3. \A j \in DOMAIN queue : queue[j] \in RequestRecord
      BY <2>1, ElementOfSeq
    <2>4. Told(c)
      <3>1. "DEADLINE" \in Outcomes \ {"none"}
        BY DEF Outcomes, Codes, Indefinite
      <3>2. QED
        BY <1>1, <3>1, AnsweredCall
    <2>5. \A j \in DOMAIN queue \ {i} : queue[j].call # c /\ Matches(queue[j], call')
      <3>1. SUFFICES ASSUME NEW j \in DOMAIN queue \ {i}
                     PROVE  queue[j].call # c /\ Matches(queue[j], call')
        OBVIOUS
      <3>2. queue[j].call # c
        BY <1>3, Assumed DEF ToolsInv, QueueRight
      <3>3. Matches(queue[j], call)
        BY DEF ToolsInv, QueueRight
      <3>4. QED
        BY <2>3, <2>4, <3>2, <3>3 DEF Matches, Told, Becomes, RequestRecord
    <2>6. CASE queue[i].kind \in {"list", "count"}
      <3> DEFINE b == [j \in DOMAIN queue' |-> IF j < i THEN j ELSE j + 1]
      <3>1. queue' = RemoveAt(queue, i)
        BY <1>3, <2>6
      <3>2. /\ queue' \in Seq(RequestRecord) /\ Len(queue') = n - 1
            /\ \A j \in 1 .. n - 1 : queue'[j] = queue[IF j < i THEN j ELSE j + 1]
        <4>1. PICK q : q = queue'
          OBVIOUS
        <4>2. /\ q \in Seq(RequestRecord) /\ Len(q) = n - 1
              /\ \A j \in 1 .. n - 1 : q[j] = queue[IF j < i THEN j ELSE j + 1]
          <5>1. q = RemoveAt(queue, i) /\ i \in 1 .. Len(queue) /\ queue \in Seq(RequestRecord)
            BY <2>1, <3>1, <4>1
          <5>2. /\ q \in Seq(RequestRecord) /\ Len(q) = Len(queue) - 1
                /\ \A j \in 1 .. Len(queue) - 1 : q[j] = queue[IF j < i THEN j ELSE j + 1]
            BY ONLY <5>1, RemoveFacts
          <5>3. QED
            BY <2>2, <5>2
        <4>3. QED
          BY <4>1, <4>2
      <3>3. DOMAIN queue' = 1 .. n - 1
        BY <3>2, LenProperties
      <3>4. i \in 1 .. n
        BY <2>1, <2>2
      <3>5. \A j \in 1 .. n - 1 : /\ (IF j < i THEN j ELSE j + 1) \in 1 .. n
                                  /\ (IF j < i THEN j ELSE j + 1) # i
        BY <3>4
      <3>6. \A j \in DOMAIN queue' :
              /\ b[j] \in DOMAIN queue \ {i} /\ queue'[j] = queue[b[j]]
              /\ b[j] = IF j < i THEN j ELSE j + 1
        BY <2>1, <2>2, <3>2, <3>3, <3>5
      <3>7. \A j, k \in DOMAIN queue' : j < k => b[j] < b[k]
        <4>1. \A j, k \in 1 .. n - 1 :
                j < k => (IF j < i THEN j ELSE j + 1) < (IF k < i THEN k ELSE k + 1)
          BY <3>4
        <4>2. QED
          BY <3>3, <3>6, <4>1
      <3>8. \A k \in 1 .. n : k # i => \E j \in 1 .. n - 1 : k = IF j < i THEN j ELSE j + 1
        <4>1. SUFFICES ASSUME NEW k \in 1 .. n, k # i
                       PROVE  \E j \in 1 .. n - 1 : k = IF j < i THEN j ELSE j + 1
          OBVIOUS
        <4>2. CASE k < i
          <5>1. k \in 1 .. n - 1
            BY <3>4, <4>2
          <5>2. QED
            BY <4>2, <5>1
        <4>3. CASE ~(k < i)
          <5>1. k - 1 \in 1 .. n - 1 /\ ~(k - 1 < i) /\ k = (k - 1) + 1
            BY <3>4, <4>1, <4>3
          <5>2. QED
            BY <5>1
        <4>4. QED
          BY <4>2, <4>3
      <3>9. b \in [DOMAIN queue' -> DOMAIN queue]
        BY <3>6
      <3>10. Len(queue') <= QueueRoom
        BY <2>1, <2>2, <3>2
      <3> HIDE DEF b
      <3>11. Thins(b)
        BY <2>5, <3>2, <3>6, <3>7, <3>9, <3>10 DEF Thins
      <3>12. QueuedPlaces = {b[j] : j \in QueuedPlaces'}
        <4>1. i \notin QueuedPlaces
          BY <2>6 DEF QueuedPlaces
        <4>2. ASSUME NEW k \in QueuedPlaces PROVE \E j \in QueuedPlaces' : k = b[j]
          <5>1. k \in 1 .. n /\ k # i /\ queue[k].kind = "place"
            BY <2>1, <2>2, <4>1 DEF QueuedPlaces
          <5>2. PICK j \in 1 .. n - 1 : k = IF j < i THEN j ELSE j + 1
            BY <3>8, <5>1
          <5>3. k = b[j] /\ queue'[j].kind = "place" /\ j \in DOMAIN queue'
            BY <3>3, <3>6, <5>1, <5>2
          <5>4. QED
            BY <5>3 DEF QueuedPlaces
        <4>3. ASSUME NEW j \in QueuedPlaces' PROVE b[j] \in QueuedPlaces
          BY <3>6 DEF QueuedPlaces
        <4>4. QED
          BY <4>2, <4>3
      <3>13. QED
        BY <1>1, <3>11, <3>12, GivenUpStep
    <2>7. CASE queue[i].kind \notin {"list", "count"}
      <3> DEFINE b == [j \in DOMAIN queue' |-> j]
      <3>1. queue' = [queue EXCEPT ![i].call = NoCall]
        BY <1>3, <2>7
      <3>2. /\ DOMAIN queue' = DOMAIN queue /\ \A j \in DOMAIN queue \ {i} : queue'[j] = queue[j]
            /\ queue'[i] \in RequestRecord /\ queue'[i].call = NoCall
            /\ queue'[i].kind = queue[i].kind /\ queue'[i].key = queue[i].key
            /\ queue'[i].order = queue[i].order
        BY <2>3, <3>1 DEF RequestRecord
      <3>3. queue' \in Seq(RequestRecord)
        <4>1. queue' \in [1 .. Len(queue) -> RequestRecord]
          <5>1. \A j \in 1 .. Len(queue) : queue'[j] \in RequestRecord
            BY <2>1, <2>3, <3>2
          <5>2. queue' = [j \in 1 .. Len(queue) |-> queue'[j]]
            BY <2>1, <3>1, <3>2
          <5>3. QED
            BY <5>1, <5>2
        <4>2. QED
          BY ONLY <2>1, <4>1, ListFromFunction
      <3>4. Len(queue') = Len(queue)
        <4>1. DOMAIN queue' = 1 .. Len(queue') /\ Len(queue') \in Nat
          BY <3>3, LenProperties
        <4>2. \A j, k \in Nat : 1 .. j = 1 .. k => j = k
          <5>1. \A j, k \in Nat : 1 .. j = 1 .. k => j <= k
            <6>1. SUFFICES ASSUME NEW j \in Nat, NEW k \in Nat, 1 .. j = 1 .. k PROVE j <= k
              OBVIOUS
            <6>2. CASE j = 0
              BY <6>2
            <6>3. CASE j # 0
              <7>1. j \in 1 .. j
                BY <6>3
              <7>2. QED
                BY <6>1, <7>1
            <6>4. QED
              BY <6>2, <6>3
          <5>2. QED
            BY <5>1
        <4>3. QED
          BY <2>1, <3>2, <4>1, <4>2
      <3>5. b \in [DOMAIN queue' -> DOMAIN queue] /\ \A j \in DOMAIN queue' : b[j] = j
        BY <3>2
      <3> HIDE DEF b
      <3>6. \A j \in DOMAIN queue' :
              /\ queue'[j].kind = queue[b[j]].kind /\ queue'[j].key = queue[b[j]].key
              /\ queue'[j].order = queue[b[j]].order
              /\ queue'[j].call \in {queue[b[j]].call, NoCall}
              /\ Matches(queue'[j], call')
        <4>1. SUFFICES ASSUME NEW j \in DOMAIN queue'
                       PROVE  /\ queue'[j].kind = queue[j].kind /\ queue'[j].key = queue[j].key
                              /\ queue'[j].order = queue[j].order
                              /\ queue'[j].call \in {queue[j].call, NoCall}
                              /\ Matches(queue'[j], call')
          BY <3>5
        <4>2. CASE j = i
          BY <2>7, <3>2, <4>2 DEF Matches
        <4>3. CASE j # i
          BY <2>5, <3>2, <4>3
        <4>4. QED
          BY <4>2, <4>3
      <3>7. Thins(b)
        BY <2>1, <3>3, <3>4, <3>5, <3>6 DEF Thins
      <3>8. QueuedPlaces = {b[j] : j \in QueuedPlaces'}
        <4>1. \A j \in DOMAIN queue : queue'[j].kind = queue[j].kind
          BY <3>2
        <4>2. QueuedPlaces' = QueuedPlaces
          BY <3>2, <4>1 DEF QueuedPlaces
        <4>3. \A j \in QueuedPlaces : b[j] = j
          BY <3>2, <3>5 DEF QueuedPlaces
        <4>4. QED
          BY <4>2, <4>3
      <3>9. QED
        BY <1>1, <3>7, <3>8, GivenUpStep
    <2>8. QED
      BY <2>6, <2>7
  <1>4. QED
    BY <1>2, <1>3 DEF GiveUp

-----------------------------------------------------------------------------
(* The engine serves the request at the head of its queue.                 *)
Oldest == Head(queue)
ServedValue == IF Oldest.kind = "place" THEN Notional(Oldest.order) ELSE 0

LEMMA HeadFacts ==
  ASSUME ToolsInv, queue # <<>>
  PROVE  /\ 1 \in DOMAIN queue /\ Oldest = queue[1] /\ Oldest \in RequestRecord
         /\ Matches(Oldest, call) /\ ServedValue \in Nat
         /\ Oldest.kind = "place" =>
              Oldest.key \in Key /\ Oldest.order \in Orders /\ 1 \in QueuedPlaces
         /\ \A j \in 2 .. Len(queue) : /\ j \in DOMAIN queue /\ Matches(queue[j], call)
                                       /\ queue[j] \in RequestRecord
                                       /\ queue[j].call = Oldest.call => queue[j].call = NoCall
                                       /\ Oldest.kind = "count" => queue[j].kind # "place"
  <1>1. /\ queue \in Seq(RequestRecord) /\ DOMAIN queue = 1 .. Len(queue) /\ Len(queue) \in Nat
    BY ListsAreFinite DEF ToolsInv, QueueRight
  <1>2. Len(queue) # 0
    BY <1>1, EmptySeq
  <1>3. 1 \in DOMAIN queue /\ Oldest = queue[1]
    BY <1>1, <1>2 DEF Oldest
  <1>4. \A i \in DOMAIN queue :
          /\ Matches(queue[i], call) /\ queue[i] \in RequestRecord
          /\ queue[i].kind = "place" => queue[i].key \in Key /\ queue[i].order \in Orders
    BY <1>1 DEF ToolsInv, QueueRight
  <1>5. \A j \in 2 .. Len(queue) : j \in DOMAIN queue /\ j # 1 /\ 1 < j
    BY <1>1
  <1>6. \A j \in 2 .. Len(queue) :
          /\ queue[j].call = queue[1].call => queue[j].call = NoCall
          /\ queue[1].kind = "count" => queue[j].kind # "place"
    BY <1>3, <1>5 DEF ToolsInv, QueueRight
  <1>7. ServedValue \in Nat
    BY <1>3, <1>4, Assumed DEF ServedValue
  <1>8. Oldest.kind = "place" => 1 \in QueuedPlaces
    BY <1>3 DEF QueuedPlaces
  <1>9. QED
    BY <1>3, <1>4, <1>5, <1>6, <1>7, <1>8

LEMMA TailQueue ==
  ASSUME ToolsInv, queue # <<>>, queue' = Tail(queue),
         \A j \in 2 .. Len(queue) : Matches(queue[j], call')
  PROVE  /\ QueueRight'
         /\ Value(queue, QueuedPlaces) = ServedValue + Value(queue, QueuedPlaces)'
         /\ Value(queue, QueuedPlaces)' \in Nat
         /\ QueuedKeys' \subseteq QueuedKeys
         /\ QueuedPlaces = {} => QueuedPlaces' = {}
         /\ Oldest.kind = "count" => QueuedPlaces' = {}
  <1>1. PICK n \in Nat : n = Len(queue)
    BY ListsAreFinite DEF ToolsInv
  <1>2. /\ queue \in Seq(RequestRecord) /\ DOMAIN queue = 1 .. n
        /\ n <= QueueRoom /\ QueueRoom \in Nat
    BY <1>1, ListsAreFinite, Assumed DEF ToolsInv, QueueRight
  <1>3. 1 \in 1 .. n
    BY <1>2, HeadFacts
  <1>4. /\ queue' \in Seq(RequestRecord) /\ Len(queue') = n - 1
        /\ \A j \in 1 .. n - 1 : queue'[j] = queue[j + 1]
    <2>1. PICK q : q = Tail(queue)
      OBVIOUS
    <2>2. /\ q \in Seq(RequestRecord) /\ Len(q) = Len(queue) - 1
          /\ \A j \in 1 .. Len(q) : q[j] = queue[j + 1]
      <3>1. q = SubSeq(queue, 2, n)
        BY <1>1, <1>2, <2>1, TailIsSubSeq
      <3>2. 2 \in 1 .. n + 1 /\ n \in 2 - 1 .. n
        BY <1>3
      <3>3. /\ SubSeq(queue, 2, n) \in Seq(RequestRecord) /\ Len(SubSeq(queue, 2, n)) = n - 2 + 1
            /\ \A j \in 1 .. n - 2 + 1 : SubSeq(queue, 2, n)[j] = queue[2 + j - 1]
        BY <1>1, <1>2, <3>2, SubSeqFacts
      <3>4. n - 2 + 1 = n - 1 /\ \A j \in 1 .. n - 1 : 2 + j - 1 = j + 1
        OBVIOUS
      <3>5. QED
        BY <1>1, <3>1, <3>3, <3>4
    <2>3. QED
      BY <1>1, <2>1, <2>2
  <1>5. DOMAIN queue' = 1 .. n - 1
    BY <1>4, LenProperties
  <1> DEFINE b == [j \in DOMAIN queue' |-> j + 1]
             left == {b[j] : j \in QueuedPlaces'}
  <1>6. \A j \in DOMAIN queue' :
          b[j] = j + 1 /\ b[j] \in 2 .. n /\ b[j] \in DOMAIN queue /\ queue'[j] = queue[b[j]]
    BY <1>2, <1>4, <1>5
  <1>7. b \in [DOMAIN queue' -> DOMAIN queue] /\ \A i, j \in DOMAIN queue' : i < j => b[i] < b[j]
    BY <1>5, <1>6
  <1> HIDE DEF b
  <1>8. Thins(b)
    BY <1>1, <1>2, <1>4, <1>6, <1>7 DEF Thins
  <1>9. /\ QueueRight' /\ left \subseteq QueuedPlaces
        /\ Value(queue, QueuedPlaces)' = Value(queue, left)
        /\ QueuedKeys' \subseteq QueuedKeys /\ (QueuedPlaces = {} => QueuedPlaces' = {})
    BY <1>8, ThinningFacts DEF ToolsInv
  <1>10. left = QueuedPlaces \ {1}
    <2>1. \A j \in QueuedPlaces' : b[j] # 1 /\ b[j] \in QueuedPlaces
      BY <1>6 DEF QueuedPlaces
    <2>2. ASSUME NEW k \in QueuedPlaces \ {1} PROVE \E j \in QueuedPlaces' : k = b[j]
      <3>1. k \in 1 .. n /\ k # 1 /\ queue[k].kind = "place"
        BY <1>2 DEF QueuedPlaces
      <3>2. k - 1 \in 1 .. n - 1 /\ (k - 1) + 1 = k
        BY <3>1
      <3>3. k = b[k - 1] /\ k - 1 \in DOMAIN queue' /\ queue'[k - 1].kind = "place"
        BY <1>5, <1>6, <3>1, <3>2
      <3>4. QED
        BY <3>3 DEF QueuedPlaces
    <2>3. QED
      BY <2>1, <2>2
  <1> HIDE DEF left
  <1>11. Value(queue, QueuedPlaces) = ServedValue + Value(queue, left)
         /\ Value(queue, left) \in Nat
    <2>1. IsFiniteSet(QueuedPlaces) /\ \A i \in QueuedPlaces : queue[i].order \in Orders
      BY ListsAreFinite DEF ToolsInv
    <2>2. IsFiniteSet(left)
      BY <1>9, <2>1, FS_Subset
    <2>3. Value(queue, left) \in Nat
      BY <1>9, <2>1, <2>2, ValueIsNatural
    <2>4. Oldest = queue[1] /\ (1 \in QueuedPlaces <=> Oldest.kind = "place")
      BY HeadFacts DEF QueuedPlaces
    <2>5. CASE 1 \in QueuedPlaces
      <3>1. Value(queue, QueuedPlaces) = Notional(queue[1].order) + Value(queue, QueuedPlaces \ {1})
        BY <2>1, <2>5, ValueAdds
      <3>2. QED
        BY <1>10, <2>3, <2>4, <2>5, <3>1 DEF ServedValue
    <2>6. CASE 1 \notin QueuedPlaces
      <3>1. left = QueuedPlaces /\ ServedValue = 0
        BY <1>10, <2>4, <2>6 DEF ServedValue
      <3>2. QED
        BY <2>3, <3>1
    <2>7. QED
      BY <2>5, <2>6
  <1>12. Oldest.kind = "count" => QueuedPlaces' = {}
    <2>1. SUFFICES ASSUME Oldest.kind = "count", NEW j \in QueuedPlaces' PROVE FALSE
      OBVIOUS
    <2>2. j \in DOMAIN queue' /\ queue'[j].kind = "place"
      BY DEF QueuedPlaces
    <2>3. b[j] \in 2 .. Len(queue) /\ queue[b[j]].kind = "place"
      BY <1>1, <1>6, <2>2
    <2>4. QED
      BY <2>1, <2>3, HeadFacts
  <1>13. QED
    BY <1>9, <1>11, <1>12

(* Whoever waits with the oldest request is told.                          *)
LEMMA AnswerFacts ==
  ASSUME ToolsInv, queue # <<>>, NEW answer \in Outcomes \ {"none", "waiting"}, NEW open \in Nat,
         ServedOpen(answer, open)
  PROVE  /\ queue' = Tail(queue)
         /\ Oldest.call = NoCall => call' = call
         /\ Oldest.call # NoCall =>
              LET c == Oldest.call
              IN /\ c \in Call /\ Told(c) /\ call[c].step = Oldest.kind
                 /\ call[c].order = Oldest.order /\ call[c].answer = "waiting"
                 /\ call'[c].answer = answer /\ call'[c].open = open
         /\ \A j \in 2 .. Len(queue) : Matches(queue[j], call')
  <1>1. /\ Oldest \in RequestRecord /\ Matches(Oldest, call)
        /\ \A j \in 2 .. Len(queue) : /\ Matches(queue[j], call) /\ queue[j] \in RequestRecord
                                      /\ queue[j].call = Oldest.call => queue[j].call = NoCall
    BY HeadFacts
  <1>2. PICK c : c = Oldest.call
    OBVIOUS
  <1>3. /\ queue' = Tail(queue)
        /\ IF c = NoCall THEN call' = call
           ELSE call' = [call EXCEPT ![c].answer = answer, ![c].open = open]
    BY <1>2 DEF ServedOpen, Oldest
  <1>4. CASE c = NoCall
    BY <1>1, <1>2, <1>3, <1>4
  <1>5. CASE c # NoCall
    <2>1. c \in Call /\ call[c].step = Oldest.kind
          /\ call[c].order = Oldest.order /\ call[c].answer = "waiting"
      BY <1>1, <1>2, <1>5 DEF Matches, RequestRecord
    <2>2. call \in [Call -> CallRecord] /\ call[c] \in CallRecord
      BY <2>1, CallFacts
    <2>3. call' = [call EXCEPT ![c] = [call[c] EXCEPT !.answer = answer, !.open = open]]
      BY <1>3, <1>5, <2>1, <2>2
    <2>4. Told(c) /\ call'[c].answer = answer /\ call'[c].open = open
      BY <2>1, <2>2, <2>3 DEF Told, Becomes, CallRecord
    <2>5. \A j \in 2 .. Len(queue) : Matches(queue[j], call')
      BY <1>1, <1>2, <1>5, <2>4 DEF Matches, Told, Becomes, RequestRecord
    <2>6. QED
      BY <1>2, <1>3, <1>5, <2>1, <2>4, <2>5
  <1>6. QED
    BY <1>4, <1>5

(* What serving must not do to the book, for the invariant to stay.        *)
LEMMA ServedStep ==
  ASSUME ToolsInv, queue # <<>>, NEW answer \in Outcomes \ {"none", "waiting"}, NEW open \in Nat,
         ServedOpen(answer, open), UNCHANGED <<policyVars, clock, holder>>,
         BookRight', Cardinality(LiveOrders') \in Nat,
         Oldest.kind = "count" /\ answer = "ok" => Cardinality(LiveOrders') <= open,
         Oldest.kind # "place" => Cardinality(LiveOrders') <= Cardinality(LiveOrders),
         Cardinality(LiveOrders') + Cardinality(Fresh')
           <= Cardinality(LiveOrders) + Cardinality(Fresh),
         NEW value \in Nat, value = Value(book, DOMAIN book)',
         \/ value = Value(book, DOMAIN book)
         \/ answer \notin Definitive /\ value = Value(book, DOMAIN book) + ServedValue
  PROVE  ToolsInv'
  <1>1. UNCHANGED <<cfg, actions, used, clock, holder>>
    BY DEF policyVars
  <1>2. PICK c : c = Oldest.call
    OBVIOUS
  <1>3. /\ queue' = Tail(queue)
        /\ c = NoCall => call' = call
        /\ c # NoCall => /\ c \in Call /\ Told(c) /\ call[c].step = Oldest.kind
                         /\ call[c].order = Oldest.order /\ call[c].answer = "waiting"
                         /\ call'[c].answer = answer /\ call'[c].open = open
        /\ \A j \in 2 .. Len(queue) : Matches(queue[j], call')
    BY <1>2, AnswerFacts
  <1>4. /\ QueueRight'
        /\ Value(queue, QueuedPlaces) = ServedValue + Value(queue, QueuedPlaces)'
        /\ Value(queue, QueuedPlaces)' \in Nat
        /\ QueuedPlaces = {} => QueuedPlaces' = {}
        /\ Oldest.kind = "count" => QueuedPlaces' = {}
    BY <1>3, TailQueue
  <1>5. /\ Oldest \in RequestRecord /\ ServedValue \in Nat
        /\ Oldest.kind = "place" => 1 \in QueuedPlaces
    BY HeadFacts
  <1>6. PolicyRight' /\ BookRight'
    BY <1>1 DEF ToolsInv, PolicyRight
  <1>7. CallsRight' /\ WindowRight'
    <2>1. CASE c = NoCall
      <3>1. CallsRight'
        BY <1>1, <1>3, <2>1 DEF ToolsInv, CallsRight, CallRight, Placing, CallRecord, Outcomes, SentKey
      <3>2. WindowRight'
        BY <1>1, <1>3, <2>1, WindowShrinks DEF ToolsInv, Recent
      <3>3. QED
        BY <3>1, <3>2
    <2>2. CASE c # NoCall
      <3>1. call[c].step \in Remote
        BY <1>3, <1>5, <2>2 DEF RequestRecord
      <3>2. QED
        BY <1>1, <1>3, <2>2, <3>1, ToldCalls, ToldWindow
    <2>3. QED
      BY <2>1, <2>2
  <1>8. CountRight'
    <2>1. ASSUME NEW e \in Call
          PROVE  /\ holder = e /\ Counted(call'[e]) =>
                      QueuedPlaces' = {} /\ Cardinality(LiveOrders') <= call'[e].open
                 /\ call'[e].step = "place" /\ call'[e].answer = "none"
                      => call'[e].open < cfg.maxOpenOrders
      <3>1. CASE e = c
        <4>1. c # NoCall
          BY <3>1, Assumed
        <4>2. call'[e].answer = answer /\ call'[e].step = Oldest.kind /\ call'[e].open = open
          BY <1>3, <3>1, <4>1 DEF Told
        <4>3. Counted(call'[e]) => Oldest.kind = "count" /\ answer = "ok"
          BY <1>5, <4>2 DEF Counted, RequestRecord, Remote
        <4>4. QED
          BY <1>4, <4>2, <4>3
      <3>2. CASE e # c
        <4>1. call'[e] = call[e]
          BY <1>3, <3>2 DEF Told, Becomes
        <4>2. ASSUME holder = e, Counted(call[e])
              PROVE  QueuedPlaces' = {} /\ Cardinality(LiveOrders') <= call[e].open
          <5>1. QueuedPlaces = {} /\ Cardinality(LiveOrders) <= call[e].open
            BY <4>2 DEF ToolsInv, CountRight
          <5>2. Cardinality(LiveOrders') <= Cardinality(LiveOrders)
            BY <1>5, <5>1
          <5>3. Cardinality(LiveOrders) \in Nat /\ call[e].open \in Nat
            BY KeysAreFinite, CallFacts DEF ToolsInv, CallRecord
          <5>4. \A k, l, m \in Nat : k <= l /\ l <= m => k <= m
            OBVIOUS
          <5>5. QED
            BY <1>4, <5>1, <5>2, <5>3, <5>4
        <4>3. QED
          BY <4>1, <4>2 DEF ToolsInv, CountRight
      <3>3. QED
        BY <3>1, <3>2
    <2>2. QED
      BY <1>1, <2>1 DEF CountRight, Counted
  <1>9. OpenOrdersWithinLimit'
    <2>1. Cardinality(LiveOrders) + Cardinality(Fresh) <= cfg.maxOpenOrders
      BY LimitMeans DEF ToolsInv
    <2>2. /\ Cardinality(LiveOrders) \in Nat /\ Cardinality(Fresh) \in Nat
          /\ cfg.maxOpenOrders \in Nat
      BY KeysAreFinite, LimitsAreNumbers DEF ToolsInv
    <2>3. Cardinality(Fresh') \in Nat
      <3>1. QueueRight' /\ BookRight'
        BY <1>4, <1>6
      <3>2. Fresh' \in SUBSET QueuedKeys /\ IsFiniteSet(QueuedKeys)
        <4>1. QueuedKeys' \subseteq QueuedKeys
          BY <1>3, TailQueue
        <4>2. QED
          BY <4>1, KeysAreFinite DEF Fresh, ToolsInv
      <3>3. QED
        BY <3>2, FS_Subset, FS_CardinalityType
    <2>4. \A k, l, i, j, m \in Nat : k + l <= i + j /\ i + j <= m => k + l <= m
      OBVIOUS
    <2>5. Cardinality(LiveOrders') + Cardinality(Fresh') <= cfg.maxOpenOrders
      BY <2>1, <2>2, <2>3, <2>4
    <2>6. QED
      BY <1>1, <2>5, LimitMeans
  <1>10. ChargesRight'
    <2>1. PICK vb, vq, u \in Nat : /\ vb = Value(book, DOMAIN book)
                                   /\ vq = Value(queue, QueuedPlaces) /\ u = Unsettled
      BY ChargesAreNumbers DEF ToolsInv
    <2>2. PICK s, left \in Nat : s = ServedValue /\ left = Value(queue, QueuedPlaces)'
      BY <1>4, <1>5
    <2>3. vb + vq + u <= used /\ used <= cfg.sessionCap /\ used \in Nat /\ vq = s + left
      BY <1>4, <2>1, <2>2 DEF ToolsInv, ChargesRight, PolicyRight
    <2>4. Unsettled' \in Nat /\ Unsettled' <= u + (IF answer \in Definitive THEN s ELSE 0)
      <3>1. CASE c = NoCall
        <4>1. Unsettled' = Unsettled
          BY <1>1, <1>3, <3>1 DEF Unsettled, Charge
        <4>2. \A k, l \in Nat : k <= k + l /\ k <= k + 0
          OBVIOUS
        <4>3. QED
          BY <2>1, <2>2, <4>1, <4>2
      <3>2. CASE c # NoCall
        <4>1. call[c].step \in Remote
          BY <1>3, <1>5, <3>2 DEF RequestRecord
        <4>2. CASE holder # c
          <5>1. Unsettled' = Unsettled
            BY <1>1, <1>3, <3>2, <4>1, <4>2, ToldUnsettled
          <5>2. \A k, l \in Nat : k <= k + l /\ k <= k + 0
            OBVIOUS
          <5>3. QED
            BY <2>1, <2>2, <5>1, <5>2
        <4>3. CASE holder = c
          <5>1. Unsettled' = Charge(call'[c])
            BY <1>1, <1>3, <3>2, <4>1, <4>3, ToldUnsettled
          <5>2. Charge(call'[c]) = IF Oldest.kind = "place" /\ answer \in Definitive
                                   THEN Notional(Oldest.order) ELSE 0
            BY <1>3, <3>2 DEF Charge, Told
          <5>3. Charge(call'[c]) = IF answer \in Definitive THEN s ELSE 0
            BY <2>2, <5>2 DEF ServedValue
          <5>4. \A k, l \in Nat : l <= k + l /\ 0 <= k + 0
            OBVIOUS
          <5>5. QED
            BY <2>1, <2>2, <5>1, <5>3, <5>4
        <4>4. QED
          BY <4>2, <4>3
      <3>3. QED
        BY <3>1, <3>2
    <2>5. PICK t \in Nat : t = Unsettled'
      BY <2>4
    <2>6. value + left + t <= used
      <3>1. CASE value = vb
        <4>1. t <= u + s
          <5>1. \A i, k, l \in Nat : i <= k + 0 => i <= k + l
            OBVIOUS
          <5>2. QED
            BY <2>4, <2>5, <5>1
        <4>2. \A a, d, k, l, m, w \in Nat :
                a + (k + d) + l <= m /\ w <= l + k => a + d + w <= m
          OBVIOUS
        <4>3. vb + (s + left) + u <= used
          BY <2>3
        <4>4. QED
          BY <2>1, <2>2, <2>3, <2>5, <3>1, <4>1, <4>2, <4>3
      <3>2. CASE answer \notin Definitive /\ value = vb + s
        <4>1. t <= u + 0
          BY <2>4, <2>5, <3>2
        <4>2. \A a, d, k, l, m, w \in Nat :
                a + (k + d) + l <= m /\ w <= l + 0 => (a + k) + d + w <= m
          OBVIOUS
        <4>3. vb + (s + left) + u <= used
          BY <2>3
        <4>4. QED
          BY <2>1, <2>2, <2>3, <2>5, <3>2, <4>1, <4>2, <4>3
      <3>3. QED
        BY <2>1, <2>2, <3>1, <3>2
    <2>7. QED
      BY <1>1, <2>2, <2>3, <2>5, <2>6 DEF ChargesRight
  <1>11. QED
    BY <1>4, <1>6, <1>7, <1>8, <1>9, <1>10 DEF ToolsInv

(* Serving that leaves the book alone, or closes orders.                   *)
LEMMA ServedClosing ==
  ASSUME ToolsInv, queue # <<>>, NEW answer \in Outcomes \ {"none", "waiting"}, NEW open \in Nat,
         ServedOpen(answer, open), UNCHANGED <<policyVars, clock, holder>>, Closes,
         Oldest.kind = "count" /\ answer = "ok" => Cardinality(LiveOrders') <= open
  PROVE  ToolsInv'
  <1>1. /\ BookRight' /\ Cardinality(LiveOrders') <= Cardinality(LiveOrders)
        /\ Cardinality(LiveOrders) \in Nat /\ Cardinality(LiveOrders') \in Nat
        /\ Value(book, DOMAIN book)' = Value(book, DOMAIN book)
        /\ BookKeys' = BookKeys
    BY ClosingFacts DEF ToolsInv, BookKeys
  <1>2. PICK value \in Nat : value = Value(book, DOMAIN book)
    BY ChargesAreNumbers DEF ToolsInv
  <1>3. Cardinality(Fresh') <= Cardinality(Fresh) /\ Cardinality(Fresh) \in Nat
        /\ Cardinality(Fresh') \in Nat
    <2>1. QueuedKeys' \subseteq QueuedKeys
      BY AnswerFacts, TailQueue
    <2>2. Fresh' \in SUBSET Fresh
      BY <1>1, <2>1 DEF Fresh
    <2>3. IsFiniteSet(Fresh)
      BY KeysAreFinite DEF ToolsInv
    <2>4. QED
      BY <2>2, <2>3, FS_Subset, FS_CardinalityType
  <1>4. Cardinality(LiveOrders') + Cardinality(Fresh') <= Cardinality(LiveOrders) + Cardinality(Fresh)
    <2>1. \A k, l, i, j \in Nat : k <= i /\ l <= j => k + l <= i + j
      OBVIOUS
    <2>2. QED
      BY <1>1, <1>3, <2>1
  <1>5. value = Value(book, DOMAIN book)'
    BY <1>1, <1>2
  <1>6. QED
    BY <1>1, <1>2, <1>4, <1>5, ServedStep

LEMMA NothingCloses ==
  ASSUME BookRight, QueueRight, UNCHANGED book
  PROVE  Closes
  BY DEF Closes, BookRight

(* A placement is executed: its key, fresh before, is the book's now, and  *)
(* what it was queued for is booked.                                       *)
LEMMA ServedBooking ==
  ASSUME ToolsInv, queue # <<>>, Oldest.kind = "place",
         \A i \in DOMAIN book : book[i].key # Oldest.key,
         NEW live \in BOOLEAN, NEW answer \in {"ok", "UNAVAILABLE"}, Served(answer),
         book' = Append(book, Record(Oldest, live)), UNCHANGED <<policyVars, clock, holder>>
  PROVE  ToolsInv'
  <1>1. /\ answer \in Outcomes \ {"none", "waiting"} /\ answer \notin Definitive
        /\ ServedOpen(answer, 0)
    BY DEF Outcomes, Codes, Indefinite, Definitive, Served
  <1>2. /\ Oldest.key \in Key /\ Oldest.order \in Orders /\ 1 \in QueuedPlaces
        /\ Oldest = queue[1] /\ ServedValue \in Nat /\ ServedValue = Notional(Oldest.order)
    BY HeadFacts DEF ServedValue
  <1>3. PICK r : r = Record(Oldest, live)
    OBVIOUS
  <1>4. r \in BookRecord /\ r.key = Oldest.key /\ r.order = Oldest.order
    BY <1>2, <1>3 DEF Record, BookRecord
  <1>5. /\ book \in Seq(BookRecord) /\ DOMAIN book = 1 .. Len(book) /\ Len(book) \in Nat
        /\ IsFiniteSet(DOMAIN book) /\ \A i \in DOMAIN book : book[i].order \in Orders
        /\ IsFiniteSet(LiveOrders) /\ LiveOrders \subseteq DOMAIN book
    BY ListsAreFinite DEF ToolsInv, BookRight
  <1>6. PICK n \in Nat : n = Len(book) + 1
    BY <1>5
  <1>7. /\ book' \in Seq(BookRecord) /\ DOMAIN book' = DOMAIN book \cup {n}
        /\ book'[n] = r /\ \A i \in DOMAIN book : book'[i] = book[i]
        /\ n \notin DOMAIN book
    <2>1. PICK q : q = Append(book, r)
      OBVIOUS
    <2>2. /\ q \in Seq(BookRecord) /\ DOMAIN q = 1 .. Len(book) + 1
          /\ q[Len(book) + 1] = r /\ \A i \in 1 .. Len(book) : q[i] = book[i]
      BY <1>4, <1>5, <2>1, AppendFacts
    <2>3. 1 .. Len(book) + 1 = (1 .. Len(book)) \cup {n} /\ n \notin 1 .. Len(book)
      BY <1>5, <1>6
    <2>4. book' = q
      BY <1>3, <2>1
    <2>5. QED
      BY <1>5, <1>6, <2>2, <2>3, <2>4
  <1>8. BookRight'
    BY <1>7 DEF BookRight, BookRecord
  <1>9. /\ Cardinality(LiveOrders') \in Nat
        /\ Cardinality(LiveOrders') <= Cardinality(LiveOrders) + 1
        /\ Cardinality(LiveOrders) \in Nat
    <2>1. LiveOrders' \in SUBSET (LiveOrders \cup {n})
      BY <1>7 DEF LiveOrders
    <2>2. IsFiniteSet(LiveOrders \cup {n}) /\ n \notin LiveOrders
          /\ Cardinality(LiveOrders \cup {n}) = Cardinality(LiveOrders) + 1
      BY <1>5, <1>7, FS_AddElement
    <2>3. QED
      BY <1>5, <2>1, <2>2, FS_Subset, FS_CardinalityType
  <1>10. /\ Cardinality(Fresh') \in Nat /\ Cardinality(Fresh) \in Nat
         /\ Cardinality(Fresh') <= Cardinality(Fresh) - 1
    <2>1. QueuedKeys' \subseteq QueuedKeys
      BY <1>1, AnswerFacts, TailQueue
    <2>2. BookKeys \subseteq BookKeys' /\ Oldest.key \in BookKeys'
      BY <1>4, <1>7 DEF BookKeys
    <2>3. Oldest.key \in Fresh
      BY <1>2 DEF Fresh, QueuedKeys, BookKeys
    <2>4. Fresh' \in SUBSET (Fresh \ {Oldest.key})
      BY <2>1, <2>2 DEF Fresh
    <2>5. IsFiniteSet(Fresh)
      BY KeysAreFinite DEF ToolsInv
    <2>6. IsFiniteSet(Fresh \ {Oldest.key})
          /\ Cardinality(Fresh \ {Oldest.key}) = Cardinality(Fresh) - 1
      BY <2>3, <2>5, FS_RemoveElement
    <2>7. IsFiniteSet(Fresh') /\ Cardinality(Fresh') <= Cardinality(Fresh \ {Oldest.key})
      BY <2>4, <2>6, FS_Subset
    <2>8. QED
      BY <2>5, <2>6, <2>7, FS_CardinalityType
  <1>11. Cardinality(LiveOrders') + Cardinality(Fresh') <= Cardinality(LiveOrders) + Cardinality(Fresh)
    <2>1. \A k, l, i, j \in Nat : k <= i + 1 /\ l <= j - 1 => k + l <= i + j
      OBVIOUS
    <2>2. QED
      BY <1>9, <1>10, <2>1
  <1>12. Value(book, DOMAIN book)' = Value(book, DOMAIN book) + ServedValue
    <2>1. PICK places : places = DOMAIN book'
      OBVIOUS
    <2>2. IsFiniteSet(places) /\ n \in places /\ \A j \in places : book'[j].order \in Orders
      BY <1>2, <1>4, <1>5, <1>7, <2>1, FS_AddElement
    <2>3. Value(book', places) = Notional(book'[n].order) + Value(book', places \ {n})
      <3>1. PICK last : last = n
        OBVIOUS
      <3>2. IsFiniteSet(places) /\ last \in places /\ \A j \in places : book'[j].order \in Orders
        BY <2>2, <3>1
      <3>3. Value(book', places) = Notional(book'[last].order) + Value(book', places \ {last})
        BY ONLY <3>2, ValueAdds
      <3>4. QED
        BY ONLY <3>1, <3>3
    <2>4. places \ {n} = DOMAIN book
      BY <1>7, <2>1
    <2>5. \A i \in DOMAIN book : book[i].order \in Orders /\ book[i].order = book'[i].order
      BY <1>5, <1>7, <2>1
    <2>6. Value(book, DOMAIN book) = Value(book', DOMAIN book)
      BY <1>5, <2>5, ValueSame
    <2>7. Notional(book'[n].order) = ServedValue
      BY <1>2, <1>4, <1>7, <2>1
    <2>8. Value(book, DOMAIN book) \in Nat
      BY ChargesAreNumbers DEF ToolsInv
    <2>9. \A k, l \in Nat : k + l = l + k
      OBVIOUS
    <2>10. Value(book, DOMAIN book)' = Value(book', places)
      BY <2>1 DEF Value
    <2>11. QED
      BY ONLY <1>2, <2>3, <2>4, <2>6, <2>7, <2>8, <2>9, <2>10
  <1>13. PICK value \in Nat : value = Value(book, DOMAIN book) + ServedValue
    BY <1>2, ChargesAreNumbers DEF ToolsInv
  <1>14. value = Value(book, DOMAIN book)'
    BY <1>12, <1>13
  <1>15. QED
    BY <1>1, <1>8, <1>9, <1>11, <1>13, <1>14, ServedStep

(* A request refused, or read, or answered from what is there.             *)
LEMMA ServedStill ==
  ASSUME ToolsInv, queue # <<>>, NEW answer \in Outcomes \ {"none", "waiting"}, Served(answer),
         UNCHANGED <<policyVars, clock, holder, book>>,
         Oldest.kind = "count" => answer # "ok"
  PROVE  ToolsInv'
  <1>1. Closes
    BY NothingCloses DEF ToolsInv
  <1>2. ServedOpen(answer, 0) /\ 0 \in Nat
    BY DEF Served
  <1>3. UNCHANGED <<policyVars, clock, holder>>
    OBVIOUS
  <1>4. QED
    BY <1>1, <1>2, <1>3, ServedClosing

(* Orders are closed for a cancel.                                         *)
LEMMA ServedCancel ==
  ASSUME ToolsInv, queue # <<>>, Served("ok"), Closes, UNCHANGED <<policyVars, clock, holder>>,
         Oldest.kind # "count"
  PROVE  ToolsInv'
  <1>1. "ok" \in Outcomes \ {"none", "waiting"} /\ ServedOpen("ok", 0) /\ 0 \in Nat
    BY DEF Outcomes, Served
  <1>2. QED
    BY <1>1, ServedClosing

LEMMA KeepsServePlace ==
  ASSUME ToolsInv, queue # <<>>, Oldest.kind = "place", ServePlace,
         UNCHANGED <<policyVars, clock, holder>>
  PROVE  ToolsInv'
  <1> DEFINE known == {i \in DOMAIN book : book[i].key = Oldest.key}
  <1>1. /\ {"ok", "ALREADY_EXISTS", "FAILED_PRECONDITION"} \subseteq Outcomes \ {"none", "waiting"}
        /\ Oldest.kind # "count"
    BY DEF Outcomes, Codes, Definitive
  <1>2. CASE known # {}
    <2>1. UNCHANGED book /\ (Served("ok") \/ Served("ALREADY_EXISTS"))
      BY <1>2 DEF ServePlace, Oldest
    <2>2. QED
      BY <1>1, <2>1, ServedStill
  <1>3. CASE known = {}
    <2>1. \A i \in DOMAIN book : book[i].key # Oldest.key
      BY <1>3
    <2>2. \/ Served("FAILED_PRECONDITION") /\ UNCHANGED book
          \/ \E live \in BOOLEAN, answer \in {"ok", "UNAVAILABLE"} :
               book' = Append(book, Record(Oldest, live)) /\ Served(answer)
      BY <1>3 DEF ServePlace, Oldest
    <2>3. QED
      BY <1>1, <2>1, <2>2, ServedStill, ServedBooking
  <1>4. QED
    BY <1>2, <1>3

LEMMA KeepsServeCount ==
  ASSUME ToolsInv, queue # <<>>, ServeCount, UNCHANGED <<policyVars, clock, holder>>
  PROVE  ToolsInv'
  <1>1. PICK open : open = Cardinality(LiveOrders)
    OBVIOUS
  <1>2. open \in Nat /\ Closes /\ "ok" \in Outcomes \ {"none", "waiting"}
    BY <1>1, KeysAreFinite, NothingCloses DEF ToolsInv, ServeCount, Outcomes
  <1>3. ServedOpen("ok", open)
    BY <1>1 DEF ServeCount
  <1>4. open = Cardinality(LiveOrders') /\ open <= open
    BY <1>1, <1>2 DEF ServeCount, LiveOrders
  <1>5. QED
    BY <1>2, <1>3, <1>4, ServedClosing

LEMMA KeepsServe ==
  ASSUME ToolsInv, Serve
  PROVE  ToolsInv'
  <1>1. queue # <<>> /\ UNCHANGED <<policyVars, clock, holder>>
    BY DEF Serve
  <1>2. /\ {"match", "nothing", "NOT_FOUND", "UNAVAILABLE"} \subseteq Outcomes \ {"none", "waiting"}
        /\ "ok" \notin {"match", "nothing", "NOT_FOUND", "UNAVAILABLE"}
    BY DEF Outcomes, Codes, Definitive, Indefinite
  <1>3. CASE Oldest.kind = "place" /\ ServePlace
    BY <1>1, <1>3, KeepsServePlace
  <1>4. CASE ServeList
    <2>1. UNCHANGED book /\ (Served("match") \/ Served("nothing"))
      BY <1>4 DEF ServeList
    <2>2. QED
      BY <1>1, <1>2, <2>1, ServedStill
  <1>5. CASE ServeCount
    BY <1>1, <1>5, KeepsServeCount
  <1>6. CASE Oldest.kind = "cancel" /\ ServeCancel
    <2>1. CASE Served("NOT_FOUND") /\ UNCHANGED book
      BY <1>1, <1>2, <2>1, ServedStill
    <2>2. CASE \E i \in LiveOrders : book' = [book EXCEPT ![i].live = FALSE] /\ Served("ok")
      <3>1. Closes /\ Served("ok")
        BY <2>2, OneCloses DEF ToolsInv
      <3>2. QED
        BY <1>1, <1>6, <3>1, ServedCancel
    <2>3. QED
      BY <1>6, <2>1, <2>2 DEF ServeCancel
  <1>7. CASE Oldest.kind = "cancel_all" /\ ServeCancelAll
    <2>1. Closes /\ Served("ok")
      BY <1>7, AllClose DEF ToolsInv, ServeCancelAll
    <2>2. QED
      BY <1>1, <1>7, <2>1, ServedCancel
  <1>8. CASE Served("UNAVAILABLE") /\ UNCHANGED book
    BY <1>1, <1>2, <1>8, ServedStill
  <1>9. QED
    BY <1>3, <1>4, <1>5, <1>6, <1>7, <1>8 DEF Serve, Oldest

-----------------------------------------------------------------------------
LEMMA ToolsInit ==
  ASSUME Init
  PROVE  ToolsInv
  <1>1. /\ cfg \in Configs /\ actions = <<>> /\ used = 0 /\ clock = 0 /\ holder = NoCall
        /\ call = [c \in Call |-> Idle] /\ queue = <<>> /\ book = <<>>
    BY DEF Init
  <1>2. \A T : <<>> \in Seq(T) /\ Len(<<>>) = 0 /\ DOMAIN <<>> = {}
    BY EmptySeq
  <1>3. PolicyRight /\ BookRight
    <2>1. 0 \in 0 .. MaxClock /\ 0 \in Nat
      BY Assumed
    <2>2. QED
      BY <1>1, <1>2, <2>1 DEF PolicyRight, BookRight
  <1>4. /\ cfg.maxOpenOrders \in Nat /\ cfg.actionsPerMinute \in Nat /\ cfg.sessionCap \in Nat
        /\ QueueRoom \in Nat /\ NoCall \notin Call
    BY <1>3, LimitsAreNumbers, Assumed
  <1>5. Idle \in CallRecord /\ CallRight(Idle, clock) /\ ~Placing(Idle) /\ ~Counted(Idle)
        /\ ~Idle.acted /\ Idle.step = "idle"
    <2>1. Idle \in CallRecord
      BY DEF Idle, CallRecord, Steps, ToolNames, SentKey, Outcomes
    <2>2. QED
      BY <2>1 DEF CallRight, Placing, Counted, Idle, Remote
  <1>6. CallsRight
    <2>1. \A c \in Call : call[c] = Idle
      BY <1>1
    <2>2. call \in [Call -> CallRecord]
      BY <1>1, <1>5
    <2>3. \A c \in Call : CallRight(call[c], clock) /\ (holder = c <=> Placing(call[c]))
      BY <1>1, <1>4, <1>5, <2>1
    <2>4. QED
      BY <1>1, <2>2, <2>3 DEF CallsRight
  <1>7. QueueRight
    BY <1>1, <1>2, <1>4 DEF QueueRight
  <1>8. QueuedPlaces = {} /\ LiveOrders = {} /\ Fresh = {}
    BY <1>1, <1>2 DEF QueuedPlaces, LiveOrders, Fresh, QueuedKeys
  <1>9. CountRight
    BY <1>1, <1>5 DEF CountRight
  <1>10. OpenOrdersWithinLimit
    BY <1>4, <1>8, FS_EmptySet, LimitMeans
  <1>11. ChargesRight
    <2>1. Value(book, DOMAIN book) = 0 /\ Value(queue, QueuedPlaces) = 0 /\ Unsettled = 0
      BY <1>1, <1>2, <1>8, ValueOfNothing DEF Unsettled
    <2>2. QED
      BY <1>1, <1>4, <2>1 DEF ChargesRight
  <1>12. WindowRight
    <2>1. Recent = {}
      BY <1>1, <1>5 DEF Recent
    <2>2. [c \in {} |-> c] \in [Recent -> DOMAIN actions]
      BY <2>1
    <2>3. \E f \in [Recent -> DOMAIN actions] :
            /\ \A c \in Recent : actions[f[c]] = call[c].now
            /\ \A c, d \in Recent : f[c] = f[d] => c = d
      BY <2>1, <2>2
    <2>4. Len(actions) = 0
      BY <1>1, <1>2
    <2>5. QED
      BY <1>4, <2>3, <2>4 DEF WindowRight
  <1>13. QED
    BY <1>3, <1>6, <1>7, <1>9, <1>10, <1>11, <1>12 DEF ToolsInv

LEMMA ToolsNext ==
  ASSUME ToolsInv, [Next]_vars
  PROVE  ToolsInv'
  <1>1. CASE \E c \in Call : BeginPlace(c) \/ BeginCancel(c)
    BY <1>1, KeepsBeginPlace, KeepsBeginCancel
  <1>2. CASE Runtime
    <2>1. PICK c \in Call : Advance(c) \/ GiveUp(c)
      BY <1>2 DEF Runtime
    <2>2. CASE GiveUp(c)
      BY <2>2, KeepsGiveUp
    <2>3. CASE Lock(c)
      BY <2>3, KeepsLock
    <2>4. CASE ReadMarket(c)
      BY <2>4, KeepsReadMarket
    <2>5. CASE Send(c)
      BY <2>5, KeepsSend
    <2>6. CASE Replay(c)
      BY <2>6, KeepsReplay
    <2>7. CASE CountOpen(c)
      BY <2>7, KeepsCountOpen
    <2>8. CASE ReadClock(c)
      BY <2>8, KeepsReadClock
    <2>9. CASE Check(c)
      BY <2>9, KeepsCheck
    <2>10. CASE Placed(c)
      BY <2>10, KeepsPlaced
    <2>11. CASE CancelReply(c)
      BY <2>11, KeepsCancelReply
    <2>12. QED
      BY <2>1, <2>2, <2>3, <2>4, <2>5, <2>6, <2>7, <2>8, <2>9, <2>10, <2>11 DEF Advance
  <1>3. CASE Serve
    BY <1>3, KeepsServe
  <1>4. CASE Fills
    BY <1>4, KeepsFills
  <1>5. CASE Tick
    BY <1>5, KeepsTick
  <1>6. CASE UNCHANGED vars
    <2>1. UNCHANGED <<cfg, actions, used, clock, holder, call, queue, book>>
      BY <1>6 DEF vars, policyVars
    <2>2. PolicyRight' /\ BookRight' /\ CallsRight'
      BY <2>1 DEF ToolsInv, PolicyRight, BookRight, CallsRight, CallRight, Placing, CallRecord,
                  Outcomes, SentKey
    <2>3. QueueRight' /\ OpenOrdersWithinLimit'
      BY <2>1, OwnLimit DEF ToolsInv, QueueRight, Matches
    <2>4. CountRight'
      BY <2>1 DEF ToolsInv, CountRight, Counted, QueuedPlaces, LiveOrders
    <2>5. ChargesRight'
      BY <2>1 DEF ToolsInv, ChargesRight, Value, QueuedPlaces, Unsettled, Charge
    <2>6. WindowRight'
      <3>1. \A e \in Recent' : e \in Recent /\ call'[e].now = call[e].now
        BY <2>1 DEF Recent
      <3>2. QED
        BY <2>1, <3>1, WindowShrinks DEF ToolsInv
    <2>7. QED
      BY <2>2, <2>3, <2>4, <2>5, <2>6 DEF ToolsInv
  <1>7. QED
    BY <1>1, <1>2, <1>3, <1>4, <1>5, <1>6 DEF Next

LEMMA TypesHold ==
  ASSUME ToolsInv
  PROVE  ToolsTypeOK
  <1>1. \A c \in Call :
          /\ call[c].step \in Steps
          /\ call[c].tool = "place" /\ call[c].step \notin {"lock", "done"} => holder = c
    <2>1. SUFFICES ASSUME NEW c \in Call
                   PROVE  /\ call[c].step \in Steps
                          /\ call[c].tool = "place" /\ call[c].step \notin {"lock", "done"} => holder = c
      OBVIOUS
    <2>2. call[c] \in CallRecord /\ CallRight(call[c], clock) /\ (holder = c <=> Placing(call[c]))
      BY CallFacts
    <2>3. QED
      BY <2>2 DEF CallRight, Placing, CallRecord
  <1>2. QED
    BY <1>1 DEF ToolsInv, ToolsTypeOK, PolicyRight, BookRight, BookRecord, QueueRight, CallsRight

LEMMA ChargesHold ==
  ASSUME ToolsInv
  PROVE  ChargesCoverOrders
  <1>1. /\ Value(book, DOMAIN book) \in Nat /\ Value(queue, QueuedPlaces) \in Nat
        /\ Unsettled \in Nat /\ used \in Nat
    BY ChargesAreNumbers, LimitsAreNumbers DEF ToolsInv
  <1>2. \A k, l, i, j \in Nat : k + l + i <= j => k + l <= j
    OBVIOUS
  <1>3. Value(book, DOMAIN book) + Value(queue, QueuedPlaces) <= used
    BY <1>1, <1>2 DEF ToolsInv, ChargesRight
  <1>4. QED
    BY <1>3, TypesHold DEF ToolsInv, ChargesRight, ChargesCoverOrders

LEMMA RateHolds ==
  ASSUME ToolsInv
  PROVE  RateWithinMinute
  <1>1. PICK f \in [Recent -> DOMAIN actions] :
          /\ \A c \in Recent : actions[f[c]] = call[c].now
          /\ \A c, d \in Recent : f[c] = f[d] => c = d
    BY DEF ToolsInv, WindowRight
  <1>2. f \in Injection(Recent, DOMAIN actions)
    BY <1>1 DEF Injection, IsInjective
  <1>3. PICK n \in Nat : n = Len(actions) /\ DOMAIN actions = 1 .. n
    BY LenProperties DEF ToolsInv, PolicyRight
  <1>4. IsFiniteSet(1 .. n) /\ Cardinality(1 .. n) = n
    BY FS_Interval
  <1>5. Cardinality(Recent) <= n /\ IsFiniteSet(Recent) /\ Cardinality(Recent) \in Nat
    BY <1>2, <1>3, <1>4, FS_Injection, FS_CardinalityType
  <1>6. n <= cfg.actionsPerMinute /\ cfg.actionsPerMinute \in Nat
    BY <1>3, LimitsAreNumbers DEF ToolsInv, WindowRight
  <1>7. Cardinality(Recent) <= cfg.actionsPerMinute
    BY <1>5, <1>6
  <1>8. QED
    BY <1>7 DEF RateWithinMinute, Recent

(* Every variable has its type, and one placement at a time is under way,  *)
(* the one whose call holds the placements lock (tools.rs:642).            *)
THEOREM ToolsTypes == Spec => []ToolsTypeOK
  <1>1. Init => ToolsInv
    BY ToolsInit
  <1>2. ToolsInv /\ [Next]_vars => ToolsInv'
    BY ToolsNext
  <1>3. ToolsInv => ToolsTypeOK
    BY TypesHold
  <1>4. QED
    BY <1>1, <1>2, <1>3, PTL DEF Spec

(* Whatever the engine executed for this process, or still may, is charged *)
(* against the session cap, also where the answer was lost: what a call    *)
(* charges before it sends is given back on a definitive refusal only      *)
(* (tools.rs:690-718, policy.rs:218-248).                                  *)
THEOREM ChargesCover == Spec => []ChargesCoverOrders
  <1>1. Init => ToolsInv
    BY ToolsInit
  <1>2. ToolsInv /\ [Next]_vars => ToolsInv'
    BY ToolsNext
  <1>3. ToolsInv => ChargesCoverOrders
    BY ChargesHold
  <1>4. QED
    BY <1>1, <1>2, <1>3, PTL DEF Spec

(* The limits on open orders and on actions in a minute hold at the engine *)
(* and in time, although the orders are counted and the clock is read long *)
(* before they are used (tools.rs:686-690, policy.rs:112-138).             *)
THEOREM LimitsKept == Spec => []KeepsToLimits
  <1>1. Init => ToolsInv
    BY ToolsInit
  <1>2. ToolsInv /\ [Next]_vars => ToolsInv'
    BY ToolsNext
  <1>3. ToolsInv => KeepsToLimits
    BY RateHolds DEF KeepsToLimits, ToolsInv
  <1>4. QED
    BY <1>1, <1>2, <1>3, PTL DEF Spec
=============================================================================
