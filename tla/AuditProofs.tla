---------------------------- MODULE AuditProofs ----------------------------
(***************************************************************************)
(* The audit log, for every number of turns that append at the same time,  *)
(* of records and of faults: nothing is sent to the MCP server that the    *)
(* log has not on disk, the appends make one chain, and a log that opens   *)
(* is the beginning of what was written.                                   *)
(***************************************************************************)
EXTENDS Audit, SequenceLemmas

-----------------------------------------------------------------------------
(* Chains.                                                                 *)

LEMMA EntriesFacts ==
  ASSUME NEW lines \in Seq(Line)
  PROVE  /\ EntriesOf(lines) \in Seq(Entry) /\ Len(EntriesOf(lines)) = Len(lines)
         /\ DOMAIN lines = 1 .. Len(lines) /\ Len(lines) \in Nat
         /\ \A i \in DOMAIN lines : lines[i] \in Line /\ EntriesOf(lines)[i] = lines[i].entry
  <1>1. DOMAIN lines = 1 .. Len(lines) /\ Len(lines) \in Nat
        /\ \A i \in 1 .. Len(lines) : lines[i] \in Line
    BY LenProperties, ElementOfSeq
  <1>2. EntriesOf(lines) = [i \in 1 .. Len(lines) |-> lines[i].entry]
    BY <1>1 DEF EntriesOf
  <1>3. \A i \in 1 .. Len(lines) : lines[i].entry \in Entry
    BY <1>1 DEF Line
  <1>4. EntriesOf(lines) \in Seq(Entry)
    BY <1>1, <1>2, <1>3, IsASeq
  <1>5. QED
    BY <1>1, <1>2, <1>4, LenProperties

(* In a chain, a line's hash stands for the entries up to it.              *)
LEMMA HashOfChain ==
  ASSUME NEW lines \in Seq(Line), Chained(lines)
  PROVE  \A i \in DOMAIN lines :
           /\ Len(lines[i].hash) = i
           /\ \A k \in 1 .. i : lines[i].hash[k] = lines[k].entry
  <1> DEFINE P(i) == /\ Len(lines[i].hash) = i
                     /\ \A k \in 1 .. i : lines[i].hash[k] = lines[k].entry
             T == {n \in Nat : n \in DOMAIN lines => P(n)}
  <1>1. /\ DOMAIN lines = 1 .. Len(lines) /\ Len(lines) \in Nat
        /\ \A i \in DOMAIN lines : /\ lines[i].prev \in Seq(Entry) /\ lines[i].hash \in Seq(Entry)
                                   /\ lines[i].entry \in Entry
    BY EntriesFacts DEF Line
  <1>2. 0 \in T
    BY <1>1
  <1>3. ASSUME NEW n \in Nat, n \in T PROVE n + 1 \in T
    <2> SUFFICES ASSUME n + 1 \in DOMAIN lines PROVE P(n + 1)
      OBVIOUS
    <2>1. CASE n = 0
      <3>1. 1 \in DOMAIN lines
        BY <2>1
      <3>2. lines[1].prev = <<>>
        BY <3>1 DEF Chained
      <3>3. lines[1].hash = Append(<<>>, lines[1].entry)
        BY <3>1, <3>2 DEF Chained, Link
      <3>4. lines[1].hash = <<lines[1].entry>>
        BY <3>3
      <3>5. Len(lines[1].hash) = 1 /\ \A k \in 1 .. 1 : lines[1].hash[k] = lines[k].entry
        BY <3>4
      <3>6. QED
        BY <2>1, <3>5
    <2>2. CASE n # 0
      <3>1. n \in DOMAIN lines /\ P(n)
        BY <1>1, <1>3, <2>2
      <3>2. lines[n + 1].prev = lines[n].hash
        BY <2>2 DEF Chained
      <3>3. lines[n + 1].hash = Append(lines[n].hash, lines[n + 1].entry)
        BY <3>2 DEF Chained, Link
      <3>4. QED
        BY <1>1, <3>1, <3>3
    <2>3. QED
      BY <2>1, <2>2
  <1>4. Nat \subseteq T
    <2> HIDE DEF T
    <2>1. QED
      BY <1>2, <1>3, SetInduction
  <1>5. QED
    BY <1>1, <1>4

LEMMA LastOfChain ==
  ASSUME NEW lines \in Seq(Line), Chained(lines)
  PROVE  LastHash(lines) = EntriesOf(lines)
  <1>1. CASE lines = <<>>
    BY <1>1 DEF LastHash, EntriesOf
  <1>2. CASE lines # <<>>
    <2>1. Len(lines) \in DOMAIN lines /\ LastHash(lines) = lines[Len(lines)].hash
      BY <1>2, EmptySeq DEF LastHash, Last
    <2>2. LastHash(lines) \in Seq(Entry)
      BY <2>1, EntriesFacts DEF Line
    <2>3. Len(LastHash(lines)) = Len(lines)
          /\ \A k \in 1 .. Len(lines) : LastHash(lines)[k] = EntriesOf(lines)[k]
      BY <2>1, HashOfChain, EntriesFacts
    <2>4. QED
      BY <2>2, <2>3, EntriesFacts, SeqEqual
  <1>3. QED
    BY <1>1, <1>2

(* A chain goes on from its end.                                           *)
LEMMA ChainGoesOn ==
  ASSUME NEW lines \in Seq(Line), Verifies(lines), NEW e \in Entry
  PROVE  LET longer == Append(lines, LineOf(LastHash(lines), e))
         IN /\ longer \in Seq(Line) /\ Verifies(longer)
            /\ LastHash(longer) = Link(LastHash(lines), e)
            /\ EntriesOf(longer) = Append(EntriesOf(lines), e)
  <1> DEFINE n == Len(lines)
             line == LineOf(LastHash(lines), e)
             longer == Append(lines, line)
  <1>1. LastHash(lines) \in Seq(Entry)
    BY LastOfChain, EntriesFacts DEF Verifies
  <1>2. line \in Line /\ line.whole /\ line.prev = LastHash(lines)
        /\ line.hash = Link(LastHash(lines), e) /\ line.entry = e
    BY <1>1 DEF Line, LineOf, Link
  <1>3. /\ longer \in Seq(Line) /\ Len(longer) = n + 1 /\ DOMAIN longer = 1 .. n + 1
        /\ longer[n + 1] = line /\ \A i \in 1 .. n : longer[i] = lines[i]
        /\ n \in Nat /\ DOMAIN lines = 1 .. n /\ longer # <<>>
    BY <1>2
  <1>4. n > 0 => lines # <<>> /\ LastHash(lines) = lines[n].hash
    BY <1>3 DEF LastHash, Last
  <1>5. n = 0 => LastHash(lines) = <<>>
    BY <1>3 DEF LastHash
  <1> HIDE DEF line, longer, n
  <1>6. Terminated(longer)
    BY <1>2, <1>3 DEF Verifies, Terminated
  <1>7. Chained(longer)
    <2>1. ASSUME NEW i \in 1 .. n + 1
          PROVE  /\ longer[i].prev = IF i = 1 THEN <<>> ELSE longer[i - 1].hash
                 /\ longer[i].hash = Link(longer[i].prev, longer[i].entry)
      <3>1. CASE i = n + 1
        <4>1. n > 0 => longer[i - 1] = lines[n]
          BY <1>3, <3>1
        <4>2. QED
          BY <1>2, <1>3, <1>4, <1>5, <3>1, <4>1
      <3>2. CASE i # n + 1
        <4>1. i \in 1 .. n /\ longer[i] = lines[i]
          BY <1>3, <3>2
        <4>2. i # 1 => i - 1 \in 1 .. n /\ longer[i - 1] = lines[i - 1]
          BY <1>3, <4>1
        <4>3. /\ lines[i].prev = IF i = 1 THEN <<>> ELSE lines[i - 1].hash
              /\ lines[i].hash = Link(lines[i].prev, lines[i].entry)
          BY <1>3, <4>1 DEF Verifies, Chained
        <4>4. QED
          BY <4>1, <4>2, <4>3
      <3>3. QED
        BY <3>1, <3>2
    <2>2. QED
      BY <1>3, <2>1 DEF Chained
  <1>8. LastHash(longer) = Link(LastHash(lines), e)
    BY <1>2, <1>3 DEF LastHash, Last
  <1>9. EntriesOf(longer) = Append(EntriesOf(lines), e)
    <2>1. /\ Append(EntriesOf(lines), e) \in Seq(Entry)
          /\ Len(Append(EntriesOf(lines), e)) = n + 1
          /\ Append(EntriesOf(lines), e)[n + 1] = e
          /\ \A i \in 1 .. n : Append(EntriesOf(lines), e)[i] = lines[i].entry
      BY <1>3, EntriesFacts DEF n
    <2>2. \A i \in 1 .. n + 1 : EntriesOf(longer)[i] = Append(EntriesOf(lines), e)[i]
      BY <1>2, <1>3, <2>1, EntriesFacts
    <2>3. EntriesOf(longer) \in Seq(Entry) /\ Len(EntriesOf(longer)) = n + 1
      BY <1>3, EntriesFacts
    <2>4. QED
      BY <2>1, <2>2, <2>3, SeqEqual
  <1>10. QED
    BY <1>3, <1>6, <1>7, <1>8, <1>9 DEF Verifies, line, longer

-----------------------------------------------------------------------------
(* The inductive invariant.                                                *)

AuditTypeOK ==
  /\ file \in Seq(Line) /\ synced \in 0 .. Len(file)
  /\ service \in {"down", "up", "refused"}
  /\ prev \in Seq(Entry) /\ failed \in BOOLEAN /\ lock \in Turn \cup {Nobody}
  /\ step \in [Turn -> Step] /\ entry \in [Turn -> Entry \cup {0}]
  /\ acts \in [Turn -> BOOLEAN] /\ next \in 1 .. MaxEntries + 1
  /\ written \in Seq(Entry) /\ sent \subseteq Entry
  /\ faults \in Nat /\ edited \in BOOLEAN

(* A turn writes a record that was begun, of a service that is up; and the *)
(* one that writes or syncs holds the chain, which has not failed.         *)
TurnsHold ==
  /\ \A t \in Turn : step[t] # "idle" => service = "up" /\ entry[t] \in Entry
  /\ \A t \in Turn : step[t] \in {"write", "sync"} => lock = t
  /\ lock # Nobody => step[lock] \in {"write", "sync"} /\ ~failed

(* While the service is up, the file is the chain of all that was written, *)
(* and Chain.prev is its end, or that of the line now synced is; once an   *)
(* append has failed, no more than the end of the file may be torn.        *)
ChainIsHistory ==
  service = "up" =>
    IF failed
    THEN \A i \in 1 .. Len(file) - 1 : file[i].whole
    ELSE /\ Verifies(file) /\ written = EntriesOf(file)
         /\ LastHash(file) =
              IF lock # Nobody /\ step[lock] = "sync" THEN Link(prev, entry[lock]) ELSE prev

(* Whatever has become of the file, a line in it that is whole has a hash  *)
(* that stands for a beginning of what was written.                        *)
HashesAreHistory == \A i \in DOMAIN file : file[i].whole => IsPrefix(file[i].hash, written)

(* A record whose append returned is among the lines a power loss leaves.  *)
Recorded == {file[i].entry : i \in {j \in 1 .. synced : file[j].whole}}
RecordsStay ==
  ~edited => sent \cup {entry[t] : t \in {u \in Turn : step[u] = "act"}} \subseteq Recorded

AuditInv ==
  AuditTypeOK /\ TurnsHold /\ ChainIsHistory /\ HashesAreHistory /\ RecordsStay

LEMMA LinesTyped ==
  ASSUME AuditTypeOK, NEW e \in Entry
  PROVE  /\ LineOf(prev, e) \in Line /\ LineOf(prev, e).whole
         /\ LineOf(prev, e).entry = e /\ LineOf(prev, e).hash = Link(prev, e)
         /\ Torn(e) \in Line /\ ~Torn(e).whole
         /\ Link(prev, e) \in Seq(Entry)
  <1> DEFINE h == Link(prev, e)
  <1>1. prev \in Seq(Entry) /\ h \in Seq(Entry)
    BY AppendProperties DEF AuditTypeOK, Link
  <1>2. LineOf(prev, e) = [prev |-> prev, hash |-> h, entry |-> e, whole |-> TRUE]
    BY DEF LineOf
  <1> HIDE DEF h
  <1>3. LineOf(prev, e) \in Line
    BY <1>1, <1>2 DEF Line
  <1>4. \A l \in Line : LET torn == [l EXCEPT !.whole = FALSE]
                       IN torn \in Line /\ ~torn.whole
    BY DEF Line
  <1>5. QED
    BY <1>1, <1>2, <1>3, <1>4 DEF h, Torn

LEMMA FileFacts ==
  ASSUME AuditTypeOK
  PROVE  /\ file \in Seq(Line) /\ Len(file) \in Nat /\ DOMAIN file = 1 .. Len(file)
         /\ \A i \in DOMAIN file : /\ file[i] \in Line /\ file[i].hash \in Seq(Entry)
                                   /\ file[i].whole \in BOOLEAN
         /\ written \in Seq(Entry) /\ Len(written) \in Nat
         /\ synced \in Nat /\ synced <= Len(file)
         /\ Recorded \subseteq Entry
  <1>1. file \in Seq(Line) /\ written \in Seq(Entry) /\ synced \in 0 .. Len(file)
    BY DEF AuditTypeOK
  <1>2. Len(file) \in Nat /\ DOMAIN file = 1 .. Len(file) /\ Len(written) \in Nat
        /\ synced \in Nat /\ synced <= Len(file)
    BY <1>1, LenProperties
  <1>3. \A i \in DOMAIN file : file[i] \in Line
    BY <1>1, <1>2, ElementOfSeq
  <1>4. \A i \in DOMAIN file : /\ file[i].hash \in Seq(Entry) /\ file[i].whole \in BOOLEAN
                               /\ file[i].entry \in Entry
    BY <1>3 DEF Line
  <1>5. Recorded \subseteq Entry
    BY <1>2, <1>4 DEF Recorded
  <1>6. QED
    BY <1>1, <1>2, <1>3, <1>4, <1>5

(* A log that is longer has more on record.                                *)
LEMMA RecordsGrow ==
  ASSUME AuditTypeOK, synced' \in Nat, synced <= synced',
         \A i \in 1 .. synced : file'[i] = file[i]
  PROVE  Recorded \subseteq Recorded'
  BY FileFacts DEF Recorded

LEMMA InitHolds == Init => AuditInv
  <1> SUFFICES ASSUME Init PROVE AuditInv
    OBVIOUS
  <1>1. AuditTypeOK
    <2>1. file \in Seq(Line) /\ prev \in Seq(Entry) /\ written \in Seq(Entry)
          /\ synced \in 0 .. Len(file)
      BY EmptySeq DEF Init
    <2>2. next \in 1 .. MaxEntries + 1
      BY AuditAssumption DEF Init
    <2>3. QED
      BY <2>1, <2>2 DEF Init, AuditTypeOK, Step
  <1>2. TurnsHold /\ ChainIsHistory /\ HashesAreHistory
    BY DEF Init, TurnsHold, ChainIsHistory, HashesAreHistory
  <1>3. RecordsStay
    BY DEF Init, RecordsStay, Recorded
  <1>4. QED
    BY <1>1, <1>2, <1>3 DEF AuditInv

LEMMA OpenHolds ==
  ASSUME AuditInv, Open
  PROVE  AuditInv'
  <1> USE DEF AuditInv
  <1>1. /\ service = "down" /\ failed' = FALSE
        /\ UNCHANGED <<file, synced, lock, step, entry, acts, next, sent, faults, edited>>
    BY DEF Open, logVars, turnVars, faultVars
  <1>2. \A t \in Turn : step[t] = "idle"
    BY <1>1 DEF TurnsHold
  <1>3. lock = Nobody
    BY <1>2, FileFacts DEF TurnsHold, AuditTypeOK
  <1>4. TurnsHold'
    BY <1>1, <1>2, <1>3 DEF TurnsHold
  <1>5. RecordsStay'
    BY <1>1 DEF RecordsStay, Recorded
  <1>6. CASE Verifies(file)
    <2>1. service' = "up" /\ prev' = LastHash(file) /\ written' = EntriesOf(file)
      BY <1>6 DEF Open
    <2>2. LastHash(file) = EntriesOf(file) /\ EntriesOf(file) \in Seq(Entry)
      BY <1>6, LastOfChain, EntriesFacts, FileFacts DEF Verifies
    <2>3. AuditTypeOK'
      BY <1>1, <2>1, <2>2 DEF AuditTypeOK
    <2>4. ChainIsHistory'
      BY <1>1, <1>3, <1>6, <2>1 DEF ChainIsHistory
    <2>5. HashesAreHistory'
      <3>1. ASSUME NEW i \in DOMAIN file
            PROVE  IsPrefix(file[i].hash, EntriesOf(file))
        <4>1. Chained(file) /\ file[i].hash \in Seq(Entry)
          BY <1>6, FileFacts DEF Verifies
        <4>2. Len(file[i].hash) = i /\ \A k \in 1 .. i : file[i].hash[k] = file[k].entry
          BY <4>1, HashOfChain, FileFacts
        <4>3. /\ i <= Len(EntriesOf(file))
              /\ \A k \in 1 .. i : EntriesOf(file)[k] = file[k].entry
          BY EntriesFacts, FileFacts
        <4>4. QED
          BY <2>2, <4>1, <4>2, <4>3, PrefixElements
      <3>2. QED
        BY <1>1, <2>1, <3>1 DEF HashesAreHistory
    <2>6. QED
      BY <1>4, <1>5, <2>3, <2>4, <2>5
  <1>7. CASE ~Verifies(file)
    <2>1. service' = "refused" /\ UNCHANGED <<prev, written>>
      BY <1>7 DEF Open
    <2>2. AuditTypeOK'
      BY <1>1, <2>1 DEF AuditTypeOK
    <2>3. ChainIsHistory' /\ HashesAreHistory'
      BY <1>1, <2>1 DEF ChainIsHistory, HashesAreHistory
    <2>4. QED
      BY <1>4, <1>5, <2>2, <2>3
  <1>8. QED
    BY <1>6, <1>7

(* Beginning a record, taking the chain and sending the action leave the   *)
(* log alone.                                                              *)
LEMMA TurnHolds ==
  ASSUME AuditInv, NEW t \in Turn,
         (\E action \in BOOLEAN : Begin(t, action)) \/ TakeChain(t) \/ Act(t)
  PROVE  AuditInv'
  <1> USE DEF AuditInv
  <1>1. UNCHANGED <<file, synced, service, prev, failed, written, faults, edited>>
    BY DEF Begin, TakeChain, Act, logVars, chainVars, historyVars, faultVars
  <1>2. HashesAreHistory'
    BY <1>1 DEF HashesAreHistory
  <1>3. Recorded' = Recorded
    BY <1>1 DEF Recorded
  <1>4. ASSUME NEW action \in BOOLEAN, Begin(t, action)
        PROVE  AuditInv'
    <2>1. /\ service = "up" /\ step[t] = "idle" /\ next <= MaxEntries
          /\ next' = next + 1 /\ entry' = [entry EXCEPT ![t] = next]
          /\ acts' = [acts EXCEPT ![t] = action]
          /\ step' = [step EXCEPT ![t] = "append"] /\ UNCHANGED <<lock, sent>>
      BY <1>4 DEF Begin, chainVars, historyVars
    <2>2. next \in Entry /\ next + 1 \in 1 .. MaxEntries + 1
      BY <2>1, AuditAssumption DEF AuditTypeOK, Entry
    <2>3. AuditTypeOK'
      BY <1>1, <2>1, <2>2 DEF AuditTypeOK, Step
    <2>4. TurnsHold'
      BY <1>1, <2>1, <2>2 DEF TurnsHold, AuditTypeOK
    <2>5. ChainIsHistory'
      <3>1. lock # Nobody => lock # t /\ lock \in Turn
        BY <2>1 DEF TurnsHold, AuditTypeOK
      <3>2. lock # Nobody => step'[lock] = step[lock] /\ entry'[lock] = entry[lock]
        BY <2>1, <3>1 DEF AuditTypeOK
      <3>3. QED
        BY <1>1, <2>1, <3>2 DEF ChainIsHistory
    <2>6. RecordsStay'
      BY <1>1, <1>3, <2>1 DEF RecordsStay, AuditTypeOK
    <2>7. QED
      BY <1>2, <2>3, <2>4, <2>5, <2>6
  <1>5. CASE TakeChain(t)
    <2>1. /\ step[t] = "append" /\ lock = Nobody /\ UNCHANGED <<entry, acts, next, sent>>
          /\ \/ failed /\ step' = [step EXCEPT ![t] = "idle"] /\ lock' = lock
             \/ ~failed /\ step' = [step EXCEPT ![t] = "write"] /\ lock' = t
      BY <1>5 DEF TakeChain, LockFree, historyVars
    <2>2. AuditTypeOK'
      BY <1>1, <2>1 DEF AuditTypeOK, Step
    <2>3. TurnsHold'
      BY <1>1, <2>1, AuditAssumption DEF TurnsHold, AuditTypeOK
    <2>4. ChainIsHistory'
      BY <1>1, <2>1 DEF ChainIsHistory, AuditTypeOK
    <2>5. RecordsStay'
      BY <1>1, <1>3, <2>1 DEF RecordsStay, AuditTypeOK
    <2>6. QED
      BY <1>2, <2>2, <2>3, <2>4, <2>5
  <1>6. CASE Act(t)
    <2>1. /\ step[t] = "act" /\ step' = [step EXCEPT ![t] = "idle"]
          /\ sent' = sent \cup {entry[t]} /\ UNCHANGED <<lock, entry, acts, next>>
      BY <1>6 DEF Act, chainVars
    <2>2. AuditTypeOK'
      BY <1>1, <2>1 DEF AuditTypeOK, Step, TurnsHold
    <2>3. TurnsHold'
      BY <1>1, <2>1 DEF TurnsHold, AuditTypeOK
    <2>4. ChainIsHistory'
      BY <1>1, <2>1 DEF ChainIsHistory, AuditTypeOK
    <2>5. RecordsStay'
      BY <1>1, <1>3, <2>1 DEF RecordsStay, AuditTypeOK
    <2>6. QED
      BY <1>2, <2>2, <2>3, <2>4, <2>5
  <1>7. QED
    BY <1>4, <1>5, <1>6

LEMMA PrefixGrows ==
  ASSUME NEW S, NEW s \in Seq(S), NEW t \in Seq(S), NEW e \in S
  PROVE  /\ IsPrefix(s, t) => IsPrefix(s, Append(t, e))
         /\ IsPrefix(s, s)
  <1>1. /\ Append(t, e) \in Seq(S) /\ Len(Append(t, e)) = Len(t) + 1
        /\ \A i \in 1 .. Len(t) : Append(t, e)[i] = t[i]
    BY AppendProperties
  <1>2. Len(s) \in Nat /\ Len(t) \in Nat
    OBVIOUS
  <1>3. IsPrefix(s, s)
    BY <1>2, PrefixElements
  <1>4. IsPrefix(s, t) => Len(s) <= Len(t) /\ \A i \in 1 .. Len(s) : s[i] = t[i]
    BY PrefixElements
  <1> DEFINE longer == Append(t, e)
  <1> HIDE DEF longer
  <1>5. /\ longer \in Seq(S) /\ Len(longer) = Len(t) + 1
        /\ \A i \in 1 .. Len(t) : longer[i] = t[i]
    BY <1>1 DEF longer
  <1>6. IsPrefix(s, longer)
          <=> Len(s) <= Len(longer) /\ \A i \in 1 .. Len(s) : s[i] = longer[i]
    BY <1>5, PrefixElements
  <1>7. ASSUME IsPrefix(s, t) PROVE IsPrefix(s, longer)
    <2>1. Len(s) <= Len(longer)
      BY <1>2, <1>4, <1>5, <1>7
    <2>2. ASSUME NEW i \in 1 .. Len(s) PROVE s[i] = longer[i]
      BY <1>2, <1>4, <1>5, <1>7
    <2>3. QED
      BY <1>6, <2>1, <2>2
  <1>8. QED
    BY <1>3, <1>7 DEF longer

(* The turn that writes or syncs holds the chain.                          *)
LEMMA HolderFacts ==
  ASSUME AuditInv, NEW t \in Turn, step[t] \in {"write", "sync"}
  PROVE  /\ lock = t /\ lock # Nobody /\ ~failed /\ service = "up"
         /\ entry[t] \in Entry /\ Verifies(file) /\ written = EntriesOf(file)
         /\ LastHash(file) = IF step[t] = "sync" THEN Link(prev, entry[t]) ELSE prev
         /\ \A u \in Turn : u # t => step[u] \notin {"write", "sync"}
  <1>1. lock = t /\ lock # Nobody /\ ~failed /\ service = "up" /\ entry[t] \in Entry
        /\ \A u \in Turn : u # t => step[u] \notin {"write", "sync"}
    BY AuditAssumption DEF AuditInv, TurnsHold
  <1>2. QED
    BY <1>1 DEF AuditInv, ChainIsHistory

LEMMA WriteHolds ==
  ASSUME AuditInv, NEW t \in Turn, WriteLine(t)
  PROVE  AuditInv'
  <1> USE DEF AuditInv
  <1> DEFINE e == entry[t]
  <1>1. /\ step[t] = "write"
        /\ file' = Append(file, LineOf(prev, e)) /\ written' = Append(written, e)
        /\ step' = [step EXCEPT ![t] = "sync"]
        /\ UNCHANGED <<synced, service, prev, failed, lock, entry, acts, next, sent,
                       faults, edited>>
    BY DEF WriteLine, chainVars, faultVars
  <1>2. /\ lock = t /\ lock # Nobody /\ ~failed /\ service = "up"
        /\ e \in Entry /\ Verifies(file) /\ written = EntriesOf(file) /\ LastHash(file) = prev
    BY <1>1, HolderFacts
  <1>3. /\ file' \in Seq(Line) /\ Verifies(file') /\ LastHash(file') = Link(prev, e)
        /\ EntriesOf(file') = written' /\ written' \in Seq(Entry)
    BY <1>1, <1>2, ChainGoesOn, EntriesFacts, FileFacts
  <1>4. Len(file') = Len(file) + 1 /\ DOMAIN file' = 1 .. Len(file) + 1
        /\ file'[Len(file) + 1] = LineOf(prev, e)
        /\ \A i \in DOMAIN file : file'[i] = file[i]
    BY <1>1, FileFacts
  <1>5. AuditTypeOK'
    BY <1>1, <1>3, <1>4, FileFacts DEF AuditTypeOK, Step
  <1>6. TurnsHold'
    BY <1>1, <1>2 DEF TurnsHold, AuditTypeOK
  <1>7. ChainIsHistory'
    BY <1>1, <1>2, <1>3 DEF ChainIsHistory, AuditTypeOK
  <1>8. HashesAreHistory'
    <2>1. SUFFICES ASSUME NEW i \in DOMAIN file', file'[i].whole
                   PROVE  IsPrefix(file'[i].hash, written')
      BY DEF HashesAreHistory
    <2>2. CASE i \in DOMAIN file
      <3>1. IsPrefix(file[i].hash, written) /\ file[i].hash \in Seq(Entry)
        BY <1>4, <2>1, <2>2, FileFacts DEF HashesAreHistory
      <3>2. QED
        BY <1>1, <1>2, <1>4, <2>2, <3>1, PrefixGrows, FileFacts
    <2>3. CASE i \notin DOMAIN file
      <3>1. i = Len(file) + 1
        BY <1>4, <2>3, FileFacts
      <3>2. LineOf(prev, e).hash = Append(prev, e) /\ prev = written
        BY <1>2, LinesTyped, LastOfChain, FileFacts DEF Link, Verifies
      <3>3. file'[i].hash = written'
        BY <1>1, <1>4, <3>1, <3>2
      <3>4. QED
        BY <1>3, <3>3, PrefixGrows, <1>2
    <2>4. QED
      BY <2>2, <2>3
  <1>9. RecordsStay'
    <2>1. Recorded \subseteq Recorded'
      BY <1>1, <1>4, RecordsGrow, FileFacts
    <2>2. QED
      BY <1>1, <2>1 DEF RecordsStay, AuditTypeOK
  <1>10. QED
    BY <1>5, <1>6, <1>7, <1>8, <1>9

(* The record that is synced ends the file, so that it is on record before *)
(* the append returns.                                                     *)
LEMMA SyncHolds ==
  ASSUME AuditInv, NEW t \in Turn, SyncLine(t)
  PROVE  AuditInv'
  <1> USE DEF AuditInv
  <1> DEFINE e == entry[t]
             n == Len(file)
  <1>1. /\ step[t] = "sync" /\ synced' = n /\ prev' = Link(prev, e)
        /\ lock' = Nobody
        /\ step' = [step EXCEPT ![t] = IF acts[t] THEN "act" ELSE "idle"]
        /\ UNCHANGED <<file, service, failed, entry, acts, next, written, sent,
                       faults, edited>>
    BY DEF SyncLine, Return, historyVars, faultVars
  <1>2. /\ lock = t /\ ~failed /\ service = "up"
        /\ e \in Entry /\ Verifies(file) /\ written = EntriesOf(file)
        /\ LastHash(file) = Link(prev, e)
        /\ \A u \in Turn : u # t => step[u] \notin {"write", "sync"}
    BY <1>1, HolderFacts
  <1>3. /\ n \in DOMAIN file /\ file[n].whole /\ file[n].entry = e
    <2>1. file # <<>>
      <3>1. Append(prev, e) # <<>>
        BY <1>2, AppendProperties DEF AuditTypeOK
      <3>2. QED
        BY <1>2, <3>1 DEF LastHash, Link
    <2>2. n \in DOMAIN file /\ LastHash(file) = file[n].hash
      BY <2>1, FileFacts, EmptySeq DEF LastHash, Last
    <2>3. file[n].hash = Append(file[n].prev, file[n].entry)
      BY <1>2, <2>2 DEF Verifies, Chained, Link
    <2>4. file[n].prev \in Seq(Entry) /\ file[n].entry \in Entry /\ prev \in Seq(Entry)
      BY <2>2, FileFacts DEF Line, AuditTypeOK
    <2>5. file[n].entry = e
      <3>1. Append(file[n].prev, file[n].entry) = Append(prev, e)
        BY <1>2, <2>2, <2>3 DEF Link
      <3>2. e \in Entry
        BY <1>2
      <3> HIDE DEF e, n
      <3>3. QED
        BY <3>1, <3>2, <2>4, AppendInjective
    <2>6. QED
      BY <1>2, <2>2, <2>5 DEF Verifies, Terminated
  <1>4. AuditTypeOK'
    BY <1>1, <1>2, LinesTyped, FileFacts DEF AuditTypeOK, Step
  <1>5. TurnsHold'
    BY <1>1, <1>2, AuditAssumption DEF TurnsHold, AuditTypeOK
  <1>6. ChainIsHistory'
    BY <1>1, <1>2 DEF ChainIsHistory
  <1>7. HashesAreHistory'
    BY <1>1 DEF HashesAreHistory
  <1>8. RecordsStay'
    <2>1. Recorded \subseteq Recorded'
      BY <1>1, RecordsGrow, FileFacts
    <2>2. e \in Recorded'
      BY <1>1, <1>3, FileFacts DEF Recorded
    <2>3. QED
      BY <1>1, <2>1, <2>2 DEF RecordsStay, AuditTypeOK
  <1>9. QED
    BY <1>4, <1>5, <1>6, <1>7, <1>8

-----------------------------------------------------------------------------
(* Faults.                                                                 *)

(* A torn line at the end hides nothing that was there.                    *)
LEMMA TornEnd ==
  ASSUME AuditInv, UNCHANGED <<synced, written>>,
         file' = file \/ \E e \in Entry : file' = Append(file, Torn(e))
  PROVE  /\ file' \in Seq(Line) /\ synced \in 0 .. Len(file')
         /\ HashesAreHistory' /\ Recorded \subseteq Recorded'
         /\ Verifies(file) => \A i \in 1 .. Len(file') - 1 : file'[i].whole
  <1> USE DEF AuditInv
  <1>1. CASE file' = file
    BY <1>1, FileFacts DEF HashesAreHistory, Recorded, Verifies, Terminated
  <1>2. ASSUME NEW e \in Entry, file' = Append(file, Torn(e))
        PROVE  /\ file' \in Seq(Line) /\ synced \in 0 .. Len(file')
               /\ HashesAreHistory' /\ Recorded \subseteq Recorded'
               /\ Verifies(file) => \A i \in 1 .. Len(file') - 1 : file'[i].whole
    <2>1. PICK torn \in Line : ~torn.whole /\ file' = Append(file, torn)
      BY <1>2, LinesTyped
    <2>2. /\ file' \in Seq(Line) /\ Len(file') = Len(file) + 1
          /\ DOMAIN file' = 1 .. Len(file) + 1 /\ file'[Len(file) + 1] = torn
          /\ \A i \in 1 .. Len(file) : file'[i] = file[i]
      <3>1. file \in Seq(Line)
        BY FileFacts
      <3>2. QED
        BY <2>1, <3>1, AppendFacts
    <2>3. HashesAreHistory'
      <3>1. SUFFICES ASSUME NEW i \in DOMAIN file', file'[i].whole
                     PROVE  IsPrefix(file'[i].hash, written)
        BY DEF HashesAreHistory
      <3>2. Len(file) \in Nat /\ DOMAIN file = 1 .. Len(file)
        BY FileFacts
      <3>3. i # Len(file) + 1
        BY <2>1, <2>2, <3>1
      <3>4. i \in 1 .. Len(file)
        BY <2>2, <3>1, <3>2, <3>3
      <3>5. QED
        BY <2>2, <3>1, <3>2, <3>4 DEF HashesAreHistory
    <2>4. Recorded \subseteq Recorded'
      BY <2>2, RecordsGrow, FileFacts
    <2>5. Verifies(file) => \A i \in 1 .. Len(file') - 1 : file'[i].whole
      BY <2>2, FileFacts DEF Verifies, Terminated
    <2>6. QED
      BY <2>2, <2>3, <2>4, <2>5, FileFacts
  <1>3. QED
    BY <1>1, <1>2

LEMMA AppendFailsHolds ==
  ASSUME AuditInv, NEW t \in Turn, AppendFails(t)
  PROVE  AuditInv'
  <1> USE DEF AuditInv
  <1>1. /\ step[t] \in {"write", "sync"}
        /\ failed' = TRUE /\ lock' = Nobody /\ step' = [step EXCEPT ![t] = "idle"]
        /\ faults' = faults + 1
        /\ UNCHANGED <<synced, service, prev, entry, acts, next, written, sent, edited>>
    BY DEF AppendFails, historyVars, Fault
  <1>2. /\ service = "up" /\ entry[t] \in Entry /\ Verifies(file)
        /\ \A u \in Turn : u # t => step[u] \notin {"write", "sync"}
    BY <1>1, HolderFacts
  <1>3. file' = file \/ file' = Append(file, Torn(entry[t]))
    BY DEF AppendFails
  <1>4. /\ file' \in Seq(Line) /\ synced \in 0 .. Len(file') /\ HashesAreHistory'
        /\ Recorded \subseteq Recorded'
        /\ \A i \in 1 .. Len(file') - 1 : file'[i].whole
    BY <1>1, <1>2, <1>3, TornEnd
  <1>5. AuditTypeOK'
    BY <1>1, <1>4 DEF AuditTypeOK, Step
  <1>6. TurnsHold'
    BY <1>1, <1>2 DEF TurnsHold, AuditTypeOK
  <1>7. ChainIsHistory'
    BY <1>1, <1>4 DEF ChainIsHistory
  <1>8. RecordsStay'
    BY <1>1, <1>4 DEF RecordsStay, AuditTypeOK
  <1>9. QED
    BY <1>4, <1>5, <1>6, <1>7, <1>8

LEMMA CrashHolds ==
  ASSUME AuditInv, Crash
  PROVE  AuditInv'
  <1> USE DEF AuditInv
  <1>1. /\ service' = "down" /\ lock' = Nobody /\ step' = [t \in Turn |-> "idle"]
        /\ faults' = faults + 1
        /\ UNCHANGED <<synced, prev, failed, entry, acts, next, written, sent, edited>>
    BY DEF Crash, Fault, Idle, historyVars
  <1>2. file' = file \/ \E e \in Entry : file' = Append(file, Torn(e))
    BY DEF Crash, TurnsHold
  <1>3. /\ file' \in Seq(Line) /\ synced \in 0 .. Len(file') /\ HashesAreHistory'
        /\ Recorded \subseteq Recorded'
    BY <1>1, <1>2, TornEnd
  <1>4. AuditTypeOK'
    BY <1>1, <1>3 DEF AuditTypeOK, Step
  <1>5. TurnsHold' /\ ChainIsHistory'
    BY <1>1 DEF TurnsHold, ChainIsHistory
  <1>6. RecordsStay'
    BY <1>1, <1>3 DEF RecordsStay
  <1>7. QED
    BY <1>3, <1>4, <1>5, <1>6

LEMMA PowerLossHolds ==
  ASSUME AuditInv, PowerLoss
  PROVE  AuditInv'
  <1> USE DEF AuditInv
  <1>1. /\ service' = "down" /\ lock' = Nobody /\ step' = [t \in Turn |-> "idle"]
        /\ faults' = faults + 1 /\ synced' = Len(file')
        /\ UNCHANGED <<prev, failed, entry, acts, next, written, sent, edited>>
    BY DEF PowerLoss, Fault, Idle, historyVars
  <1>2. PICK k \in synced .. Len(file) :
          \/ file' = SubSeq(file, 1, k)
          \/ /\ k \in synced + 1 .. Len(file)
             /\ file' = Append(SubSeq(file, 1, k - 1), [file[k] EXCEPT !.whole = FALSE])
    BY FileFacts DEF PowerLoss
  <1>3. k \in Nat /\ synced <= k /\ k <= Len(file)
    BY <1>2, FileFacts
  <1>4. /\ file' \in Seq(Line) /\ Len(file') = k
        /\ \A i \in 1 .. k : file'[i] = file[i] \/ ~file'[i].whole
        /\ \A i \in 1 .. synced : file'[i] = file[i]
    <2>1. CASE file' = SubSeq(file, 1, k)
      BY <1>3, <2>1, FileFacts, SubSeqProperties
    <2>2. CASE /\ k \in synced + 1 .. Len(file)
               /\ file' = Append(SubSeq(file, 1, k - 1), [file[k] EXCEPT !.whole = FALSE])
      <3> DEFINE kept == SubSeq(file, 1, k - 1)
                 torn == [file[k] EXCEPT !.whole = FALSE]
      <3>1. file[k] \in Line /\ k - 1 \in Nat /\ synced <= k - 1
        BY <1>3, <2>2, FileFacts
      <3>2. torn \in Line /\ ~torn.whole
        BY <3>1 DEF Line
      <3>3. kept \in Seq(Line) /\ Len(kept) = k - 1 /\ \A i \in 1 .. k - 1 : kept[i] = file[i]
        BY <1>3, <3>1, FileFacts, SubSeqProperties
      <3> HIDE DEF kept, torn
      <3>4. file' = Append(kept, torn)
        BY <2>2 DEF kept, torn
      <3>5. /\ file' \in Seq(Line) /\ Len(file') = k /\ file'[k] = torn
            /\ \A i \in 1 .. k - 1 : file'[i] = kept[i]
        BY <3>1, <3>2, <3>3, <3>4
      <3>6. QED
        BY <1>3, <3>1, <3>2, <3>3, <3>5, FileFacts
    <2>3. QED
      BY <1>2, <2>1, <2>2
  <1>5. AuditTypeOK'
    BY <1>1, <1>3, <1>4 DEF AuditTypeOK, Step
  <1>6. TurnsHold' /\ ChainIsHistory'
    BY <1>1 DEF TurnsHold, ChainIsHistory
  <1>7. HashesAreHistory'
    BY <1>1, <1>3, <1>4, FileFacts DEF HashesAreHistory
  <1>8. RecordsStay'
    BY <1>1, <1>3, <1>4, RecordsGrow DEF RecordsStay
  <1>9. QED
    BY <1>5, <1>6, <1>7, <1>8

(* An edit may move lines, drop them or change their entries, but it does  *)
(* not make up hashes.                                                     *)
LEMMA EditHolds ==
  ASSUME AuditInv, Edit
  PROVE  AuditInv'
  <1> USE DEF AuditInv
  <1>1. /\ service # "up" /\ service' = "down" /\ synced' = Len(file') /\ edited' = TRUE
        /\ faults' = faults + 1
        /\ UNCHANGED <<prev, failed, lock, step, entry, acts, next, written, sent>>
    BY DEF Edit, Fault, chainVars, turnVars, historyVars
  <1> DEFINE OldHashes(lines) ==
               /\ lines \in Seq(Line)
               /\ \A j \in 1 .. Len(lines) : \E i \in DOMAIN file :
                    lines[j].hash = file[i].hash /\ lines[j].whole = file[i].whole
  <1>2. ASSUME NEW i \in DOMAIN file, file' = RemoveAt(file, i)
        PROVE  OldHashes(file')
    <2> DEFINE n == Len(file)
               front == SubSeq(file, 1, i - 1)
               back == SubSeq(file, i + 1, n)
    <2>1. i \in 1 .. n /\ n \in Nat /\ file' = front \o back
      BY <1>2, FileFacts DEF RemoveAt
    <2>2. front \in Seq(Line) /\ Len(front) = i - 1 /\ \A j \in 1 .. i - 1 : front[j] = file[j]
      <3>1. i - 1 \in 0 .. Len(file)
        BY <2>1
      <3>2. QED
        BY <3>1, FileFacts, PrefixFacts
    <2>3. back \in Seq(Line) /\ Len(back) = n - i /\ \A j \in 1 .. n - i : back[j] = file[i + j]
      <3>1. /\ back \in Seq(Line) /\ Len(back) = n - (i + 1) + 1
            /\ \A j \in 1 .. n - (i + 1) + 1 : back[j] = file[i + 1 + j - 1]
        <4>1. i + 1 \in 1 .. n + 1 /\ n \in (i + 1) - 1 .. n
          BY <2>1
        <4>2. QED
          BY <4>1, FileFacts, SubSeqFacts
      <3>2. n - (i + 1) + 1 = n - i /\ \A j \in 1 .. n - i : i + 1 + j - 1 = i + j
        <4>1. ASSUME NEW a \in Int, NEW b \in Int
              PROVE  b - (a + 1) + 1 = b - a /\ \A j \in 1 .. b - a : a + 1 + j - 1 = a + j
          OBVIOUS
        <4>2. i \in Int /\ n \in Int
          BY <2>1
        <4>3. QED
          BY <4>1, <4>2
      <3>3. QED
        BY <3>1, <3>2
    <2> HIDE DEF n, front, back
    <2>4. /\ file' \in Seq(Line) /\ Len(file') = n - 1
          /\ \A j \in 1 .. n - 1 :
               file'[j] = IF j <= i - 1 THEN front[j] ELSE back[j - (i - 1)]
      <3>1. /\ front \o back \in Seq(Line)
            /\ Len(front \o back) = Len(front) + Len(back)
            /\ \A j \in 1 .. Len(front) + Len(back) :
                 (front \o back)[j] = IF j <= Len(front) THEN front[j]
                                      ELSE back[j - Len(front)]
        BY <2>2, <2>3, ConcatProperties
      <3>2. Len(front) = i - 1 /\ Len(front) + Len(back) = n - 1
        BY <2>1, <2>2, <2>3
      <3>3. QED
        BY <2>1, <3>1, <3>2
    <2>5. ASSUME NEW j \in 1 .. n - 1
          PROVE  \E l \in DOMAIN file : file'[j] = file[l]
      <3>1. CASE j <= i - 1
        <4>1. j \in 1 .. i - 1 /\ j \in 1 .. n
          BY <2>1, <3>1
        <4>2. file'[j] = file[j]
          BY <2>2, <2>4, <3>1, <4>1
        <4>3. QED
          BY <4>1, <4>2, FileFacts DEF n
      <3>2. CASE ~(j <= i - 1)
        <4>1. j - (i - 1) \in 1 .. n - i /\ i + (j - (i - 1)) = j + 1
          BY <2>1, <3>2
        <4>2. file'[j] = file[j + 1]
          BY <2>3, <2>4, <3>2, <4>1
        <4>3. j + 1 \in DOMAIN file
          BY <2>1, FileFacts DEF n
        <4>4. QED
          BY <4>2, <4>3
      <3>3. QED
        BY <3>1, <3>2
    <2>6. QED
      BY <2>4, <2>5
  <1>3. ASSUME NEW i \in DOMAIN file, NEW e \in Entry, file' = [file EXCEPT ![i].entry = e]
        PROVE  OldHashes(file')
    <2> DEFINE changed == [file[i] EXCEPT !.entry = e]
    <2>1. changed \in Line /\ changed.hash = file[i].hash /\ changed.whole = file[i].whole
      BY FileFacts DEF Line
    <2> HIDE DEF changed
    <2>2. file' = [file EXCEPT ![i] = changed]
      BY <1>3 DEF changed
    <2>3. file' \in Seq(Line) /\ Len(file') = Len(file)
          /\ \A j \in DOMAIN file : file'[j] = IF j = i THEN changed ELSE file[j]
      BY <2>1, <2>2, FileFacts, ExceptSeq
    <2>4. QED
      BY <2>1, <2>3, FileFacts
  <1>4. ASSUME NEW i \in 1 .. Len(file) - 1,
               file' = [file EXCEPT ![i] = file[i + 1], ![i + 1] = file[i]]
        PROVE  OldHashes(file')
    <2>1. i \in DOMAIN file /\ i + 1 \in DOMAIN file
      BY FileFacts
    <2>2. /\ file' \in [1 .. Len(file) -> Line]
          /\ \A j \in DOMAIN file :
               file'[j] = IF j = i + 1 THEN file[i] ELSE IF j = i THEN file[i + 1] ELSE file[j]
      BY <1>4, <2>1, FileFacts
    <2>3. file' \in Seq(Line) /\ Len(file') = Len(file)
      <3>1. Len(file) \in Nat
        BY FileFacts
      <3>2. ASSUME NEW n \in Nat, NEW f \in [1 .. n -> Line]
            PROVE  f \in Seq(Line) /\ Len(f) = n
        OBVIOUS
      <3>3. QED
        BY <2>2, <3>1, <3>2
    <2>4. QED
      BY <2>1, <2>2, <2>3, FileFacts
  <1>5. ASSUME NEW i \in 0 .. Len(file), file' = SubSeq(file, 1, i)
        PROVE  OldHashes(file')
    <2>1. file' \in Seq(Line) /\ Len(file') = i /\ \A j \in 1 .. i : file'[j] = file[j]
      BY <1>5, FileFacts, PrefixFacts
    <2>2. \A j \in 1 .. i : j \in DOMAIN file
      BY FileFacts
    <2>3. QED
      BY <2>1, <2>2
  <1>6. OldHashes(file')
    BY <1>2, <1>3, <1>4, <1>5 DEF Edit
  <1>7. AuditTypeOK'
    BY <1>1, <1>6 DEF AuditTypeOK
  <1>8. TurnsHold' /\ ChainIsHistory'
    BY <1>1 DEF TurnsHold, ChainIsHistory, AuditTypeOK
  <1>9. HashesAreHistory'
    <2>1. ASSUME NEW j \in 1 .. Len(file'), file'[j].whole
          PROVE  IsPrefix(file'[j].hash, written)
      <3>1. PICK i \in DOMAIN file :
              file'[j].hash = file[i].hash /\ file'[j].whole = file[i].whole
        BY <1>6
      <3>2. file[i].whole /\ IsPrefix(file[i].hash, written)
        BY <2>1, <3>1 DEF HashesAreHistory
      <3>3. QED
        BY <3>1, <3>2
    <2>2. DOMAIN file' = 1 .. Len(file') /\ written' = written
      BY <1>1, <1>6
    <2>3. QED
      BY <2>1, <2>2 DEF HashesAreHistory
  <1>10. RecordsStay'
    BY <1>1 DEF RecordsStay
  <1>11. QED
    BY <1>7, <1>8, <1>9, <1>10

-----------------------------------------------------------------------------
(* The theorems.                                                           *)

LEMMA AuditStep == AuditInv /\ [Next]_vars => AuditInv'
  <1> SUFFICES ASSUME AuditInv, [Next]_vars PROVE AuditInv'
    OBVIOUS
  <1>1. CASE UNCHANGED vars
    <2> USE <1>1 DEF AuditInv, vars, logVars, chainVars, turnVars, historyVars, faultVars
    <2>1. AuditTypeOK'
      BY DEF AuditTypeOK
    <2>2. TurnsHold'
      BY DEF TurnsHold
    <2>3. ChainIsHistory'
      BY DEF ChainIsHistory
    <2>4. HashesAreHistory' /\ RecordsStay'
      BY DEF HashesAreHistory, RecordsStay, Recorded
    <2>5. QED
      BY <2>1, <2>2, <2>3, <2>4
  <1>2. CASE Next
    BY <1>2, OpenHolds, CrashHolds, PowerLossHolds, EditHolds, TurnHolds, WriteHolds,
       SyncHolds, AppendFailsHolds DEF Next
  <1>3. QED
    BY <1>1, <1>2

(* Nothing is sent to the MCP server that the log has not recorded where a *)
(* power loss leaves it, and the appends of all turns make one chain that  *)
(* the service goes on from, never behind a torn line (audit.rs:135-185).  *)
THEOREM LogHolds == Spec => []LogIsTrue
  <1>1. AuditInv => LogIsTrue
    <2> SUFFICES ASSUME AuditInv PROVE LogIsTrue
      OBVIOUS
    <2>1. ActedIsRecorded
      BY FileFacts DEF AuditInv, RecordsStay, Recorded, ActedIsRecorded
    <2>2. ChainHolds
      <3>1. SUFFICES ASSUME service = "up"
                     PROVE  /\ \A i \in 1 .. Len(file) - 1 : file[i].whole
                            /\ lock = Nobody /\ ~failed => Verifies(file) /\ prev = LastHash(file)
        BY DEF ChainHolds
      <3>2. CASE failed
        BY <3>1, <3>2 DEF AuditInv, ChainIsHistory
      <3>3. CASE ~failed
        <4>1. Verifies(file) /\ (lock = Nobody => prev = LastHash(file))
          BY <3>1, <3>3 DEF AuditInv, ChainIsHistory
        <4>2. QED
          BY <4>1, FileFacts DEF AuditInv, Verifies, Terminated
      <3>4. QED
        BY <3>2, <3>3
    <2>3. QED
      BY <2>1, <2>2 DEF LogIsTrue
  <1>2. QED
    BY <1>1, InitHolds, AuditStep, PTL DEF Spec

(* A log that opens is the beginning of what was written, whatever edits,  *)
(* crashes and power losses came before (audit.rs:95-133).                 *)
THEOREM OpensHistory == Spec => OpensOnlyHistory
  <1>1. ASSUME AuditInv, Next, service = "down", service' = "up"
        PROVE  Terminated(file) /\ IsPrefix(EntriesOf(file), written)
    <2>1. Open
      BY <1>1 DEF Next, Begin, TakeChain, WriteLine, SyncLine, Act, AppendFails, Crash,
                  PowerLoss, Edit
    <2>2. Verifies(file)
      BY <1>1, <2>1 DEF Open
    <2>3. Chained(file) /\ Terminated(file)
      BY <2>2 DEF Verifies
    <2>4. CASE file = <<>>
      <3>1. EntriesOf(file) \in Seq(Entry) /\ Len(EntriesOf(file)) = 0
        <4>1. file \in Seq(Line) /\ Len(file) = 0
          BY <1>1, <2>4, FileFacts DEF AuditInv
        <4>2. QED
          BY <4>1, EntriesFacts
      <3>2. written \in Seq(Entry) /\ Len(written) \in Nat
        BY <1>1, FileFacts DEF AuditInv
      <3>3. IsPrefix(EntriesOf(file), written)
        <4> DEFINE entries == EntriesOf(file)
        <4>1. entries \in Seq(Entry) /\ Len(entries) = 0
          BY <3>1
        <4> HIDE DEF entries
        <4>2. Len(entries) <= Len(written) /\ \A i \in 1 .. Len(entries) : entries[i] = written[i]
          BY <3>2, <4>1
        <4>3. IsPrefix(entries, written)
          BY <3>2, <4>1, <4>2, PrefixElements
        <4>4. QED
          BY <4>3 DEF entries
      <3>4. QED
        BY <2>3, <3>3
    <2>5. CASE file # <<>>
      <3>1. Len(file) \in DOMAIN file /\ LastHash(file) = file[Len(file)].hash
        BY <1>1, <2>5, FileFacts, EmptySeq DEF AuditInv, LastHash, Last
      <3>2. IsPrefix(LastHash(file), written)
        BY <1>1, <2>3, <3>1 DEF AuditInv, HashesAreHistory, Terminated
      <3>3. LastHash(file) = EntriesOf(file)
        BY <1>1, <2>3, FileFacts, LastOfChain DEF AuditInv
      <3>4. QED
        BY <2>3, <3>2, <3>3
    <2>6. QED
      BY <2>4, <2>5
  <1>2. AuditInv /\ [Next]_vars =>
          [service = "down" /\ service' = "up" =>
             Terminated(file) /\ IsPrefix(EntriesOf(file), written)]_vars
    BY <1>1
  <1>3. QED
    BY <1>2, InitHolds, AuditStep, PTL DEF Spec, OpensOnlyHistory
=============================================================================
