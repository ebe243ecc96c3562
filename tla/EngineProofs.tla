---------------------------- MODULE EngineProofs ----------------------------
(***************************************************************************)
(* What the engine promises of its journal, for any number of commands,    *)
(* crashes, power losses and failing writes, any buffer, queue and batch:  *)
(* the book that is served is the one a restart would rebuild, each        *)
(* command enters the journal once and in order, and nothing a reply has   *)
(* told of is lost.                                                        *)
(***************************************************************************)
EXTENDS EngineInvariants, SequenceLemmas

-----------------------------------------------------------------------------
(* What reading pieces finds.                                              *)

Step(read, pieces, n) ==
  IF n = 0 THEN <<>>
  ELSE IF pieces[n].part = 2 THEN Append(read[n - 1], pieces[n].cmd) ELSE read[n - 1]

Reads(read, pieces) ==
  /\ DOMAIN read = 0 .. Len(pieces)
  /\ \A n \in 0 .. Len(pieces) : read[n] \in Seq(Command) /\ read[n] = Step(read, pieces, n)

LEMMA PieceFacts ==
  ASSUME NEW pieces \in Seq(Piece)
  PROVE  /\ Len(pieces) \in Nat /\ DOMAIN pieces = 1 .. Len(pieces)
         /\ \A i \in 1 .. Len(pieces) :
              pieces[i] \in Piece /\ pieces[i].cmd \in Command /\ pieces[i].part \in 1 .. 3
  <1>1. Len(pieces) \in Nat /\ DOMAIN pieces = 1 .. Len(pieces)
    BY LenProperties
  <1>2. \A i \in 1 .. Len(pieces) : pieces[i] \in Piece
    BY ElementOfSeq
  <1>3. \A piece \in Piece : piece.cmd \in Command /\ piece.part \in 1 .. 3
    BY DEF Piece
  <1>4. QED
    BY <1>1, <1>2, <1>3

LEMMA RecordsAreRead ==
  ASSUME NEW pieces \in Seq(Piece)
  PROVE  \E read : Reads(read, pieces) /\ Records(pieces) = read[Len(pieces)]
  <1> DEFINE L == Len(pieces)
             Stage(n, f) == /\ f \in [0 .. n -> Seq(Command)]
                            /\ \A i \in 0 .. n : f[i] = Step(f, pieces, i)
             T == {n \in Nat : n <= L => \E f : Stage(n, f)}
  <1>1. 0 \in T
    <2>1. <<>> \in Seq(Command)
      BY EmptySeq
    <2>2. Stage(0, [i \in 0 .. 0 |-> <<>>])
      BY <2>1 DEF Step
    <2>3. QED
      BY <2>2
  <1>2. ASSUME NEW n \in Nat, n \in T PROVE n + 1 \in T
    <2>0. n <= L => \E f : Stage(n, f)
      BY <1>2
    <2>1. SUFFICES ASSUME n + 1 <= L PROVE \E f : Stage(n + 1, f)
      <3> HIDE DEF Stage
      <3>1. QED
        OBVIOUS
    <2>2. PICK f : Stage(n, f)
      <3> HIDE DEF Stage
      <3>1. L \in Nat
        BY PieceFacts
      <3>2. QED
        BY <2>0, <2>1, <3>1
    <2> DEFINE last == Step(f, pieces, n + 1)
               g == [i \in 0 .. n + 1 |-> IF i = n + 1 THEN last ELSE f[i]]
    <2>3. f[n] \in Seq(Command) /\ pieces[n + 1].cmd \in Command
      BY <2>1, <2>2, PieceFacts
    <2>4. last \in Seq(Command)
      BY <2>3, AppendProperties DEF Step
    <2>5. g \in [0 .. n + 1 -> Seq(Command)]
      BY <2>2, <2>4
    <2>6. ASSUME NEW i \in 0 .. n + 1 PROVE g[i] = Step(g, pieces, i)
      <3>1. i = 0 \/ g[i - 1] = f[i - 1]
        BY <2>6
      <3>2. Step(g, pieces, i) = Step(f, pieces, i)
        BY <3>1 DEF Step
      <3>3. g[i] = Step(f, pieces, i)
        BY <2>2, <2>6
      <3>4. QED
        BY <3>2, <3>3
    <2>7. Stage(n + 1, g)
      BY <2>5, <2>6
    <2>8. QED
      BY <2>7
  <1>3. Nat \subseteq T
    <2> HIDE DEF T
    <2>1. QED
      BY <1>1, <1>2, SetInduction
  <1>4. L \in Nat
    BY PieceFacts
  <1>5. PICK f : Stage(L, f)
    <2> HIDE DEF Stage
    <2>1. L \in T
      BY <1>3, <1>4
    <2>2. QED
      BY <1>4, <2>1
  <1> DEFINE F(h) == [n \in 0 .. L |->
                        IF n = 0 THEN <<>>
                        ELSE IF pieces[n].part = 2 THEN Append(h[n - 1], pieces[n].cmd)
                        ELSE h[n - 1]]
             read == CHOOSE h : h = F(h)
  <1>6. f = F(f)
    BY <1>4, <1>5 DEF Step
  <1>7. read = F(read)
    BY <1>6
  <1>8. Records(pieces) = read[L]
    BY DEF Records
  <1>9. DOMAIN read = 0 .. L /\ \A n \in 0 .. L : read[n] = Step(read, pieces, n)
    <2> HIDE DEF read
    <2>1. QED
      BY <1>7 DEF Step
  <1>10. \A n \in 0 .. L : read[n] \in Seq(Command)
    <2> HIDE DEF read
    <2> DEFINE U == {n \in Nat : n <= L => read[n] \in Seq(Command)}
    <2>1. 0 \in U
      <3>1. read[0] = <<>> /\ <<>> \in Seq(Command)
        BY <1>4, <1>9, EmptySeq DEF Step
      <3>2. QED
        BY <3>1
    <2>2. ASSUME NEW n \in Nat, n \in U PROVE n + 1 \in U
      <3>1. SUFFICES ASSUME n + 1 <= L PROVE read[n + 1] \in Seq(Command)
        OBVIOUS
      <3>2. n \in 0 .. L /\ n + 1 \in 0 .. L /\ n + 1 - 1 = n /\ n + 1 # 0
        BY <1>4, <3>1
      <3>3. read[n] \in Seq(Command) /\ pieces[n + 1].cmd \in Command
        BY <2>2, <3>1, <3>2, PieceFacts
      <3>4. read[n + 1] \in {read[n], Append(read[n], pieces[n + 1].cmd)}
        BY <1>9, <3>2 DEF Step
      <3>5. Append(read[n], pieces[n + 1].cmd) \in Seq(Command)
        BY <3>3, AppendProperties
      <3>6. QED
        BY <3>3, <3>4, <3>5
    <2>3. Nat \subseteq U
      <3> HIDE DEF U
      <3>1. QED
        BY <2>1, <2>2, SetInduction
    <2>4. QED
      BY <2>3, <1>4
  <1>11. Reads(read, pieces)
    BY <1>9, <1>10 DEF Reads
  <1>12. QED
    BY <1>8, <1>11

(* Reading finds the same in what is the same.                             *)
LEMMA ReadTheSame ==
  ASSUME NEW p \in Seq(Piece), NEW q \in Seq(Piece), NEW f, NEW g,
         Reads(f, p), Reads(g, q), Len(p) <= Len(q), \A i \in 1 .. Len(p) : p[i] = q[i]
  PROVE  \A n \in 0 .. Len(p) : f[n] = g[n]
  <1> DEFINE T == {n \in Nat : n <= Len(p) => f[n] = g[n]}
  <1>1. Len(p) \in Nat /\ Len(q) \in Nat
    BY PieceFacts
  <1>2. 0 \in T
    BY <1>1 DEF Reads, Step
  <1>3. ASSUME NEW n \in Nat, n \in T PROVE n + 1 \in T
    <2>1. SUFFICES ASSUME n + 1 <= Len(p) PROVE f[n + 1] = g[n + 1]
      OBVIOUS
    <2>2. n + 1 \in 0 .. Len(p) /\ n + 1 \in 0 .. Len(q) /\ n + 1 # 0 /\ n + 1 - 1 = n
          /\ p[n + 1] = q[n + 1] /\ f[n] = g[n]
      BY <1>1, <1>3, <2>1
    <2>3. f[n + 1] = Step(f, p, n + 1) /\ g[n + 1] = Step(g, q, n + 1)
      BY <2>2 DEF Reads
    <2>4. QED
      BY <2>2, <2>3 DEF Step
  <1>4. Nat \subseteq T
    <2> HIDE DEF T
    <2>1. QED
      BY <1>2, <1>3, SetInduction
  <1>5. QED
    BY <1>1, <1>4

LEMMA RecordsPlus ==
  /\ Records(<<>>) = <<>>
  /\ \A p \in Seq(Piece), e \in Piece :
       /\ Records(p) \in Seq(Command)
       /\ Records(Plus(p, e)) =
            IF e.part = 2 THEN Plus(Records(p), e.cmd) ELSE Records(p)
  <1>1. Records(<<>>) = <<>>
    <2>1. <<>> \in Seq(Piece) /\ Len(<<>>) = 0
      BY EmptySeq
    <2>2. PICK read : Reads(read, <<>>) /\ Records(<<>>) = read[Len(<<>>)]
      BY <2>1, RecordsAreRead
    <2>3. QED
      BY <2>1, <2>2 DEF Reads, Step
  <1>2. ASSUME NEW p \in Seq(Piece), NEW e \in Piece
        PROVE  /\ Records(p) \in Seq(Command)
               /\ Records(Plus(p, e)) =
                    IF e.part = 2 THEN Plus(Records(p), e.cmd) ELSE Records(p)
    <2> DEFINE q == Plus(p, e)
    <2>1. /\ q \in Seq(Piece) /\ Len(q) = Len(p) + 1 /\ q[Len(p) + 1] = e
          /\ \A i \in 1 .. Len(p) : p[i] = q[i]
      BY AppendFacts DEF Plus
    <2> HIDE DEF q
    <2>2. Len(p) \in Nat
      BY PieceFacts
    <2>3. PICK f : Reads(f, p) /\ Records(p) = f[Len(p)]
      BY RecordsAreRead
    <2>4. PICK g : Reads(g, q) /\ Records(q) = g[Len(q)]
      BY <2>1, RecordsAreRead
    <2>5. f[Len(p)] = g[Len(p)] /\ f[Len(p)] \in Seq(Command)
      <3>1. \A n \in 0 .. Len(p) : f[n] = g[n]
        BY <2>1, <2>2, <2>3, <2>4, ReadTheSame
      <3>2. QED
        BY <2>2, <2>3, <3>1 DEF Reads
    <2>6. g[Len(p) + 1] = Step(g, q, Len(p) + 1)
      BY <2>1, <2>2, <2>4 DEF Reads
    <2>7. QED
      BY <2>1, <2>2, <2>3, <2>4, <2>5, <2>6 DEF q, Step, Plus
  <1>3. QED
    BY <1>1, <1>2

LEMMA RecordsCat ==
  ASSUME NEW p \in Seq(Piece), NEW q \in Seq(Piece)
  PROVE  /\ Records(p) \in Seq(Command) /\ Cat(p, q) \in Seq(Piece)
         /\ Records(Cat(p, q)) = Cat(Records(p), Records(q))
  <1> DEFINE T == {n \in Nat : \A t \in Seq(Piece) : Len(t) = n =>
                                 Records(Cat(p, t)) = Cat(Records(p), Records(t))}
  <1>1. \A t \in Seq(Piece) : Records(t) \in Seq(Command)
    BY RecordsAreRead, PieceFacts DEF Reads
  <1>2. 0 \in T
    <2>1. ASSUME NEW t \in Seq(Piece), Len(t) = 0
          PROVE  Records(Cat(p, t)) = Cat(Records(p), Records(t))
      <3>1. t = <<>>
        BY <2>1, EmptySeq
      <3>2. Cat(p, t) = p /\ Cat(Records(p), Records(t)) = Records(p)
        BY <1>1, <3>1, CatEmpty, RecordsPlus
      <3>3. QED
        BY <3>2
    <2>2. QED
      BY <2>1
  <1>3. ASSUME NEW n \in Nat, n \in T PROVE n + 1 \in T
    <2>1. ASSUME NEW t \in Seq(Piece), Len(t) = n + 1
          PROVE  Records(Cat(p, t)) = Cat(Records(p), Records(t))
      <3>1. \E u \in Seq(Piece), e \in Piece : t = Plus(u, e)
        <4>1. t # <<>>
          BY <2>1, EmptySeq
        <4>2. PICK u \in Seq(Piece), e \in Piece : t = Append(u, e)
          BY <4>1, SequenceEmptyOrAppend
        <4>3. t = Plus(u, e)
          BY <4>2 DEF Plus
        <4>4. QED
          BY <4>3
      <3>2. PICK u \in Seq(Piece), e \in Piece : t = Plus(u, e)
        BY <3>1
      <3>3. Len(u) = n
        BY <2>1, <3>2, PlusType, LenProperties
      <3>4. Records(Cat(p, u)) = Cat(Records(p), Records(u))
        BY <1>3, <3>3
      <3>5. Cat(p, u) \in Seq(Piece) /\ Cat(p, t) = Plus(Cat(p, u), e)
        BY <3>2, CatType, PlusCat
      <3>6. e.cmd \in Command
        BY DEF Piece
      <3>7. Records(p) \in Seq(Command) /\ Records(u) \in Seq(Command)
        BY <1>1
      <3> HIDE DEF T
      <3>8. Plus(Cat(Records(p), Records(u)), e.cmd) = Cat(Records(p), Plus(Records(u), e.cmd))
        BY <3>6, <3>7, PlusCat
      <3>9. /\ Records(t) = IF e.part = 2 THEN Plus(Records(u), e.cmd) ELSE Records(u)
            /\ Records(Cat(p, t)) = IF e.part = 2 THEN Plus(Records(Cat(p, u)), e.cmd)
                                                  ELSE Records(Cat(p, u))
        BY <3>2, <3>5, RecordsPlus
      <3>10. QED
        BY <3>4, <3>8, <3>9
    <2>2. QED
      BY <2>1
  <1>4. Nat \subseteq T
    <2> HIDE DEF T
    <2>1. QED
      BY <1>2, <1>3, SetInduction
  <1>5. Len(q) \in T
    BY <1>4, LenProperties
  <1>6. QED
    BY <1>1, <1>5, CatType

(* Reading any beginning finds a beginning of what is there.               *)
LEMMA RecordsPrefix ==
  ASSUME NEW p \in Seq(Piece), NEW k \in 0 .. Len(p)
  PROVE  /\ SubSeq(p, 1, k) \in Seq(Piece) /\ SubSeq(p, k + 1, Len(p)) \in Seq(Piece)
         /\ Len(SubSeq(p, k + 1, Len(p))) = Len(p) - k /\ Len(SubSeq(p, 1, k)) = k
         /\ p = Cat(SubSeq(p, 1, k), SubSeq(p, k + 1, Len(p)))
         /\ Records(p) = Cat(Records(SubSeq(p, 1, k)), Records(SubSeq(p, k + 1, Len(p))))
         /\ IsPrefix(Records(SubSeq(p, 1, k)), Records(p))
  <1>1. /\ SubSeq(p, 1, k) \in Seq(Piece) /\ SubSeq(p, k + 1, Len(p)) \in Seq(Piece)
        /\ p = Cat(SubSeq(p, 1, k), SubSeq(p, k + 1, Len(p)))
        /\ Len(SubSeq(p, k + 1, Len(p))) = Len(p) - k
    BY SplitAt DEF Cat
  <1>2. ASSUME NEW a \in Seq(Piece), NEW b \in Seq(Piece), p = Cat(a, b)
        PROVE  Records(p) = Cat(Records(a), Records(b)) /\ IsPrefix(Records(a), Records(p))
    <2>1. Records(p) = Cat(Records(a), Records(b)) /\ Records(a) \in Seq(Command)
          /\ Records(b) \in Seq(Command)
      BY <1>2, RecordsCat
    <2>2. QED
      BY <2>1, CatPrefix
  <1>3. Len(SubSeq(p, 1, k)) = k
    BY PrefixFacts
  <1>4. QED
    BY <1>1, <1>2, <1>3

(* A line is read when its text is there, that is two of its pieces.       *)
LEMMA LineFacts ==
  ASSUME NEW c \in Command
  PROVE  /\ Line(c) \in Seq(Piece) /\ Len(Line(c)) = 3 /\ Records(Line(c)) = <<c>>
         /\ \A k \in 0 .. 2 :
              Records(SubSeq(Line(c), 1, k)) = IF k = 2 THEN <<c>> ELSE <<>>
  <1> DEFINE piece(i) == [cmd |-> c, part |-> i]
             a0 == <<>>
             a1 == Plus(a0, piece(1))
             a2 == Plus(a1, piece(2))
             a3 == Plus(a2, piece(3))
  <1>1. \A i \in 1 .. 3 : piece(i) \in Piece
    BY DEF Piece
  <1>2. /\ piece(1).part # 2 /\ piece(2).part = 2 /\ piece(3).part # 2
        /\ piece(2).cmd = c
    OBVIOUS
  <1>3. Line(c) = <<piece(1), piece(2), piece(3)>>
    BY DEF Line
  <1> HIDE DEF piece
  <1>4. piece(1) \in Piece /\ piece(2) \in Piece /\ piece(3) \in Piece
    BY <1>1
  <1>5. /\ a1 \in Seq(Piece) /\ a2 \in Seq(Piece) /\ a3 \in Seq(Piece) /\ Len(Line(c)) = 3
        /\ SubSeq(Line(c), 1, 0) = a0 /\ SubSeq(Line(c), 1, 1) = a1
        /\ SubSeq(Line(c), 1, 2) = a2 /\ Line(c) = a3
    BY <1>3, <1>4, ThreeElements
  <1>6. a0 \in Seq(Piece) /\ Records(a0) = <<>>
    BY RecordsPlus, EmptySeq
  <1> HIDE DEF a0
  <1>7. Records(a1) = <<>>
    BY <1>2, <1>4, <1>6, RecordsPlus
  <1> HIDE DEF a1
  <1>8. Records(a2) = <<c>>
    <2>1. Records(a2) = Plus(Records(a1), c)
      BY <1>2, <1>4, <1>5, RecordsPlus
    <2>2. Plus(<<>>, c) = <<c>>
      BY DEF Plus
    <2>3. QED
      BY <1>7, <2>1, <2>2
  <1> HIDE DEF a2
  <1>9. Records(a3) = <<c>>
    BY <1>2, <1>4, <1>5, <1>8, RecordsPlus
  <1> HIDE DEF a3
  <1>10. \A k \in 0 .. 2 : k = 0 \/ k = 1 \/ k = 2
    OBVIOUS
  <1>11. \A k \in 0 .. 2 : Records(SubSeq(Line(c), 1, k)) = IF k = 2 THEN <<c>> ELSE <<>>
    BY <1>5, <1>6, <1>7, <1>8, <1>10
  <1>12. QED
    BY <1>5, <1>9, <1>11

(* The funding's lines hold each of its commands.                          *)
FundingOf(n) == [i \in 1 .. 3 * n |-> [cmd |-> (i + 2) \div 3, part |-> ((i + 2) % 3) + 1]]

LEMMA FundingGrows ==
  ASSUME NEW n \in Nat, n + 1 \in Command, FundingOf(n) \in Seq(Piece)
  PROVE  /\ FundingOf(n + 1) \in Seq(Piece)
         /\ FundingOf(n + 1) = Cat(FundingOf(n), Line(n + 1))
  <1> DEFINE old == FundingOf(n)
             new == FundingOf(n + 1)
             line == Line(n + 1)
  <1>1. Len(old) = 3 * n /\ \A i \in 1 .. 3 * n :
          old[i] = [cmd |-> (i + 2) \div 3, part |-> ((i + 2) % 3) + 1]
    BY DEF FundingOf
  <1>2. \A i \in 1 .. 3 * n + 3 :
          new[i] = [cmd |-> (i + 2) \div 3, part |-> ((i + 2) % 3) + 1]
    <2>1. 3 * (n + 1) = 3 * n + 3
      OBVIOUS
    <2>2. QED
      BY <2>1 DEF FundingOf
  <1>3. new \in Seq(Piece) /\ Len(new) = 3 * n + 3
    <2>1. MaxCommands \in Nat /\ n + 1 <= MaxCommands
      BY JournalAssumption DEF Command
    <2>2. \A i \in 1 .. 3 * (n + 1) : (i + 2) \div 3 \in 1 .. n + 1 /\ ((i + 2) % 3) + 1 \in 1 .. 3
      OBVIOUS
    <2>3. \A i \in 1 .. 3 * (n + 1) :
            [cmd |-> (i + 2) \div 3, part |-> ((i + 2) % 3) + 1] \in Piece
      BY <2>1, <2>2 DEF Piece, Command
    <2>4. QED
      BY <2>3, IsASeq DEF FundingOf
  <1>4. line \in Seq(Piece) /\ Len(line) = 3 /\ old \in Seq(Piece)
    BY LineFacts
  <1>5. \A j \in 1 .. 3 : line[j] = [cmd |-> n + 1, part |-> j]
    BY DEF Line
  <1> HIDE DEF old, new, line
  <1>6. /\ old \o line \in Seq(Piece) /\ Len(old \o line) = 3 * n + 3
        /\ \A i \in 1 .. 3 * n + 3 :
             (old \o line)[i] = IF i <= 3 * n THEN old[i] ELSE line[i - 3 * n]
    <2>1. /\ old \o line \in Seq(Piece) /\ Len(old \o line) = Len(old) + Len(line)
          /\ \A i \in 1 .. Len(old) + Len(line) :
               (old \o line)[i] = IF i <= Len(old) THEN old[i] ELSE line[i - Len(old)]
      BY <1>4, ConcatProperties
    <2>2. QED
      BY <1>1, <1>4, <2>1
  <1>7. ASSUME NEW i \in 1 .. 3 * n + 3 PROVE new[i] = (old \o line)[i]
    <2>1. CASE i <= 3 * n
      <3>1. i \in 1 .. 3 * n
        BY <2>1
      <3>2. (old \o line)[i] = old[i]
        BY <1>6, <2>1
      <3>3. old[i] = [cmd |-> (i + 2) \div 3, part |-> ((i + 2) % 3) + 1]
        BY <1>1, <3>1
      <3>4. new[i] = [cmd |-> (i + 2) \div 3, part |-> ((i + 2) % 3) + 1]
        BY <1>2
      <3>5. QED
        BY ONLY <3>2, <3>3, <3>4
    <2>2. CASE i > 3 * n
      <3>1. i - 3 * n \in 1 .. 3 /\ (i + 2) \div 3 = n + 1 /\ ((i + 2) % 3) + 1 = i - 3 * n
        <4>1. ASSUME NEW m \in Nat, NEW j \in 1 .. 3
              PROVE  /\ (3 * m + j + 2) \div 3 = m + 1
                     /\ ((3 * m + j + 2) % 3) + 1 = j
          OBVIOUS
        <4>2. i - 3 * n \in 1 .. 3 /\ i = 3 * n + (i - 3 * n)
          BY <2>2
        <4>3. QED
          BY <4>1, <4>2
      <3>2. (old \o line)[i] = line[i - 3 * n]
        BY <1>6, <2>2
      <3>3. new[i] = [cmd |-> (i + 2) \div 3, part |-> ((i + 2) % 3) + 1]
        BY <1>2
      <3>4. line[i - 3 * n] = [cmd |-> n + 1, part |-> i - 3 * n]
        BY <1>5, <3>1
      <3>5. QED
        BY ONLY <3>1, <3>2, <3>3, <3>4
    <2>3. i <= 3 * n \/ i > 3 * n
      OBVIOUS
    <2>4. QED
      BY <2>1, <2>2, <2>3
  <1>8. new = old \o line
    BY <1>3, <1>6, <1>7, SeqEqual
  <1>9. QED
    BY <1>3, <1>8 DEF old, new, line, Cat

LEMMA FundingIsRead ==
  /\ Funding \in Seq(Piece)
  /\ Records(Funding) = [i \in 1 .. Funds |-> i]
  <1> DEFINE All(n) == [i \in 1 .. n |-> i]
             T == {n \in Nat : n <= Funds => /\ FundingOf(n) \in Seq(Piece)
                                             /\ Records(FundingOf(n)) = All(n)}
  <1>1. Funds \in Nat /\ MaxCommands \in Nat /\ Funds <= MaxCommands
    BY StartupAssumption, JournalAssumption
  <1>2. 0 \in T
    <2>1. FundingOf(0) = <<>> /\ All(0) = <<>>
      BY DEF FundingOf
    <2>2. QED
      BY <2>1, RecordsPlus, EmptySeq
  <1>3. ASSUME NEW n \in Nat, n \in T PROVE n + 1 \in T
    <2>1. SUFFICES ASSUME n + 1 <= Funds
                   PROVE  /\ FundingOf(n + 1) \in Seq(Piece)
                          /\ Records(FundingOf(n + 1)) = All(n + 1)
      OBVIOUS
    <2>2. FundingOf(n) \in Seq(Piece) /\ Records(FundingOf(n)) = All(n)
      BY <1>1, <1>3, <2>1
    <2>3. n + 1 \in Command
      BY <1>1, <2>1 DEF Command
    <2>4. All(n + 1) = Plus(All(n), n + 1)
      BY DEF Plus
    <2> HIDE DEF All, T
    <2>5. Line(n + 1) \in Seq(Piece) /\ Records(Line(n + 1)) = <<n + 1>>
      BY <2>3, LineFacts
    <2>6. /\ FundingOf(n + 1) \in Seq(Piece)
          /\ FundingOf(n + 1) = Cat(FundingOf(n), Line(n + 1))
      BY <2>2, <2>3, FundingGrows
    <2>7. /\ Records(FundingOf(n + 1)) = Cat(Records(FundingOf(n)), Records(Line(n + 1)))
          /\ Records(FundingOf(n)) \in Seq(Command)
      BY <2>2, <2>5, <2>6, RecordsCat
    <2>8. Plus(Records(FundingOf(n)), n + 1) = Cat(Records(FundingOf(n)), <<n + 1>>)
      BY <2>3, <2>7, PlusIsCat
    <2>9. QED
      BY <2>2, <2>4, <2>5, <2>6, <2>7, <2>8
  <1>4. Nat \subseteq T
    <2> HIDE DEF T
    <2>1. QED
      BY <1>2, <1>3, SetInduction
  <1>5. Funding = FundingOf(Funds)
    BY DEF Funding, FundingOf
  <1>6. QED
    <2> HIDE DEF All
    <2>1. Funds \in T /\ Funds <= Funds
      BY <1>1, <1>4
    <2>2. FundingOf(Funds) \in Seq(Piece) /\ Records(FundingOf(Funds)) = All(Funds)
      BY <2>1
    <2>3. QED
      BY <1>5, <2>2 DEF All

-----------------------------------------------------------------------------
(* What a directory tells, with the files as they are: the snapshot with   *)
(* the retired journal, unless the snapshot contains it, and behind it the *)
(* journal.                                                                *)

Files == [Inode -> Seq(Piece)]
In(files, file) == IF file = NoFile THEN <<>> ELSE files[file]
Found(files, file) == Records(In(files, file))
Counts(d) == d.marker = 0 \/ d.marker > d.snapshot.gen
BaseIn(files, d) ==
  IF Counts(d) THEN Cat(d.snapshot.book, Found(files, d.retired)) ELSE d.snapshot.book
LogIn(files, d) == Cat(BaseIn(files, d), Found(files, d.journal))

LEMMA Inodes == NoFile \notin Inode /\ Inode \subseteq Nat
  BY JournalAssumption

LEMMA FoundType ==
  ASSUME NEW files \in Files, NEW file \in {NoFile} \cup Inode
  PROVE  /\ In(files, file) \in Seq(Piece) /\ Found(files, file) \in Seq(Command)
         /\ file = NoFile => In(files, file) = <<>> /\ Found(files, file) = <<>>
         /\ file # NoFile => In(files, file) = files[file] /\ Found(files, file) = Records(files[file])
  <1>1. In(files, file) \in Seq(Piece)
    BY EmptySeq DEF In, Files
  <1>2. \A p \in Seq(Piece) : Records(p) \in Seq(Command)
    BY RecordsCat
  <1>3. Records(<<>>) = <<>>
    BY RecordsPlus
  <1>4. QED
    BY <1>1, <1>2, <1>3 DEF Found, In

LEMMA DirectoryFacts ==
  ASSUME NEW files \in Files, NEW d \in Directory
  PROVE  /\ d.journal \in {NoFile} \cup Inode /\ d.retired \in {NoFile} \cup Inode
         /\ d.marker \in Nat /\ d.snapshot.gen \in Nat /\ d.snapshot.book \in Seq(Command)
         /\ Counts(d) \in BOOLEAN
         /\ BaseIn(files, d) \in Seq(Command) /\ LogIn(files, d) \in Seq(Command)
         /\ IsPrefix(BaseIn(files, d), LogIn(files, d))
  <1>1. /\ d.journal \in {NoFile} \cup Inode /\ d.retired \in {NoFile} \cup Inode
        /\ d.marker \in Nat /\ d.snapshot.gen \in Nat /\ d.snapshot.book \in Seq(Command)
    BY DEF Directory
  <1>2. Found(files, d.journal) \in Seq(Command) /\ Found(files, d.retired) \in Seq(Command)
    BY <1>1, FoundType
  <1>3. BaseIn(files, d) \in Seq(Command)
    BY <1>1, <1>2, CatType DEF BaseIn
  <1>4. LogIn(files, d) \in Seq(Command) /\ IsPrefix(BaseIn(files, d), LogIn(files, d))
    BY <1>2, <1>3, CatType, CatPrefix DEF LogIn
  <1>5. QED
    BY <1>1, <1>3, <1>4 DEF Counts

(* A directory without a retired journal is its snapshot and its journal.  *)
LEMMA NothingRetired ==
  ASSUME NEW files \in Files, NEW d \in Directory, d.retired = NoFile
  PROVE  BaseIn(files, d) = d.snapshot.book
  BY DirectoryFacts, FoundType, CatEmpty DEF BaseIn

LEMMA NoJournal ==
  ASSUME NEW files \in Files, NEW d \in Directory, d.journal = NoFile
  PROVE  LogIn(files, d) = BaseIn(files, d)
  BY DirectoryFacts, FoundType, CatEmpty DEF LogIn

(* It tells the same of files that are the same.                           *)
LEMMA SameFiles ==
  ASSUME NEW files \in Files, NEW files2 \in Files, NEW d \in Directory,
         d.retired # NoFile => files2[d.retired] = files[d.retired]
  PROVE  /\ BaseIn(files2, d) = BaseIn(files, d)
         /\ (d.journal # NoFile => files2[d.journal] = files[d.journal])
              => LogIn(files2, d) = LogIn(files, d)
  <1>1. Found(files2, d.retired) = Found(files, d.retired)
    BY DEF Found, In
  <1>2. BaseIn(files2, d) = BaseIn(files, d)
    BY <1>1 DEF BaseIn
  <1>3. ASSUME d.journal # NoFile => files2[d.journal] = files[d.journal]
        PROVE  Found(files2, d.journal) = Found(files, d.journal)
    BY <1>3 DEF Found, In
  <1>4. QED
    BY <1>2, <1>3 DEF LogIn

(* What is written at the end of its journal comes behind what it tells.   *)
WrittenTo(files, j, x) == [files EXCEPT ![j] = Cat(files[j], x)]

LEMMA WrittenBehind ==
  ASSUME NEW files \in Files, NEW j \in Inode, NEW x \in Seq(Piece), NEW files2,
         files2 = WrittenTo(files, j, x)
  PROVE  /\ files2 \in Files
         /\ \A d \in Directory : d.retired # j =>
              /\ BaseIn(files2, d) = BaseIn(files, d)
              /\ d.journal # j => LogIn(files2, d) = LogIn(files, d)
              /\ d.journal = j => LogIn(files2, d) = Cat(LogIn(files, d), Records(x))
  <1>1. files[j] \in Seq(Piece) /\ Cat(files[j], x) \in Seq(Piece)
    BY CatType DEF Files
  <1>2. files2 \in Files /\ files2[j] = Cat(files[j], x) /\ \A i \in Inode : i # j => files2[i] = files[i]
    BY <1>1 DEF Files, WrittenTo
  <1>3. ASSUME NEW d \in Directory, d.retired # j
        PROVE  /\ BaseIn(files2, d) = BaseIn(files, d)
               /\ d.journal # j => LogIn(files2, d) = LogIn(files, d)
               /\ d.journal = j => LogIn(files2, d) = Cat(LogIn(files, d), Records(x))
    <2>1. d.journal \in {NoFile} \cup Inode /\ d.retired \in {NoFile} \cup Inode
      BY DirectoryFacts
    <2>2. /\ BaseIn(files2, d) = BaseIn(files, d)
          /\ d.journal # j => LogIn(files2, d) = LogIn(files, d)
      BY <1>2, <1>3, <2>1, SameFiles
    <2>3. ASSUME d.journal = j PROVE LogIn(files2, d) = Cat(LogIn(files, d), Records(x))
      <3>1. Records(files2[j]) = Cat(Records(files[j]), Records(x))
        BY <1>1, <1>2, RecordsCat
      <3>2. Found(files2, j) = Cat(Found(files, j), Records(x))
        BY <1>2, <3>1, Inodes, FoundType
      <3>3. BaseIn(files, d) \in Seq(Command) /\ Found(files, j) \in Seq(Command)
            /\ Records(x) \in Seq(Command)
        BY DirectoryFacts, FoundType, RecordsCat
      <3>4. Cat(Cat(BaseIn(files, d), Found(files, j)), Records(x))
              = Cat(BaseIn(files, d), Cat(Found(files, j), Records(x)))
        BY <3>3, CatCat
      <3>5. QED
        BY <2>2, <2>3, <3>2, <3>4 DEF LogIn
    <2>4. QED
      BY <2>2, <2>3
  <1>4. QED
    BY <1>2, <1>3

-----------------------------------------------------------------------------
(* The directories a power loss may leave.                                 *)

(* One of them has either the journal that is open, and then the same      *)
(* base; or another or none, and then it ends where the base of the        *)
(* present one does. A file that is still to be replayed in front of       *)
(* another is whole on disk, so a loss takes nothing but an end.           *)
DirHolds(d, here, files, safe) ==
  /\ IF d.journal # NoFile /\ d.journal = here.journal
     THEN BaseIn(files, d) = BaseIn(files, here)
     ELSE LogIn(files, d) = BaseIn(files, here)
  /\ here.journal # NoFile => d.retired # here.journal
  /\ d.journal # NoFile => d.retired # d.journal
  /\ Counts(d) /\ d.retired # NoFile /\ d.journal # NoFile =>
       safe[d.retired] = Len(files[d.retired])

DirsHold(ds, here, files, safe) == \A d \in ds : DirHolds(d, here, files, safe)

(* A change of the names that leaves the journal and the base.             *)
LEMMA NamesChange ==
  ASSUME NEW files \in Files, NEW safe, NEW ds \in SUBSET Directory,
         NEW here \in ds, NEW new \in Directory, DirsHold(ds, here, files, safe),
         new.journal = here.journal, BaseIn(files, new) = BaseIn(files, here),
         new.retired = here.retired \/ new.retired = NoFile,
         Counts(new) /\ new.retired # NoFile => Counts(here)
  PROVE  /\ DirsHold(ds \cup {new}, new, files, safe)
         /\ LogIn(files, new) = LogIn(files, here)
  <1>1. LogIn(files, new) = LogIn(files, here)
    BY DEF LogIn
  <1>2. ASSUME NEW d \in ds PROVE DirHolds(d, new, files, safe)
    BY <1>2 DEF DirsHold, DirHolds
  <1>3. DirHolds(here, here, files, safe)
    BY DEF DirsHold
  <1>4. DirHolds(new, new, files, safe)
    <2>1. new.journal = NoFile => LogIn(files, new) = BaseIn(files, new)
      BY NoJournal
    <2>2. here.journal # NoFile => here.retired # here.journal
      BY <1>3 DEF DirHolds
    <2>3. Counts(here) /\ here.retired # NoFile /\ here.journal # NoFile =>
            safe[here.retired] = Len(files[here.retired])
      BY <1>3 DEF DirHolds
    <2>4. NoFile \notin Inode
      BY Inodes
    <2>5. QED
      BY <2>1, <2>2, <2>3, <2>4 DEF DirHolds
  <1>5. QED
    BY <1>1, <1>2, <1>4 DEF DirsHold

(* The journal retires: what it tells is the base from here on.            *)
LEMMA JournalRetires ==
  ASSUME NEW files \in Files, NEW safe, NEW here \in Directory,
         DirsHold({here}, here, files, safe), here.retired = NoFile,
         here.marker = here.snapshot.gen + 1,
         NEW new, new = [here EXCEPT !.retired = here.journal, !.journal = NoFile]
  PROVE  /\ new \in Directory /\ Counts(new)
         /\ DirsHold({here, new}, new, files, safe)
         /\ BaseIn(files, new) = LogIn(files, here) /\ LogIn(files, new) = LogIn(files, here)
  <1>1. here.journal \in {NoFile} \cup Inode /\ here.marker \in Nat /\ here.snapshot.gen \in Nat
    BY DirectoryFacts
  <1>2. /\ new \in Directory /\ new.retired = here.journal /\ new.journal = NoFile
        /\ new.marker = here.marker /\ new.snapshot = here.snapshot
    BY <1>1 DEF Directory
  <1>3. Counts(new) /\ Counts(here)
    BY <1>1, <1>2 DEF Counts
  <1>4. BaseIn(files, here) = here.snapshot.book
    BY NothingRetired
  <1>5. BaseIn(files, new) = LogIn(files, here)
    BY <1>2, <1>3, <1>4 DEF BaseIn, LogIn
  <1>6. LogIn(files, new) = BaseIn(files, new)
    BY <1>2, NoJournal
  <1>7. DirHolds(here, here, files, safe)
    BY DEF DirsHold
  <1>8. DirHolds(here, new, files, safe)
    BY <1>2, <1>5, <1>7 DEF DirHolds
  <1>9. DirHolds(new, new, files, safe)
    BY <1>2, <1>6 DEF DirHolds
  <1>10. QED
    BY <1>2, <1>3, <1>5, <1>6, <1>8, <1>9 DEF DirsHold

(* A journal is created in a file that nothing refers to.                  *)
WithJournal(d, i) == [d EXCEPT !.journal = i]
EmptyFile(files, i) == [files EXCEPT ![i] = <<>>]
Marks == [Inode -> Nat]
Free(ds, i) == \A d \in ds : i \notin {d.journal, d.retired}
Unsynced(safe, i) == [safe EXCEPT ![i] = 0]

LEMMA JournalCreated ==
  ASSUME NEW files \in Files, NEW safe \in Marks, NEW ds \in SUBSET Directory,
         NEW here \in ds, DirsHold(ds, here, files, safe),
         here.journal = NoFile, here.retired = NoFile,
         NEW i \in Inode, Free(ds, i),
         NEW new, new = WithJournal(here, i),
         NEW files2, files2 = EmptyFile(files, i),
         NEW safe2, safe2 = Unsynced(safe, i)
  PROVE  /\ new \in Directory /\ files2 \in Files /\ safe2 \in Marks
         /\ DirsHold(ds \cup {new}, new, files2, safe2)
         /\ BaseIn(files2, new) = BaseIn(files, here)
         /\ LogIn(files2, new) = LogIn(files, here)
  <1>1. /\ new \in Directory /\ new.retired = NoFile /\ new.journal = i
        /\ new.marker = here.marker /\ new.snapshot = here.snapshot
    BY DEF Directory, WithJournal
  <1>2. <<>> \in Seq(Piece)
    BY EmptySeq
  <1>3. /\ files2 \in Files /\ files2[i] = <<>> /\ \A j \in Inode : j # i => files2[j] = files[j]
        /\ safe2 \in Marks /\ safe2[i] = 0 /\ \A j \in Inode : j # i => safe2[j] = safe[j]
    BY <1>2 DEF Files, Marks, EmptyFile, Unsynced
  <1>4. \A d \in ds : BaseIn(files2, d) = BaseIn(files, d) /\ LogIn(files2, d) = LogIn(files, d)
    <2>1. ASSUME NEW d \in ds
          PROVE  BaseIn(files2, d) = BaseIn(files, d) /\ LogIn(files2, d) = LogIn(files, d)
      <3>1. /\ d.journal \in {NoFile} \cup Inode /\ d.retired \in {NoFile} \cup Inode
            /\ d.journal # i /\ d.retired # i
        BY DirectoryFacts DEF Free
      <3>2. /\ d.retired # NoFile => files2[d.retired] = files[d.retired]
            /\ d.journal # NoFile => files2[d.journal] = files[d.journal]
        BY <1>3, <3>1
      <3>3. files2 \in Files /\ d \in Directory
        BY <1>3
      <3>4. QED
        BY <3>2, <3>3, SameFiles
    <2>2. QED
      BY <2>1
  <1>5. BaseIn(files2, new) = BaseIn(files, here) /\ BaseIn(files2, new) \in Seq(Command)
    <2>1. BaseIn(files2, new) = new.snapshot.book /\ BaseIn(files, here) = here.snapshot.book
      BY <1>1, <1>3, NothingRetired
    <2>2. QED
      BY <1>1, <1>3, <2>1, DirectoryFacts
  <1>6. LogIn(files2, new) = BaseIn(files2, new)
    <2>1. Found(files2, i) = <<>>
      <3>1. files2[i] = <<>> /\ i # NoFile
        BY <1>3, Inodes
      <3>2. Found(files2, i) = Records(<<>>)
        BY <3>1 DEF Found, In
      <3>3. QED
        BY <3>2, RecordsPlus
    <2>2. QED
      BY <1>1, <1>5, <2>1, CatEmpty DEF LogIn
  <1>7. LogIn(files, here) = BaseIn(files, here)
    BY NoJournal
  <1>8. i # NoFile
    BY Inodes
  <1>9. ASSUME NEW d \in ds PROVE DirHolds(d, new, files2, safe2)
    <2>1. DirHolds(d, here, files, safe)
      BY DEF DirsHold
    <2>2. LogIn(files, d) = BaseIn(files, here)
      BY <2>1 DEF DirHolds
    <2>3. d.journal # NoFile => d.retired # d.journal
      BY <2>1 DEF DirHolds
    <2>4. Counts(d) /\ d.retired # NoFile /\ d.journal # NoFile =>
            safe2[d.retired] = Len(files2[d.retired])
      <3>1. d.retired \in {NoFile} \cup Inode /\ d.retired # i
        BY DirectoryFacts DEF Free
      <3>2. QED
        BY <1>3, <2>1, <3>1 DEF DirHolds
    <2>5. d.journal # i /\ d.retired # i
      BY DEF Free
    <2>6. QED
      BY <1>1, <1>4, <1>5, <2>2, <2>3, <2>4, <2>5 DEF DirHolds
  <1>10. DirHolds(new, new, files2, safe2)
    BY <1>1, <1>8 DEF DirHolds
  <1>11. QED
    BY <1>1, <1>3, <1>5, <1>6, <1>7, <1>9, <1>10 DEF DirsHold

(* The journal is written to.                                              *)
LEMMA JournalWritten ==
  ASSUME NEW files \in Files, NEW safe, NEW ds \in SUBSET Directory,
         NEW here \in ds, DirsHold(ds, here, files, safe), here.journal # NoFile,
         NEW x \in Seq(Piece),
         NEW files2, files2 = WrittenTo(files, here.journal, x)
  PROVE  /\ files2 \in Files
         /\ DirsHold(ds, here, files2, safe)
         /\ LogIn(files2, here) = Cat(LogIn(files, here), Records(x))
  <1>1. here.journal \in Inode
    BY DirectoryFacts
  <1>2. /\ files2 \in Files
        /\ \A d \in ds : d.retired # here.journal =>
             /\ BaseIn(files2, d) = BaseIn(files, d)
             /\ d.journal # here.journal => LogIn(files2, d) = LogIn(files, d)
             /\ d.journal = here.journal =>
                  LogIn(files2, d) = Cat(LogIn(files, d), Records(x))
    <2>1. /\ files2 \in Files
          /\ \A d \in Directory : d.retired # here.journal =>
               /\ BaseIn(files2, d) = BaseIn(files, d)
               /\ d.journal # here.journal => LogIn(files2, d) = LogIn(files, d)
               /\ d.journal = here.journal =>
                    LogIn(files2, d) = Cat(LogIn(files, d), Records(x))
      BY <1>1, WrittenBehind
    <2>2. QED
      BY <2>1
  <1>3. \A d \in ds : d.retired # here.journal
    BY DEF DirsHold, DirHolds
  <1>4. ASSUME NEW d \in ds PROVE DirHolds(d, here, files2, safe)
    <2>1. DirHolds(d, here, files, safe)
      BY DEF DirsHold
    <2>2. IF d.journal # NoFile /\ d.journal = here.journal
          THEN BaseIn(files2, d) = BaseIn(files2, here)
          ELSE LogIn(files2, d) = BaseIn(files2, here)
      BY <1>2, <1>3, <2>1 DEF DirHolds
    <2>3. d.retired \in {NoFile} \cup Inode
      BY DirectoryFacts
    <2>4. d.retired # NoFile => files2[d.retired] = files[d.retired]
      BY <1>1, <1>3, <2>3 DEF Files, WrittenTo
    <2>5. QED
      BY <2>1, <2>2, <2>4 DEF DirHolds
  <1>5. QED
    BY <1>2, <1>3, <1>4 DEF DirsHold

(* A file is synced.                                                       *)
LEMMA FileSynced ==
  ASSUME NEW files \in Files, NEW safe \in [Inode -> Nat], NEW ds \in SUBSET Directory,
         NEW here, DirsHold(ds, here, files, safe), NEW i,
         NEW safe2, safe2 = [safe EXCEPT ![i] = Len(files[i])]
  PROVE  DirsHold(ds, here, files, safe2)
  <1>1. ASSUME NEW d \in ds PROVE DirHolds(d, here, files, safe2)
    <2>1. DirHolds(d, here, files, safe)
      BY DEF DirsHold
    <2>2. d.retired \in {NoFile} \cup Inode
      BY DirectoryFacts
    <2>3. d.retired # NoFile =>
            \/ safe2[d.retired] = safe[d.retired]
            \/ safe2[d.retired] = Len(files[d.retired])
      BY <2>2
    <2>4. QED
      BY <2>1, <2>3 DEF DirHolds
  <1>2. QED
    BY <1>1 DEF DirsHold

(* A power loss leaves a beginning of every file, and what was synced of   *)
(* it: what the directory then tells begins what the engine told.          *)
Left(files, kept) == [i \in Inode |-> SubSeq(files[i], 1, kept[i])]

LEMMA LeftFacts ==
  ASSUME NEW files \in Files, NEW kept \in [Inode -> Nat],
         \A i \in Inode : kept[i] <= Len(files[i])
  PROVE  /\ Left(files, kept) \in Files
         /\ \A i \in Inode :
              /\ Left(files, kept)[i] = SubSeq(files[i], 1, kept[i])
              /\ Len(Left(files, kept)[i]) = kept[i]
              /\ IsPrefix(Records(Left(files, kept)[i]), Records(files[i]))
              /\ kept[i] = Len(files[i]) => Left(files, kept)[i] = files[i]
  <1>1. ASSUME NEW i \in Inode
        PROVE  /\ SubSeq(files[i], 1, kept[i]) \in Seq(Piece)
               /\ Len(SubSeq(files[i], 1, kept[i])) = kept[i]
               /\ IsPrefix(Records(SubSeq(files[i], 1, kept[i])), Records(files[i]))
               /\ kept[i] = Len(files[i]) => SubSeq(files[i], 1, kept[i]) = files[i]
    <2>1. files[i] \in Seq(Piece) /\ kept[i] \in 0 .. Len(files[i])
      BY LenProperties DEF Files
    <2>2. ASSUME NEW p \in Seq(Piece), NEW k \in 0 .. Len(p)
          PROVE  /\ SubSeq(p, 1, k) \in Seq(Piece) /\ Len(SubSeq(p, 1, k)) = k
                 /\ IsPrefix(Records(SubSeq(p, 1, k)), Records(p))
                 /\ k = Len(p) => SubSeq(p, 1, k) = p
      BY RecordsPrefix, SubSeqFull
    <2>3. QED
      BY <2>1, <2>2
  <1>2. Left(files, kept) \in Files
    BY <1>1 DEF Left, Files
  <1>3. \A i \in Inode : Left(files, kept)[i] = SubSeq(files[i], 1, kept[i])
    BY DEF Left
  <1>4. QED
    BY <1>1, <1>2, <1>3

LEMMA FilesLeft ==
  ASSUME NEW files \in Files, NEW safe \in [Inode -> Nat], NEW ds \in SUBSET Directory,
         NEW here \in ds, DirsHold(ds, here, files, safe), NEW d \in ds,
         NEW kept \in [Inode -> Nat],
         \A i \in Inode : safe[i] <= kept[i] /\ kept[i] <= Len(files[i]),
         NEW files2, files2 = Left(files, kept)
  PROVE  /\ files2 \in Files
         /\ DirsHold({d}, d, files2, kept)
         /\ IsPrefix(LogIn(files2, d), LogIn(files, here))
  <1>1. /\ files2 \in Files
        /\ \A i \in Inode :
             /\ Len(files2[i]) = kept[i]
             /\ IsPrefix(Records(files2[i]), Records(files[i]))
             /\ kept[i] = Len(files[i]) => files2[i] = files[i]
    BY LeftFacts
  <1>2. DirHolds(d, here, files, safe)
    BY DEF DirsHold
  <1>3. /\ d \in Directory /\ d.journal \in {NoFile} \cup Inode /\ d.retired \in {NoFile} \cup Inode
        /\ d.snapshot.book \in Seq(Command)
        /\ BaseIn(files, d) \in Seq(Command) /\ LogIn(files, d) \in Seq(Command)
        /\ BaseIn(files2, d) \in Seq(Command) /\ LogIn(files2, d) \in Seq(Command)
    BY <1>1, DirectoryFacts
  <1>4. \A file \in {NoFile} \cup Inode :
          /\ Found(files2, file) \in Seq(Command) /\ Found(files, file) \in Seq(Command)
          /\ IsPrefix(Found(files2, file), Found(files, file))
    <2>1. ASSUME NEW file \in {NoFile} \cup Inode
          PROVE  IsPrefix(Found(files2, file), Found(files, file))
      <3>1. CASE file = NoFile
        <4>1. Found(files2, file) = Found(files, file) /\ Found(files, file) \in Seq(Command)
          BY <1>1, <3>1, FoundType
        <4>2. QED
          BY <4>1, PrefixSelf
      <3>2. CASE file # NoFile
        <4>1. file \in Inode /\ Found(files2, file) = Records(files2[file])
              /\ Found(files, file) = Records(files[file])
          BY <1>1, <3>2, FoundType
        <4>2. QED
          BY <1>1, <4>1
      <3>3. QED
        BY <3>1, <3>2
    <2>2. QED
      BY <1>1, <2>1, FoundType
  <1>5. IsPrefix(LogIn(files2, d), LogIn(files, d))
    <2>1. CASE d.journal = NoFile
      <3>1. LogIn(files2, d) = BaseIn(files2, d) /\ LogIn(files, d) = BaseIn(files, d)
        BY <1>1, <1>3, <2>1, NoJournal
      <3>2. IsPrefix(BaseIn(files2, d), BaseIn(files, d))
        BY <1>3, <1>4, CatPrefixes, PrefixSelf DEF BaseIn
      <3>3. QED
        BY <3>1, <3>2
    <2>2. CASE d.journal # NoFile
      <3>1. BaseIn(files2, d) = BaseIn(files, d)
        <4>1. CASE Counts(d) /\ d.retired # NoFile
          <5>1. safe[d.retired] = Len(files[d.retired]) /\ d.retired \in Inode
            BY <1>2, <1>3, <2>2, <4>1 DEF DirHolds
          <5>2. kept[d.retired] \in Nat /\ Len(files[d.retired]) \in Nat
                /\ safe[d.retired] \in Nat
            BY <5>1, LenProperties DEF Files
          <5>3. kept[d.retired] = Len(files[d.retired])
            BY <5>1, <5>2
          <5>4. files2[d.retired] = files[d.retired]
            BY <1>1, <5>1, <5>3
          <5>5. QED
            BY <1>1, <1>3, <5>4, SameFiles
        <4>2. CASE d.retired = NoFile
          BY <1>1, <1>3, <4>2, NothingRetired
        <4>3. CASE ~Counts(d)
          BY <4>3 DEF BaseIn
        <4>4. QED
          BY <4>1, <4>2, <4>3
      <3>2. IsPrefix(Found(files2, d.journal), Found(files, d.journal))
            /\ Found(files2, d.journal) \in Seq(Command) /\ Found(files, d.journal) \in Seq(Command)
        BY <1>3, <1>4
      <3>3. QED
        BY <1>3, <3>1, <3>2, CatPrefixes DEF LogIn
    <2>3. QED
      BY <2>1, <2>2
  <1>6. IsPrefix(LogIn(files, d), LogIn(files, here))
    <2>1. /\ BaseIn(files, here) \in Seq(Command) /\ LogIn(files, here) \in Seq(Command)
          /\ IsPrefix(BaseIn(files, here), LogIn(files, here))
      BY DirectoryFacts
    <2>2. CASE d.journal # NoFile /\ d.journal = here.journal
      <3>1. LogIn(files, d) = LogIn(files, here)
        BY <1>2, <2>2 DEF DirHolds, LogIn
      <3>2. QED
        BY <2>1, <3>1, PrefixSelf
    <2>3. CASE ~(d.journal # NoFile /\ d.journal = here.journal)
      <3>1. LogIn(files, d) = BaseIn(files, here)
        BY <1>2, <2>3 DEF DirHolds
      <3>2. QED
        BY <2>1, <3>1
    <2>4. QED
      BY <2>2, <2>3
  <1>7. IsPrefix(LogIn(files2, d), LogIn(files, here))
    <2>1. LogIn(files, here) \in Seq(Command)
      BY DirectoryFacts
    <2>2. QED
      BY <1>3, <1>5, <1>6, <2>1, PrefixTransitive
  <1>8. DirHolds(d, d, files2, kept)
    <2>1. d.journal = NoFile => LogIn(files2, d) = BaseIn(files2, d)
      BY <1>1, <1>3, NoJournal
    <2>2. d.journal # NoFile => d.retired # d.journal
      BY <1>2 DEF DirHolds
    <2>3. d.retired # NoFile => kept[d.retired] = Len(files2[d.retired])
      BY <1>1, <1>3
    <2>4. QED
      BY <2>1, <2>2, <2>3 DEF DirHolds
  <1>9. QED
    BY <1>1, <1>7, <1>8 DEF DirsHold

-----------------------------------------------------------------------------
(* The inductive invariant.                                                *)

DiskTyped ==
  /\ setup \in Setups
  /\ dir \in Directory /\ dirs \in SUBSET Directory /\ dir \in dirs
  /\ data \in Files
  /\ synced \in [Inode -> Nat] /\ \A i \in Inode : synced[i] <= Len(data[i])
  /\ buffer \in Seq(Piece) /\ Len(buffer) <= setup.bufferPieces
StartTyped ==
  /\ pc \in {"down", "refused", "stopped"} \cup StartupStates \cup MatcherStates
  /\ book \in Seq(Command) /\ generation \in Nat /\ compacting \in BOOLEAN
ServeTyped ==
  /\ queue \in Seq(Request) /\ Len(queue) <= Capacity
  /\ batch \in Seq(Result) /\ Len(batch) <= MaxBatch
  /\ published \in Seq(Command) /\ announced \in Nat
ClientTyped ==
  /\ sent \in 0 .. MaxCommands /\ reply \in [Command -> Outcome]
  /\ told \in SUBSET Command /\ spoilt \in SUBSET Command
  /\ crashes \in Nat /\ powerLosses \in Nat /\ errors \in Nat

DiskInv == DiskTyped /\ DirsHold(dirs, dir, data, synced)

(* What is on disk, without and with the journal that is open, and what    *)
(* will be when the buffer is.                                             *)
DiskBase == BaseIn(data, dir)
DiskLog == LogIn(data, dir)
Full == Cat(DiskLog, Records(buffer))

Recovering == {"retired", "adopted"}
Publishing == {"renamed", "publish"}
Removing == {"published", "remove"}
Unmarking == {"removed", "unmark", "unmarked"}
Compacting == Publishing \cup Removing \cup Unmarking \cup {"create"}
Recovered == {"recovered", "marked", "retire"}
Opened == {"fund", "fundSync", "spawn"} \cup MatcherStates

(* What the memory of a start holds of what is on disk.                    *)
StartHolds ==
  /\ pc \in Recovering => book = dir.snapshot.book /\ ~compacting
  /\ pc \in Removing => ~Counts(dir)
  /\ pc \in Publishing => generation = dir.marker /\ generation > 0
  /\ pc \in Recovering \cup Removing \cup Unmarking \cup Recovered \cup {"replay", "create", "created"} =>
       generation = dir.snapshot.gen
  /\ pc \in Compacting \cup {"replay"} => book = DiskBase
  /\ pc \in Recovered \cup {"created"} => book = DiskLog
  /\ pc \in {"fund", "fundSync", "spawn"} => book = Full
  /\ pc \in Unmarking \cup Recovered \cup Opened \cup {"replay", "create", "created"} =>
       dir.retired = NoFile
  /\ pc \in {"marked", "retire"} => dir.marker = generation + 1
  /\ pc = "retire" => dirs = {dir}
  /\ pc \in Opened => dir.journal # NoFile
  /\ pc \in Compacting /\ (compacting \/ pc = "create") => dir.journal = NoFile

(* Where nothing is buffered, and what only a serving engine has: a batch  *)
(* is not empty until its last reply is given.                             *)
QuietHolds ==
  /\ pc \notin {"fund", "take", "commit"} => buffer = <<>>
  /\ Serving /\ pc # "take" => batch # <<>>
  /\ ~Serving => queue = <<>> /\ batch = <<>>
  /\ ~Serving /\ pc # "stopped" => spoilt = {}

(* Commands are numbered as they come, so that one that comes later has a  *)
(* higher number than what is in the journal and in the queue.             *)
NumbersHold ==
  /\ Funds <= sent
  /\ Increasing(Full) /\ ToSet(Full) \subseteq 1 .. sent
  /\ \A q \in 1 .. Len(queue) :
       /\ queue[q].cmd \in Funds + 1 .. sent
       /\ \A c \in ToSet(Full) : c < queue[q].cmd
       /\ \A p \in 1 .. q - 1 : queue[p].cmd < queue[q].cmd

(* The book follows its journal.                                           *)
BookFollows ==
  /\ spoilt = {} => book = Full
  /\ ToSet(book) \subseteq ToSet(Full) /\ ToSet(Full) \subseteq ToSet(book) \cup spoilt
  /\ Increasing(book)

UpTo(n) == [i \in 1 .. n |-> i]
Funded(log) == Len(log) >= Funds /\ \A i \in 1 .. Funds : log[i] = i

(* A funding that nothing cuts short is on disk as a whole or not at all.  *)
FundingHolds ==
  /\ pc = "fund" => book = UpTo(Len(book)) /\ Len(book) <= Funds
  /\ FundingIsWhole =>
       /\ DiskLog = <<>> \/ Funded(DiskLog)
       /\ pc = "fund" => DiskLog = <<>> /\ Len(buffer) = 3 * Len(book)
       /\ pc \in Opened \ {"fund"} => Funded(DiskLog) /\ Funded(book)

EngineInv ==
  /\ DiskInv /\ StartTyped /\ ServeTyped /\ ClientTyped
  /\ StartHolds /\ QuietHolds /\ NumbersHold /\ FundingHolds
  /\ Serving => BookFollows

LEMMA TypesByPart ==
  EngineTypeOK <=> DiskTyped /\ StartTyped /\ ServeTyped /\ ClientTyped
  BY DEF EngineTypeOK, DiskTyped, StartTyped, ServeTyped, ClientTyped, Files, BufferPieces

LEMMA LogIs ==
  DiskTyped =>
    /\ OnDiskLog = DiskLog /\ Log = Full
    /\ DiskBase \in Seq(Command) /\ DiskLog \in Seq(Command) /\ Full \in Seq(Command)
    /\ Records(buffer) \in Seq(Command) /\ IsPrefix(DiskLog, Full)
    /\ buffer = <<>> => Full = DiskLog
  <1> SUFFICES ASSUME DiskTyped
               PROVE  /\ OnDiskLog = DiskLog /\ Log = Full
                      /\ DiskBase \in Seq(Command) /\ DiskLog \in Seq(Command)
                      /\ Full \in Seq(Command)
                      /\ Records(buffer) \in Seq(Command) /\ IsPrefix(DiskLog, Full)
                      /\ buffer = <<>> => Full = DiskLog
    OBVIOUS
  <1>1. /\ DiskBase \in Seq(Command) /\ DiskLog \in Seq(Command)
        /\ dir.snapshot.book \in Seq(Command)
        /\ dir.journal \in {NoFile} \cup Inode /\ dir.retired \in {NoFile} \cup Inode
    BY DirectoryFacts DEF DiskTyped, DiskBase, DiskLog
  <1>2. Records(buffer) \in Seq(Command)
    BY RecordsCat DEF DiskTyped
  <1>3. Full \in Seq(Command) /\ IsPrefix(DiskLog, Full)
    BY <1>1, <1>2, CatType, CatPrefix DEF Full
  <1>4. buffer = <<>> => Full = DiskLog
    BY <1>1, RecordsPlus, CatEmpty DEF Full
  <1>5. /\ Records(Content(dir.retired)) = Found(data, dir.retired)
        /\ Records(Content(dir.journal)) = Found(data, dir.journal)
    BY DEF Content, Found, In
  <1>6. OnDiskLog = DiskLog
    <2>1. Cat(dir.snapshot.book, IF Counts(dir) THEN Found(data, dir.retired) ELSE <<>>) = DiskBase
      BY <1>1, CatEmpty DEF DiskBase, BaseIn
    <2>2. OnDiskLog = Cat(Cat(dir.snapshot.book,
                              IF Counts(dir) THEN Found(data, dir.retired) ELSE <<>>),
                          Found(data, dir.journal))
      BY <1>5 DEF OnDiskLog, Counts, Cat
    <2>3. QED
      BY <2>1, <2>2 DEF DiskLog, DiskBase, LogIn
  <1>7. Log = Full
    BY <1>6 DEF Log, Full, Cat
  <1>8. QED
    BY <1>1, <1>2, <1>3, <1>4, <1>6, <1>7

-----------------------------------------------------------------------------
(* The start of an installation.                                           *)

LEMMA Assumed ==
  /\ MaxCommands \in Nat /\ CompactPieces \in Nat /\ Funds \in Nat /\ Funds <= MaxCommands
  /\ Capacity \in Nat /\ Capacity > 0 /\ MaxBatch \in Nat /\ MaxBatch > 0
  /\ \A s \in Setups :
       /\ s.start \in {"fresh", "journal", "legacy"}
       /\ s.bufferPieces \in Nat /\ s.bufferPieces >= 3
       /\ s.commands \in Nat /\ s.commands <= MaxCommands
       /\ s.start # "fresh" => 1 \in Inode
       /\ s.start = "legacy" => 2 \in Inode
  <1>1. /\ MaxCommands \in Nat /\ CompactPieces \in Nat /\ Funds \in Nat /\ Funds <= MaxCommands
        /\ Capacity \in Nat /\ Capacity > 0 /\ MaxBatch \in Nat /\ MaxBatch > 0
    BY JournalAssumption, StartupAssumption, EngineAssumption
  <1>2. ASSUME NEW s \in Setups
        PROVE  /\ s.start \in {"fresh", "journal", "legacy"}
               /\ s.bufferPieces \in Nat /\ s.bufferPieces >= 3
               /\ s.commands \in Nat /\ s.commands <= MaxCommands
               /\ s.start # "fresh" => 1 \in Inode
               /\ s.start = "legacy" => 2 \in Inode
    <2>1. /\ s.start \in {"fresh", "journal", "legacy"}
          /\ s.bufferPieces \in Nat /\ s.bufferPieces >= 3
          /\ s.commands \in 0 .. MaxCommands
          /\ s.start # "fresh" => 1 \in Inode
          /\ s.start = "legacy" => 2 \in Inode
      BY EngineAssumption
    <2>2. QED
      BY <1>1, <2>1
  <1>3. QED
    BY <1>1, <1>2

LEMMA UpToFacts ==
  ASSUME NEW n \in Nat, n <= MaxCommands
  PROVE  /\ UpTo(n) \in Seq(Command) /\ Len(UpTo(n)) = n /\ UpTo(0) = <<>>
         /\ Increasing(UpTo(n)) /\ ToSet(UpTo(n)) = 1 .. n
         /\ n < MaxCommands => UpTo(n + 1) = Plus(UpTo(n), n + 1)
         /\ Funded(UpTo(Funds))
  <1>1. MaxCommands \in Nat /\ Funds \in Nat
    BY Assumed
  <1>2. UpTo(n) \in Seq(Command) /\ Len(UpTo(n)) = n /\ UpTo(0) = <<>>
    BY <1>1 DEF UpTo, Command
  <1>3. Increasing(UpTo(n)) /\ ToSet(UpTo(n)) = 1 .. n
    BY DEF UpTo, Increasing, ToSet
  <1>4. UpTo(n + 1) = Plus(UpTo(n), n + 1)
    BY DEF UpTo, Plus
  <1>5. Funded(UpTo(Funds))
    BY <1>1 DEF Funded, UpTo
  <1>6. QED
    BY <1>2, <1>3, <1>4, <1>5

LEMMA InitFiles ==
  ASSUME NEW start \in {"fresh", "journal", "legacy"},
         start # "fresh" => 1 \in Inode, start = "legacy" => 2 \in Inode,
         NEW d, d = StartDirectory(start), NEW files, files = StartData(start)
  PROVE  /\ d \in Directory /\ files \in Files
         /\ d.retired # NoFile => d.retired # d.journal
         /\ LogIn(files, d) = BaseIn(files, d)
         /\ LogIn(files, d) = <<>> \/ LogIn(files, d) = UpTo(Funds)
  <1>1. Funding \in Seq(Piece) /\ Records(Funding) = UpTo(Funds) /\ <<>> \in Seq(Piece)
    BY FundingIsRead, EmptySeq DEF UpTo
  <1>2. files \in Files
    BY <1>1 DEF StartData, Files
  <1>3. /\ d \in Directory /\ d.marker = 0 /\ d.snapshot.book = <<>>
        /\ d.journal = (IF start = "fresh" THEN NoFile ELSE 1)
        /\ d.retired = (IF start = "legacy" THEN 2 ELSE NoFile)
    BY EmptySeq DEF StartDirectory, OnDisk, Directory, NoSnapshot, NoFile
  <1>4. /\ start # "fresh" => files[1] = <<>>
        /\ start = "legacy" => files[2] = Funding
    BY DEF StartData
  <1>5. Found(files, d.journal) = <<>>
    BY <1>3, <1>4, RecordsPlus DEF Found, In, NoFile
  <1>6. Found(files, d.retired) = IF start = "legacy" THEN UpTo(Funds) ELSE <<>>
    BY <1>1, <1>3, <1>4, RecordsPlus DEF Found, In, NoFile
  <1>7. UpTo(Funds) \in Seq(Command) /\ <<>> \in Seq(Command)
    BY Assumed, UpToFacts, EmptySeq
  <1>8. BaseIn(files, d) = Cat(<<>>, Found(files, d.retired))
    BY <1>3 DEF BaseIn, Counts
  <1>9. BaseIn(files, d) = IF start = "legacy" THEN UpTo(Funds) ELSE <<>>
    BY <1>6, <1>7, <1>8, CatEmpty
  <1>10. LogIn(files, d) = BaseIn(files, d)
    BY <1>5, <1>7, <1>9, CatEmpty DEF LogIn
  <1>11. QED
    BY <1>2, <1>3, <1>9, <1>10 DEF NoFile

LEMMA InitHolds == Init => EngineInv
  <1> SUFFICES ASSUME Init PROVE EngineInv
    OBVIOUS
  <1>1. /\ setup \in Setups /\ dir = StartDirectory(setup.start) /\ dirs = {dir}
        /\ data = StartData(setup.start) /\ synced = [i \in Inode |-> Len(data[i])]
    BY DEF Init
  <1>2. setup.start \in {"fresh", "journal", "legacy"} /\ setup.bufferPieces \in Nat
        /\ (setup.start # "fresh" => 1 \in Inode) /\ (setup.start = "legacy" => 2 \in Inode)
    BY <1>1, Assumed
  <1>3. /\ dir \in Directory /\ data \in Files
        /\ dir.retired # NoFile => dir.retired # dir.journal
        /\ DiskLog = DiskBase
        /\ DiskLog = <<>> \/ DiskLog = UpTo(Funds)
    BY <1>1, <1>2, InitFiles DEF DiskLog, DiskBase
  <1>4. \A i \in Inode : Len(data[i]) \in Nat
    BY <1>3, LenProperties DEF Files
  <1>5. DiskTyped
    BY <1>1, <1>2, <1>3, <1>4 DEF Init, DiskTyped
  <1>6. DirsHold(dirs, dir, data, synced)
    <2>1. DirHolds(dir, dir, data, synced)
      <3>1. dir.retired # NoFile => synced[dir.retired] = Len(data[dir.retired])
        BY <1>1, <1>3, DirectoryFacts
      <3>2. QED
        BY <1>3, <3>1 DEF DirHolds, DiskLog, DiskBase
    <2>2. QED
      BY <1>1, <2>1 DEF DirsHold
  <1>7. StartTyped /\ ServeTyped /\ ClientTyped
    <2>1. /\ pc = "down" /\ book = <<>> /\ generation = 0 /\ compacting = FALSE
          /\ queue = <<>> /\ batch = <<>> /\ published = <<>> /\ announced = 0
          /\ sent = Funds /\ reply = [c \in Command |-> "none"] /\ told = {} /\ spoilt = {}
          /\ crashes = 0 /\ powerLosses = 0 /\ errors = 0
      BY DEF Init
    <2>2. StartTyped
      BY <2>1, EmptySeq DEF StartTyped
    <2>3. ServeTyped
      BY <2>1, EmptySeq, Assumed DEF ServeTyped
    <2>4. ClientTyped
      BY <2>1, Assumed DEF ClientTyped, Outcome
    <2>5. QED
      BY <2>2, <2>3, <2>4
  <1>8. StartHolds /\ QuietHolds /\ ~Serving
    BY DEF Init, StartHolds, QuietHolds, Serving, MatcherStates, Recovering, Publishing,
      Removing, Unmarking, Compacting, Recovered, Opened
  <1>9. Full = DiskLog
    BY <1>5, LogIs DEF Init
  <1>10. Increasing(DiskLog) /\ ToSet(DiskLog) \subseteq 1 .. Funds
    <2>1. Increasing(<<>>) /\ ToSet(<<>>) = {}
      BY DEF Increasing, ToSet
    <2>2. QED
      BY <1>3, <2>1, Assumed, UpToFacts
  <1>11. NumbersHold
    <2>1. sent = Funds /\ queue = <<>>
      BY DEF Init
    <2>2. QED
      BY <1>9, <1>10, <2>1, Assumed DEF NumbersHold
  <1>12. FundingHolds
    <2>1. pc = "down" /\ "down" \notin Opened
      BY DEF Init, Opened, MatcherStates
    <2>2. Funded(UpTo(Funds))
      BY Assumed, UpToFacts
    <2>3. QED
      BY <1>3, <2>1, <2>2 DEF FundingHolds
  <1>13. QED
    BY <1>5, <1>6, <1>7, <1>8, <1>11, <1>12 DEF EngineInv, DiskInv

-----------------------------------------------------------------------------
(* Starting.                                                               *)

Others == <<setup, clientVars, matcherVars, historyVars, faultVars>>
BeforeOpen == {"down", "refused"} \cup (StartupStates \ Opened)

LEMMA DiskSame ==
  ASSUME DiskInv, UNCHANGED <<setup, diskVars>>
  PROVE  DiskInv' /\ DiskLog' = DiskLog /\ DiskBase' = DiskBase /\ Full' = Full
  BY DEF DiskInv, DiskTyped, DiskLog, DiskBase, Full, diskVars, fileVars

LEMMA NamesStep ==
  ASSUME DiskInv, UNCHANGED <<setup, data, synced, buffer>>,
         NEW new \in Directory, NewDir(new),
         new.journal = dir.journal, BaseIn(data, new) = DiskBase,
         new.retired = dir.retired \/ new.retired = NoFile,
         Counts(new) /\ new.retired # NoFile => Counts(dir)
  PROVE  DiskInv' /\ DiskLog' = DiskLog /\ DiskBase' = DiskBase
  <1>1. /\ dirs \in SUBSET Directory /\ dir \in dirs /\ data \in Files
        /\ DirsHold(dirs, dir, data, synced) /\ BaseIn(data, new) = BaseIn(data, dir)
    BY DEF DiskInv, DiskTyped, DiskBase
  <1>2. /\ DirsHold(dirs \cup {new}, new, data, synced)
        /\ LogIn(data, new) = LogIn(data, dir)
    BY <1>1, NamesChange
  <1>3. dir' = new /\ dirs' = dirs \cup {new} /\ data' = data /\ synced' = synced
        /\ buffer' = buffer /\ setup' = setup
    BY DEF NewDir
  <1>4. DiskTyped'
    BY <1>3 DEF DiskTyped, DiskInv
  <1>5. DirsHold(dirs', dir', data', synced')
    BY <1>2, <1>3
  <1>6. QED
    BY <1>1, <1>2, <1>3, <1>4, <1>5 DEF DiskInv, DiskLog, DiskBase

(* What a step may do to the log: nothing but write it, add to it, or cut  *)
(* off what was not written.                                               *)
Same == Full' = Full /\ IsPrefix(DiskLog, DiskLog')
Grown == /\ \E c \in Command \ ToSet(Full) : Full' = Plus(Full, c)
         /\ IsPrefix(DiskLog, DiskLog')
Cut == Full' = DiskLog' /\ IsPrefix(Full', Full)

LEMMA SameIs ==
  ASSUME DiskInv, Full' = Full, DiskLog' = DiskLog
  PROVE  Same
  <1>1. DiskLog \in Seq(Command)
    BY LogIs DEF DiskInv
  <1>2. QED
    BY <1>1, PrefixSelf DEF Same

LEMMA SameNumbers ==
  ASSUME NumbersHold, Full' = Full, sent' = sent, queue' = queue
  PROVE  NumbersHold'
  BY DEF NumbersHold

(* A step of a start before the journal is open keeps the log.             *)
LEMMA StartKeeps ==
  ASSUME EngineInv, UNCHANGED Others, UNCHANGED buffer,
         pc \in BeforeOpen, pc' \in BeforeOpen,
         DiskInv', DiskLog' = DiskLog, StartTyped', StartHolds'
  PROVE  EngineInv' /\ Full' = Full
  <1>1. /\ pc \notin {"fund", "take", "commit", "stopped"} /\ ~Serving
        /\ pc' \notin {"fund", "take", "commit", "stopped"} /\ ~Serving' /\ pc' \notin Opened
    BY DEF BeforeOpen, Opened, Serving, StartupStates, MatcherStates, AfterSync
  <1>2. /\ sent' = sent /\ reply' = reply /\ queue' = queue /\ batch' = batch
        /\ published' = published /\ announced' = announced
        /\ told' = told /\ spoilt' = spoilt /\ setup' = setup
        /\ crashes' = crashes /\ powerLosses' = powerLosses /\ errors' = errors /\ buffer' = buffer
    BY DEF Others, clientVars, matcherVars, historyVars, faultVars
  <1>3. ServeTyped' /\ ClientTyped'
    BY <1>2 DEF EngineInv, ServeTyped, ClientTyped
  <1>4. QuietHolds'
    BY <1>1, <1>2 DEF EngineInv, QuietHolds
  <1>5. Full' = Full
    BY <1>2 DEF Full
  <1>6. NumbersHold'
    BY <1>2, <1>5, SameNumbers DEF EngineInv
  <1>7. FundingHolds'
    <2>1. FundingIsWhole' => FundingIsWhole
      BY <1>2 DEF FundingIsWhole, BufferPieces
    <2>2. FundingIsWhole' => DiskLog' = <<>> \/ Funded(DiskLog')
      BY <2>1 DEF EngineInv, FundingHolds
    <2>3. QED
      BY <1>1, <2>2 DEF FundingHolds
  <1>8. QED
    BY <1>1, <1>3, <1>4, <1>5, <1>6, <1>7 DEF EngineInv

LEMMA States ==
  /\ Opened \subseteq StartupStates \cup MatcherStates
  /\ Recovering \cup Compacting \cup Recovered \cup {"replay", "created", "down", "refused"} = BeforeOpen
  /\ BeforeOpen \subseteq {"down", "refused", "stopped"} \cup StartupStates \cup MatcherStates
  BY DEF BeforeOpen, Opened, StartupStates, MatcherStates, AfterSync, Recovering, Compacting,
    Publishing, Removing, Unmarking, Recovered

(* Reading what is there.                                                  *)
LEMMA ReadingHolds ==
  ASSUME EngineInv, UNCHANGED Others,
         ReadSnapshot \/ SkipRetired \/ ReplayRetired \/ ReplayJournal \/ Refuse
  PROVE  EngineInv' /\ Full' = Full /\ DiskLog' = DiskLog
  <1>1. UNCHANGED <<setup, diskVars>> /\ UNCHANGED buffer
    BY DEF Others, ReadSnapshot, SkipRetired, ReplayRetired, ReplayJournal, Refuse, diskVars
  <1>2. DiskInv' /\ DiskLog' = DiskLog /\ DiskBase' = DiskBase /\ dir' = dir /\ dirs' = dirs
    BY <1>1, DiskSame DEF EngineInv, diskVars, fileVars
  <1>3. /\ dir.marker \in Nat /\ dir.snapshot.gen \in Nat /\ dir.snapshot.book \in Seq(Command)
        /\ DiskBase \in Seq(Command) /\ DiskLog \in Seq(Command)
        /\ data \in Files /\ dir \in Directory
    BY DirectoryFacts DEF EngineInv, DiskInv, DiskTyped, DiskBase, DiskLog
  <1>4. /\ StartTyped /\ StartHolds
        /\ pc \in BeforeOpen
        /\ pc' \in BeforeOpen
        /\ StartTyped' /\ StartHolds'
    <2>1. StartTyped /\ StartHolds
      BY DEF EngineInv
    <2>2. CASE ReadSnapshot
      <3>1. /\ pc = "down" /\ book' = dir.snapshot.book /\ generation' = dir.snapshot.gen
            /\ compacting' = FALSE
            /\ pc' = IF dir.retired # NoFile THEN "retired" ELSE "replay"
        BY <2>2 DEF ReadSnapshot, HasRetired
      <3>2. dir.retired = NoFile => DiskBase = dir.snapshot.book
        BY <1>3, NothingRetired DEF DiskBase
      <3>3. StartHolds'
        BY <1>2, <3>1, <3>2 DEF StartHolds, Recovering, Publishing, Removing, Unmarking,
          Compacting, Recovered, Opened, MatcherStates
      <3>4. StartTyped'
        BY <1>3, <3>1 DEF StartTyped, StartupStates
      <3>5. pc \in BeforeOpen /\ pc' \in BeforeOpen
        BY <3>1, States DEF Recovering
      <3>6. QED
        BY <2>1, <3>3, <3>4, <3>5
    <2>3. CASE SkipRetired
      <3>1. /\ pc = "retired" /\ pc' = "remove" /\ dir.marker # 0 /\ generation >= dir.marker
            /\ book' = book /\ generation' = generation /\ compacting' = compacting
        BY <2>3 DEF SkipRetired, ContainsRetired, memory
      <3>2. book = dir.snapshot.book /\ generation = dir.snapshot.gen /\ ~compacting
        BY <2>1, <3>1 DEF StartHolds, Recovering
      <3>3. ~Counts(dir) /\ DiskBase = dir.snapshot.book
        BY <1>3, <3>1, <3>2 DEF Counts, DiskBase, BaseIn
      <3>4. StartHolds'
        BY <1>2, <3>1, <3>2, <3>3 DEF StartHolds, Recovering, Publishing, Removing, Unmarking,
          Compacting, Recovered, Opened, MatcherStates
      <3>5. StartTyped'
        BY <2>1, <3>1 DEF StartTyped, StartupStates
      <3>6. pc \in BeforeOpen /\ pc' \in BeforeOpen
        BY <3>1, States DEF Recovering, Compacting, Removing
      <3>7. QED
        BY <2>1, <3>4, <3>5, <3>6
    <2>4. CASE ReplayRetired
      <3>1. /\ pc = "retired" /\ pc' = "publish" /\ dir.marker # 0 /\ ~(generation >= dir.marker)
            /\ book' = Cat(book, Records(Content(dir.retired))) /\ generation' = dir.marker
            /\ compacting' = compacting
        BY <2>4 DEF ReplayRetired, ContainsRetired, Cat
      <3>2. book = dir.snapshot.book /\ generation = dir.snapshot.gen /\ ~compacting
        BY <2>1, <3>1 DEF StartHolds, Recovering
      <3>3. Counts(dir)
        BY <1>3, <3>1, <3>2 DEF Counts
      <3>4. DiskBase = book'
        BY <3>1, <3>2, <3>3 DEF DiskBase, BaseIn, Found, In, Content
      <3>5. StartHolds'
        BY <1>2, <1>3, <3>1, <3>2, <3>4 DEF StartHolds, Recovering, Publishing, Removing,
          Unmarking, Compacting, Recovered, Opened, MatcherStates
      <3>6. StartTyped'
        BY <1>3, <2>1, <3>1, <3>4 DEF StartTyped, StartupStates
      <3>7. pc \in BeforeOpen /\ pc' \in BeforeOpen
        BY <3>1, States DEF Recovering, Compacting, Publishing
      <3>8. QED
        BY <2>1, <3>5, <3>6, <3>7
    <2>5. CASE ReplayJournal
      <3>1. /\ pc = "replay" /\ pc' = "recovered"
            /\ book' = Cat(book, Records(Content(dir.journal)))
            /\ generation' = generation /\ compacting' = compacting
        BY <2>5 DEF ReplayJournal, Cat
      <3>2. book = DiskBase /\ generation = dir.snapshot.gen /\ dir.retired = NoFile
        BY <2>1, <3>1 DEF StartHolds, Recovering
      <3>3. DiskLog = book'
        BY <3>1, <3>2 DEF DiskLog, DiskBase, LogIn, Found, In, Content
      <3>4. StartHolds'
        BY <1>2, <3>1, <3>2, <3>3 DEF StartHolds, Recovering, Publishing, Removing, Unmarking,
          Compacting, Recovered, Opened, MatcherStates
      <3>5. StartTyped'
        BY <1>3, <2>1, <3>1, <3>3 DEF StartTyped, StartupStates
      <3>6. pc \in BeforeOpen /\ pc' \in BeforeOpen
        BY <3>1, States DEF Recovered
      <3>7. QED
        BY <2>1, <3>4, <3>5, <3>6
    <2>6. CASE Refuse
      <3>1. /\ pc \in {"retired", "replay"} /\ pc' = "refused"
            /\ book' = book /\ generation' = generation /\ compacting' = compacting
        BY <2>6 DEF Refuse, memory
      <3>2. StartHolds'
        BY <3>1 DEF StartHolds, Recovering, Publishing, Removing, Unmarking,
          Compacting, Recovered, Opened, MatcherStates
      <3>3. StartTyped'
        BY <2>1, <3>1 DEF StartTyped
      <3>4. pc \in BeforeOpen /\ pc' \in BeforeOpen
        BY <3>1, States DEF Recovering
      <3>5. QED
        BY <2>1, <3>2, <3>3, <3>4
    <2>7. QED
      BY <2>2, <2>3, <2>4, <2>5, <2>6
  <1>5. QED
    BY <1>1, <1>2, <1>4, StartKeeps

(* Changing the names around the journal.                                  *)
LEMMA NamingHolds ==
  ASSUME EngineInv, UNCHANGED Others,
         AdoptUnmarked \/ PublishSnapshot \/ RemoveRetired \/ RemoveMarker \/ MarkGeneration
  PROVE  EngineInv' /\ Full' = Full /\ DiskLog' = DiskLog
  <1>1. /\ UNCHANGED <<setup, data, synced, buffer>> /\ UNCHANGED buffer
        /\ book' = book /\ generation' = generation /\ compacting' = compacting
    BY DEF Others, AdoptUnmarked, PublishSnapshot, RemoveRetired, RemoveMarker, MarkGeneration,
      memory
  <1>2. DiskInv /\ StartTyped /\ StartHolds
    BY DEF EngineInv
  <1>3. /\ dir \in Directory /\ data \in Files
        /\ dir.marker \in Nat /\ dir.snapshot.gen \in Nat /\ dir.snapshot.book \in Seq(Command)
        /\ dir.journal \in {NoFile} \cup Inode /\ dir.retired \in {NoFile} \cup Inode
        /\ book \in Seq(Command) /\ generation \in Nat
    BY <1>2, DirectoryFacts DEF DiskInv, DiskTyped, StartTyped
  <1>4. CASE AdoptUnmarked
    <2> DEFINE new == [dir EXCEPT !.marker = 1]
    <2>1. pc = "retired" /\ pc' = "adopted" /\ dir.marker = 0 /\ generation = 0 /\ NewDir(new)
      BY <1>4 DEF AdoptUnmarked
    <2>2. book = dir.snapshot.book /\ generation = dir.snapshot.gen /\ ~compacting
      BY <1>2, <2>1 DEF StartHolds, Recovering
    <2>3. /\ new \in Directory /\ new.journal = dir.journal /\ new.retired = dir.retired
          /\ new.snapshot = dir.snapshot /\ new.marker = 1
      BY <1>3 DEF Directory
    <2> HIDE DEF new
    <2>4. Counts(new) /\ Counts(dir)
      BY <2>1, <2>2, <2>3 DEF Counts
    <2>5. BaseIn(data, new) = DiskBase
      BY <2>3, <2>4 DEF BaseIn, DiskBase
    <2>6. DiskInv' /\ DiskLog' = DiskLog /\ DiskBase' = DiskBase
      BY <1>1, <1>2, <2>1, <2>3, <2>4, <2>5, NamesStep
    <2>7. dir' = new
      BY <2>1 DEF NewDir
    <2>8. StartHolds'
      BY <1>1, <2>1, <2>2, <2>3, <2>7 DEF StartHolds, Recovering, Publishing, Removing,
        Unmarking, Compacting, Recovered, Opened, MatcherStates
    <2>9. StartTyped'
      BY <1>1, <1>2, <2>1 DEF StartTyped, StartupStates, AfterSync
    <2>10. pc \in BeforeOpen /\ pc' \in BeforeOpen
      BY <2>1, States DEF Recovering
    <2>11. QED
      BY <1>1, <2>6, <2>8, <2>9, <2>10, StartKeeps
  <1>5. CASE PublishSnapshot
    <2> DEFINE new == [dir EXCEPT !.snapshot = [gen |-> generation, book |-> book]]
    <2>1. pc = "publish" /\ pc' = "published" /\ NewDir(new)
      BY <1>5 DEF PublishSnapshot
    <2>2. /\ book = DiskBase /\ generation = dir.marker /\ generation > 0
          /\ compacting => dir.journal = NoFile
      BY <1>2, <2>1 DEF StartHolds, Publishing, Compacting
    <2>3. /\ new \in Directory /\ new.journal = dir.journal /\ new.retired = dir.retired
          /\ new.snapshot.gen = generation /\ new.snapshot.book = book /\ new.marker = dir.marker
      BY <1>3 DEF Directory
    <2> HIDE DEF new
    <2>4. ~Counts(new)
      BY <1>3, <2>2, <2>3 DEF Counts
    <2>5. BaseIn(data, new) = DiskBase
      BY <2>2, <2>3, <2>4 DEF BaseIn
    <2>6. DiskInv' /\ DiskLog' = DiskLog /\ DiskBase' = DiskBase
      BY <1>1, <1>2, <2>1, <2>3, <2>4, <2>5, NamesStep
    <2>7. dir' = new
      BY <2>1 DEF NewDir
    <2>8. StartHolds'
      BY <1>1, <2>1, <2>2, <2>3, <2>4, <2>6, <2>7 DEF StartHolds, Recovering, Publishing, Removing,
        Unmarking, Compacting, Recovered, Opened, MatcherStates
    <2>9. StartTyped'
      BY <1>1, <1>2, <2>1 DEF StartTyped, StartupStates, AfterSync
    <2>10. pc \in BeforeOpen /\ pc' \in BeforeOpen
      BY <2>1, States DEF Publishing, Removing, Compacting
    <2>11. QED
      BY <1>1, <2>6, <2>8, <2>9, <2>10, StartKeeps
  <1>6. CASE RemoveRetired
    <2> DEFINE new == [dir EXCEPT !.retired = NoFile]
    <2>1. pc = "remove" /\ pc' = "removed" /\ NewDir(new)
      BY <1>6 DEF RemoveRetired
    <2>2. /\ book = DiskBase /\ ~Counts(dir) /\ generation = dir.snapshot.gen
          /\ compacting => dir.journal = NoFile
      BY <1>2, <2>1 DEF StartHolds, Removing, Compacting
    <2>3. /\ new \in Directory /\ new.journal = dir.journal /\ new.retired = NoFile
          /\ new.snapshot = dir.snapshot /\ new.marker = dir.marker
      BY <1>3 DEF Directory
    <2> HIDE DEF new
    <2>4. ~Counts(new)
      BY <2>2, <2>3 DEF Counts
    <2>5. BaseIn(data, new) = DiskBase
      BY <2>2, <2>3, <2>4 DEF BaseIn, DiskBase
    <2>6. DiskInv' /\ DiskLog' = DiskLog /\ DiskBase' = DiskBase
      BY <1>1, <1>2, <2>1, <2>3, <2>4, <2>5, NamesStep
    <2>7. dir' = new
      BY <2>1 DEF NewDir
    <2>8. StartHolds'
      BY <1>1, <2>1, <2>2, <2>3, <2>6, <2>7 DEF StartHolds, Recovering, Publishing, Removing,
        Unmarking, Compacting, Recovered, Opened, MatcherStates
    <2>9. StartTyped'
      BY <1>1, <1>2, <2>1 DEF StartTyped, StartupStates, AfterSync
    <2>10. pc \in BeforeOpen /\ pc' \in BeforeOpen
      BY <2>1, States DEF Removing, Unmarking, Compacting
    <2>11. QED
      BY <1>1, <2>6, <2>8, <2>9, <2>10, StartKeeps
  <1>7. CASE RemoveMarker
    <2> DEFINE new == [dir EXCEPT !.marker = 0]
    <2>1. pc = "unmark" /\ pc' = "unmarked" /\ NewDir(new)
      BY <1>7 DEF RemoveMarker
    <2>2. /\ book = DiskBase /\ generation = dir.snapshot.gen /\ dir.retired = NoFile
          /\ compacting => dir.journal = NoFile
      BY <1>2, <2>1 DEF StartHolds, Unmarking, Compacting
    <2>3. /\ new \in Directory /\ new.journal = dir.journal /\ new.retired = NoFile
          /\ new.snapshot = dir.snapshot
      BY <1>3, <2>2 DEF Directory
    <2> HIDE DEF new
    <2>4. BaseIn(data, new) = DiskBase
      BY <1>3, <2>2, <2>3, NothingRetired DEF DiskBase
    <2>5. DiskInv' /\ DiskLog' = DiskLog /\ DiskBase' = DiskBase
      BY <1>1, <1>2, <2>1, <2>3, <2>4, NamesStep
    <2>6. dir' = new
      BY <2>1 DEF NewDir
    <2>7. StartHolds'
      BY <1>1, <2>1, <2>2, <2>3, <2>5, <2>6 DEF StartHolds, Recovering, Publishing, Removing,
        Unmarking, Compacting, Recovered, Opened, MatcherStates
    <2>8. StartTyped'
      BY <1>1, <1>2, <2>1 DEF StartTyped, StartupStates, AfterSync
    <2>9. pc \in BeforeOpen /\ pc' \in BeforeOpen
      BY <2>1, States DEF Unmarking, Compacting
    <2>10. QED
      BY <1>1, <2>5, <2>7, <2>8, <2>9, StartKeeps
  <1>8. CASE MarkGeneration
    <2> DEFINE new == [dir EXCEPT !.marker = generation + 1]
    <2>1. pc = "recovered" /\ pc' = "marked" /\ NewDir(new)
      BY <1>8 DEF MarkGeneration
    <2>2. book = DiskLog /\ generation = dir.snapshot.gen /\ dir.retired = NoFile
      BY <1>2, <2>1 DEF StartHolds, Recovered
    <2>3. /\ new \in Directory /\ new.journal = dir.journal /\ new.retired = NoFile
          /\ new.snapshot = dir.snapshot /\ new.marker = generation + 1
      <3>1. /\ dir.journal \in {NoFile} \cup Inode /\ dir.retired = NoFile
            /\ dir.snapshot \in [gen : Nat, book : Seq(Command)]
            /\ dir = [journal |-> dir.journal, retired |-> dir.retired,
                      marker |-> dir.marker, snapshot |-> dir.snapshot]
        BY <1>3, <2>2 DEF Directory
      <3>2. generation + 1 \in Nat
        BY <3>1, <2>2
      <3>3. new = [journal |-> dir.journal, retired |-> dir.retired,
                   marker |-> generation + 1, snapshot |-> dir.snapshot]
        BY <3>1
      <3>4. QED
        BY ONLY <3>1, <3>2, <3>3 DEF Directory
    <2> HIDE DEF new
    <2>4. BaseIn(data, new) = DiskBase
      BY <1>3, <2>2, <2>3, NothingRetired DEF DiskBase
    <2>5. DiskInv' /\ DiskLog' = DiskLog /\ DiskBase' = DiskBase
      BY <1>1, <1>2, <2>1, <2>3, <2>4, NamesStep
    <2>6. dir' = new
      BY <2>1 DEF NewDir
    <2>7. StartHolds'
      BY <1>1, <2>1, <2>2, <2>3, <2>5, <2>6 DEF StartHolds, Recovering, Publishing, Removing,
        Unmarking, Compacting, Recovered, Opened, MatcherStates
    <2>8. StartTyped'
      BY <1>1, <1>2, <2>1 DEF StartTyped, StartupStates, AfterSync
    <2>9. pc \in BeforeOpen /\ pc' \in BeforeOpen
      BY <2>1, States DEF Recovered
    <2>10. QED
      BY <1>1, <2>5, <2>7, <2>8, <2>9, StartKeeps
  <1>9. QED
    BY <1>4, <1>5, <1>6, <1>7, <1>8

LEMMA SyncDirectoryHolds ==
  ASSUME EngineInv, UNCHANGED Others, SyncDirectory
  PROVE  EngineInv' /\ Full' = Full /\ DiskLog' = DiskLog
  <1>1. /\ pc \in DOMAIN AfterSync /\ pc' = AfterSync[pc] /\ dirs' = {dir}
        /\ dir' = dir /\ data' = data /\ synced' = synced /\ buffer' = buffer /\ setup' = setup
        /\ book' = book /\ generation' = generation /\ compacting' = compacting
    BY DEF SyncDirectory, SyncDir, memory, Others
  <1>2. DiskInv /\ StartTyped /\ StartHolds
    BY DEF EngineInv
  <1>3. DiskInv' /\ DiskLog' = DiskLog /\ DiskBase' = DiskBase
    BY <1>1, <1>2 DEF DiskInv, DiskTyped, DirsHold, DiskLog, DiskBase
  <1>4. \/ pc = "adopted" /\ pc' = "retired"
        \/ pc = "published" /\ pc' = "remove"
        \/ pc = "removed" /\ pc' = "unmark"
        \/ pc = "unmarked" /\ compacting /\ pc' = "create"
        \/ pc = "unmarked" /\ ~compacting /\ pc' = "replay"
        \/ pc = "marked" /\ pc' = "retire"
        \/ pc = "renamed" /\ pc' = "publish"
        \/ pc = "created" /\ pc' = "recovered"
    BY <1>1 DEF AfterSync
  <1>5. pc \in BeforeOpen /\ pc' \in BeforeOpen
    BY <1>4, States DEF Recovering, Compacting, Publishing, Removing, Unmarking, Recovered
  <1>6. StartTyped'
    <2>1. book \in Seq(Command) /\ generation \in Nat /\ compacting \in BOOLEAN
      BY <1>2 DEF StartTyped
    <2>2. book' = book /\ generation' = generation /\ compacting' = compacting
      BY <1>1
    <2>3. QED
      BY <1>4, <2>1, <2>2 DEF StartTyped, StartupStates, AfterSync
  <1>7. StartHolds'
    BY <1>1, <1>2, <1>3, <1>4 DEF StartHolds, Recovering, Publishing, Removing,
      Unmarking, Compacting, Recovered, Opened, MatcherStates
  <1>8. QED
    BY <1>1, <1>3, <1>5, <1>6, <1>7, StartKeeps

LEMMA RetireHolds ==
  ASSUME EngineInv, UNCHANGED Others, RetireJournal
  PROVE  EngineInv' /\ Full' = Full /\ DiskLog' = DiskLog
  <1> DEFINE new == [dir EXCEPT !.retired = dir.journal, !.journal = NoFile]
  <1>1. /\ pc = "retire" /\ pc' = "renamed" /\ dir' = new /\ dirs' = dirs \cup {new}
        /\ generation' = generation + 1 /\ compacting' = TRUE /\ book' = book
        /\ data' = data /\ synced' = synced /\ buffer' = buffer /\ setup' = setup
    BY DEF RetireJournal, NewDir, Others
  <1>2. DiskInv /\ StartTyped /\ StartHolds
    BY DEF EngineInv
  <1>3. /\ dirs = {dir} /\ dir.retired = NoFile /\ dir.marker = generation + 1
        /\ generation = dir.snapshot.gen /\ book = DiskLog /\ generation \in Nat
    BY <1>1, <1>2 DEF StartHolds, StartTyped, Recovered
  <1>4. /\ dir \in Directory /\ data \in Files
        /\ DirsHold({dir}, dir, data, synced)
    BY <1>2, <1>3 DEF DiskInv, DiskTyped
  <1>5. /\ new \in Directory /\ Counts(new)
        /\ DirsHold({dir, new}, new, data, synced)
        /\ BaseIn(data, new) = LogIn(data, dir) /\ LogIn(data, new) = LogIn(data, dir)
    BY <1>3, <1>4, JournalRetires
  <1>6. new.journal = NoFile /\ new.marker = generation + 1
    BY <1>3, <1>4 DEF Directory
  <1> HIDE DEF new
  <1>7. dirs' = {dir, new}
    BY <1>1, <1>3
  <1>8. DiskTyped'
    BY <1>1, <1>2, <1>4, <1>5, <1>7 DEF DiskInv, DiskTyped
  <1>9. DiskInv' /\ DiskLog' = DiskLog /\ DiskBase' = DiskLog
    BY <1>1, <1>5, <1>7, <1>8 DEF DiskInv, DiskLog, DiskBase
  <1>10. StartHolds'
    BY <1>1, <1>3, <1>6, <1>9 DEF StartHolds, Recovering, Publishing, Removing,
      Unmarking, Compacting, Recovered, Opened, MatcherStates
  <1>11. StartTyped'
    BY <1>1, <1>2 DEF StartTyped, StartupStates, AfterSync
  <1>12. pc \in BeforeOpen /\ pc' \in BeforeOpen
    BY <1>1, States DEF Recovered, Publishing, Compacting
  <1>13. QED
    BY <1>1, <1>9, <1>10, <1>11, <1>12, StartKeeps

(* A journal where there was none.                                         *)
LEMMA CreateStep ==
  ASSUME DiskInv, UNCHANGED <<setup, buffer>>, CreateJournal,
         dir.journal = NoFile, dir.retired = NoFile
  PROVE  /\ DiskInv' /\ DiskLog' = DiskLog
         /\ dir'.journal # NoFile /\ dir'.retired = NoFile /\ dir'.snapshot = dir.snapshot
  <1>1. PICK i \in Unused : /\ NewDir(WithJournal(dir, i))
                            /\ data' = EmptyFile(data, i) /\ synced' = Unsynced(synced, i)
    BY DEF CreateJournal, WithJournal, EmptyFile, Unsynced
  <1> DEFINE new == WithJournal(dir, i)
  <1>2. /\ i \in Inode /\ \A d \in dirs : i \notin {d.journal, d.retired}
    BY DEF Unused
  <1>3. /\ dirs \in SUBSET Directory /\ dir \in dirs /\ dir \in Directory /\ data \in Files
        /\ synced \in [Inode -> Nat] /\ DirsHold(dirs, dir, data, synced)
        /\ \A j \in Inode : synced[j] <= Len(data[j])
    BY DEF DiskInv, DiskTyped
  <1>4. dir' = new /\ dirs' = dirs \cup {new}
    BY <1>1 DEF NewDir
  <1> DEFINE files == EmptyFile(data, i)
             safe == Unsynced(synced, i)
  <1>5. /\ new \in Directory /\ data' \in Files /\ synced' \in [Inode -> Nat]
        /\ DirsHold(dirs \cup {new}, new, data', synced')
        /\ BaseIn(data', new) = BaseIn(data, dir)
        /\ LogIn(data', new) = LogIn(data, dir)
    <2>1. /\ new \in Directory /\ files \in Files /\ safe \in Marks
          /\ DirsHold(dirs \cup {new}, new, files, safe)
          /\ BaseIn(files, new) = BaseIn(data, dir) /\ LogIn(files, new) = LogIn(data, dir)
      <3>1. dir \in dirs /\ DirsHold(dirs, dir, data, synced) /\ data \in Files
            /\ synced \in Marks /\ dirs \in SUBSET Directory
        BY <1>3 DEF Marks
      <3>2. Free(dirs, i)
        BY <1>2 DEF Free
      <3> HIDE DEF new, files, safe
      <3>3. new = WithJournal(dir, i) /\ files = EmptyFile(data, i) /\ safe = Unsynced(synced, i)
        BY DEF new, files, safe
      <3>4. i \in Inode
        BY <1>2
      <3>5. QED
        <4>1. ASSUME NEW d, d = dir, NEW ds, ds = dirs, NEW f, f = data, NEW s, s = synced
              PROVE  LET w == WithJournal(d, i)
                         e == EmptyFile(f, i)
                         u == Unsynced(s, i)
                     IN /\ w \in Directory /\ e \in Files /\ u \in Marks
                        /\ DirsHold(ds \cup {w}, w, e, u)
                        /\ BaseIn(e, w) = BaseIn(f, d) /\ LogIn(e, w) = LogIn(f, d)
          <5>1. d.journal = NoFile /\ d.retired = NoFile
            BY <4>1
          <5>2. d \in ds /\ f \in Files /\ s \in Marks /\ ds \in SUBSET Directory
            BY <3>1, <4>1
          <5>3. DirsHold(ds, d, f, s) /\ Free(ds, i)
            BY <3>1, <3>2, <4>1
          <5>4. WithJournal(d, i) \in Directory /\ EmptyFile(f, i) \in Files
            BY <3>4, <5>1, <5>2, <5>3, JournalCreated
          <5>5. Unsynced(s, i) \in Marks
            BY <3>4, <5>1, <5>2, <5>3, JournalCreated
          <5>6. DirsHold(ds \cup {WithJournal(d, i)}, WithJournal(d, i), EmptyFile(f, i), Unsynced(s, i))
            BY <3>4, <5>1, <5>2, <5>3, JournalCreated
          <5>7. BaseIn(EmptyFile(f, i), WithJournal(d, i)) = BaseIn(f, d)
            BY <3>4, <5>1, <5>2, <5>3, <5>4, <5>5, <5>6, JournalCreated
          <5>8. LogIn(EmptyFile(f, i), WithJournal(d, i)) = LogIn(f, d)
            BY <3>4, <5>1, <5>2, <5>3, <5>4, <5>5, <5>6, JournalCreated
          <5>9. QED
            BY <5>4, <5>5, <5>6, <5>7, <5>8
        <4>2. QED
          BY <3>3, <4>1
    <2>2. QED
      BY <1>1, <2>1 DEF Marks
  <1>6. new.journal = i /\ new.retired = NoFile /\ new.snapshot = dir.snapshot
    BY <1>3 DEF Directory, WithJournal
  <1> HIDE DEF new
  <1>7. ASSUME NEW j \in Inode PROVE synced'[j] <= Len(data'[j])
    <2>1. Len(<<>>) = 0
      OBVIOUS
    <2>2. j = i => synced'[j] = 0 /\ data'[j] = <<>>
      BY <1>1, <1>3 DEF Files, EmptyFile, Unsynced
    <2>3. j # i => synced'[j] = synced[j] /\ data'[j] = data[j]
      BY <1>1, <1>3 DEF Files, EmptyFile, Unsynced
    <2>4. QED
      BY <1>3, <2>1, <2>2, <2>3
  <1>8. DiskTyped'
    BY <1>3, <1>4, <1>5, <1>7 DEF DiskInv, DiskTyped
  <1>9. DiskInv' /\ DiskLog' = DiskLog
    BY <1>4, <1>5, <1>8 DEF DiskInv, DiskLog
  <1>10. QED
    BY <1>2, <1>4, <1>6, <1>9, Inodes

LEMMA CreateEmptyHolds ==
  ASSUME EngineInv, UNCHANGED Others, CreateEmpty
  PROVE  EngineInv' /\ Full' = Full /\ DiskLog' = DiskLog
  <1>1. /\ pc = "create" /\ pc' = "created" /\ CreateJournal
        /\ book' = book /\ generation' = generation /\ compacting' = compacting
        /\ buffer' = buffer /\ setup' = setup
    BY DEF CreateEmpty, memory, Others
  <1>2. DiskInv /\ StartTyped /\ StartHolds
    BY DEF EngineInv
  <1>3. /\ dir.journal = NoFile /\ dir.retired = NoFile /\ book = DiskBase
        /\ generation = dir.snapshot.gen
    BY <1>1, <1>2 DEF StartHolds, Compacting, Unmarking
  <1>4. /\ DiskInv' /\ DiskLog' = DiskLog
        /\ dir'.journal # NoFile /\ dir'.retired = NoFile /\ dir'.snapshot = dir.snapshot
    BY <1>1, <1>2, <1>3, CreateStep
  <1>5. DiskLog = DiskBase
    BY <1>2, <1>3, NoJournal DEF DiskInv, DiskTyped, DiskLog, DiskBase
  <1>6. StartHolds'
    BY <1>1, <1>3, <1>4, <1>5 DEF StartHolds, Recovering, Publishing, Removing,
      Unmarking, Compacting, Recovered, Opened, MatcherStates
  <1>7. StartTyped'
    BY <1>1, <1>2 DEF StartTyped, StartupStates, AfterSync
  <1>8. pc \in BeforeOpen /\ pc' \in BeforeOpen
    BY <1>1, States DEF Compacting
  <1>9. QED
    BY <1>1, <1>4, <1>6, <1>7, <1>8, StartKeeps

-----------------------------------------------------------------------------
(* Writing to the journal that is open.                                    *)

LEMMA WriteStep ==
  ASSUME DiskInv, dir.journal # NoFile, UNCHANGED <<setup, dir, dirs, synced>>,
         NEW x \in Seq(Piece), data' = WrittenTo(data, dir.journal, x),
         buffer' \in Seq(Piece), Len(buffer') <= setup.bufferPieces
  PROVE  /\ DiskInv' /\ DiskLog' = Cat(DiskLog, Records(x))
         /\ Full' = Cat(DiskLog, Records(Cat(x, buffer')))
         /\ IsPrefix(DiskLog, DiskLog')
         /\ DiskLog \in Seq(Command) /\ DiskLog' \in Seq(Command)
  <1>1. /\ data \in Files /\ dirs \in SUBSET Directory /\ dir \in dirs /\ dir \in Directory
        /\ DirsHold(dirs, dir, data, synced) /\ synced \in [Inode -> Nat]
        /\ \A i \in Inode : synced[i] <= Len(data[i])
    BY DEF DiskInv, DiskTyped
  <1> DEFINE files == WrittenTo(data, dir.journal, x)
  <1>2. /\ files \in Files /\ DirsHold(dirs, dir, files, synced)
        /\ LogIn(files, dir) = Cat(LogIn(data, dir), Records(x))
    <2>1. files = WrittenTo(data, dir.journal, x)
      OBVIOUS
    <2> HIDE DEF files
    <2>2. files \in Files /\ DirsHold(dirs, dir, files, synced)
      BY <1>1, <2>1, JournalWritten
    <2>3. LogIn(files, dir) = Cat(LogIn(data, dir), Records(x))
      BY <1>1, <2>1, JournalWritten
    <2>4. QED
      BY <2>2, <2>3
  <1>3. \A i \in Inode : synced[i] <= Len(files[i])
    <2>1. dir.journal \in Inode
      BY <1>1, DirectoryFacts
    <2>2. data[dir.journal] \in Seq(Piece)
      BY <1>1, <2>1 DEF Files
    <2>3. Len(Cat(data[dir.journal], x)) = Len(data[dir.journal]) + Len(x)
          /\ Len(data[dir.journal]) \in Nat /\ Len(x) \in Nat
      BY <2>2, CatType, LenProperties
    <2>4. \A i \in Inode : files[i] = IF i = dir.journal THEN Cat(data[dir.journal], x) ELSE data[i]
      BY <1>1 DEF Files, WrittenTo
    <2> HIDE DEF files
    <2>5. \A i \in Inode : synced[i] \in Nat
      BY <1>1
    <2>6. ASSUME NEW i \in Inode PROVE synced[i] <= Len(files[i])
      <3>1. CASE i = dir.journal
        BY <1>1, <2>1, <2>3, <2>4, <2>5, <3>1
      <3>2. CASE i # dir.journal
        BY <1>1, <2>4, <3>2
      <3>3. QED
        BY <3>1, <3>2
    <2>7. QED
      BY <2>6
  <1> HIDE DEF files
  <1>4. data' = files
    BY DEF files
  <1>5. DiskTyped'
    BY <1>1, <1>2, <1>3, <1>4 DEF DiskInv, DiskTyped
  <1>6. DiskInv'
    BY <1>2, <1>4, <1>5 DEF DiskInv
  <1>7. DiskLog' = Cat(DiskLog, Records(x))
    BY <1>2, <1>4 DEF DiskLog
  <1>8. DiskLog \in Seq(Command) /\ Records(x) \in Seq(Command) /\ Records(buffer') \in Seq(Command)
    BY <1>1, DirectoryFacts, RecordsCat DEF DiskLog
  <1>9. IsPrefix(DiskLog, DiskLog') /\ DiskLog' \in Seq(Command)
    BY <1>7, <1>8, CatPrefix, CatType
  <1>10. Full' = Cat(DiskLog, Records(Cat(x, buffer')))
    <2>1. Full' = Cat(Cat(DiskLog, Records(x)), Records(buffer'))
      BY <1>7 DEF Full
    <2>2. Records(Cat(x, buffer')) = Cat(Records(x), Records(buffer'))
      BY RecordsCat
    <2>3. QED
      BY <1>8, <2>1, <2>2, CatCat
  <1>11. QED
    BY <1>6, <1>7, <1>8, <1>9, <1>10

(* A line, or any beginning of it, behind the buffer.                      *)
LEMMA LineBehind ==
  ASSUME NEW base \in Seq(Command), NEW b \in Seq(Piece), NEW c \in Command,
         NEW line \in Seq(Piece), NEW full, full = Cat(base, Records(b))
  PROVE  /\ full \in Seq(Command)
         /\ Records(line) = <<c>> => Cat(base, Records(Cat(b, line))) = Plus(full, c)
         /\ Records(line) = <<>> => Cat(base, Records(Cat(b, line))) = full
  <1>1. /\ Records(b) \in Seq(Command) /\ Records(line) \in Seq(Command)
        /\ Records(Cat(b, line)) = Cat(Records(b), Records(line))
    BY RecordsCat
  <1>2. full \in Seq(Command) /\ Cat(base, Records(Cat(b, line))) = Cat(full, Records(line))
    BY <1>1, CatType, CatCat
  <1>3. Cat(full, <<>>) = full
    BY <1>2, CatEmpty
  <1>4. Plus(full, c) = Cat(full, <<c>>)
    BY <1>2, PlusIsCat
  <1>5. QED
    BY <1>2, <1>3, <1>4

LEMMA RoomIs ==
  DiskTyped => /\ Room \in Nat /\ Room + Len(buffer) = setup.bufferPieces
               /\ setup.bufferPieces \in Nat /\ setup.bufferPieces >= 3
               /\ Len(buffer) \in Nat
  <1>1. DiskTyped => setup.bufferPieces \in Nat /\ setup.bufferPieces >= 3
                     /\ Len(buffer) \in Nat /\ Len(buffer) <= setup.bufferPieces
    BY Assumed, LenProperties DEF DiskTyped
  <1>2. QED
    BY <1>1 DEF Room, BufferPieces

(* The beginning of a line that fits the buffer.                           *)
LEMMA Fits ==
  ASSUME DiskTyped, NEW c \in Command, Room < 3
  PROVE  /\ SubSeq(Line(c), 1, Room) \in Seq(Piece) /\ SubSeq(Line(c), Room + 1, 3) \in Seq(Piece)
         /\ Len(SubSeq(Line(c), Room + 1, 3)) <= setup.bufferPieces
         /\ Line(c) = Cat(SubSeq(Line(c), 1, Room), SubSeq(Line(c), Room + 1, 3))
         /\ Records(SubSeq(Line(c), 1, Room)) \in {<<>>, <<c>>}
         /\ Len(Cat(buffer, SubSeq(Line(c), 1, Room))) = setup.bufferPieces
  <1>1. Room \in Nat /\ Room + Len(buffer) = setup.bufferPieces /\ setup.bufferPieces >= 3
        /\ Len(buffer) \in Nat
    BY RoomIs
  <1>2. Room \in 0 .. 2 /\ Room \in 0 .. 3
    BY <1>1
  <1>3. Line(c) \in Seq(Piece) /\ Len(Line(c)) = 3
        /\ Records(SubSeq(Line(c), 1, Room)) \in {<<>>, <<c>>}
    BY <1>2, LineFacts
  <1>4. ASSUME NEW p \in Seq(Piece), Len(p) = 3, NEW k \in 0 .. 3
        PROVE  /\ SubSeq(p, 1, k) \in Seq(Piece) /\ SubSeq(p, k + 1, 3) \in Seq(Piece)
               /\ Len(SubSeq(p, k + 1, 3)) = 3 - k /\ Len(SubSeq(p, 1, k)) = k
               /\ p = Cat(SubSeq(p, 1, k), SubSeq(p, k + 1, 3))
    <2>1. \A n : n = Len(p) /\ k \in 0 .. n =>
            /\ SubSeq(p, 1, k) \in Seq(Piece) /\ SubSeq(p, k + 1, n) \in Seq(Piece)
            /\ Len(SubSeq(p, k + 1, n)) = n - k /\ Len(SubSeq(p, 1, k)) = k
            /\ p = Cat(SubSeq(p, 1, k), SubSeq(p, k + 1, n))
      BY RecordsPrefix
    <2>2. QED
      BY <1>4, <2>1
  <1>5. /\ SubSeq(Line(c), 1, Room) \in Seq(Piece) /\ SubSeq(Line(c), Room + 1, 3) \in Seq(Piece)
        /\ Len(SubSeq(Line(c), Room + 1, 3)) = 3 - Room /\ Len(SubSeq(Line(c), 1, Room)) = Room
        /\ Line(c) = Cat(SubSeq(Line(c), 1, Room), SubSeq(Line(c), Room + 1, 3))
    BY <1>2, <1>3, <1>4
  <1>6. buffer \in Seq(Piece)
    BY DEF DiskTyped
  <1>7. Len(Cat(buffer, SubSeq(Line(c), 1, Room))) = Len(buffer) + Room
    BY <1>5, <1>6, CatType
  <1>8. QED
    BY <1>1, <1>3, <1>5, <1>7

LEMMA AppendLog ==
  ASSUME DiskInv, dir.journal # NoFile, UNCHANGED <<setup, dir, dirs, synced>>,
         NEW c \in Command, Append1(c)
  PROVE  /\ DiskInv' /\ Full' = Plus(Full, c) /\ IsPrefix(DiskLog, DiskLog')
         /\ Room >= 3 => DiskLog' = DiskLog /\ Len(buffer') = Len(buffer) + 3
  <1>1. DiskTyped /\ buffer \in Seq(Piece)
    BY DEF DiskInv, DiskTyped
  <1>2. Room \in Nat /\ Room + Len(buffer) = setup.bufferPieces /\ Len(buffer) \in Nat
    BY <1>1, RoomIs
  <1>3. Line(c) \in Seq(Piece) /\ Len(Line(c)) = 3 /\ Records(Line(c)) = <<c>>
    BY LineFacts
  <1>4. DiskLog \in Seq(Command) /\ Full = Cat(DiskLog, Records(buffer))
    BY <1>1, LogIs DEF Full
  <1>5. Cat(DiskLog, Records(Cat(buffer, Line(c)))) = Plus(Full, c)
    BY <1>1, <1>3, <1>4, LineBehind
  <1>6. CASE Room >= 3
    <2>1. buffer' = Cat(buffer, Line(c)) /\ data' = data
      BY <1>2, <1>6 DEF Append1, Cat
    <2>2. buffer' \in Seq(Piece) /\ Len(buffer') = Len(buffer) + 3
      BY <1>1, <1>3, <2>1, CatType
    <2>3. Len(buffer') <= setup.bufferPieces
      BY <1>2, <1>6, <2>2
    <2>4. DiskTyped'
      BY <1>1, <2>1, <2>2, <2>3 DEF DiskTyped
    <2>5. DiskInv' /\ DiskLog' = DiskLog
      BY <2>1, <2>4 DEF DiskInv, DirsHold, DiskLog
    <2>6. Full' = Plus(Full, c)
      BY <1>5, <2>1, <2>5 DEF Full
    <2>7. IsPrefix(DiskLog, DiskLog')
      BY <1>4, <2>5, PrefixSelf
    <2>8. QED
      BY <2>2, <2>5, <2>6, <2>7
  <1>7. CASE ~(Room >= 3)
    <2> DEFINE front == SubSeq(Line(c), 1, Room)
               rest == SubSeq(Line(c), Room + 1, 3)
    <2>1. Room < 3
      BY <1>2, <1>7
    <2>2. /\ front \in Seq(Piece) /\ rest \in Seq(Piece) /\ Len(rest) <= setup.bufferPieces
          /\ Line(c) = Cat(front, rest)
      BY <1>1, <2>1, Fits
    <2>3. data' = WrittenTo(data, dir.journal, Cat(buffer, front)) /\ buffer' = rest
      BY <1>7 DEF Append1, Written, WrittenTo, Cat
    <2> HIDE DEF front, rest
    <2>4. Cat(buffer, front) \in Seq(Piece) /\ Cat(Cat(buffer, front), rest) = Cat(buffer, Line(c))
      BY <1>1, <2>2, CatType, CatCat
    <2>5. buffer' \in Seq(Piece) /\ Len(buffer') <= setup.bufferPieces
      BY <2>2, <2>3
    <2>6. /\ DiskInv' /\ Full' = Cat(DiskLog, Records(Cat(Cat(buffer, front), buffer')))
          /\ IsPrefix(DiskLog, DiskLog')
      BY <2>3, <2>4, <2>5, WriteStep
    <2>7. QED
      BY <1>5, <1>7, <2>3, <2>4, <2>6
  <1>8. QED
    BY <1>6, <1>7

LEMMA AppendFailsLog ==
  ASSUME DiskInv, dir.journal # NoFile, UNCHANGED <<setup, dir, dirs, synced>>,
         NEW c \in Command, AppendFails(c)
  PROVE  /\ DiskInv' /\ Full' \in {Full, Plus(Full, c)} /\ IsPrefix(DiskLog, DiskLog')
  <1> DEFINE front == SubSeq(Line(c), 1, Room)
             full == Cat(buffer, front)
  <1>1. DiskTyped /\ buffer \in Seq(Piece)
    BY DEF DiskInv, DiskTyped
  <1>2. Room < 3
    BY DEF AppendFails
  <1>3. /\ front \in Seq(Piece) /\ Records(front) \in {<<>>, <<c>>}
        /\ Len(full) = setup.bufferPieces
    BY <1>1, <1>2, Fits
  <1>4. PICK k \in 0 .. Len(full) - 1 :
          /\ data' = WrittenTo(data, dir.journal, SubSeq(full, 1, k))
          /\ buffer' = SubSeq(full, k + 1, Len(full))
    BY DEF AppendFails, Written, WrittenTo, Cat
  <1>5. DiskLog \in Seq(Command) /\ Full = Cat(DiskLog, Records(buffer))
    BY <1>1, LogIs DEF Full
  <1> HIDE DEF front
  <1>6. full \in Seq(Piece)
    BY <1>1, <1>3, CatType
  <1>7. Cat(DiskLog, Records(full)) \in {Full, Plus(Full, c)}
    BY <1>1, <1>3, <1>5, LineBehind
  <1> HIDE DEF full
  <1>8. Len(full) \in Nat /\ k \in 0 .. Len(full)
    BY <1>6, LenProperties
  <1>9. /\ SubSeq(full, 1, k) \in Seq(Piece) /\ buffer' \in Seq(Piece)
        /\ Len(buffer') = Len(full) - k /\ full = Cat(SubSeq(full, 1, k), buffer')
    BY <1>4, <1>6, <1>8, RecordsPrefix
  <1>10. Len(buffer') <= setup.bufferPieces
    BY <1>3, <1>8, <1>9
  <1>11. /\ DiskInv' /\ Full' = Cat(DiskLog, Records(Cat(SubSeq(full, 1, k), buffer')))
         /\ IsPrefix(DiskLog, DiskLog')
    BY <1>4, <1>9, <1>10, WriteStep
  <1>12. QED
    BY <1>7, <1>9, <1>11

LEMMA FlushLog ==
  ASSUME DiskInv, dir.journal # NoFile, UNCHANGED <<setup, dir, dirs>>, Flush
  PROVE  DiskInv' /\ buffer' = <<>> /\ DiskLog' = Full /\ Full' = Full
  <1>1. DiskTyped /\ buffer \in Seq(Piece)
    BY DEF DiskInv, DiskTyped
  <1>2. data' = WrittenTo(data, dir.journal, buffer) /\ buffer' = <<>> /\ synced' = synced
    BY DEF Flush, Written, WrittenTo, Cat
  <1>3. <<>> \in Seq(Piece) /\ Len(<<>>) <= setup.bufferPieces
    BY <1>1, RoomIs, EmptySeq
  <1>4. DiskInv' /\ DiskLog' = Cat(DiskLog, Records(buffer))
    BY <1>1, <1>2, <1>3, WriteStep
  <1>5. Full' = DiskLog'
    <2>1. DiskLog' \in Seq(Command)
      BY <1>1, <1>2, <1>3, WriteStep
    <2>2. QED
      BY <1>2, <2>1, CatEmpty, RecordsPlus DEF Full
  <1>6. QED
    BY <1>2, <1>4, <1>5 DEF Full

LEMMA FlushFailsLog ==
  ASSUME DiskInv, dir.journal # NoFile, UNCHANGED <<setup, dir, dirs, synced>>, FlushFails
  PROVE  /\ DiskInv' /\ buffer' = <<>> /\ Full' = DiskLog'
         /\ IsPrefix(DiskLog, DiskLog') /\ IsPrefix(DiskLog', Full)
  <1>1. DiskTyped /\ buffer \in Seq(Piece)
    BY DEF DiskInv, DiskTyped
  <1>2. PICK k \in 0 .. Len(buffer) : data' = WrittenTo(data, dir.journal, SubSeq(buffer, 1, k))
    BY DEF FlushFails, Written, WrittenTo, Cat
  <1>3. buffer' = <<>>
    BY DEF FlushFails
  <1>4. <<>> \in Seq(Piece) /\ Len(<<>>) <= setup.bufferPieces
    BY <1>1, RoomIs, EmptySeq
  <1>5. /\ SubSeq(buffer, 1, k) \in Seq(Piece)
        /\ IsPrefix(Records(SubSeq(buffer, 1, k)), Records(buffer))
    BY <1>1, RecordsPrefix
  <1>6. /\ DiskInv' /\ DiskLog' = Cat(DiskLog, Records(SubSeq(buffer, 1, k)))
        /\ IsPrefix(DiskLog, DiskLog') /\ DiskLog \in Seq(Command)
    BY <1>2, <1>3, <1>4, <1>5, WriteStep
  <1>7. Records(SubSeq(buffer, 1, k)) \in Seq(Command) /\ Records(buffer) \in Seq(Command)
    BY <1>1, <1>5, RecordsCat
  <1>8. IsPrefix(DiskLog', Full)
    BY <1>5, <1>6, <1>7, CatPrefixes DEF Full
  <1>9. Full' = DiskLog'
    <2>1. DiskLog' \in Seq(Command)
      BY <1>2, <1>3, <1>4, <1>5, WriteStep
    <2>2. QED
      BY <1>3, <2>1, CatEmpty, RecordsPlus DEF Full
  <1>10. QED
    BY <1>3, <1>6, <1>8, <1>9

LEMMA SyncLog ==
  ASSUME DiskInv, UNCHANGED <<setup, dir, data, buffer>>, SyncData
  PROVE  /\ DiskInv' /\ DiskLog' = DiskLog /\ Full' = Full /\ dirs' \in {dirs, {dir}}
  <1>1. /\ data \in Files /\ dirs \in SUBSET Directory /\ dir \in dirs /\ dir \in Directory
        /\ DirsHold(dirs, dir, data, synced) /\ synced \in [Inode -> Nat]
        /\ \A i \in Inode : synced[i] <= Len(data[i])
    BY DEF DiskInv, DiskTyped
  <1> DEFINE safe == [synced EXCEPT ![dir.journal] = Len(data[dir.journal])]
  <1>2. DirsHold(dirs, dir, data, safe)
    BY <1>1, FileSynced
  <1>3. safe \in [Inode -> Nat] /\ \A i \in Inode : safe[i] <= Len(data[i])
    <2>1. ASSUME NEW i \in Inode
          PROVE  /\ Len(data[i]) \in Nat
                 /\ safe[i] = IF i = dir.journal THEN Len(data[i]) ELSE synced[i]
      <3>1. data[i] \in Seq(Piece)
        BY <1>1 DEF Files
      <3>2. QED
        BY <1>1, <3>1, LenProperties
    <2>2. safe \in [Inode -> Nat]
      BY <1>1, <2>1
    <2>3. QED
      BY <1>1, <2>1, <2>2
  <1> HIDE DEF safe
  <1>4. synced' \in {safe, synced} /\ dirs' \in {dirs, {dir}}
    BY DEF SyncData, safe
  <1>5. synced' \in [Inode -> Nat] /\ (\A i \in Inode : synced'[i] <= Len(data[i]))
        /\ DirsHold(dirs, dir, data, synced')
    BY <1>1, <1>2, <1>3, <1>4
  <1>6. dirs' \in SUBSET Directory /\ dir \in dirs' /\ DirsHold(dirs', dir, data, synced')
    BY <1>1, <1>4, <1>5 DEF DirsHold
  <1>7. DiskTyped'
    BY <1>5, <1>6 DEF DiskInv, DiskTyped
  <1>8. QED
    BY <1>4, <1>6, <1>7 DEF DiskInv, DiskLog, Full

LEMMA PowerLossLog ==
  ASSUME DiskInv, UNCHANGED setup, LosePower
  PROVE  /\ DiskInv' /\ buffer' = <<>> /\ Full' = DiskLog' /\ IsPrefix(DiskLog', DiskLog)
  <1>1. /\ data \in Files /\ dirs \in SUBSET Directory /\ dir \in dirs /\ dir \in Directory
        /\ DirsHold(dirs, dir, data, synced) /\ synced \in [Inode -> Nat]
        /\ setup \in Setups /\ DiskTyped
    BY DEF DiskInv, DiskTyped
  <1>2. PICK d \in dirs : dir' = d /\ dirs' = {d}
    BY DEF LosePower
  <1>3. PICK kept \in [Inode -> 0 .. 3 * MaxCommands] :
          /\ \A i \in Inode : synced[i] <= kept[i] /\ kept[i] <= Len(data[i])
          /\ data' = Left(data, kept) /\ synced' = kept
    BY DEF LosePower, Left
  <1>4. kept \in [Inode -> Nat]
    BY <1>3, Assumed
  <1>5. /\ data' \in Files /\ DirsHold({d}, d, data', kept)
        /\ IsPrefix(LogIn(data', d), LogIn(data, dir))
    BY <1>1, <1>2, <1>3, <1>4, FilesLeft
  <1>6. \A i \in Inode : Len(data'[i]) = kept[i] /\ kept[i] \in Nat
    BY <1>1, <1>3, <1>4, LeftFacts
  <1>7. buffer' = <<>> /\ <<>> \in Seq(Piece) /\ Len(<<>>) <= setup.bufferPieces
    BY <1>1, RoomIs, EmptySeq DEF LosePower, DropBuffer
  <1>8. DiskTyped'
    <2>1. \A i \in Inode : synced'[i] <= Len(data'[i])
      BY <1>3, <1>6
    <2>2. setup' \in Setups /\ dir' \in Directory /\ dirs' \in SUBSET Directory /\ dir' \in dirs'
      BY <1>1, <1>2
    <2>3. QED
      BY <1>3, <1>4, <1>5, <1>7, <2>1, <2>2 DEF DiskTyped
  <1>9. DiskInv' /\ IsPrefix(DiskLog', DiskLog)
    BY <1>2, <1>3, <1>5, <1>8 DEF DiskInv, DiskLog
  <1>10. Full' = DiskLog'
    <2>1. LogIn(data', d) \in Seq(Command)
      BY <1>1, <1>2, <1>5, DirectoryFacts
    <2>2. DiskLog' \in Seq(Command)
      BY <1>2, <2>1 DEF DiskLog
    <2>3. QED
      BY <1>7, <2>2, CatEmpty, RecordsPlus DEF Full
  <1>11. QED
    BY <1>7, <1>9, <1>10

-----------------------------------------------------------------------------
(* Opening and funding.                                                    *)

LEMMA ServingStates ==
  /\ Serving <=> pc \in MatcherStates
  /\ MatcherStates \cap {"fund", "fundSync", "spawn", "stopped", "down", "refused"} = {}
  /\ MatcherStates \subseteq Opened
  BY DEF Serving, MatcherStates, Opened

(* A step of a start after the journal is open.                            *)
LEMMA OpenedKeeps ==
  ASSUME EngineInv, UNCHANGED Others, ~Serving, pc # "stopped",
         pc' \in {"fund", "fundSync", "spawn"}, pc' # "fund" => buffer' = <<>>,
         DiskInv', dir'.retired = NoFile, dir'.journal # NoFile,
         book' = Full', book' \in Seq(Command), generation' = generation, compacting' = compacting,
         Increasing(Full'), ToSet(Full') \subseteq 1 .. sent, FundingHolds'
  PROVE  EngineInv'
  <1>1. /\ sent' = sent /\ reply' = reply /\ queue' = queue /\ batch' = batch
        /\ published' = published /\ announced' = announced
        /\ told' = told /\ spoilt' = spoilt /\ setup' = setup
        /\ crashes' = crashes /\ powerLosses' = powerLosses /\ errors' = errors
    BY DEF Others, clientVars, matcherVars, historyVars, faultVars
  <1>2. ServeTyped' /\ ClientTyped'
    BY <1>1 DEF EngineInv, ServeTyped, ClientTyped
  <1>3. generation \in Nat /\ compacting \in BOOLEAN
    BY DEF EngineInv, StartTyped
  <1>4. StartTyped'
    BY <1>3 DEF StartTyped, StartupStates, AfterSync
  <1>5. StartHolds'
    BY DEF StartHolds, Recovering, Publishing, Removing, Unmarking, Compacting, Recovered, Opened,
      MatcherStates
  <1>6. ~Serving'
    BY DEF Serving, MatcherStates
  <1>7. queue = <<>> /\ batch = <<>> /\ spoilt = {}
    BY DEF EngineInv, QuietHolds
  <1>8. QuietHolds'
    BY <1>1, <1>6, <1>7 DEF QuietHolds
  <1>9. NumbersHold'
    <2>1. Funds <= sent
      BY DEF EngineInv, NumbersHold
    <2>2. \A q \in 1 .. Len(queue') : FALSE
      BY <1>1, <1>7
    <2>3. QED
      BY <1>1, <2>1, <2>2 DEF NumbersHold
  <1>10. QED
    BY <1>2, <1>4, <1>5, <1>6, <1>8, <1>9 DEF EngineInv

LEMMA OpenHolds ==
  ASSUME EngineInv, UNCHANGED Others, Open
  PROVE  EngineInv' /\ Full' = Full /\ DiskLog' = DiskLog
  <1>1. /\ pc = "recovered" /\ book' = book /\ generation' = generation /\ compacting' = compacting
        /\ buffer' = buffer /\ setup' = setup
        /\ pc' = IF book = <<>> /\ Funds > 0 THEN "fund" ELSE "spawn"
    BY DEF Open, memory, Others
  <1>2. DiskInv /\ StartTyped /\ StartHolds
    BY DEF EngineInv
  <1>3. dir.retired = NoFile /\ book = DiskLog /\ book \in Seq(Command)
    BY <1>1, <1>2 DEF StartHolds, StartTyped, Recovered
  <1>4. DiskInv' /\ DiskLog' = DiskLog /\ dir'.retired = NoFile /\ dir'.journal # NoFile
    <2>1. CASE dir.journal = NoFile
      <3>1. CreateJournal /\ UNCHANGED <<setup, buffer>>
        BY <1>1, <2>1 DEF Open
      <3>2. QED
        BY <1>2, <1>3, <2>1, <3>1, CreateStep
    <2>2. CASE dir.journal # NoFile
      <3>1. UNCHANGED <<setup, diskVars>> /\ dir' = dir
        BY <1>1, <2>2 DEF Open, diskVars, fileVars
      <3>2. QED
        BY <1>2, <1>3, <2>2, <3>1, DiskSame
    <2>3. QED
      BY <2>1, <2>2
  <1>5. buffer = <<>> /\ Full = DiskLog
    <2>1. buffer = <<>>
      BY <1>1 DEF EngineInv, QuietHolds
    <2>2. QED
      BY <1>2, <2>1, LogIs DEF DiskInv
  <1>6. Full' = Full
    BY <1>1, <1>4 DEF Full
  <1>7. Increasing(Full') /\ ToSet(Full') \subseteq 1 .. sent
    BY <1>6 DEF EngineInv, NumbersHold
  <1>8. FundingHolds'
    <2>1. FundingIsWhole' => FundingIsWhole
      BY <1>1 DEF FundingIsWhole, BufferPieces
    <2>2. FundingIsWhole' => DiskLog = <<>> \/ Funded(DiskLog)
      BY <2>1 DEF EngineInv, FundingHolds
    <2>3. Len(<<>>) = 0 /\ UpTo(0) = <<>> /\ Funds \in Nat
      BY Assumed DEF UpTo
    <2>4. Funds = 0 => Funded(<<>>)
      BY <2>3 DEF Funded
    <2>5. CASE pc' = "fund"
      <3>1. book = <<>> /\ buffer' = <<>> /\ book' = <<>>
        BY <1>1, <1>5, <2>5
      <3>2. QED
        BY <1>3, <1>4, <2>3, <2>5, <3>1 DEF FundingHolds
    <2>6. CASE pc' = "spawn"
      <3>1. book # <<>> \/ Funds = 0
        BY <1>1, <2>3, <2>6
      <3>2. FundingIsWhole' => Funded(DiskLog)
        BY <1>3, <2>2, <2>4, <3>1
      <3>3. QED
        BY <1>1, <1>3, <1>4, <2>6, <3>2 DEF FundingHolds
    <2>7. QED
      BY <1>1, <2>5, <2>6
  <1>9. ~Serving /\ pc # "stopped" /\ pc' \in {"fund", "fundSync", "spawn"}
    BY <1>1 DEF Serving, MatcherStates
  <1>10. QED
    BY <1>1, <1>3, <1>4, <1>5, <1>6, <1>7, <1>8, <1>9, OpenedKeeps

LEMMA FundNextHolds ==
  ASSUME EngineInv, UNCHANGED Others, FundNext
  PROVE  EngineInv' /\ Grown
  <1> DEFINE n == Len(book)
  <1>1. /\ pc = "fund" /\ n < Funds /\ book' = Plus(book, n + 1) /\ Append1(n + 1)
        /\ pc' = pc /\ generation' = generation /\ compacting' = compacting
        /\ UNCHANGED <<setup, dir, dirs, synced>> /\ setup' = setup /\ dir' = dir
    BY DEF FundNext, Others, Plus
  <1>2. DiskInv /\ StartHolds /\ DiskTyped /\ book \in Seq(Command) /\ n \in Nat
    BY LenProperties DEF EngineInv, StartTyped, DiskInv
  <1>3. book = Full /\ dir.retired = NoFile /\ dir.journal # NoFile
    BY <1>1, <1>2 DEF StartHolds, Opened
  <1>4. book = UpTo(n) /\ (FundingIsWhole => DiskLog = <<>> /\ Len(buffer) = 3 * n)
    BY <1>1 DEF EngineInv, FundingHolds
  <1>5. /\ Funds \in Nat /\ MaxCommands \in Nat /\ n + 1 <= Funds /\ Funds <= MaxCommands
        /\ n + 1 \in Command /\ n < MaxCommands /\ n + 1 \in Nat /\ n + 1 <= MaxCommands
    BY <1>1, <1>2, Assumed DEF Command
  <1> HIDE DEF n
  <1>6. /\ DiskInv' /\ Full' = Plus(Full, n + 1) /\ IsPrefix(DiskLog, DiskLog')
        /\ Room >= 3 => DiskLog' = DiskLog /\ Len(buffer') = Len(buffer) + 3
    BY <1>1, <1>2, <1>3, <1>5, AppendLog
  <1>7. book' = UpTo(n + 1) /\ book' = Full' /\ book' \in Seq(Command) /\ Len(book') = n + 1
        /\ Increasing(book') /\ ToSet(book') = 1 .. n + 1
    <2>1. UpTo(n + 1) = Plus(UpTo(n), n + 1)
      BY <1>2, <1>5, UpToFacts
    <2>2. /\ UpTo(n + 1) \in Seq(Command) /\ Len(UpTo(n + 1)) = n + 1
          /\ Increasing(UpTo(n + 1)) /\ ToSet(UpTo(n + 1)) = 1 .. n + 1
      BY <1>5, UpToFacts
    <2>3. QED
      BY <1>1, <1>3, <1>4, <1>6, <2>1, <2>2
  <1>8. ToSet(Full') \subseteq 1 .. sent
    <2>1. Funds <= sent /\ sent \in Nat
      BY Assumed DEF EngineInv, NumbersHold, ClientTyped
    <2>2. QED
      BY <1>5, <1>7, <2>1
  <1>9. FundingHolds'
    <2>1. ASSUME FundingIsWhole' PROVE DiskLog' = <<>> /\ Len(buffer') = 3 * (n + 1)
      <3>1. FundingIsWhole
        BY <1>1, <2>1 DEF FundingIsWhole, BufferPieces
      <3>2. /\ Room \in Nat /\ Room + Len(buffer) = setup.bufferPieces
            /\ setup.bufferPieces \in Nat /\ setup.bufferPieces >= 3
        BY <1>2, RoomIs
      <3>3. Funds <= 1 \/ 3 * Funds <= setup.bufferPieces
        BY <3>1 DEF FundingIsWhole, BufferPieces
      <3>4. Room >= 3
        BY <1>2, <1>4, <1>5, <3>1, <3>2, <3>3
      <3>5. QED
        BY <1>2, <1>4, <1>6, <3>1, <3>4
    <2>2. QED
      BY <1>1, <1>5, <1>7, <2>1 DEF FundingHolds, Opened, MatcherStates
  <1>10. ~Serving /\ pc # "stopped" /\ pc' \in {"fund", "fundSync", "spawn"} /\ pc' = "fund"
    BY <1>1 DEF Serving, MatcherStates
  <1>11. Grown
    <2>1. ToSet(Full) = 1 .. n
      BY <1>2, <1>3, <1>4, <1>5, UpToFacts
    <2>2. n + 1 \in Command \ ToSet(Full)
      BY <1>2, <1>5, <2>1
    <2>3. QED
      BY <1>6, <2>2 DEF Grown
  <1>12. QED
    BY <1>1, <1>3, <1>6, <1>7, <1>8, <1>9, <1>10, <1>11, OpenedKeeps

LEMMA FundFlushHolds ==
  ASSUME EngineInv, UNCHANGED Others, FundFlush
  PROVE  EngineInv' /\ Same
  <1>1. /\ pc = "fund" /\ Len(book) = Funds /\ Flush /\ pc' = "fundSync"
        /\ book' = book /\ generation' = generation /\ compacting' = compacting
        /\ UNCHANGED <<setup, dir, dirs>> /\ dir' = dir
    BY DEF FundFlush, Others, memory
  <1>2. DiskInv /\ StartHolds /\ book \in Seq(Command)
    BY DEF EngineInv, StartTyped
  <1>3. book = Full /\ dir.retired = NoFile /\ dir.journal # NoFile
    BY <1>1, <1>2 DEF StartHolds, Opened
  <1>4. DiskInv' /\ buffer' = <<>> /\ DiskLog' = Full /\ Full' = Full
    BY <1>1, <1>2, <1>3, FlushLog
  <1>5. Increasing(Full') /\ ToSet(Full') \subseteq 1 .. sent
    BY <1>4 DEF EngineInv, NumbersHold
  <1>6. Funded(book)
    <2>1. book = UpTo(Funds)
      BY <1>1 DEF EngineInv, FundingHolds
    <2>2. QED
      BY <2>1, Assumed, UpToFacts
  <1>7. FundingHolds'
    BY <1>1, <1>3, <1>4, <1>6 DEF FundingHolds
  <1>8. ~Serving /\ pc # "stopped" /\ pc' \in {"fund", "fundSync", "spawn"}
    BY <1>1 DEF Serving, MatcherStates
  <1>9. Same
    <2>1. IsPrefix(DiskLog, Full)
      BY <1>2, LogIs DEF DiskInv
    <2>2. QED
      BY <1>4, <2>1 DEF Same
  <1>10. QED
    BY <1>1, <1>2, <1>3, <1>4, <1>5, <1>7, <1>8, <1>9, OpenedKeeps

LEMMA FundSyncHolds ==
  ASSUME EngineInv, UNCHANGED Others, FundSync
  PROVE  EngineInv' /\ Full' = Full /\ DiskLog' = DiskLog
  <1>1. /\ pc = "fundSync" /\ SyncData /\ pc' = "spawn"
        /\ book' = book /\ generation' = generation /\ compacting' = compacting
        /\ UNCHANGED <<setup, dir, data, buffer>> /\ dir' = dir /\ buffer' = buffer /\ setup' = setup
    BY DEF FundSync, Others, memory
  <1>2. DiskInv /\ StartHolds /\ book \in Seq(Command) /\ buffer = <<>>
    BY <1>1 DEF EngineInv, StartTyped, QuietHolds
  <1>3. book = Full /\ dir.retired = NoFile /\ dir.journal # NoFile
    BY <1>1, <1>2 DEF StartHolds, Opened
  <1>4. DiskInv' /\ DiskLog' = DiskLog /\ Full' = Full
    BY <1>1, <1>2, SyncLog
  <1>5. Increasing(Full') /\ ToSet(Full') \subseteq 1 .. sent
    BY <1>4 DEF EngineInv, NumbersHold
  <1>6. FundingHolds'
    <2>1. FundingIsWhole' => FundingIsWhole
      BY <1>1 DEF FundingIsWhole, BufferPieces
    <2>2. FundingIsWhole => Funded(DiskLog) /\ Funded(book)
      BY <1>1 DEF EngineInv, FundingHolds, Opened
    <2>3. QED
      BY <1>1, <1>4, <2>1, <2>2 DEF FundingHolds
  <1>7. ~Serving /\ pc # "stopped" /\ pc' \in {"fund", "fundSync", "spawn"}
    BY <1>1 DEF Serving, MatcherStates
  <1>8. QED
    BY <1>1, <1>2, <1>3, <1>4, <1>5, <1>6, <1>7, OpenedKeeps

LEMMA StartStepHolds ==
  ASSUME EngineInv, StartStep, UNCHANGED setup
  PROVE  EngineInv' /\ (Same \/ Grown)
  <1>1. UNCHANGED Others
    BY DEF StartStep, Others
  <1>2. \/ ReadSnapshot \/ SkipRetired \/ ReplayRetired \/ ReplayJournal \/ Refuse
        \/ AdoptUnmarked \/ PublishSnapshot \/ RemoveRetired \/ RemoveMarker \/ MarkGeneration
        \/ SyncDirectory \/ RetireJournal \/ CreateEmpty
        \/ Open \/ FundNext \/ FundFlush \/ FundSync
    BY DEF StartStep
  <1>3. \/ EngineInv' /\ Full' = Full /\ DiskLog' = DiskLog
        \/ EngineInv' /\ (Same \/ Grown)
    BY <1>1, <1>2, ReadingHolds, NamingHolds, SyncDirectoryHolds, RetireHolds, CreateEmptyHolds,
      OpenHolds, FundNextHolds, FundFlushHolds, FundSyncHolds
  <1>4. QED
    BY <1>3, SameIs DEF EngineInv

-----------------------------------------------------------------------------
(* Lists of commands.                                                      *)

LEMMA PlusIncreasing ==
  ASSUME NEW s \in Seq(Command), NEW c \in Command, Increasing(s), \A e \in ToSet(s) : e < c
  PROVE  Increasing(Plus(s, c)) /\ Plus(s, c) \in Seq(Command)
  <1>1. /\ Plus(s, c) \in Seq(Command) /\ Len(Plus(s, c)) = Len(s) + 1 /\ Len(s) \in Nat
        /\ Plus(s, c)[Len(s) + 1] = c /\ \A i \in 1 .. Len(s) : Plus(s, c)[i] = s[i]
    BY PlusType, LenProperties
  <1>2. \A i \in 1 .. Len(s) : s[i] \in Command /\ s[i] < c
    BY ElementOfSeq, LenProperties DEF ToSet
  <1>3. DOMAIN s = 1 .. Len(s) /\ DOMAIN Plus(s, c) = 1 .. Len(s) + 1
    BY <1>1, LenProperties
  <1>4. ASSUME NEW i \in 1 .. Len(s) + 1, NEW j \in 1 .. Len(s) + 1, i < j
        PROVE  Plus(s, c)[i] < Plus(s, c)[j]
    <2>1. i \in 1 .. Len(s) /\ Plus(s, c)[i] = s[i]
      BY <1>1, <1>4
    <2>2. CASE j = Len(s) + 1
      BY <1>1, <1>2, <2>1, <2>2
    <2>3. CASE j # Len(s) + 1
      <3>1. j \in 1 .. Len(s) /\ Plus(s, c)[j] = s[j]
        BY <1>1, <1>4, <2>3
      <3>2. QED
        BY <1>3, <1>4, <2>1, <3>1 DEF Increasing
    <2>4. QED
      BY <2>2, <2>3
  <1>5. QED
    BY <1>1, <1>3, <1>4 DEF Increasing

LEMMA PrefixIncreasing ==
  ASSUME NEW s \in Seq(Command), NEW t \in Seq(Command), IsPrefix(s, t), Increasing(t)
  PROVE  Increasing(s)
  <1>1. Len(s) <= Len(t) /\ \A i \in 1 .. Len(s) : s[i] = t[i]
    BY PrefixElements
  <1>2. DOMAIN s = 1 .. Len(s) /\ DOMAIN t = 1 .. Len(t) /\ Len(s) \in Nat /\ Len(t) \in Nat
    BY LenProperties
  <1>3. QED
    BY <1>1, <1>2 DEF Increasing

LEMMA FundedPrefixes ==
  ASSUME NEW s \in Seq(Command), NEW t \in Seq(Command), IsPrefix(s, t)
  PROVE  /\ Funded(s) => Funded(t)
         /\ Funds <= 1 /\ (t = <<>> \/ Funded(t)) => s = <<>> \/ Funded(s)
  <1>1. /\ Len(s) <= Len(t) /\ \A i \in 1 .. Len(s) : s[i] = t[i]
        /\ Len(s) \in Nat /\ Len(t) \in Nat /\ Funds \in Nat
    BY PrefixElements, LenProperties, Assumed
  <1>2. Funded(s) => Funded(t)
    BY <1>1 DEF Funded
  <1>3. ASSUME Funds <= 1, t = <<>> \/ Funded(t), s # <<>> PROVE Funded(s)
    <2>1. Len(s) > 0
      BY <1>1, <1>3, EmptySeq
    <2>2. Funded(t)
      BY <1>1, <1>3, <2>1
    <2>3. QED
      BY <1>1, <1>3, <2>1, <2>2 DEF Funded
  <1>4. QED
    BY <1>2, <1>3

LEMMA QueueTakes ==
  ASSUME NEW S, NEW s \in Seq(S), s # <<>>
  PROVE  /\ Head(s) = s[1] /\ s[1] \in S /\ Tail(s) \in Seq(S) /\ Len(Tail(s)) = Len(s) - 1
         /\ Len(s) \in Nat /\ Len(s) > 0
         /\ \A i \in 1 .. Len(s) - 1 : Tail(s)[i] = s[i + 1]
  <1>1. Len(s) \in Nat /\ Len(s) > 0
    BY LenProperties, EmptySeq
  <1>2. Head(s) \in S /\ Tail(s) \in Seq(S)
    BY HeadTailProperties
  <1>3. Head(s) = s[1] /\ Len(Tail(s)) = Len(s) - 1
        /\ \A i \in 1 .. Len(s) - 1 : Tail(s)[i] = s[i + 1]
    BY <1>1, HeadTailProperties
  <1>4. QED
    BY <1>1, <1>2, <1>3

-----------------------------------------------------------------------------
(* Serving.                                                                *)

LEMMA ServingFacts ==
  ASSUME EngineInv, Serving
  PROVE  /\ pc \in MatcherStates /\ DiskInv /\ DiskTyped
         /\ dir.retired = NoFile /\ dir.journal # NoFile
         /\ book \in Seq(Command) /\ Full \in Seq(Command) /\ DiskLog \in Seq(Command)
         /\ IsPrefix(DiskLog, Full) /\ BookFollows /\ Increasing(Full)
         /\ \A i \in 1 .. Len(queue) : queue[i] \in Request
         /\ FundingIsWhole => Funded(DiskLog) /\ Funded(book)
  <1>1. pc \in MatcherStates /\ pc \in Opened /\ pc \notin {"fund", "fundSync", "spawn"}
    BY ServingStates
  <1>2. DiskInv /\ DiskTyped /\ book \in Seq(Command) /\ BookFollows
    BY DEF EngineInv, DiskInv, StartTyped
  <1>3. dir.retired = NoFile /\ dir.journal # NoFile
    BY <1>1 DEF EngineInv, StartHolds
  <1>4. Full \in Seq(Command) /\ DiskLog \in Seq(Command) /\ IsPrefix(DiskLog, Full)
    BY <1>2, LogIs
  <1>5. Increasing(Full)
    BY DEF EngineInv, NumbersHold
  <1>6. queue \in Seq(Request)
    BY DEF EngineInv, ServeTyped
  <1>7. FundingIsWhole => Funded(DiskLog) /\ Funded(book)
    BY <1>1 DEF EngineInv, FundingHolds
  <1>8. QED
    BY <1>1, <1>2, <1>3, <1>4, <1>5, <1>6, <1>7, ElementOfSeq, LenProperties

LEMMA ServingKeeps ==
  ASSUME EngineInv, Serving, setup' = setup, dir' = dir, pc' \in MatcherStates,
         pc' \notin {"take", "commit"} => buffer' = <<>>, pc' # "take" => batch' # <<>>,
         DiskInv', ServeTyped', ClientTyped', NumbersHold', BookFollows',
         book' \in Seq(Command), IsPrefix(book, book'),
         DiskLog' \in Seq(Command), IsPrefix(DiskLog, DiskLog'),
         generation' = generation, compacting' = compacting
  PROVE  EngineInv'
  <1>1. /\ dir.retired = NoFile /\ dir.journal # NoFile
        /\ book \in Seq(Command) /\ DiskLog \in Seq(Command)
        /\ FundingIsWhole => Funded(DiskLog) /\ Funded(book)
    BY ServingFacts
  <1>2. Serving' /\ pc' \in Opened /\ pc' \notin {"fund", "fundSync", "spawn", "stopped", "down", "refused"}
    BY DEF Serving, MatcherStates, Opened
  <1>3. StartTyped'
    <2>1. generation \in Nat /\ compacting \in BOOLEAN
      BY DEF EngineInv, StartTyped
    <2>2. QED
      BY <2>1 DEF StartTyped, StartupStates, AfterSync
  <1>4. StartHolds'
    BY <1>1 DEF StartHolds, Recovering, Publishing, Removing, Unmarking, Compacting, Recovered,
      Opened, MatcherStates
  <1>5. QuietHolds'
    BY <1>2 DEF QuietHolds
  <1>6. FundingHolds'
    <2>1. FundingIsWhole' => FundingIsWhole
      BY DEF FundingIsWhole, BufferPieces
    <2>2. FundingIsWhole => Funded(DiskLog') /\ Funded(book')
      BY <1>1, FundedPrefixes
    <2>3. QED
      BY <1>2, <2>1, <2>2 DEF FundingHolds
  <1>7. QED
    BY <1>3, <1>4, <1>5, <1>6 DEF EngineInv

(* A step of the matcher that leaves the disk, the book and the queue.     *)
LEMMA MatcherKeeps ==
  ASSUME EngineInv, Serving, UNCHANGED <<setup, diskVars>>, UNCHANGED <<book, spoilt, queue, sent>>,
         pc' \in MatcherStates, pc' \in {"take", "commit"} \/ buffer = <<>>,
         pc' # "take" => batch' # <<>>,
         ServeTyped', ClientTyped', generation' = generation, compacting' = compacting
  PROVE  EngineInv' /\ Full' = Full /\ DiskLog' = DiskLog
  <1>1. /\ DiskInv /\ book \in Seq(Command) /\ DiskLog \in Seq(Command) /\ BookFollows
    BY ServingFacts
  <1>2. DiskInv' /\ DiskLog' = DiskLog /\ Full' = Full
    BY <1>1, DiskSame
  <1>3. /\ setup' = setup /\ dir' = dir /\ buffer' = buffer /\ book' = book /\ spoilt' = spoilt
        /\ queue' = queue /\ sent' = sent
    BY DEF diskVars, fileVars
  <1>4. NumbersHold'
    BY <1>2, <1>3, SameNumbers DEF EngineInv
  <1>5. BookFollows'
    BY <1>1, <1>2, <1>3 DEF BookFollows
  <1>6. IsPrefix(book, book') /\ IsPrefix(DiskLog, DiskLog')
    BY <1>1, <1>2, <1>3, PrefixSelf
  <1>7. QED
    BY <1>1, <1>2, <1>3, <1>4, <1>5, <1>6, ServingKeeps

LEMMA BatchHolds ==
  ASSUME EngineInv, setup' = setup, EndBatch \/ PublishBook \/ SendEvents \/ ReplyNext
  PROVE  EngineInv' /\ Full' = Full /\ DiskLog' = DiskLog
  <1>1. /\ UNCHANGED <<setup, diskVars>> /\ UNCHANGED <<book, spoilt, queue, sent>>
        /\ generation' = generation /\ compacting' = compacting
        /\ crashes' = crashes /\ powerLosses' = powerLosses /\ errors' = errors
    BY DEF EndBatch, PublishBook, SendEvents, ReplyNext, memory, clientVars, matcherVars,
      historyVars, faultVars
  <1>2. /\ Serving /\ pc' \in MatcherStates /\ (pc' \in {"take", "commit"} \/ pc \notin {"fund", "take", "commit"})
    BY DEF EndBatch, PublishBook, SendEvents, ReplyNext, Serving, MatcherStates
  <1>3. pc' \in {"take", "commit"} \/ buffer = <<>>
    BY <1>2 DEF EngineInv, QuietHolds
  <1>4. ServeTyped /\ ClientTyped /\ book \in Seq(Command)
    BY DEF EngineInv, StartTyped
  <1>5. Len(book) \in Nat /\ ToSet(book) \subseteq Command
    BY <1>4, LenProperties, ToSetFacts
  <1>6. ServeTyped' /\ ClientTyped' /\ (pc' # "take" => batch' # <<>>)
    <2>0. pc \in {"show", "tell", "reply"} => batch # <<>>
      BY DEF EngineInv, QuietHolds, Serving, MatcherStates
    <2>1. CASE EndBatch
      <3>1. UNCHANGED <<queue, batch, published, announced, sent, reply, told, spoilt>>
            /\ batch # <<>>
        BY <2>1 DEF EndBatch, clientVars, matcherVars, historyVars
      <3>2. QED
        BY <1>1, <1>4, <3>1 DEF ServeTyped, ClientTyped
    <2>2. CASE PublishBook
      <3>1. /\ UNCHANGED <<queue, batch, announced, sent, reply, told, spoilt>> /\ published' = book
            /\ batch # <<>>
        BY <2>0, <2>2 DEF PublishBook, clientVars, historyVars
      <3>2. QED
        BY <1>1, <1>4, <3>1 DEF ServeTyped, ClientTyped
    <2>3. CASE SendEvents
      <3>1. /\ UNCHANGED <<queue, batch, published, sent, reply, told, spoilt>>
            /\ announced' = Len(book) /\ batch # <<>>
        BY <2>0, <2>3 DEF SendEvents, clientVars, historyVars
      <3>2. QED
        BY <1>1, <1>4, <1>5, <3>1 DEF ServeTyped, ClientTyped
    <2>4. CASE ReplyNext
      <3>1. /\ UNCHANGED <<queue, published, announced, sent, spoilt>>
            /\ batch' = Tail(batch)
            /\ reply' = [reply EXCEPT ![Head(batch).cmd] = Head(batch).result]
            /\ told' \in {told, told \cup ToSet(book)}
        BY <2>4 DEF ReplyNext
      <3>2. batch # <<>> /\ (pc' # "take" => Len(batch) # 1)
        BY <2>0, <2>4 DEF ReplyNext
      <3>3. batch \in Seq(Result) /\ Len(batch) <= MaxBatch /\ MaxBatch \in Nat
        BY <1>4, Assumed DEF ServeTyped
      <3>4. /\ Head(batch) \in Result /\ Tail(batch) \in Seq(Result)
            /\ Len(Tail(batch)) = Len(batch) - 1 /\ Len(batch) \in Nat
        BY <3>2, <3>3, QueueTakes
      <3>5. Len(batch') <= MaxBatch /\ (pc' # "take" => batch' # <<>>)
        <4>1. Len(Tail(batch)) <= MaxBatch
          BY <3>3, <3>4
        <4>2. Len(batch) # 1 => Len(Tail(batch)) # 0
          BY <3>4
        <4>3. \A t : Len(t) # 0 => t # <<>>
          OBVIOUS
        <4>4. QED
          BY <3>1, <3>2, <4>1, <4>2, <4>3
      <3>6. reply' \in [Command -> Outcome]
        <4>1. Head(batch).result \in Outcome
          BY <3>4 DEF Result, Outcome
        <4>2. reply \in [Command -> Outcome]
          BY <1>4 DEF ClientTyped
        <4>3. QED
          BY <3>1, <4>1, <4>2
      <3>7. told' \in SUBSET Command
        BY <1>4, <1>5, <3>1 DEF ClientTyped
      <3>8. ServeTyped'
        BY <1>1, <1>4, <3>1, <3>4, <3>5 DEF ServeTyped
      <3>9. ClientTyped'
        BY <1>1, <1>4, <3>1, <3>6, <3>7 DEF ClientTyped
      <3>10. QED
        BY <3>5, <3>8, <3>9
    <2>5. QED
      BY <2>1, <2>2, <2>3, <2>4
  <1>7. QED
    BY <1>1, <1>2, <1>3, <1>6, MatcherKeeps

LEMMA SpawnHolds ==
  ASSUME EngineInv, setup' = setup, Spawn
  PROVE  EngineInv' /\ Full' = Full /\ DiskLog' = DiskLog
  <1>1. /\ pc = "spawn" /\ pc' = "take" /\ published' = book /\ announced' = Len(book)
        /\ UNCHANGED <<setup, diskVars>> /\ dir' = dir
        /\ book' = book /\ generation' = generation /\ compacting' = compacting
        /\ UNCHANGED <<queue, batch, sent, reply, told, spoilt, crashes, powerLosses, errors>>
    BY DEF Spawn, diskVars, fileVars, memory, clientVars, historyVars, faultVars
  <1>2. /\ DiskInv /\ StartTyped /\ StartHolds /\ ServeTyped /\ ClientTyped /\ book \in Seq(Command)
        /\ ~Serving /\ generation \in Nat /\ compacting \in BOOLEAN
    BY <1>1 DEF EngineInv, StartTyped, Serving, MatcherStates
  <1>3. book = Full /\ dir.retired = NoFile /\ dir.journal # NoFile
    BY <1>1, <1>2 DEF StartHolds, Opened
  <1>4. DiskInv' /\ DiskLog' = DiskLog /\ Full' = Full
    BY <1>1, <1>2, DiskSame
  <1>5. StartTyped'
    BY <1>1, <1>2 DEF StartTyped, MatcherStates
  <1>6. StartHolds'
    BY <1>1, <1>3 DEF StartHolds, Recovering, Publishing, Removing, Unmarking, Compacting, Recovered,
      Opened, MatcherStates
  <1>7. ServeTyped' /\ ClientTyped'
    BY <1>1, <1>2, LenProperties DEF ServeTyped, ClientTyped
  <1>8. QuietHolds' /\ Serving'
    BY <1>1 DEF QuietHolds, Serving, MatcherStates
  <1>9. NumbersHold'
    BY <1>1, <1>4, SameNumbers DEF EngineInv
  <1>10. BookFollows'
    <2>1. Increasing(Full)
      BY DEF EngineInv, NumbersHold
    <2>2. QED
      BY <1>1, <1>3, <1>4, <2>1 DEF BookFollows
  <1>11. FundingHolds'
    <2>1. FundingIsWhole' => FundingIsWhole
      BY <1>1 DEF FundingIsWhole, BufferPieces
    <2>2. FundingIsWhole => Funded(DiskLog) /\ Funded(book)
      BY <1>1 DEF EngineInv, FundingHolds, Opened
    <2>3. QED
      BY <1>1, <1>4, <2>1, <2>2 DEF FundingHolds
  <1>12. QED
    BY <1>4, <1>5, <1>6, <1>7, <1>8, <1>9, <1>10, <1>11 DEF EngineInv

(* A client asks.                                                          *)
LEMMA AskHolds ==
  ASSUME EngineInv, setup' = setup, NEW writes \in BOOLEAN, Submit(writes) \/ Enqueue(writes)
  PROVE  EngineInv' /\ Full' = Full /\ DiskLog' = DiskLog
  <1> DEFINE request == [cmd |-> sent', writes |-> writes]
  <1>1. /\ UNCHANGED <<setup, diskVars>> /\ UNCHANGED <<dir, dirs, buffer>>
        /\ UNCHANGED <<pc, book, generation, compacting>>
        /\ UNCHANGED <<batch, published, announced, told, spoilt, crashes, powerLosses, errors>>
        /\ sent < setup.commands /\ sent' = sent + 1
    BY DEF Submit, Enqueue, MayAsk, diskVars, fileVars, memory, historyVars, faultVars
  <1>2. /\ \/ Serving /\ Len(queue) < Capacity /\ queue' = Plus(queue, request)
           \/ queue' = queue
        /\ \E r \in Outcome : reply' = [reply EXCEPT ![sent'] = r]
    <2>1. {"waiting", "busy", "shutdown"} \subseteq Outcome
      BY DEF Outcome
    <2>2. CASE Submit(writes)
      <3>1. \/ HasRoom /\ queue' = Plus(queue, request)
               /\ reply' = [reply EXCEPT ![sent'] = "waiting"]
            \/ queue' = queue /\ reply' = [reply EXCEPT ![sent'] = "busy"]
        BY <2>2 DEF Submit, Plus
      <3>2. QED
        BY <2>1, <3>1 DEF HasRoom
    <2>3. CASE Enqueue(writes)
      <3>1. \/ Serving /\ HasRoom /\ queue' = Plus(queue, request)
               /\ reply' = [reply EXCEPT ![sent'] = "waiting"]
            \/ queue' = queue /\ reply' = [reply EXCEPT ![sent'] = "shutdown"]
        BY <2>3 DEF Enqueue, Plus, Serving, MatcherStates
      <3>2. QED
        BY <2>1, <3>1 DEF HasRoom
    <2>4. QED
      BY <2>2, <2>3
  <1>3. DiskInv /\ StartTyped /\ ServeTyped /\ ClientTyped /\ StartHolds /\ QuietHolds /\ FundingHolds
        /\ setup \in Setups
    BY DEF EngineInv, DiskInv, DiskTyped
  <1>4. /\ sent \in Nat /\ sent' \in Command /\ sent' \in 0 .. MaxCommands /\ Capacity \in Nat
        /\ sent + 1 \in Nat
    BY <1>1, <1>3, Assumed DEF ClientTyped, Command
  <1>5. DiskInv' /\ DiskLog' = DiskLog /\ DiskBase' = DiskBase /\ Full' = Full
    BY <1>1, <1>3, DiskSame
  <1>6. request \in Request /\ request.cmd = sent'
    BY <1>4 DEF Request
  <1> HIDE DEF request
  <1>7. queue \in Seq(Request) /\ Len(queue) \in Nat /\ Len(queue) <= Capacity
    BY <1>3, LenProperties DEF ServeTyped
  <1> DEFINE longer == Plus(queue, request)
  <1>8a. /\ longer \in Seq(Request) /\ Len(longer) = Len(queue) + 1
         /\ longer[Len(queue) + 1] = request /\ \A i \in 1 .. Len(queue) : longer[i] = queue[i]
    <2>1. \A s \in Seq(Request), e \in Request :
            /\ Plus(s, e) \in Seq(Request) /\ Len(Plus(s, e)) = Len(s) + 1
            /\ Plus(s, e)[Len(s) + 1] = e /\ \A i \in 1 .. Len(s) : Plus(s, e)[i] = s[i]
      BY PlusType
    <2>2. QED
      BY <1>6, <1>7, <2>1
  <1>8b. (Len(queue) < Capacity /\ queue' = longer) \/ queue' = queue
    BY <1>2
  <1> HIDE DEF longer
  <1>8. ServeTyped'
    <2>1. queue' \in Seq(Request) /\ Len(queue') <= Capacity
      BY <1>4, <1>7, <1>8a, <1>8b
    <2>2. QED
      BY <1>1, <1>3, <2>1 DEF ServeTyped
  <1>9. ClientTyped'
    <2>1. reply' \in [Command -> Outcome]
      BY <1>2, <1>3 DEF ClientTyped
    <2>2. QED
      BY <1>1, <1>3, <1>4, <2>1 DEF ClientTyped
  <1>10. StartTyped'
    BY <1>1, <1>3 DEF StartTyped, StartupStates, AfterSync
  <1>11. StartHolds'
    BY <1>1, <1>3, <1>5 DEF StartHolds
  <1>12. QuietHolds'
    <2>1. Serving' = Serving
      BY <1>1 DEF Serving
    <2>2. QED
      BY <1>1, <1>2, <1>3, <2>1 DEF QuietHolds
  <1>13. FundingHolds'
    <2>1. FundingIsWhole' => FundingIsWhole
      BY <1>1 DEF FundingIsWhole, BufferPieces
    <2>2. QED
      BY <1>1, <1>3, <1>5, <2>1 DEF FundingHolds
  <1>14. Serving' => BookFollows'
    BY <1>1, <1>5 DEF EngineInv, Serving, BookFollows
  <1>15. NumbersHold'
    <2>1. /\ Funds <= sent /\ Increasing(Full) /\ ToSet(Full) \subseteq 1 .. sent /\ Funds \in Nat
          /\ \A q \in 1 .. Len(queue) :
               /\ queue[q].cmd \in Funds + 1 .. sent
               /\ \A c \in ToSet(Full) : c < queue[q].cmd
               /\ \A p \in 1 .. q - 1 : queue[p].cmd < queue[q].cmd
      BY Assumed DEF EngineInv, NumbersHold
    <2>2. \A q \in 1 .. Len(queue') :
             \/ q \in 1 .. Len(queue) /\ queue'[q] = queue[q]
             \/ /\ q = Len(queue) + 1 /\ queue'[q].cmd = sent'
                /\ \A p \in 1 .. q - 1 : p \in 1 .. Len(queue) /\ queue'[p] = queue[p]
      BY <1>6, <1>7, <1>8a, <1>8b
    <2>3. \A q \in 1 .. Len(queue) : queue'[q] = queue[q]
      BY <1>7, <1>8a, <1>8b
    <2>4. ASSUME NEW q \in 1 .. Len(queue')
          PROVE  /\ queue'[q].cmd \in Funds + 1 .. sent'
                 /\ \A c \in ToSet(Full) : c < queue'[q].cmd
                 /\ \A p \in 1 .. q - 1 : queue'[p].cmd < queue'[q].cmd
      <3>1. CASE q \in 1 .. Len(queue) /\ queue'[q] = queue[q]
        <4>1. /\ queue[q].cmd \in Funds + 1 .. sent
              /\ \A c \in ToSet(Full) : c < queue[q].cmd
              /\ \A p \in 1 .. q - 1 : queue[p].cmd < queue[q].cmd
          BY <2>1, <3>1
        <4>2. \A p \in 1 .. q - 1 : queue'[p] = queue[p]
          BY <1>7, <2>3, <3>1
        <4>3. QED
          BY <1>1, <1>4, <2>1, <3>1, <4>1, <4>2
      <3>2. CASE /\ q = Len(queue) + 1 /\ queue'[q].cmd = sent'
                 /\ \A p \in 1 .. q - 1 : p \in 1 .. Len(queue) /\ queue'[p] = queue[p]
        <4>1. \A c \in ToSet(Full) : c \in 1 .. sent
          BY <2>1
        <4>2. \A p \in 1 .. q - 1 : queue'[p].cmd \in Funds + 1 .. sent
          BY <2>1, <3>2
        <4>3. QED
          BY <1>1, <1>4, <2>1, <3>2, <4>1, <4>2
      <3>3. QED
        BY <2>2, <3>1, <3>2
    <2>5. Funds <= sent' /\ ToSet(Full) \subseteq 1 .. sent'
      BY <1>1, <1>4, <2>1
    <2>6. QED
      BY <1>5, <2>1, <2>4, <2>5 DEF NumbersHold
  <1>16. QED
    BY <1>5, <1>8, <1>9, <1>10, <1>11, <1>12, <1>13, <1>14, <1>15 DEF EngineInv

(* The matcher takes a request.                                            *)
LEMMA TakeNumbers ==
  ASSUME EngineInv, Serving, queue # <<>>, queue' = Tail(queue), sent' = sent,
         NEW c, c = Head(queue).cmd, Full' \in {Full, Plus(Full, c)}
  PROVE  /\ NumbersHold' /\ c \in Command
         /\ \A e \in ToSet(Full) : e < c
         /\ ToSet(Plus(Full, c)) = ToSet(Full) \cup {c}
  <1>1. Full \in Seq(Command) /\ Increasing(Full)
    BY ServingFacts
  <1>2. queue \in Seq(Request) /\ sent \in Nat /\ Funds \in Nat
    BY Assumed DEF EngineInv, ServeTyped, ClientTyped
  <1>3. /\ c = queue[1].cmd /\ queue[1] \in Request /\ Len(queue') = Len(queue) - 1
        /\ Len(queue) \in Nat /\ Len(queue) > 0
        /\ \A i \in 1 .. Len(queue) - 1 : queue'[i] = queue[i + 1]
    BY <1>2, QueueTakes
  <1>4. c \in Command
    BY <1>3 DEF Request
  <1>5. /\ Funds <= sent /\ ToSet(Full) \subseteq 1 .. sent
        /\ \A q \in 1 .. Len(queue) :
             /\ queue[q].cmd \in Funds + 1 .. sent
             /\ \A e \in ToSet(Full) : e < queue[q].cmd
             /\ \A p \in 1 .. q - 1 : queue[p].cmd < queue[q].cmd
    BY DEF EngineInv, NumbersHold
  <1>6. c \in 1 .. sent /\ \A e \in ToSet(Full) : e < c
    BY <1>2, <1>3, <1>5
  <1>7. ToSet(Plus(Full, c)) = ToSet(Full) \cup {c} /\ Increasing(Plus(Full, c))
    BY <1>1, <1>4, <1>6, PlusSet, PlusIncreasing
  <1>8. Increasing(Full') /\ ToSet(Full') \subseteq ToSet(Full) \cup {c}
    BY <1>1, <1>7
  <1>9. ASSUME NEW q \in 1 .. Len(queue')
        PROVE  /\ queue'[q].cmd \in Funds + 1 .. sent
               /\ \A e \in ToSet(Full') : e < queue'[q].cmd
               /\ \A p \in 1 .. q - 1 : queue'[p].cmd < queue'[q].cmd
    <2>1. q \in Int /\ q >= 1 /\ q <= Len(queue) - 1
      BY <1>3
    <2>2. /\ queue'[q] = queue[q + 1] /\ q + 1 \in 1 .. Len(queue)
          /\ \A p \in 1 .. q - 1 : queue'[p] = queue[p + 1] /\ p + 1 \in 1 .. q + 1 - 1
          /\ 1 \in 1 .. q + 1 - 1
      BY <1>3, <2>1
    <2>3. /\ queue[q + 1].cmd \in Funds + 1 .. sent
          /\ \A e \in ToSet(Full) : e < queue[q + 1].cmd
          /\ \A p \in 1 .. q + 1 - 1 : queue[p].cmd < queue[q + 1].cmd
      BY <1>5, <2>2
    <2>4. c < queue[q + 1].cmd
      BY <1>3, <2>2, <2>3
    <2>5. QED
      BY <1>8, <2>2, <2>3, <2>4
  <1>10. NumbersHold'
    <2>1. ToSet(Full') \subseteq 1 .. sent
      BY <1>5, <1>6, <1>8
    <2>2. QED
      BY <1>5, <1>8, <1>9, <2>1 DEF NumbersHold
  <1>11. QED
    BY <1>4, <1>6, <1>7, <1>10

LEMMA TakeTyped ==
  ASSUME EngineInv, MayTake, NEW result \in {"ok", "shutdown"}, Pending(result)
  PROVE  /\ ServeTyped' /\ Serving /\ pc = "take" /\ pc' = "take"
         /\ queue # <<>> /\ queue' = Tail(queue) /\ UNCHANGED <<dir, dirs, synced>> /\ dir' = dir
         /\ sent' = sent /\ reply' = reply /\ told' = told
         /\ generation' = generation /\ compacting' = compacting
  <1>1. /\ pc = "take" /\ pc' = "take" /\ queue # <<>> /\ queue' = Tail(queue) /\ Len(batch) < MaxBatch
        /\ batch' = Plus(batch, [cmd |-> Head(queue).cmd, result |-> result])
        /\ UNCHANGED <<dir, dirs, synced>> /\ dir' = dir
        /\ sent' = sent /\ reply' = reply /\ told' = told
        /\ published' = published /\ announced' = announced
        /\ generation' = generation /\ compacting' = compacting
    BY DEF MayTake, Pending, clientVars, Plus
  <1>2. ServeTyped
    BY DEF EngineInv
  <1>3. queue \in Seq(Request) /\ Len(queue) <= Capacity /\ Capacity \in Nat /\ MaxBatch \in Nat
        /\ batch \in Seq(Result) /\ Len(batch) \in Nat
    BY <1>2, Assumed, LenProperties DEF ServeTyped
  <1>4. /\ Head(queue) = queue[1] /\ queue[1] \in Request /\ queue' \in Seq(Request)
        /\ Len(queue') = Len(queue) - 1 /\ Len(queue) \in Nat
    BY <1>1, <1>3, QueueTakes
  <1>5. [cmd |-> Head(queue).cmd, result |-> result] \in Result
    BY <1>4 DEF Request, Result
  <1>6. batch' \in Seq(Result) /\ Len(batch') = Len(batch) + 1
    BY <1>1, <1>3, <1>5, PlusType
  <1>7. Len(batch') <= MaxBatch /\ Len(queue') <= Capacity
    BY <1>1, <1>3, <1>4, <1>6
  <1>8. ServeTyped'
    BY <1>1, <1>2, <1>4, <1>6, <1>7 DEF ServeTyped
  <1>9. Serving
    BY <1>1 DEF Serving, MatcherStates
  <1>10. QED
    BY <1>1, <1>8, <1>9

LEMMA TakeReadHolds ==
  ASSUME EngineInv, setup' = setup, TakeRead
  PROVE  EngineInv' /\ Full' = Full /\ DiskLog' = DiskLog
  <1>1. MayTake /\ Pending("ok")
        /\ UNCHANGED <<book, data, buffer, spoilt, crashes, powerLosses, errors>>
    BY DEF TakeRead, faultVars
  <1>2. /\ ServeTyped' /\ Serving /\ pc = "take" /\ pc' = "take"
        /\ queue # <<>> /\ queue' = Tail(queue) /\ UNCHANGED <<dir, dirs, synced>> /\ dir' = dir
        /\ sent' = sent /\ reply' = reply /\ told' = told
        /\ generation' = generation /\ compacting' = compacting
    BY <1>1, TakeTyped
  <1>3. DiskInv /\ book \in Seq(Command) /\ DiskLog \in Seq(Command) /\ BookFollows
    BY <1>2, ServingFacts
  <1>4. UNCHANGED <<setup, diskVars>>
    BY <1>1, <1>2 DEF diskVars, fileVars
  <1>5. DiskInv' /\ DiskLog' = DiskLog /\ Full' = Full
    BY <1>3, <1>4, DiskSame
  <1>6. NumbersHold'
    BY <1>2, <1>5, TakeNumbers
  <1>7. ClientTyped'
    BY <1>1, <1>2 DEF EngineInv, ClientTyped
  <1>8. BookFollows'
    BY <1>1, <1>3, <1>5 DEF BookFollows
  <1>9. IsPrefix(book, book') /\ IsPrefix(DiskLog, DiskLog') /\ book' \in Seq(Command)
        /\ DiskLog' \in Seq(Command)
    BY <1>1, <1>3, <1>5, PrefixSelf
  <1>10. pc' \in MatcherStates /\ pc' = "take"
    BY <1>2 DEF MatcherStates
  <1>11. QED
    BY <1>2, <1>5, <1>6, <1>7, <1>8, <1>9, <1>10, ServingKeeps

LEMMA TakeWriteHolds ==
  ASSUME EngineInv, setup' = setup, TakeWrite
  PROVE  EngineInv' /\ Grown
  <1> DEFINE c == Head(queue).cmd
  <1>1. /\ MayTake /\ Pending("ok") /\ Append1(c) /\ book' = Plus(book, c)
        /\ UNCHANGED <<spoilt, crashes, powerLosses, errors>>
    BY DEF TakeWrite, faultVars, Plus
  <1>2. /\ ServeTyped' /\ Serving /\ pc = "take" /\ pc' = "take"
        /\ queue # <<>> /\ queue' = Tail(queue) /\ UNCHANGED <<dir, dirs, synced>> /\ dir' = dir
        /\ sent' = sent /\ reply' = reply /\ told' = told
        /\ generation' = generation /\ compacting' = compacting
    BY <1>1, TakeTyped
  <1>3. /\ DiskInv /\ book \in Seq(Command) /\ DiskLog \in Seq(Command) /\ BookFollows
        /\ dir.journal # NoFile /\ Full \in Seq(Command)
    BY <1>2, ServingFacts
  <1>4. c \in Command
    <2>1. queue \in Seq(Request)
      BY DEF EngineInv, ServeTyped
    <2>2. Head(queue) \in Request
      BY <1>2, <2>1, QueueTakes
    <2>3. QED
      BY <2>2 DEF Request
  <1> HIDE DEF c
  <1>5. DiskInv' /\ Full' = Plus(Full, c) /\ IsPrefix(DiskLog, DiskLog')
    BY <1>1, <1>2, <1>3, <1>4, AppendLog
  <1>6. /\ NumbersHold' /\ \A e \in ToSet(Full) : e < c
        /\ ToSet(Plus(Full, c)) = ToSet(Full) \cup {c}
    BY <1>2, <1>5, TakeNumbers DEF c
  <1>7. ClientTyped'
    BY <1>1, <1>2 DEF EngineInv, ClientTyped
  <1>8. /\ Plus(book, c) \in Seq(Command) /\ ToSet(Plus(book, c)) = ToSet(book) \cup {c}
        /\ Increasing(Plus(book, c)) /\ IsPrefix(book, Plus(book, c))
    <2>1. \A e \in ToSet(book) : e < c
      BY <1>3, <1>6 DEF BookFollows
    <2>2. Plus(book, c) = Cat(book, <<c>>) /\ <<c>> \in Seq(Command)
      BY <1>3, <1>4, PlusIsCat
    <2>3. IsPrefix(book, Plus(book, c))
      BY <1>3, <2>2, CatPrefix
    <2>4. QED
      BY <1>3, <1>4, <2>1, <2>3, PlusIncreasing, PlusSet DEF BookFollows
  <1>9. BookFollows'
    <2>1. spoilt' = {} => book' = Full'
      BY <1>1, <1>3, <1>5 DEF BookFollows
    <2>2. /\ ToSet(book) \subseteq ToSet(Full) /\ ToSet(Full) \subseteq ToSet(book) \cup spoilt
      BY <1>3 DEF BookFollows
    <2>3. /\ ToSet(book') = ToSet(book) \cup {c} /\ ToSet(Full') = ToSet(Full) \cup {c}
          /\ spoilt' = spoilt /\ Increasing(book')
      BY <1>1, <1>5, <1>6, <1>8
    <2>4. QED
      BY <2>1, <2>2, <2>3 DEF BookFollows
  <1>10. DiskLog' \in Seq(Command)
    <2>1. data' \in Files /\ dir' \in Directory
      BY <1>5 DEF DiskInv, DiskTyped
    <2>2. QED
      BY <2>1, DirectoryFacts DEF DiskLog
  <1>11. pc' \in MatcherStates /\ pc' = "take"
    BY <1>2 DEF MatcherStates
  <1>12. EngineInv'
    BY <1>1, <1>2, <1>5, <1>6, <1>7, <1>8, <1>9, <1>10, <1>11, ServingKeeps
  <1>13. c \notin ToSet(Full)
    <2>1. c \in Int
      BY <1>4 DEF Command
    <2>2. QED
      BY <1>6, <2>1
  <1>14. QED
    BY <1>4, <1>5, <1>12, <1>13 DEF Grown

LEMMA TakeFailsHolds ==
  ASSUME EngineInv, setup' = setup, TakeFails
  PROVE  EngineInv' /\ (Same \/ Grown)
  <1> DEFINE c == Head(queue).cmd
  <1>1. /\ MayTake /\ Pending("shutdown") /\ AppendFails(c) /\ book' = book
        /\ spoilt' = spoilt \cup {c}
        /\ crashes' = crashes /\ powerLosses' = powerLosses /\ errors' = errors + 1
    BY DEF TakeFails
  <1>2. /\ ServeTyped' /\ Serving /\ pc = "take" /\ pc' = "take"
        /\ queue # <<>> /\ queue' = Tail(queue) /\ UNCHANGED <<dir, dirs, synced>> /\ dir' = dir
        /\ sent' = sent /\ reply' = reply /\ told' = told
        /\ generation' = generation /\ compacting' = compacting
    BY <1>1, TakeTyped
  <1>3. /\ DiskInv /\ book \in Seq(Command) /\ DiskLog \in Seq(Command) /\ BookFollows
        /\ dir.journal # NoFile /\ Full \in Seq(Command)
    BY <1>2, ServingFacts
  <1>4. c \in Command
    <2>1. queue \in Seq(Request)
      BY DEF EngineInv, ServeTyped
    <2>2. Head(queue) \in Request
      BY <1>2, <2>1, QueueTakes
    <2>3. QED
      BY <2>2 DEF Request
  <1> HIDE DEF c
  <1>5. DiskInv' /\ Full' \in {Full, Plus(Full, c)} /\ IsPrefix(DiskLog, DiskLog')
    BY <1>1, <1>2, <1>3, <1>4, AppendFailsLog
  <1>6. /\ NumbersHold' /\ \A e \in ToSet(Full) : e < c
        /\ ToSet(Plus(Full, c)) = ToSet(Full) \cup {c}
    BY <1>2, <1>5, TakeNumbers DEF c
  <1>7. ClientTyped'
    <2>1. ClientTyped
      BY DEF EngineInv
    <2>2. errors' \in Nat /\ spoilt' \in SUBSET Command
      BY <1>1, <1>4, <2>1 DEF ClientTyped
    <2>3. QED
      BY <1>1, <1>2, <2>1, <2>2 DEF ClientTyped
  <1>8. BookFollows'
    <2>1. /\ ToSet(book) \subseteq ToSet(Full) /\ ToSet(Full) \subseteq ToSet(book) \cup spoilt
          /\ Increasing(book)
      BY <1>3 DEF BookFollows
    <2>2. ToSet(Full) \subseteq ToSet(Full') /\ ToSet(Full') \subseteq ToSet(Full) \cup {c}
      BY <1>5, <1>6
    <2>3. spoilt' # {} /\ ToSet(Full') \subseteq ToSet(book) \cup spoilt'
      BY <1>1, <2>1, <2>2
    <2>4. QED
      BY <1>1, <2>1, <2>2, <2>3 DEF BookFollows
  <1>9. DiskLog' \in Seq(Command)
    <2>1. data' \in Files /\ dir' \in Directory
      BY <1>5 DEF DiskInv, DiskTyped
    <2>2. QED
      BY <2>1, DirectoryFacts DEF DiskLog
  <1>10. pc' \in MatcherStates /\ pc' = "take" /\ IsPrefix(book, book') /\ book' \in Seq(Command)
    BY <1>1, <1>2, <1>3, PrefixSelf DEF MatcherStates
  <1>11. EngineInv'
    BY <1>1, <1>2, <1>5, <1>6, <1>7, <1>8, <1>9, <1>10, ServingKeeps
  <1>12. c \notin ToSet(Full)
    <2>1. c \in Int
      BY <1>4 DEF Command
    <2>2. QED
      BY <1>6, <2>1
  <1>13. QED
    BY <1>4, <1>5, <1>11, <1>12 DEF Same, Grown

LEMMA CommitHolds ==
  ASSUME EngineInv, setup' = setup, CommitFlush \/ CommitSync
  PROVE  EngineInv' /\ Same
  <1>1. /\ UNCHANGED <<book, generation, compacting, sent, reply, queue, batch, published, announced,
                       told, spoilt, crashes, powerLosses, errors>>
        /\ Serving /\ pc # "take" /\ dir' = dir
    BY DEF CommitFlush, CommitSync, memory, clientVars, matcherVars, historyVars, faultVars,
      Serving, MatcherStates
  <1>2. /\ DiskInv /\ book \in Seq(Command) /\ DiskLog \in Seq(Command) /\ BookFollows
        /\ dir.journal # NoFile /\ Full \in Seq(Command) /\ IsPrefix(DiskLog, Full)
    BY <1>1, ServingFacts
  <1>3. /\ DiskInv' /\ Full' = Full /\ buffer' = <<>> /\ DiskLog' \in {DiskLog, Full}
        /\ pc' \in MatcherStates
    <2>1. CASE CommitFlush
      <3>1. Flush /\ UNCHANGED <<setup, dir, dirs>> /\ pc' = "sync"
        BY <2>1 DEF CommitFlush
      <3>2. QED
        BY <1>2, <3>1, FlushLog DEF MatcherStates
    <2>2. CASE CommitSync
      <3>1. /\ SyncData /\ UNCHANGED <<setup, dir, data, buffer>> /\ buffer' = buffer
            /\ pc = "sync" /\ pc' = "show"
        BY <2>2 DEF CommitSync
      <3>2. buffer = <<>>
        BY <3>1 DEF EngineInv, QuietHolds
      <3>3. QED
        BY <1>2, <3>1, <3>2, SyncLog DEF MatcherStates
    <2>3. QED
      BY <2>1, <2>2
  <1>4. DiskLog' \in Seq(Command) /\ IsPrefix(DiskLog, DiskLog') /\ IsPrefix(book, book')
        /\ book' \in Seq(Command)
    BY <1>1, <1>2, <1>3, PrefixSelf
  <1>5. NumbersHold' /\ ServeTyped' /\ ClientTyped' /\ BookFollows'
    <2>1. NumbersHold'
      BY <1>1, <1>3, SameNumbers DEF EngineInv
    <2>2. ServeTyped' /\ ClientTyped'
      BY <1>1 DEF EngineInv, ServeTyped, ClientTyped
    <2>3. BookFollows'
      BY <1>1, <1>2, <1>3 DEF BookFollows
    <2>4. QED
      BY <2>1, <2>2, <2>3
  <1>6. batch' # <<>>
    BY <1>1 DEF EngineInv, QuietHolds
  <1>7. generation' = generation /\ compacting' = compacting
    BY <1>1
  <1>8. EngineInv'
    BY <1>1, <1>3, <1>4, <1>5, <1>6, <1>7, ServingKeeps
  <1>9. QED
    BY <1>3, <1>4, <1>8 DEF Same

-----------------------------------------------------------------------------
(* What stops it.                                                          *)

(* With an empty queue, any beginning of the journal is in order.          *)
LEMMA LessNumbers ==
  ASSUME EngineInv, Full' \in Seq(Command), IsPrefix(Full', Full), sent' = sent, queue' = <<>>
  PROVE  NumbersHold'
  <1>1. Full \in Seq(Command)
    BY LogIs DEF EngineInv, DiskInv
  <1>2. Funds <= sent /\ Increasing(Full) /\ ToSet(Full) \subseteq 1 .. sent
    BY DEF EngineInv, NumbersHold
  <1>3. Increasing(Full') /\ ToSet(Full') \subseteq ToSet(Full)
    BY <1>1, <1>2, PrefixIncreasing, PrefixSet
  <1>4. \A q \in 1 .. Len(queue') : FALSE
    OBVIOUS
  <1>5. QED
    BY <1>2, <1>3, <1>4 DEF NumbersHold

LEMMA CommitFailsHolds ==
  ASSUME EngineInv, setup' = setup, CommitFails
  PROVE  EngineInv' /\ Cut /\ IsPrefix(DiskLog, DiskLog')
  <1>1. /\ UNCHANGED <<dir, dirs, synced>> /\ dir' = dir
        /\ UNCHANGED <<book, generation, compacting, sent, published, announced, told, spoilt,
                       crashes, powerLosses>>
        /\ reply' = [e \in Command |-> IF reply[e] = "waiting" THEN "shutdown" ELSE reply[e]]
        /\ batch' = <<>> /\ queue' = <<>> /\ pc' = "stopped" /\ errors' = errors + 1
        /\ \/ pc = "commit" /\ FlushFails
           \/ pc = "sync" /\ UNCHANGED <<data, buffer>>
    BY DEF CommitFails, memory, historyVars
  <1>2. Serving
    BY <1>1 DEF Serving, MatcherStates
  <1>3. /\ DiskInv /\ DiskTyped /\ book \in Seq(Command) /\ DiskLog \in Seq(Command) /\ Full \in Seq(Command)
        /\ dir.journal # NoFile /\ IsPrefix(DiskLog, Full)
        /\ FundingIsWhole => Funded(DiskLog) /\ Funded(book)
    BY <1>2, ServingFacts
  <1>4. /\ DiskInv' /\ buffer' = <<>> /\ Full' = DiskLog'
        /\ IsPrefix(DiskLog, DiskLog') /\ IsPrefix(DiskLog', Full)
    <2>1. CASE pc = "commit" /\ FlushFails
      <3>1. UNCHANGED <<setup, dir, dirs, synced>>
        BY <1>1
      <3>2. QED
        BY <1>3, <2>1, <3>1, FlushFailsLog
    <2>2. CASE pc = "sync" /\ UNCHANGED <<data, buffer>>
      <3>1. UNCHANGED <<setup, diskVars>> /\ buffer' = buffer
        BY <1>1, <2>2 DEF diskVars, fileVars
      <3>2. buffer = <<>>
        BY <2>2 DEF EngineInv, QuietHolds
      <3>3. Full = DiskLog
        BY <1>3, <3>2, LogIs
      <3>4. DiskInv' /\ DiskLog' = DiskLog /\ Full' = Full
        BY <1>3, <3>1, DiskSame
      <3>5. QED
        BY <1>3, <3>1, <3>2, <3>3, <3>4, PrefixSelf
    <2>3. QED
      BY <1>1, <2>1, <2>2
  <1>5. DiskLog' \in Seq(Command)
    <2>1. data' \in Files /\ dir' \in Directory
      BY <1>4 DEF DiskInv, DiskTyped
    <2>2. QED
      BY <2>1, DirectoryFacts DEF DiskLog
  <1>6. NumbersHold'
    BY <1>1, <1>4, <1>5, LessNumbers
  <1>7. StartTyped' /\ StartHolds' /\ QuietHolds' /\ ~Serving'
    <2>1. generation \in Nat /\ compacting \in BOOLEAN
      BY DEF EngineInv, StartTyped
    <2>2. StartTyped'
      BY <1>1, <1>3, <2>1 DEF StartTyped
    <2>3. ~Serving'
      BY <1>1 DEF Serving, MatcherStates
    <2>4. StartHolds'
      BY <1>1 DEF StartHolds, Recovering, Publishing, Removing, Unmarking, Compacting, Recovered,
        Opened, MatcherStates
    <2>5. QuietHolds'
      BY <1>1, <1>4, <2>3 DEF QuietHolds
    <2>6. QED
      BY <2>2, <2>3, <2>4, <2>5
  <1>8. ServeTyped' /\ ClientTyped'
    <2>1. ServeTyped /\ ClientTyped
      BY DEF EngineInv
    <2>2. Len(<<>>) = 0 /\ Capacity \in Nat /\ MaxBatch \in Nat
      BY Assumed
    <2>3. ServeTyped'
      BY <1>1, <2>1, <2>2, EmptySeq DEF ServeTyped
    <2>4. reply' \in [Command -> Outcome] /\ errors' \in Nat
      BY <1>1, <2>1 DEF ClientTyped, Outcome
    <2>5. ClientTyped'
      BY <1>1, <2>1, <2>4 DEF ClientTyped
    <2>6. QED
      BY <2>3, <2>5
  <1>9. FundingHolds'
    <2>1. FundingIsWhole' => FundingIsWhole
      BY DEF FundingIsWhole, BufferPieces
    <2>2. FundingIsWhole => Funded(DiskLog')
      BY <1>3, <1>4, <1>5, FundedPrefixes
    <2>3. QED
      BY <1>1, <2>1, <2>2 DEF FundingHolds, Opened, MatcherStates
  <1>10. EngineInv'
    BY <1>4, <1>6, <1>7, <1>8, <1>9 DEF EngineInv
  <1>11. QED
    BY <1>4, <1>10 DEF Cut

(* The process is gone, and its memory with it.                            *)
LEMMA GoneHolds ==
  ASSUME EngineInv, setup' = setup, Disappear, powerLosses' \in Nat,
         DiskInv', buffer' = <<>>, Full' = DiskLog', IsPrefix(Full', Full),
         FundingIsWhole => DiskLog' = <<>> \/ Funded(DiskLog')
  PROVE  EngineInv'
  <1>1. /\ pc' = "down" /\ book' = <<>> /\ generation' = 0 /\ compacting' = FALSE
        /\ queue' = <<>> /\ batch' = <<>> /\ published' = <<>> /\ announced' = 0 /\ spoilt' = {}
        /\ reply' = [e \in Command |-> IF reply[e] = "waiting" THEN "lost" ELSE reply[e]]
        /\ sent' = sent /\ told' = told /\ errors' = errors /\ crashes' = crashes + 1
    BY DEF Disappear
  <1>2. ~Serving'
    BY <1>1 DEF Serving, MatcherStates
  <1>3. StartTyped'
    BY <1>1, EmptySeq DEF StartTyped
  <1>4. StartHolds'
    BY <1>1 DEF StartHolds, Recovering, Publishing, Removing, Unmarking, Compacting, Recovered,
      Opened, MatcherStates
  <1>5. QuietHolds'
    BY <1>1, <1>2 DEF QuietHolds
  <1>6. ServeTyped' /\ ClientTyped'
    <2>1. ServeTyped /\ ClientTyped
      BY DEF EngineInv
    <2>2. Len(<<>>) = 0 /\ Capacity \in Nat /\ MaxBatch \in Nat
      BY Assumed
    <2>3. ServeTyped'
      BY <1>1, <2>2, EmptySeq DEF ServeTyped
    <2>4. reply' \in [Command -> Outcome] /\ crashes' \in Nat
      BY <1>1, <2>1 DEF ClientTyped, Outcome
    <2>5. ClientTyped'
      BY <1>1, <2>1, <2>4 DEF ClientTyped
    <2>6. QED
      BY <2>3, <2>5
  <1>7. Full' \in Seq(Command)
    <2>1. data' \in Files /\ dir' \in Directory
      BY DEF DiskInv, DiskTyped
    <2>2. QED
      BY <2>1, DirectoryFacts DEF DiskLog
  <1>8. NumbersHold'
    BY <1>1, <1>7, LessNumbers
  <1>9. FundingHolds'
    <2>1. FundingIsWhole' => FundingIsWhole
      BY DEF FundingIsWhole, BufferPieces
    <2>2. QED
      BY <1>1, <2>1 DEF FundingHolds, Opened, MatcherStates
  <1>10. QED
    BY <1>2, <1>3, <1>4, <1>5, <1>6, <1>8, <1>9 DEF EngineInv

LEMMA CrashHolds ==
  ASSUME EngineInv, setup' = setup, Crash
  PROVE  EngineInv' /\ Cut /\ DiskLog' = DiskLog
  <1>1. /\ Disappear /\ buffer' = <<>> /\ powerLosses' = powerLosses
        /\ UNCHANGED <<setup, dir, dirs, data, synced>>
    BY DEF Crash, DropBuffer, fileVars
  <1>2. DiskInv /\ DiskTyped /\ powerLosses \in Nat
    BY DEF EngineInv, DiskInv, ClientTyped
  <1>3. <<>> \in Seq(Piece) /\ Len(<<>>) <= setup.bufferPieces
    BY <1>2, RoomIs, EmptySeq
  <1>4. DiskInv' /\ DiskLog' = DiskLog
    BY <1>1, <1>2, <1>3 DEF DiskInv, DiskTyped, DiskLog
  <1>5. Full' = DiskLog' /\ IsPrefix(Full', Full)
    <2>1. DiskLog \in Seq(Command) /\ IsPrefix(DiskLog, Full)
      BY <1>2, LogIs
    <2>2. QED
      BY <1>1, <1>4, <2>1, CatEmpty, RecordsPlus DEF Full
  <1>6. FundingIsWhole => DiskLog' = <<>> \/ Funded(DiskLog')
    BY <1>4 DEF EngineInv, FundingHolds
  <1>7. EngineInv'
    BY <1>1, <1>2, <1>4, <1>5, <1>6, GoneHolds
  <1>8. QED
    BY <1>4, <1>5, <1>7 DEF Cut

LEMMA PowerLossHolds ==
  ASSUME EngineInv, setup' = setup, PowerLoss
  PROVE  EngineInv' /\ Cut
  <1>1. /\ Disappear /\ LosePower /\ powerLosses' = powerLosses + 1
        /\ powerLosses < setup.powerLosses
    BY DEF PowerLoss
  <1>2. DiskInv /\ DiskTyped /\ powerLosses \in Nat
    BY DEF EngineInv, DiskInv, ClientTyped
  <1>3. /\ DiskInv' /\ buffer' = <<>> /\ Full' = DiskLog' /\ IsPrefix(DiskLog', DiskLog)
    BY <1>1, <1>2, PowerLossLog
  <1>4. DiskLog' \in Seq(Command)
    <2>1. data' \in Files /\ dir' \in Directory
      BY <1>3 DEF DiskInv, DiskTyped
    <2>2. QED
      BY <2>1, DirectoryFacts DEF DiskLog
  <1>5. DiskLog \in Seq(Command) /\ Full \in Seq(Command) /\ IsPrefix(DiskLog, Full)
    BY <1>2, LogIs
  <1>6. IsPrefix(Full', Full)
    BY <1>3, <1>4, <1>5, PrefixTransitive
  <1>7. FundingIsWhole => DiskLog' = <<>> \/ Funded(DiskLog')
    <2>1. FundingIsWhole => Funds <= 1
      BY <1>1, <1>2 DEF FundingIsWhole
    <2>2. FundingIsWhole => DiskLog = <<>> \/ Funded(DiskLog)
      BY DEF EngineInv, FundingHolds
    <2>3. QED
      BY <1>3, <1>4, <1>5, <2>1, <2>2, FundedPrefixes
  <1>8. powerLosses' \in Nat
    BY <1>1, <1>2
  <1>9. EngineInv'
    BY <1>1, <1>3, <1>6, <1>7, <1>8, GoneHolds
  <1>10. QED
    BY <1>3, <1>6, <1>9 DEF Cut

-----------------------------------------------------------------------------
LEMMA StutterHolds ==
  ASSUME EngineInv, UNCHANGED vars
  PROVE  EngineInv' /\ Full' = Full /\ DiskLog' = DiskLog
  <1>1. /\ UNCHANGED <<setup, diskVars>> /\ UNCHANGED <<dir, dirs, buffer, setup>>
        /\ UNCHANGED <<pc, book, generation, compacting, sent, reply, queue, batch, published,
                       announced, told, spoilt, crashes, powerLosses, errors>>
    BY DEF vars, diskVars, fileVars, memory, clientVars, matcherVars, historyVars, faultVars
  <1>2. DiskInv' /\ DiskLog' = DiskLog /\ DiskBase' = DiskBase /\ Full' = Full
    BY <1>1, DiskSame DEF EngineInv
  <1>3. StartTyped' /\ ServeTyped' /\ ClientTyped'
    BY <1>1 DEF EngineInv, StartTyped, ServeTyped, ClientTyped, StartupStates, AfterSync
  <1>4. StartHolds' /\ QuietHolds'
    BY <1>1, <1>2 DEF EngineInv, StartHolds, QuietHolds, Serving
  <1>5. NumbersHold'
    BY <1>1, <1>2, SameNumbers DEF EngineInv
  <1>6. FundingHolds'
    BY <1>1, <1>2 DEF EngineInv, FundingHolds, FundingIsWhole, BufferPieces
  <1>7. Serving' => BookFollows'
    BY <1>1, <1>2 DEF EngineInv, Serving, BookFollows
  <1>8. QED
    BY <1>2, <1>3, <1>4, <1>5, <1>6, <1>7 DEF EngineInv

(* What every step of the engine does.                                     *)
LEMMA EngineStep ==
  ASSUME EngineInv, [Next]_vars
  PROVE  /\ EngineInv'
         /\ \/ (Same \/ Grown) /\ (told' = told \/ ReplyNext)
            \/ Cut /\ told' = told /\ (IsPrefix(DiskLog, DiskLog') \/ PowerLoss)
  <1>1. CASE UNCHANGED vars
    <2>1. told' = told
      BY <1>1 DEF vars, historyVars
    <2>2. QED
      BY <1>1, <2>1, StutterHolds, SameIs DEF EngineInv
  <1>2. CASE Work
    <2>1. setup' = setup /\ (StartStep \/ Spawn \/ MatcherStep)
      BY <1>2 DEF Work
    <2>2. told' = told \/ ReplyNext
      <3>1. CASE StartStep \/ Spawn
        BY <3>1 DEF StartStep, Spawn, historyVars
      <3>2. CASE MatcherStep
        BY <3>2 DEF MatcherStep, TakeWrite, TakeRead, Pending, EndBatch, CommitFlush, CommitSync,
          PublishBook, SendEvents, historyVars
      <3>3. QED
        BY <2>1, <3>1, <3>2
    <2>3. CASE MatcherStep
      <3>1. \/ EngineInv' /\ Full' = Full /\ DiskLog' = DiskLog
            \/ EngineInv' /\ (Same \/ Grown)
        BY <2>1, <2>3, TakeWriteHolds, TakeReadHolds, BatchHolds, CommitHolds DEF MatcherStep
      <3>2. QED
        BY <2>2, <3>1, SameIs DEF EngineInv
    <2>4. CASE StartStep
      BY <2>1, <2>2, <2>4, StartStepHolds
    <2>5. CASE Spawn
      BY <2>1, <2>2, <2>5, SpawnHolds, SameIs DEF EngineInv
    <2>6. QED
      BY <2>1, <2>3, <2>4, <2>5
  <1>3. CASE \E writes \in BOOLEAN : Ask(writes)
    <2>1. PICK writes \in BOOLEAN : setup' = setup /\ (Submit(writes) \/ Enqueue(writes))
      BY <1>3 DEF Ask
    <2>2. told' = told
      BY <2>1 DEF Submit, Enqueue, historyVars
    <2>3. EngineInv' /\ Full' = Full /\ DiskLog' = DiskLog
      BY <2>1, AskHolds
    <2>4. QED
      BY <2>2, <2>3, SameIs DEF EngineInv
  <1>4. CASE Fault
    <2>1. setup' = setup /\ (TakeFails \/ CommitFails \/ Crash \/ PowerLoss)
      BY <1>4 DEF Fault
    <2>2. told' = told
      BY <2>1 DEF TakeFails, Pending, CommitFails, Crash, PowerLoss, Disappear, historyVars
    <2>3. CASE TakeFails
      BY <2>1, <2>2, <2>3, TakeFailsHolds
    <2>4. CASE CommitFails
      BY <2>1, <2>2, <2>4, CommitFailsHolds
    <2>5. CASE Crash
      <3>1. EngineInv' /\ Cut /\ DiskLog' = DiskLog
        BY <2>1, <2>5, CrashHolds
      <3>2. IsPrefix(DiskLog, DiskLog')
        BY <3>1, SameIs, LogIs, PrefixSelf DEF EngineInv, DiskInv
      <3>3. QED
        BY <2>2, <3>1, <3>2
    <2>6. CASE PowerLoss
      BY <2>1, <2>2, <2>6, PowerLossHolds
    <2>7. QED
      BY <2>1, <2>3, <2>4, <2>5, <2>6
  <1>5. QED
    BY <1>1, <1>2, <1>3, <1>4 DEF Next

(* What the invariant says of a serving engine.                            *)
LEMMA EngineInvImplies == EngineInv => BookIsJournal
  <1> SUFFICES ASSUME EngineInv PROVE BookIsJournal
    OBVIOUS
  <1>1. EngineTypeOK
    BY TypesByPart DEF EngineInv, DiskInv
  <1>2. Log = Full
    BY LogIs DEF EngineInv, DiskInv
  <1>3. ASSUME Serving
        PROVE  /\ BookFollows
               /\ FundingIsWhole => Funded(book)
    BY <1>3, ServingFacts
  <1>4. QED
    BY <1>1, <1>2, <1>3 DEF BookIsJournal, BookFollows, Funded

(* The invariant of all the steps of a start, a batch and a crash: the     *)
(* names on disk, or those a power loss brings back, tell the same log; at *)
(* each step of a start the memory holds the part of it that was read; and *)
(* commands are numbered as they come.                                     *)
THEOREM EngineInvariant == Spec => []EngineInv
  <1>1. Init => EngineInv
    BY InitHolds
  <1>2. EngineInv /\ [Next]_vars => EngineInv'
    BY EngineStep
  <1>3. QED
    BY <1>1, <1>2, PTL DEF Spec

(* The book that is served is the book of its journal, for every setup: a  *)
(* restart finds it again, each of its commands once and in order, the     *)
(* funding whole and first.                                                *)
THEOREM BookIsItsJournal == Spec => []BookIsJournal
  BY EngineInvariant, EngineInvImplies, PTL

-----------------------------------------------------------------------------
(* What a power loss leaves for sure.                                      *)

Safe == Left(data, synced)

(* Files that tell more make a directory tell more.                        *)
LEMMA MoreFiles ==
  ASSUME NEW files \in Files, NEW more \in Files, NEW d \in Directory,
         \A i \in Inode : ToSet(Records(files[i])) \subseteq ToSet(Records(more[i]))
  PROVE  /\ ToSet(BaseIn(files, d)) \subseteq ToSet(BaseIn(more, d))
         /\ ToSet(LogIn(files, d)) \subseteq ToSet(LogIn(more, d))
  <1>1. ASSUME NEW file \in {NoFile} \cup Inode
        PROVE  /\ Found(files, file) \in Seq(Command) /\ Found(more, file) \in Seq(Command)
               /\ ToSet(Found(files, file)) \subseteq ToSet(Found(more, file))
    BY FoundType
  <1>2. /\ d.journal \in {NoFile} \cup Inode /\ d.retired \in {NoFile} \cup Inode
        /\ d.snapshot.book \in Seq(Command)
        /\ BaseIn(files, d) \in Seq(Command) /\ BaseIn(more, d) \in Seq(Command)
    BY DirectoryFacts
  <1>3. ToSet(BaseIn(files, d)) \subseteq ToSet(BaseIn(more, d))
    <2>1. CASE Counts(d)
      <3>1. /\ ToSet(BaseIn(files, d)) = ToSet(d.snapshot.book) \cup ToSet(Found(files, d.retired))
            /\ ToSet(BaseIn(more, d)) = ToSet(d.snapshot.book) \cup ToSet(Found(more, d.retired))
        BY <1>1, <1>2, <2>1, CatSet DEF BaseIn
      <3>2. QED
        BY <1>1, <1>2, <3>1
    <2>2. CASE ~Counts(d)
      BY <2>2 DEF BaseIn
    <2>3. QED
      BY <2>1, <2>2
  <1>4. ToSet(LogIn(files, d)) \subseteq ToSet(LogIn(more, d))
    <2>1. /\ ToSet(LogIn(files, d)) = ToSet(BaseIn(files, d)) \cup ToSet(Found(files, d.journal))
          /\ ToSet(LogIn(more, d)) = ToSet(BaseIn(more, d)) \cup ToSet(Found(more, d.journal))
      BY <1>1, <1>2, CatSet DEF LogIn
    <2>2. QED
      BY <1>1, <1>2, <1>3, <2>1
  <1>5. QED
    BY <1>3, <1>4

(* The more of the files is left, the more they tell.                      *)
LEMMA MoreLeft ==
  ASSUME NEW files \in Files, NEW safe \in [Inode -> Nat], NEW kept \in [Inode -> Nat],
         \A i \in Inode : safe[i] <= kept[i] /\ kept[i] <= Len(files[i])
  PROVE  \A i \in Inode : ToSet(Records(Left(files, safe)[i])) \subseteq ToSet(Records(Left(files, kept)[i]))
  <1>1. ASSUME NEW i \in Inode
        PROVE  ToSet(Records(Left(files, safe)[i])) \subseteq ToSet(Records(Left(files, kept)[i]))
    <2>1. /\ files[i] \in Seq(Piece) /\ kept[i] \in 0 .. Len(files[i]) /\ safe[i] \in 0 .. kept[i]
      BY LenProperties DEF Files
    <2>2. ASSUME NEW p \in Seq(Piece), NEW k \in 0 .. Len(p), NEW n \in 0 .. k
          PROVE  ToSet(Records(SubSeq(p, 1, n))) \subseteq ToSet(Records(SubSeq(p, 1, k)))
      <3> DEFINE whole == SubSeq(p, 1, k)
      <3>1. whole \in Seq(Piece) /\ Len(whole) = k
        BY RecordsPrefix
      <3>2. SubSeq(whole, 1, n) = SubSeq(p, 1, n)
        BY BeginningOfBeginning
      <3> HIDE DEF whole
      <3>3. SubSeq(whole, 1, n) \in Seq(Piece) /\ IsPrefix(Records(SubSeq(whole, 1, n)), Records(whole))
        BY <3>1, RecordsPrefix
      <3>4. Records(whole) \in Seq(Command) /\ Records(SubSeq(whole, 1, n)) \in Seq(Command)
        BY <3>1, <3>3, RecordsCat
      <3>5. ToSet(Records(SubSeq(whole, 1, n))) \subseteq ToSet(Records(whole))
        BY <3>3, <3>4, PrefixSet
      <3>6. QED
        BY <3>2, <3>5 DEF whole
    <2>3. ToSet(Records(SubSeq(files[i], 1, safe[i]))) \subseteq ToSet(Records(SubSeq(files[i], 1, kept[i])))
      BY <2>1, <2>2
    <2>4. QED
      BY <2>3 DEF Left
  <1>2. QED
    BY <1>1

LEMMA SafeFacts ==
  ASSUME DiskTyped
  PROVE  /\ Safe \in Files
         /\ \A i \in Inode :
              /\ ToSet(Records(Safe[i])) \subseteq ToSet(Records(data[i]))
              /\ synced[i] = Len(data[i]) => Safe[i] = data[i]
         /\ \A d \in Directory : ToSet(LogIn(Safe, d)) \subseteq ToSet(LogIn(data, d))
         /\ \A d \in Directory : ToSet(BaseIn(Safe, d)) \subseteq ToSet(BaseIn(data, d))
  <1>1. /\ data \in Files /\ synced \in [Inode -> Nat]
        /\ \A i \in Inode : synced[i] <= Len(data[i])
    BY DEF DiskTyped
  <1>2. /\ Safe \in Files
        /\ \A i \in Inode :
             /\ IsPrefix(Records(Safe[i]), Records(data[i]))
             /\ synced[i] = Len(data[i]) => Safe[i] = data[i]
    BY <1>1, LeftFacts DEF Safe
  <1>3. ASSUME NEW i \in Inode
        PROVE  ToSet(Records(Safe[i])) \subseteq ToSet(Records(data[i]))
    <2>1. Safe[i] \in Seq(Piece) /\ data[i] \in Seq(Piece)
      BY <1>1, <1>2 DEF Files
    <2>2. Records(Safe[i]) \in Seq(Command) /\ Records(data[i]) \in Seq(Command)
      BY <2>1, RecordsCat
    <2>3. QED
      BY <1>2, <2>2, PrefixSet
  <1>4. \A d \in Directory : /\ ToSet(LogIn(Safe, d)) \subseteq ToSet(LogIn(data, d))
                             /\ ToSet(BaseIn(Safe, d)) \subseteq ToSet(BaseIn(data, d))
    BY <1>1, <1>2, <1>3, MoreFiles
  <1>5. QED
    BY <1>2, <1>3, <1>4

(* What replies have told of is on disk; and where the machine may lose    *)
(* power, it is in whatever a power loss would leave.                      *)
SafeHolds == \A d \in dirs : told \subseteq ToSet(LogIn(Safe, d))
SyncedHolds ==
  pc \in {"show", "tell", "reply"} =>
    dirs = {dir} /\ synced[dir.journal] = Len(data[dir.journal])
ToldHolds ==
  /\ told \subseteq ToSet(DiskLog)
  /\ setup.powerLosses > 0 => SafeHolds /\ SyncedHolds

LEMMA SafeSame ==
  ASSUME SafeHolds, UNCHANGED fileVars, told' = told
  PROVE  SafeHolds'
  BY DEF SafeHolds, Safe, fileVars

LEMMA SafeNewName ==
  ASSUME SafeHolds, dir \in dirs, data' = data, synced' = synced, told' = told,
         dirs' = dirs \cup {dir'}, ToSet(LogIn(Safe, dir)) \subseteq ToSet(LogIn(Safe, dir'))
  PROVE  SafeHolds'
  <1>1. Safe' = Safe
    BY DEF Safe
  <1>2. \A d \in dirs' : told \subseteq ToSet(LogIn(Safe, d))
    BY DEF SafeHolds
  <1>3. QED
    BY <1>1, <1>2 DEF SafeHolds

(* Two directories with the same journal, of which one has no less base.   *)
LEMMA MoreBase ==
  ASSUME NEW files \in Files, NEW d \in Directory, NEW e \in Directory, d.journal = e.journal,
         ToSet(BaseIn(files, d)) \subseteq ToSet(BaseIn(files, e))
  PROVE  ToSet(LogIn(files, d)) \subseteq ToSet(LogIn(files, e))
  <1>1. /\ BaseIn(files, d) \in Seq(Command) /\ BaseIn(files, e) \in Seq(Command)
        /\ Found(files, d.journal) \in Seq(Command)
    BY DirectoryFacts, FoundType
  <1>2. /\ ToSet(LogIn(files, d)) = ToSet(BaseIn(files, d)) \cup ToSet(Found(files, d.journal))
        /\ ToSet(LogIn(files, e)) = ToSet(BaseIn(files, e)) \cup ToSet(Found(files, d.journal))
    BY <1>1, CatSet DEF LogIn
  <1>3. QED
    BY <1>2

LEMMA NamingKeepsTold ==
  ASSUME EngineInv, UNCHANGED Others, SafeHolds,
         AdoptUnmarked \/ PublishSnapshot \/ RemoveRetired \/ RemoveMarker \/ MarkGeneration
  PROVE  SafeHolds'
  <1>1. DiskInv /\ DiskTyped /\ StartTyped /\ StartHolds
    BY DEF EngineInv, DiskInv
  <1>2. /\ dir \in Directory /\ dir \in dirs
        /\ dir.marker \in Nat /\ dir.snapshot.gen \in Nat /\ dir.snapshot.book \in Seq(Command)
        /\ dir.journal \in {NoFile} \cup Inode /\ dir.retired \in {NoFile} \cup Inode
        /\ book \in Seq(Command) /\ generation \in Nat
    BY <1>1, DirectoryFacts DEF DiskTyped, StartTyped
  <1>3. Safe \in Files /\ ToSet(BaseIn(Safe, dir)) \subseteq ToSet(DiskBase)
    BY <1>1, <1>2, SafeFacts DEF DiskBase
  <1>4. told' = told /\ data' = data /\ synced' = synced /\ dirs' = dirs \cup {dir'}
    BY DEF Others, historyVars, AdoptUnmarked, PublishSnapshot, RemoveRetired, RemoveMarker,
      MarkGeneration, NewDir
  <1>5. dir' \in Directory /\ dir'.journal = dir.journal
        /\ ToSet(BaseIn(Safe, dir)) \subseteq ToSet(BaseIn(Safe, dir'))
    <2>1. CASE AdoptUnmarked
      <3>1. pc = "retired" /\ dir.marker = 0 /\ generation = 0 /\ dir' = [dir EXCEPT !.marker = 1]
        BY <2>1 DEF AdoptUnmarked, NewDir
      <3>2. generation = dir.snapshot.gen
        BY <1>1, <3>1 DEF StartHolds, Recovering
      <3>3. /\ dir' \in Directory /\ dir'.journal = dir.journal /\ dir'.retired = dir.retired
            /\ dir'.snapshot = dir.snapshot /\ dir'.marker = 1
        BY <1>2, <3>1 DEF Directory
      <3>4. Counts(dir') /\ Counts(dir)
        BY <3>1, <3>2, <3>3 DEF Counts
      <3>5. BaseIn(Safe, dir') = BaseIn(Safe, dir)
        BY <3>3, <3>4 DEF BaseIn
      <3>6. QED
        BY <3>3, <3>5
    <2>2. CASE PublishSnapshot
      <3>1. /\ pc = "publish"
            /\ dir' = [dir EXCEPT !.snapshot = [gen |-> generation, book |-> book]]
        BY <2>2 DEF PublishSnapshot, NewDir
      <3>2. book = DiskBase /\ generation = dir.marker /\ generation > 0
        BY <1>1, <3>1 DEF StartHolds, Publishing, Compacting
      <3>3. /\ dir' \in Directory /\ dir'.journal = dir.journal
            /\ dir'.snapshot.gen = generation /\ dir'.snapshot.book = book /\ dir'.marker = dir.marker
        BY <1>2, <3>1 DEF Directory
      <3>4. ~Counts(dir')
        BY <1>2, <3>2, <3>3 DEF Counts
      <3>5. BaseIn(Safe, dir') = book
        BY <3>3, <3>4 DEF BaseIn
      <3>6. QED
        BY <1>3, <3>2, <3>3, <3>5
    <2>3. CASE RemoveRetired
      <3>1. pc = "remove" /\ dir' = [dir EXCEPT !.retired = NoFile]
        BY <2>3 DEF RemoveRetired, NewDir
      <3>2. ~Counts(dir)
        BY <1>1, <3>1 DEF StartHolds, Removing
      <3>3. /\ dir' \in Directory /\ dir'.journal = dir.journal
            /\ dir'.snapshot = dir.snapshot /\ dir'.marker = dir.marker
        BY <1>2, <3>1 DEF Directory
      <3>4. ~Counts(dir')
        BY <3>2, <3>3 DEF Counts
      <3>5. BaseIn(Safe, dir') = BaseIn(Safe, dir)
        BY <3>2, <3>3, <3>4 DEF BaseIn
      <3>6. QED
        BY <3>3, <3>5
    <2>4. CASE RemoveMarker \/ MarkGeneration
      <3>1. /\ pc \in {"unmark", "recovered"}
            /\ \/ dir' = [dir EXCEPT !.marker = 0]
               \/ dir' = [dir EXCEPT !.marker = generation + 1]
        BY <2>4 DEF RemoveMarker, MarkGeneration, NewDir
      <3>2. dir.retired = NoFile
        BY <1>1, <3>1 DEF StartHolds, Unmarking, Recovered
      <3>3. /\ dir' \in Directory /\ dir'.journal = dir.journal
            /\ dir'.snapshot = dir.snapshot /\ dir'.retired = NoFile
        BY <1>2, <3>1, <3>2 DEF Directory
      <3>4. BaseIn(Safe, dir') = BaseIn(Safe, dir)
        BY <1>2, <1>3, <3>2, <3>3, NothingRetired
      <3>5. QED
        BY <3>3, <3>4
    <2>5. QED
      BY <2>1, <2>2, <2>3, <2>4
  <1>6. ToSet(LogIn(Safe, dir)) \subseteq ToSet(LogIn(Safe, dir'))
    <2>1. ASSUME NEW files \in Files, NEW e \in Directory, dir.journal = e.journal,
                 ToSet(BaseIn(files, dir)) \subseteq ToSet(BaseIn(files, e))
          PROVE  ToSet(LogIn(files, dir)) \subseteq ToSet(LogIn(files, e))
      BY <1>2, <2>1, MoreBase
    <2>2. QED
      BY <1>3, <1>5, <2>1
  <1>7. QED
    BY <1>2, <1>4, <1>6, SafeNewName

LEMMA SyncDirectoryKeepsTold ==
  ASSUME EngineInv, UNCHANGED Others, SafeHolds, SyncDirectory
  PROVE  SafeHolds'
  <1>1. /\ dirs' = {dir} /\ data' = data /\ synced' = synced /\ told' = told /\ dir \in dirs
    BY DEF SyncDirectory, SyncDir, Others, historyVars, EngineInv, DiskInv, DiskTyped
  <1>2. Safe' = Safe
    BY <1>1 DEF Safe
  <1>3. QED
    BY <1>1, <1>2 DEF SafeHolds

LEMMA RetireKeepsTold ==
  ASSUME EngineInv, UNCHANGED Others, SafeHolds, RetireJournal
  PROVE  SafeHolds'
  <1>1. DiskInv /\ DiskTyped /\ StartTyped /\ StartHolds
    BY DEF EngineInv, DiskInv
  <1>2. /\ pc = "retire" /\ dir' = [dir EXCEPT !.retired = dir.journal, !.journal = NoFile]
        /\ told' = told /\ data' = data /\ synced' = synced /\ dirs' = dirs \cup {dir'}
    BY DEF RetireJournal, NewDir, Others, historyVars
  <1>3. /\ dir \in Directory /\ dir \in dirs /\ dir.snapshot.gen \in Nat /\ Safe \in Files
        /\ dir.journal \in {NoFile} \cup Inode
    BY <1>1, DirectoryFacts, SafeFacts DEF DiskTyped
  <1>4. dir.retired = NoFile /\ dir.marker = dir.snapshot.gen + 1
    BY <1>1, <1>2 DEF StartHolds, Recovered
  <1>5. /\ dir' \in Directory /\ dir'.journal = NoFile /\ dir'.retired = dir.journal
        /\ dir'.snapshot = dir.snapshot /\ dir'.marker = dir.marker
    BY <1>2, <1>3 DEF Directory
  <1>6. Counts(dir')
    BY <1>3, <1>4, <1>5 DEF Counts
  <1>7. BaseIn(Safe, dir) = dir.snapshot.book
    BY <1>3, <1>4, NothingRetired
  <1>8. BaseIn(Safe, dir') = LogIn(Safe, dir)
    BY <1>5, <1>6, <1>7 DEF BaseIn, LogIn
  <1>9. LogIn(Safe, dir') = BaseIn(Safe, dir')
    <2>1. ASSUME NEW e \in Directory, e.journal = NoFile
          PROVE  LogIn(Safe, e) = BaseIn(Safe, e)
      BY <1>3, <2>1, NoJournal
    <2>2. QED
      BY <1>5, <2>1
  <1>10. QED
    BY <1>2, <1>3, <1>8, <1>9, SafeNewName

(* A new file is empty whatever is left of it.                             *)
LEMMA CreateKeepsTold ==
  ASSUME DiskInv, SafeHolds, CreateJournal, dir.journal = NoFile, dir.retired = NoFile,
         told' = told
  PROVE  SafeHolds'
  <1>1. PICK i \in Unused : /\ NewDir(WithJournal(dir, i))
                            /\ data' = EmptyFile(data, i) /\ synced' = Unsynced(synced, i)
    BY DEF CreateJournal, WithJournal, EmptyFile, Unsynced
  <1>2. /\ dir \in Directory /\ dirs \in SUBSET Directory /\ dir \in dirs /\ data \in Files
        /\ synced \in [Inode -> Nat] /\ Safe \in Files
    BY SafeFacts DEF DiskInv, DiskTyped
  <1>3. i \in Inode /\ i # NoFile /\ Free(dirs, i)
    BY Inodes DEF Unused, Free
  <1>4. dir' = WithJournal(dir, i) /\ dirs' = dirs \cup {dir'}
    BY <1>1 DEF NewDir
  <1>5. /\ dir' \in Directory /\ dir'.journal = i /\ dir'.retired = NoFile
        /\ dir'.snapshot = dir.snapshot
    BY <1>2, <1>3, <1>4 DEF Directory, WithJournal
  <1>6. Safe' = EmptyFile(Safe, i)
    <2>1. \A j \in Inode :
            /\ data'[j] = (IF j = i THEN <<>> ELSE data[j])
            /\ synced'[j] = (IF j = i THEN 0 ELSE synced[j])
      BY <1>1, <1>2 DEF EmptyFile, Unsynced, Files
    <2>2. \A j \in Inode : SubSeq(data'[j], 1, synced'[j]) = IF j = i THEN <<>> ELSE SubSeq(data[j], 1, synced[j])
      <3>1. ASSUME NEW j \in Inode
            PROVE  SubSeq(data'[j], 1, synced'[j]) = IF j = i THEN <<>> ELSE SubSeq(data[j], 1, synced[j])
        <4>1. SubSeq(<<>>, 1, 0) = <<>>
          OBVIOUS
        <4>2. QED
          BY <2>1, <4>1
      <3>2. QED
        BY <3>1
    <2>3. Safe' = [j \in Inode |-> IF j = i THEN <<>> ELSE SubSeq(data[j], 1, synced[j])]
      BY <2>2 DEF Safe, Left
    <2>4. EmptyFile(Safe, i) = [j \in Inode |-> IF j = i THEN <<>> ELSE SubSeq(data[j], 1, synced[j])]
      BY DEF EmptyFile, Safe, Left
    <2>5. QED
      BY <2>3, <2>4
  <1>7. EmptyFile(Safe, i) \in Files /\ EmptyFile(Safe, i)[i] = <<>>
        /\ \A j \in Inode : j # i => EmptyFile(Safe, i)[j] = Safe[j]
    BY <1>2, <1>3, EmptySeq DEF EmptyFile, Files
  <1>8. ASSUME NEW d \in dirs PROVE LogIn(Safe', d) = LogIn(Safe, d)
    <2>1. /\ d \in Directory /\ d.journal \in {NoFile} \cup Inode /\ d.retired \in {NoFile} \cup Inode
          /\ d.journal # i /\ d.retired # i
      BY <1>2, <1>3, DirectoryFacts DEF Free
    <2>2. LogIn(EmptyFile(Safe, i), d) = LogIn(Safe, d)
      BY <1>2, <1>7, <2>1, SameFiles
    <2>3. QED
      BY <1>6, <2>2
  <1>9. LogIn(Safe', dir') = LogIn(Safe, dir)
    <2>1. ASSUME NEW files \in Files, NEW e \in Directory, e.journal = i, e.retired = NoFile,
                 files[i] = <<>>
          PROVE  LogIn(files, e) = e.snapshot.book
      <3>1. Found(files, i) = <<>>
        <4>1. Found(files, i) = Records(<<>>)
          BY <1>3, <2>1 DEF Found, In
        <4>2. QED
          BY <4>1, RecordsPlus
      <3>2. BaseIn(files, e) = e.snapshot.book /\ BaseIn(files, e) \in Seq(Command)
        BY <2>1, NothingRetired, DirectoryFacts
      <3>3. QED
        BY <2>1, <3>1, <3>2, CatEmpty DEF LogIn
    <2>2. Safe' \in Files /\ Safe'[i] = <<>>
      BY <1>6, <1>7
    <2>3. LogIn(Safe', dir') = dir'.snapshot.book
      BY <1>5, <2>1, <2>2
    <2>4. LogIn(Safe, dir) = dir.snapshot.book
      BY <1>2, NoJournal, NothingRetired
    <2>5. QED
      BY <1>5, <2>3, <2>4
  <1>10. \A d \in dirs' : told \subseteq ToSet(LogIn(Safe', d))
    <2>1. \A d \in dirs : told \subseteq ToSet(LogIn(Safe, d))
      BY DEF SafeHolds
    <2>2. QED
      BY <1>2, <1>4, <1>8, <1>9, <2>1
  <1>11. QED
    BY <1>10 DEF SafeHolds

(* What is written behind what was synced changes nothing that was.        *)
LEMMA WriteKeepsTold ==
  ASSUME DiskTyped, SafeHolds, dir.journal # NoFile, UNCHANGED <<dirs, synced, told>>,
         NEW x \in Seq(Piece), data' = WrittenTo(data, dir.journal, x)
  PROVE  SafeHolds'
  <1>1. /\ data \in Files /\ synced \in [Inode -> Nat] /\ \A i \in Inode : synced[i] <= Len(data[i])
    BY DEF DiskTyped
  <1>2. ASSUME NEW i \in Inode
        PROVE  SubSeq(data'[i], 1, synced'[i]) = SubSeq(data[i], 1, synced[i])
    <2>1. data'[i] = IF i = dir.journal THEN Cat(data[i], x) ELSE data[i]
      BY <1>1 DEF WrittenTo, Files
    <2>2. data[i] \in Seq(Piece) /\ synced[i] \in 0 .. Len(data[i])
      BY <1>1, LenProperties DEF Files
    <2>3. SubSeq(Cat(data[i], x), 1, synced[i]) = SubSeq(data[i], 1, synced[i])
      BY <2>2, BeginningOfCat
    <2>4. QED
      BY <2>1, <2>3
  <1>3. Safe' = Safe
    BY <1>2 DEF Safe, Left
  <1>4. QED
    BY <1>3 DEF SafeHolds

LEMMA AppendKeepsTold ==
  ASSUME DiskTyped, SafeHolds, dir.journal # NoFile, UNCHANGED <<dirs, synced, told>>,
         NEW c \in Command, Append1(c) \/ AppendFails(c)
  PROVE  SafeHolds'
  <1>1. buffer \in Seq(Piece)
    BY DEF DiskTyped
  <1>2. CASE Room >= 3 /\ Append1(c)
    <2>1. data' = data
      BY <1>2 DEF Append1
    <2>2. QED
      BY <2>1 DEF SafeHolds, Safe
  <1>3. CASE ~(Room >= 3 /\ Append1(c))
    <2> DEFINE front == SubSeq(Line(c), 1, Room)
               full == Cat(buffer, front)
    <2>1. Room < 3
      BY <1>3, RoomIs DEF Append1, AppendFails
    <2>2. front \in Seq(Piece)
      BY <2>1, Fits
    <2> HIDE DEF front
    <2>3. full \in Seq(Piece)
      BY <1>1, <2>2, CatType
    <2>4. CASE Append1(c)
      <3>1. data' = WrittenTo(data, dir.journal, full)
        BY <1>3, <2>4 DEF Append1, Written, WrittenTo, Cat, front
      <3>2. QED
        BY <2>3, <3>1, WriteKeepsTold
    <2>5. CASE AppendFails(c)
      <3>1. PICK k \in 0 .. Len(full) - 1 : data' = WrittenTo(data, dir.journal, SubSeq(full, 1, k))
        BY <2>5 DEF AppendFails, Written, WrittenTo, Cat, front
      <3> HIDE DEF full
      <3>2. k \in 0 .. Len(full)
        BY <2>3, LenProperties
      <3>3. SubSeq(full, 1, k) \in Seq(Piece)
        BY <2>3, <3>2, RecordsPrefix
      <3>4. QED
        BY <3>1, <3>3, WriteKeepsTold
    <2>6. QED
      BY <2>4, <2>5
  <1>4. QED
    BY <1>2, <1>3

LEMMA FlushKeepsTold ==
  ASSUME DiskTyped, SafeHolds, dir.journal # NoFile, UNCHANGED <<dirs, synced, told>>,
         Flush \/ FlushFails
  PROVE  SafeHolds'
  <1>1. buffer \in Seq(Piece)
    BY DEF DiskTyped
  <1>2. CASE Flush
    <2>1. data' = WrittenTo(data, dir.journal, buffer)
      BY <1>2 DEF Flush, Written, WrittenTo, Cat
    <2>2. QED
      BY <1>1, <2>1, WriteKeepsTold
  <1>3. CASE FlushFails
    <2>1. PICK k \in 0 .. Len(buffer) : data' = WrittenTo(data, dir.journal, SubSeq(buffer, 1, k))
      BY <1>3 DEF FlushFails, Written, WrittenTo, Cat
    <2>2. SubSeq(buffer, 1, k) \in Seq(Piece)
      BY <1>1, RecordsPrefix
    <2>3. QED
      BY <2>1, <2>2, WriteKeepsTold
  <1>4. QED
    BY <1>2, <1>3

(* A commit that is synced, with the names.                                *)
LEMMA SyncKeepsTold ==
  ASSUME DiskTyped, SafeHolds, SyncData, setup.fsync, setup.entries, dir.journal # NoFile,
         UNCHANGED <<dir, data, told>>
  PROVE  /\ SafeHolds'
         /\ dirs' = {dir'} /\ synced'[dir'.journal] = Len(data'[dir'.journal])
  <1>1. /\ data \in Files /\ synced \in [Inode -> Nat] /\ \A i \in Inode : synced[i] <= Len(data[i])
        /\ dir \in Directory /\ dir \in dirs /\ dir.journal \in Inode
    BY DirectoryFacts DEF DiskTyped
  <1>2. synced' = [synced EXCEPT ![dir.journal] = Len(data[dir.journal])] /\ dirs' = {dir}
    BY DEF SyncData, Fsync
  <1>3. \A i \in Inode : Len(data[i]) \in Nat
    BY <1>1, LenProperties DEF Files
  <1>4. /\ synced' \in [Inode -> Nat]
        /\ \A i \in Inode : synced[i] <= synced'[i] /\ synced'[i] <= Len(data[i])
    BY <1>1, <1>2, <1>3
  <1>5. Safe' = Left(data, synced')
    BY DEF Safe
  <1>6. Left(data, synced') \in Files /\ Safe \in Files
    BY <1>1, <1>4, LeftFacts, SafeFacts
  <1>7. \A i \in Inode : ToSet(Records(Safe[i])) \subseteq ToSet(Records(Left(data, synced')[i]))
    BY <1>1, <1>4, MoreLeft DEF Safe
  <1>8. ToSet(LogIn(Safe, dir)) \subseteq ToSet(LogIn(Left(data, synced'), dir))
    BY <1>1, <1>6, <1>7, MoreFiles
  <1>9. SafeHolds'
    BY <1>1, <1>2, <1>5, <1>8 DEF SafeHolds
  <1>10. QED
    BY <1>1, <1>2, <1>9

(* A power loss leaves it.                                                 *)
LEMMA LossKeepsTold ==
  ASSUME DiskTyped, SafeHolds, LosePower, told' = told
  PROVE  SafeHolds' /\ told' \subseteq ToSet(DiskLog')
  <1>1. /\ data \in Files /\ synced \in [Inode -> Nat] /\ \A i \in Inode : synced[i] <= Len(data[i])
        /\ dirs \in SUBSET Directory
    BY DEF DiskTyped
  <1>2. PICK d \in dirs : dir' = d /\ dirs' = {d}
    BY DEF LosePower
  <1>3. PICK kept \in [Inode -> 0 .. 3 * MaxCommands] :
          /\ \A i \in Inode : synced[i] <= kept[i] /\ kept[i] <= Len(data[i])
          /\ data' = Left(data, kept) /\ synced' = kept
    BY DEF LosePower, Left
  <1>4. kept \in [Inode -> Nat]
    BY <1>3, Assumed
  <1>5. /\ data' \in Files /\ \A i \in Inode : Len(data'[i]) = kept[i]
    BY <1>1, <1>3, <1>4, LeftFacts
  <1>6. Safe' = data'
    <2>1. ASSUME NEW files \in Files, \A i \in Inode : Len(files[i]) = kept[i]
          PROVE  Left(files, kept) = files
      <3>1. /\ Left(files, kept) \in Files
            /\ \A i \in Inode : Left(files, kept)[i] = files[i]
        <4>1. \A i \in Inode : kept[i] <= Len(files[i])
          BY <1>4, <2>1
        <4>2. QED
          BY <1>4, <2>1, <4>1, LeftFacts
      <3>2. QED
        BY <3>1 DEF Files
    <2>2. Safe' = Left(data', kept)
      BY <1>3 DEF Safe
    <2>3. QED
      BY <1>5, <2>1, <2>2
  <1>7. Safe \in Files /\ \A i \in Inode : ToSet(Records(Safe[i])) \subseteq ToSet(Records(data'[i]))
    BY <1>1, <1>3, <1>4, MoreLeft, SafeFacts DEF Safe
  <1>8. ToSet(LogIn(Safe, d)) \subseteq ToSet(LogIn(data', d))
    BY <1>1, <1>5, <1>7, MoreFiles
  <1>9. told \subseteq ToSet(LogIn(data', d))
    BY <1>8 DEF SafeHolds
  <1>10. SafeHolds'
    BY <1>2, <1>6, <1>9 DEF SafeHolds
  <1>11. QED
    BY <1>2, <1>9, <1>10 DEF DiskLog

(* Where the commit was synced, all that is on disk is safe.               *)
LEMMA SyncedIsSafe ==
  ASSUME EngineInv, Serving, SyncedHolds, pc \in {"show", "tell", "reply"}
  PROVE  /\ Full = DiskLog /\ ToSet(book) \subseteq ToSet(DiskLog)
         /\ dirs = {dir} /\ LogIn(Safe, dir) = DiskLog
  <1>1. /\ DiskTyped /\ dir.retired = NoFile /\ dir.journal # NoFile /\ BookFollows
    BY ServingFacts
  <1>2. /\ dir \in Directory /\ data \in Files /\ Safe \in Files /\ dir.journal \in Inode
    BY <1>1, DirectoryFacts, SafeFacts DEF DiskTyped
  <1>3. dirs = {dir} /\ synced[dir.journal] = Len(data[dir.journal])
    BY DEF SyncedHolds
  <1>4. Safe[dir.journal] = data[dir.journal]
    BY <1>1, <1>2, <1>3, SafeFacts
  <1>5. LogIn(Safe, dir) = DiskLog
    <2>1. ASSUME NEW d \in Directory, d.retired = NoFile,
                 Safe[d.journal] = data[d.journal]
          PROVE  LogIn(Safe, d) = LogIn(data, d)
      BY <1>2, <2>1, SameFiles
    <2>2. QED
      BY <1>1, <1>2, <1>4, <2>1 DEF DiskLog
  <1>6. buffer = <<>>
    BY DEF EngineInv, QuietHolds
  <1>7. Full = DiskLog
    BY <1>1, <1>6, LogIs
  <1>8. ToSet(book) \subseteq ToSet(DiskLog)
    BY <1>1, <1>7 DEF BookFollows
  <1>9. QED
    BY <1>3, <1>5, <1>7, <1>8

LEMMA StartKeepsTold ==
  ASSUME EngineInv, StartStep, UNCHANGED setup, SafeHolds, setup.fsync, setup.entries
  PROVE  SafeHolds'
  <1>1. /\ DiskInv /\ DiskTyped /\ StartTyped /\ StartHolds /\ FundingHolds
    BY DEF EngineInv, DiskInv
  <1>2. UNCHANGED Others /\ told' = told
    BY DEF StartStep, Others, historyVars
  <1>3. CASE ReadSnapshot \/ SkipRetired \/ ReplayRetired \/ ReplayJournal \/ Refuse
    <2>1. UNCHANGED fileVars
      BY <1>3 DEF ReadSnapshot, SkipRetired, ReplayRetired, ReplayJournal, Refuse
    <2>2. QED
      BY <1>2, <2>1, SafeSame
  <1>4. CASE AdoptUnmarked \/ PublishSnapshot \/ RemoveRetired \/ RemoveMarker \/ MarkGeneration
    BY <1>2, <1>4, NamingKeepsTold
  <1>5. CASE SyncDirectory
    BY <1>2, <1>5, SyncDirectoryKeepsTold
  <1>6. CASE RetireJournal
    BY <1>2, <1>6, RetireKeepsTold
  <1>7. CASE CreateEmpty
    <2>1. pc = "create" /\ CreateJournal
      BY <1>7 DEF CreateEmpty
    <2>2. dir.journal = NoFile /\ dir.retired = NoFile
      BY <1>1, <2>1 DEF StartHolds, Compacting
    <2>3. QED
      BY <1>1, <1>2, <2>1, <2>2, CreateKeepsTold
  <1>8. CASE Open
    <2>1. pc = "recovered" /\ IF dir.journal = NoFile THEN CreateJournal ELSE UNCHANGED fileVars
      BY <1>8 DEF Open
    <2>2. dir.retired = NoFile
      BY <1>1, <2>1 DEF StartHolds, Recovered
    <2>3. CASE dir.journal = NoFile
      BY <1>1, <1>2, <2>1, <2>2, <2>3, CreateKeepsTold
    <2>4. CASE dir.journal # NoFile
      BY <1>2, <2>1, <2>4, SafeSame
    <2>5. QED
      BY <2>3, <2>4
  <1>9. CASE FundNext
    <2>1. /\ pc = "fund" /\ Len(book) < Funds /\ Append1(Len(book) + 1)
          /\ dirs' = dirs /\ synced' = synced
      BY <1>9 DEF FundNext
    <2>2. dir.journal # NoFile
      BY <1>1, <2>1 DEF StartHolds, Opened
    <2>3. Len(book) + 1 \in Command
      <3>1. Len(book) \in Nat /\ Funds \in Nat /\ MaxCommands \in Nat /\ Funds <= MaxCommands
        BY <1>1, Assumed, LenProperties DEF StartTyped
      <3>2. QED
        BY <2>1, <3>1 DEF Command
    <2>4. QED
      BY <1>1, <1>2, <2>1, <2>2, <2>3, AppendKeepsTold
  <1>10. CASE FundFlush
    <2>1. pc = "fund" /\ Flush /\ dirs' = dirs
      BY <1>10 DEF FundFlush
    <2>2. dir.journal # NoFile /\ synced' = synced
      BY <1>1, <2>1 DEF StartHolds, Opened, Flush
    <2>3. QED
      BY <1>1, <1>2, <2>1, <2>2, FlushKeepsTold
  <1>11. CASE FundSync
    <2>1. pc = "fundSync" /\ SyncData /\ dir' = dir /\ data' = data
      BY <1>11 DEF FundSync
    <2>2. dir.journal # NoFile
      BY <1>1, <2>1 DEF StartHolds, Opened
    <2>3. QED
      BY <1>1, <1>2, <2>1, <2>2, SyncKeepsTold
  <1>12. QED
    BY <1>3, <1>4, <1>5, <1>6, <1>7, <1>8, <1>9, <1>10, <1>11 DEF StartStep

LEMMA StartIsNotServing ==
  ASSUME StartStep
  PROVE  pc' \notin MatcherStates
  BY DEF StartStep, ReadSnapshot, AdoptUnmarked, SkipRetired, ReplayRetired, ReplayJournal, Refuse,
    PublishSnapshot, RemoveRetired, RemoveMarker, SyncDirectory, MarkGeneration, RetireJournal,
    CreateEmpty, Open, FundNext, FundFlush, FundSync, MatcherStates, AfterSync

(* What a reply adds.                                                      *)
LEMMA ReplyTells ==
  ASSUME EngineInv, ReplyNext
  PROVE  /\ pc = "reply" /\ Serving /\ UNCHANGED diskVars
         /\ told \subseteq told' /\ told' \subseteq told \cup ToSet(book)
  BY DEF ReplyNext, Serving, MatcherStates

LEMMA MatcherKeepsTold ==
  ASSUME EngineInv, MatcherStep, UNCHANGED setup, SafeHolds, SyncedHolds, setup.fsync, setup.entries
  PROVE  SafeHolds' /\ SyncedHolds'
  <1>1. DiskInv /\ DiskTyped /\ StartTyped /\ StartHolds
    BY DEF EngineInv, DiskInv
  <1>2. Serving => dir.journal # NoFile
    BY ServingFacts
  <1>3. CASE TakeWrite
    <2>1. /\ pc = "take" /\ pc' = "take" /\ told' = told /\ dirs' = dirs /\ synced' = synced
          /\ queue # <<>> /\ Append1(Head(queue).cmd)
      BY <1>3 DEF TakeWrite, MayTake, Pending
    <2>2. Serving
      BY <2>1 DEF Serving, MatcherStates
    <2>3. Head(queue).cmd \in Command
      <3>1. queue \in Seq(Request)
        BY DEF EngineInv, ServeTyped
      <3>2. Head(queue) \in Request
        BY <2>1, <3>1
      <3>3. QED
        BY <3>2 DEF Request
    <2>4. SafeHolds'
      BY <1>1, <1>2, <2>1, <2>2, <2>3, AppendKeepsTold
    <2>5. SyncedHolds'
      BY <2>1 DEF SyncedHolds
    <2>6. QED
      BY <2>4, <2>5
  <1>4. CASE TakeRead
    <2>1. pc = "take" /\ pc' = "take" /\ told' = told /\ dirs' = dirs /\ synced' = synced /\ data' = data
      BY <1>4 DEF TakeRead, MayTake, Pending
    <2>2. QED
      BY <2>1 DEF SafeHolds, SyncedHolds, Safe
  <1>5. CASE EndBatch
    <2>1. pc' = "commit" /\ told' = told /\ UNCHANGED fileVars
      BY <1>5 DEF EndBatch, historyVars, diskVars
    <2>2. QED
      BY <2>1, SafeSame DEF SyncedHolds
  <1>6. CASE CommitFlush
    <2>1. pc = "commit" /\ pc' = "sync" /\ told' = told /\ dirs' = dirs /\ synced' = synced /\ Flush
      BY <1>6 DEF CommitFlush, historyVars, Flush
    <2>2. Serving
      BY <2>1 DEF Serving, MatcherStates
    <2>3. QED
      BY <1>1, <1>2, <2>1, <2>2, FlushKeepsTold DEF SyncedHolds
  <1>7. CASE CommitSync
    <2>1. pc = "sync" /\ told' = told /\ dir' = dir /\ data' = data /\ SyncData
      BY <1>7 DEF CommitSync, historyVars
    <2>2. Serving
      BY <2>1 DEF Serving, MatcherStates
    <2>3. SafeHolds' /\ dirs' = {dir'} /\ synced'[dir'.journal] = Len(data'[dir'.journal])
      BY <1>1, <1>2, <2>1, <2>2, SyncKeepsTold
    <2>4. QED
      BY <2>3 DEF SyncedHolds
  <1>8. CASE PublishBook \/ SendEvents
    <2>1. pc \in {"show", "tell"} /\ told' = told /\ UNCHANGED fileVars
      BY <1>8 DEF PublishBook, SendEvents, historyVars, diskVars
    <2>2. QED
      BY <2>1, SafeSame DEF SyncedHolds, fileVars
  <1>9. CASE ReplyNext
    <2>1. /\ pc = "reply" /\ Serving /\ UNCHANGED diskVars /\ told' \subseteq told \cup ToSet(book)
      BY <1>9, ReplyTells
    <2>2. /\ ToSet(book) \subseteq ToSet(DiskLog)
          /\ dirs = {dir} /\ LogIn(Safe, dir) = DiskLog
      BY <2>1, SyncedIsSafe
    <2>3. told \subseteq ToSet(LogIn(Safe, dir))
      BY <2>2 DEF SafeHolds
    <2>4. Safe' = Safe /\ dirs' = {dir} /\ dir' = dir /\ data' = data /\ synced' = synced
      BY <2>1, <2>2 DEF Safe, diskVars, fileVars
    <2>5. SafeHolds'
      BY <2>1, <2>2, <2>3, <2>4 DEF SafeHolds
    <2>6. SyncedHolds'
      BY <2>1, <2>4 DEF SyncedHolds
    <2>7. QED
      BY <2>5, <2>6
  <1>10. QED
    BY <1>3, <1>4, <1>5, <1>6, <1>7, <1>8, <1>9 DEF MatcherStep

LEMMA FaultKeepsTold ==
  ASSUME EngineInv, Fault, SafeHolds, SyncedHolds
  PROVE  SafeHolds' /\ SyncedHolds'
  <1>1. DiskInv /\ DiskTyped
    BY DEF EngineInv, DiskInv
  <1>2. Serving => dir.journal # NoFile
    BY ServingFacts
  <1>3. CASE TakeFails
    <2>1. /\ pc = "take" /\ pc' = "take" /\ told' = told /\ dirs' = dirs /\ synced' = synced
          /\ queue # <<>> /\ AppendFails(Head(queue).cmd)
      BY <1>3 DEF TakeFails, MayTake, Pending
    <2>2. Serving
      BY <2>1 DEF Serving, MatcherStates
    <2>3. Head(queue).cmd \in Command
      <3>1. queue \in Seq(Request)
        BY DEF EngineInv, ServeTyped
      <3>2. Head(queue) \in Request
        BY <2>1, <3>1
      <3>3. QED
        BY <3>2 DEF Request
    <2>4. SafeHolds'
      BY <1>1, <1>2, <2>1, <2>2, <2>3, AppendKeepsTold
    <2>5. SyncedHolds'
      BY <2>1 DEF SyncedHolds
    <2>6. QED
      BY <2>4, <2>5
  <1>4. CASE CommitFails
    <2>1. /\ pc \in {"commit", "sync"} /\ pc' = "stopped" /\ told' = told
          /\ dirs' = dirs /\ synced' = synced /\ (FlushFails \/ data' = data)
      BY <1>4 DEF CommitFails, historyVars
    <2>2. Serving
      BY <2>1 DEF Serving, MatcherStates
    <2>3. CASE FlushFails
      BY <1>1, <1>2, <2>1, <2>2, <2>3, FlushKeepsTold DEF SyncedHolds
    <2>4. CASE data' = data
      BY <2>1, <2>4 DEF SafeHolds, Safe, SyncedHolds
    <2>5. QED
      BY <2>1, <2>3, <2>4
  <1>5. CASE Crash
    <2>1. pc' = "down" /\ told' = told /\ UNCHANGED fileVars
      BY <1>5 DEF Crash, Disappear
    <2>2. QED
      BY <2>1, SafeSame DEF SyncedHolds
  <1>6. CASE PowerLoss
    <2>1. pc' = "down" /\ told' = told /\ LosePower
      BY <1>6 DEF PowerLoss, Disappear
    <2>2. QED
      BY <1>1, <2>1, LossKeepsTold DEF SyncedHolds
  <1>7. QED
    BY <1>3, <1>4, <1>5, <1>6 DEF Fault

LEMMA InitTold == Init => ToldHolds
  BY DEF Init, ToldHolds, SafeHolds, SyncedHolds

LEMMA ToldStep ==
  ASSUME DurableSetups, EngineInv, ToldHolds, [Next]_vars
  PROVE  ToldHolds'
  <1>1. /\ DiskTyped /\ setup \in Setups
        /\ setup.powerLosses \in Nat /\ powerLosses \in Nat
    BY EngineAssumption DEF EngineInv, DiskInv, DiskTyped, ClientTyped
  <1>2. setup.powerLosses > 0 => setup.fsync /\ setup.entries
    BY <1>1 DEF DurableSetups
  <1>3. setup' = setup
    BY DEF Next, Work, Ask, Fault, vars
  <1>4. /\ EngineInv'
        /\ \/ (Same \/ Grown) /\ (told' = told \/ ReplyNext)
           \/ Cut /\ told' = told /\ (IsPrefix(DiskLog, DiskLog') \/ PowerLoss)
    BY EngineStep
  <1>5. DiskLog \in Seq(Command) /\ DiskLog' \in Seq(Command)
    <2>1. data' \in Files /\ dir' \in Directory
      BY <1>4 DEF EngineInv, DiskInv, DiskTyped
    <2>2. QED
      BY <1>1, <2>1, LogIs, DirectoryFacts DEF DiskLog
  <1>6. IsPrefix(DiskLog, DiskLog') => ToSet(DiskLog) \subseteq ToSet(DiskLog')
    BY <1>5, PrefixSet
  <1>7. told' \subseteq ToSet(DiskLog')
    <2>1. CASE told' = told /\ IsPrefix(DiskLog, DiskLog')
      BY <1>6, <2>1 DEF ToldHolds
    <2>2. CASE ReplyNext
      <3>1. /\ pc = "reply" /\ Serving /\ UNCHANGED diskVars /\ told' \subseteq told \cup ToSet(book)
        BY <2>2, ReplyTells
      <3>2. DiskLog' = DiskLog
        BY <3>1 DEF diskVars, fileVars, DiskLog
      <3>3. ToSet(book) \subseteq ToSet(DiskLog)
        <4>1. ToSet(book) \subseteq ToSet(Full)
          BY <3>1, ServingFacts DEF BookFollows
        <4>2. buffer = <<>>
          BY <3>1 DEF EngineInv, QuietHolds
        <4>3. QED
          BY <1>1, <4>1, <4>2, LogIs
      <3>4. QED
        BY <3>1, <3>2, <3>3 DEF ToldHolds
    <2>3. CASE told' = told /\ PowerLoss
      <3>1. LosePower /\ powerLosses < setup.powerLosses
        BY <2>3 DEF PowerLoss
      <3>2. SafeHolds
        BY <1>1, <3>1 DEF ToldHolds
      <3>3. QED
        BY <1>1, <2>3, <3>1, <3>2, LossKeepsTold
    <2>4. QED
      BY <1>4, <2>1, <2>2, <2>3 DEF Same, Grown
  <1>8. ASSUME setup.powerLosses > 0 PROVE SafeHolds' /\ SyncedHolds'
    <2>1. SafeHolds /\ SyncedHolds /\ setup.fsync /\ setup.entries
      BY <1>2, <1>8 DEF ToldHolds
    <2>2. CASE StartStep
      <3>1. SafeHolds'
        BY <1>3, <2>1, <2>2, StartKeepsTold
      <3>2. pc' \notin MatcherStates
        BY <2>2, StartIsNotServing
      <3>3. QED
        BY <3>1, <3>2 DEF SyncedHolds, MatcherStates
    <2>3. CASE Spawn
      <3>1. pc' = "take" /\ UNCHANGED fileVars /\ told' = told
        BY <2>3 DEF Spawn, diskVars, historyVars
      <3>2. QED
        BY <2>1, <3>1, SafeSame DEF SyncedHolds
    <2>4. CASE MatcherStep
      BY <1>3, <2>1, <2>4, MatcherKeepsTold
    <2>5. CASE \E writes \in BOOLEAN : Ask(writes)
      <3>1. pc' = pc /\ UNCHANGED fileVars /\ told' = told
        BY <2>5 DEF Ask, Submit, Enqueue, diskVars, historyVars
      <3>2. QED
        BY <2>1, <3>1, SafeSame DEF SyncedHolds, fileVars
    <2>6. CASE Fault
      BY <2>1, <2>6, FaultKeepsTold
    <2>7. CASE UNCHANGED vars
      <3>1. pc' = pc /\ UNCHANGED fileVars /\ told' = told
        BY <2>7 DEF vars, diskVars, historyVars
      <3>2. QED
        BY <2>1, <3>1, SafeSame DEF SyncedHolds, fileVars
    <2>8. QED
      BY <2>2, <2>3, <2>4, <2>5, <2>6, <2>7 DEF Next, Work
  <1>9. QED
    BY <1>3, <1>7, <1>8 DEF ToldHolds

-----------------------------------------------------------------------------
(* What readers and subscribers see.                                       *)

EventsHold ==
  Serving =>
    /\ IsPrefix(published, book)
    /\ pc # "tell" => announced = Len(published) /\ told \subseteq ToSet(published)
    /\ pc = "tell" => /\ announced <= Len(published)
                      /\ told \subseteq ToSet(SubSeq(published, 1, announced))
    /\ pc \in {"tell", "reply"} => published = book

(* Where the book has grown behind what was published.                     *)
LEMMA PublishedPart ==
  ASSUME NEW shown \in Seq(Command), NEW now \in Seq(Command), IsPrefix(shown, now)
  PROVE  /\ Len(shown) <= Len(now)
         /\ ToSet(SubSeq(now, 1, Len(shown))) = ToSet(shown)
  <1>1. Len(shown) <= Len(now) /\ SubSeq(shown, 1, Len(shown)) = SubSeq(now, 1, Len(shown))
    BY DEF IsPrefix
  <1>2. QED
    BY <1>1, SubSeqFull

LEMMA EventsSame ==
  ASSUME EventsHold, book \in Seq(Command), book' \in Seq(Command), published \in Seq(Command),
         IsPrefix(book, book'), pc' \notin {"tell", "reply"} \/ book' = book,
         UNCHANGED <<published, announced, told>>,
         pc' = pc \/ {pc, pc'} \cap {"tell", "reply"} = {},
         Serving' => Serving
  PROVE  EventsHold'
  <1>1. IsPrefix(published, book) /\ IsPrefix(book, book') => IsPrefix(published, book')
    BY PrefixTransitive
  <1>2. QED
    BY <1>1 DEF EventsHold

LEMMA EventsStep ==
  ASSUME EngineInv, ToldHolds, EventsHold, [Next]_vars
  PROVE  EventsHold'
  <1>1. /\ DiskInv /\ DiskTyped /\ StartHolds /\ book \in Seq(Command) /\ published \in Seq(Command)
        /\ announced \in Nat
    BY DEF EngineInv, DiskInv, StartTyped, ServeTyped
  <1>2. IsPrefix(book, book)
    BY <1>1, PrefixSelf
  <1>3. CASE StartStep \/ CommitFails \/ Crash \/ PowerLoss
    <2>1. pc' \notin MatcherStates
      BY <1>3, StartIsNotServing DEF CommitFails, Crash, PowerLoss, Disappear, MatcherStates
    <2>2. QED
      BY <2>1 DEF EventsHold, Serving
  <1>4. CASE Spawn
    <2>1. /\ pc = "spawn" /\ pc' = "take" /\ published' = book /\ announced' = Len(book)
          /\ book' = book /\ told' = told
      BY <1>4 DEF Spawn, memory, historyVars
    <2>2. book = Full
      BY <1>1, <2>1 DEF StartHolds
    <2>3. ToSet(DiskLog) \subseteq ToSet(Full)
      BY <1>1, LogIs, PrefixSet
    <2>4. told \subseteq ToSet(book)
      BY <2>2, <2>3 DEF ToldHolds
    <2>5. QED
      BY <1>2, <2>1, <2>4 DEF EventsHold
  <1>5. CASE TakeWrite
    <2>1. /\ pc = "take" /\ pc' = "take" /\ UNCHANGED <<published, announced, told>>
          /\ queue # <<>> /\ book' = Plus(book, Head(queue).cmd)
      BY <1>5 DEF TakeWrite, MayTake, Pending, Plus
    <2>2. Serving
      BY <2>1 DEF Serving, MatcherStates
    <2>3. Head(queue).cmd \in Command
      <3>1. queue \in Seq(Request)
        BY DEF EngineInv, ServeTyped
      <3>2. Head(queue) \in Request
        BY <2>1, <3>1
      <3>3. QED
        BY <3>2 DEF Request
    <2>4. ASSUME NEW e \in Command PROVE Plus(book, e) \in Seq(Command) /\ IsPrefix(book, Plus(book, e))
      <3>1. <<e>> \in Seq(Command) /\ Plus(book, e) = Cat(book, <<e>>)
        BY <1>1, PlusIsCat
      <3>2. QED
        BY <1>1, <3>1, PlusType, CatPrefix
    <2>5. book' \in Seq(Command) /\ IsPrefix(book, book')
      BY <2>1, <2>3, <2>4
    <2>6. QED
      BY <1>1, <2>1, <2>2, <2>5, EventsSame
  <1>6. CASE \/ TakeRead \/ TakeFails \/ EndBatch \/ CommitFlush \/ CommitSync
             \/ \E writes \in BOOLEAN : Ask(writes)
             \/ UNCHANGED vars
    <2>1. UNCHANGED <<published, announced, told, book>>
      BY <1>6 DEF TakeRead, TakeFails, Pending, EndBatch, CommitFlush, CommitSync, Ask, Submit, Enqueue,
        vars, memory, matcherVars, historyVars
    <2>2. \/ pc' = pc
          \/ Serving /\ {pc, pc'} \cap {"tell", "reply"} = {}
      BY <1>6 DEF TakeRead, TakeFails, Pending, EndBatch, CommitFlush, CommitSync, Ask, Submit, Enqueue,
        vars, Serving, MatcherStates
    <2>3. Serving' => Serving
      BY <2>2 DEF Serving
    <2>4. book' \in Seq(Command) /\ IsPrefix(book, book')
      BY <1>1, <1>2, <2>1
    <2>5. QED
      BY <1>1, <2>1, <2>2, <2>3, <2>4, EventsSame
  <1>7. CASE PublishBook
    <2>1. /\ pc = "show" /\ pc' = "tell" /\ published' = book /\ book' = book
          /\ announced' = announced /\ told' = told /\ Serving
      BY <1>7 DEF PublishBook, memory, historyVars, Serving, MatcherStates
    <2>2. IsPrefix(published, book) /\ announced = Len(published) /\ told \subseteq ToSet(published)
      BY <2>1 DEF EventsHold
    <2>3. announced <= Len(book) /\ ToSet(SubSeq(book, 1, announced)) = ToSet(published)
      BY <1>1, <2>2, PublishedPart
    <2>4. QED
      BY <1>2, <2>1, <2>2, <2>3 DEF EventsHold
  <1>8. CASE SendEvents
    <2>1. /\ pc = "tell" /\ pc' = "reply" /\ published' = published /\ book' = book
          /\ announced' = Len(book) /\ told' = told /\ Serving
      BY <1>8 DEF SendEvents, memory, historyVars, Serving, MatcherStates
    <2>2. /\ published = book /\ announced <= Len(published)
          /\ told \subseteq ToSet(SubSeq(published, 1, announced))
      BY <2>1 DEF EventsHold
    <2>3. announced \in 0 .. Len(published)
      BY <1>1, <2>2
    <2>4. ToSet(SubSeq(published, 1, announced)) \subseteq ToSet(published)
      <3>1. ASSUME NEW s \in Seq(Command), NEW n \in 0 .. Len(s)
            PROVE  ToSet(SubSeq(s, 1, n)) \subseteq ToSet(s)
        <4>1. /\ SubSeq(s, 1, n) \in Seq(Command) /\ SubSeq(s, n + 1, Len(s)) \in Seq(Command)
              /\ s = Cat(SubSeq(s, 1, n), SubSeq(s, n + 1, Len(s)))
          BY SplitAt DEF Cat
        <4>2. ASSUME NEW a \in Seq(Command), NEW b \in Seq(Command), s = Cat(a, b)
              PROVE  ToSet(a) \subseteq ToSet(s)
          BY <4>2, CatSet
        <4>3. QED
          BY <4>1, <4>2
      <3>2. QED
        BY <1>1, <2>3, <3>1
    <2>5. QED
      BY <1>2, <2>1, <2>2, <2>4 DEF EventsHold
  <1>9. CASE ReplyNext
    <2>1. /\ pc = "reply" /\ pc' \in {"take", "reply"} /\ UNCHANGED <<published, announced, book>>
          /\ told' \subseteq told \cup ToSet(book) /\ Serving
      BY <1>9, ReplyTells DEF ReplyNext, memory
    <2>2. QED
      BY <1>2, <2>1 DEF EventsHold
  <1>10. QED
    BY <1>3, <1>4, <1>5, <1>6, <1>7, <1>8, <1>9 DEF Next, Work, Fault, MatcherStep

LEMMA EventsImply ==
  ASSUME EngineInv, EventsHold
  PROVE  EventsBetween
  <1>1. SUFFICES ASSUME Serving
                 PROVE  /\ announced <= Len(published)
                        /\ told \subseteq ToSet(SubSeq(published, 1, announced))
    BY DEF EventsBetween
  <1>2. published \in Seq(Command) /\ Len(published) \in Nat
    BY LenProperties DEF EngineInv, ServeTyped
  <1>3. SubSeq(published, 1, Len(published)) = published
    BY <1>2, SubSeqFull
  <1>4. CASE pc = "tell"
    BY <1>1, <1>4 DEF EventsHold
  <1>5. CASE pc # "tell"
    <2>1. announced = Len(published) /\ told \subseteq ToSet(published)
      BY <1>1, <1>5 DEF EventsHold
    <2>2. ToSet(SubSeq(published, 1, announced)) = ToSet(published)
      BY <1>3, <2>1
    <2>3. announced <= Len(published)
      BY <1>2, <2>1
    <2>4. QED
      BY <2>1, <2>2, <2>3
  <1>6. QED
    BY <1>4, <1>5

-----------------------------------------------------------------------------
(* The durable log.                                                        *)

DurableInv == EngineInv /\ ToldHolds /\ EventsHold

LEMMA DurableInit == Init => DurableInv
  <1>1. Init => EngineInv /\ ToldHolds
    BY InitHolds, InitTold
  <1>2. Init => EventsHold
    BY DEF Init, EventsHold, Serving, MatcherStates
  <1>3. QED
    BY <1>1, <1>2 DEF DurableInv

LEMMA DurableInvKept ==
  ASSUME DurableSetups, DurableInv, [Next]_vars
  PROVE  DurableInv'
  <1>1. EngineInv' /\ ToldHolds' /\ EventsHold'
    BY EngineStep, ToldStep, EventsStep DEF DurableInv
  <1>2. QED
    BY <1>1 DEF DurableInv

LEMMA DurableWords ==
  /\ \A s : Durable!ToSet(s) = ToSet(s)
  /\ \A s, t : Durable!IsPrefix(s, t) <=> IsPrefix(s, t)
  BY DEF Durable!ToSet, ToSet, Durable!IsPrefix, IsPrefix

LEMMA LogIsNext == DiskTyped' => Log' = Full'
  <1>1. DiskTyped => Log = Full
    BY LogIs
  <1>2. (DiskTyped => Log = Full)'
    BY <1>1, PTL
  <1>3. QED
    BY <1>2

(* Each step of the engine is one of the log, or none.                     *)
LEMMA LogSteps ==
  ASSUME DurableInv, DurableInv', [Next]_vars
  PROVE  [Durable!Next]_<<Log, told>>
  <1>1. /\ EngineInv'
        /\ \/ (Same \/ Grown) /\ (told' = told \/ ReplyNext)
           \/ Cut /\ told' = told /\ (IsPrefix(DiskLog, DiskLog') \/ PowerLoss)
    BY EngineStep DEF DurableInv
  <1>2. /\ Log = Full /\ Full \in Seq(Command) /\ DiskLog \in Seq(Command)
        /\ ToSet(DiskLog) \subseteq ToSet(Full)
    BY LogIs, PrefixSet DEF DurableInv, EngineInv, DiskInv
  <1>3. Log' = Full'
    <2>1. DiskTyped'
      BY <1>1 DEF EngineInv, DiskInv
    <2>2. QED
      BY <2>1, LogIsNext
  <1>4. CASE Log' = Log /\ told' = told
    BY <1>4
  <1>5. CASE Grown /\ told' = told
    <2>1. PICK c \in Command \ ToSet(Full) : Full' = Append(Full, c)
      BY <1>5 DEF Grown, Plus
    <2>2. Durable!Accept
      BY <1>2, <1>3, <1>5, <2>1, DurableWords DEF Durable!Accept
    <2>3. QED
      BY <2>2 DEF Durable!Next
  <1>6. CASE ReplyNext
    <2>1. /\ pc = "reply" /\ Serving /\ UNCHANGED diskVars
          /\ told \subseteq told' /\ told' \subseteq told \cup ToSet(book)
      BY <1>6, ReplyTells DEF DurableInv
    <2>2. Full' = Full
      BY <2>1 DEF diskVars, fileVars, Full, DiskLog
    <2>3. told' \subseteq ToSet(Full)
      <3>1. ToSet(book) \subseteq ToSet(Full)
        BY <2>1, ServingFacts DEF DurableInv, BookFollows
      <3>2. told \subseteq ToSet(Full)
        BY <1>2 DEF DurableInv, ToldHolds
      <3>3. QED
        BY <2>1, <3>1, <3>2
    <2>4. Durable!Tell
      BY <1>2, <1>3, <2>1, <2>2, <2>3, DurableWords DEF Durable!Tell
    <2>5. QED
      BY <2>4 DEF Durable!Next
  <1>7. CASE Cut /\ told' = told
    <2>1. Full' = DiskLog' /\ IsPrefix(Full', Full)
      BY <1>7 DEF Cut
    <2>2. told' \subseteq ToSet(DiskLog')
      BY DEF DurableInv, ToldHolds
    <2>3. Durable!Lose
      BY <1>2, <1>3, <1>7, <2>1, <2>2, DurableWords DEF Durable!Lose
    <2>4. QED
      BY <2>3 DEF Durable!Next
  <1>8. QED
    BY <1>1, <1>2, <1>3, <1>4, <1>5, <1>6, <1>7 DEF Same

(* What replies told of survives every crash and, where commits are synced *)
(* with their names, every power loss; what is told of was announced and   *)
(* published before.                                                       *)
THEOREM DurableInvariant ==
  ASSUME DurableSetups
  PROVE  Spec => []DurableInv
  <1>1. Init => DurableInv
    BY DurableInit
  <1>2. DurableInv /\ [Next]_vars => DurableInv'
    BY DurableInvKept
  <1>3. QED
    BY <1>1, <1>2, PTL DEF Spec

(* Subscribers hear of a command between the time the snapshot shows it and*)
(* the time a reply tells of it, whatever crashes and restarts went before.*)
THEOREM EventsComeBetween ==
  ASSUME DurableSetups
  PROVE  Spec => []EventsBetween
  <1>1. DurableInv => EventsBetween
    BY EventsImply DEF DurableInv
  <1>2. QED
    BY <1>1, DurableInvariant, PTL

(* Journal, snapshot, retired journal and buffer together are a log to     *)
(* which commands are only ever added at the end, of which a crash, a power*)
(* loss or a failing write takes nothing but an end, and nothing a reply   *)
(* has told of; a compaction and a recovery do not change it in any step.  *)
THEOREM JournalIsADurableLog ==
  ASSUME DurableSetups
  PROVE  Spec => ImplementsDurableLog
  <1>1. Init => Durable!Init
    <2>1. SUFFICES ASSUME Init PROVE Durable!Init
      OBVIOUS
    <2>2. Log \in Seq(Command)
      BY <2>1, InitHolds, LogIs DEF EngineInv, DiskInv
    <2>3. told = {}
      BY <2>1 DEF Init
    <2>4. QED
      BY <2>2, <2>3 DEF Durable!Init
  <1>2. DurableInv /\ DurableInv' /\ [Next]_vars => [Durable!Next]_<<Log, told>>
    BY LogSteps
  <1>3. QED
    BY <1>1, <1>2, DurableInvariant, PTL DEF Spec, ImplementsDurableLog, Durable!Spec
=============================================================================
