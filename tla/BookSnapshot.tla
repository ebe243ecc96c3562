---------------------------- MODULE BookSnapshot ----------------------------
(***************************************************************************)
(* The durable form of the order book and the audit of its structure       *)
(* (engine/src/book.rs). A compaction writes the book as lines, a restart  *)
(* builds a book from them one line at a time: records are read back as    *)
(* they were, the indexes, the price levels and the exposure counters are  *)
(* derived again. Operators only; a book is a record, so that the audit    *)
(* can be asked of the one in memory and of the one rebuilt.               *)
(***************************************************************************)
EXTENDS Book, TLC

LOCAL Seqs == INSTANCE SequencesExt
LOCAL Maps == INSTANCE Functions

Ascending(ids) == Seqs!SetToSortSeq(ids, <)

Header == [lastPrice |-> lastPrice, nextOrder |-> nextOrder,
           nextTrade |-> nextTrade, nextSeq |-> nextSeq]

Line(kind, key, value) == [kind |-> kind, key |-> key, value |-> value]

(* write_snapshot: records in id order; state() collects the same ones.    *)
WriteSnapshot ==
  LET each(kind, s, f) == [i \in DOMAIN s |-> Line(kind, s[i], f[s[i]])]
      accounts == Seqs!SetToSeq(Account)
  IN each("balance", accounts, balances)
     \o each("ledger", accounts, ledgers)
     \o each("order", Ascending(InMemory), orders)
     \o [i \in DOMAIN trades |-> Line("trade", trades[i].id, trades[i])]
     \o each("fill", Ascending({id \in OrderId : fillIds[id] # NoFills}), fillIds)
     \o [i \in DOMAIN closed |-> Line("closed", closed[i].id, closed[i])]

-----------------------------------------------------------------------------
(* BookBuilder.                                                            *)

NewBuilder(h) ==
  h @@ [balances |-> [a \in Account |-> EmptyWallet],
        ledgers |-> [a \in Account |-> EmptyLedger],
        orders |-> [id \in OrderId |-> None],
        byAccount |-> [a \in Account |-> {}],
        byClientId |-> [a \in Account |-> [c \in ClientId |-> 0]],
        fillIds |-> [id \in OrderId |-> NoFills],
        trades |-> <<>>,
        tradesOf |-> [a \in Account |-> <<>>],
        closed |-> <<>>,
        live |-> {}]

AddOrder(b, id, o) ==
  [b EXCEPT !.orders[id] = o,
            !.byAccount[o.account] = @ \cup {id},
            !.byClientId[o.account][o.cid] = id,
            !.live = IF Live(o) THEN @ \cup {id} ELSE @]

AddTrade(b, t) ==
  [b EXCEPT !.trades = Append(@, t),
            !.tradesOf = [@ EXCEPT ![t.makerAccount] = Append(@, t.id),
                                   ![t.takerAccount] = Append(@, t.id)]]

AddLine(b, l) ==
  CASE l.kind = "balance" -> [b EXCEPT !.balances[l.key] = l.value]
    [] l.kind = "ledger" -> [b EXCEPT !.ledgers[l.key] = l.value]
    [] l.kind = "order" -> AddOrder(b, l.key, l.value)
    [] l.kind = "trade" -> AddTrade(b, l.value)
    [] l.kind = "fill" -> [b EXCEPT !.fillIds[l.key] = l.value]
    [] l.kind = "closed" -> [b EXCEPT !.closed = Append(@, l.value)]

(* Live orders enter their levels, and the exposure counters, by id.       *)
LevelOf(b, side, price) ==
  Seqs!FoldLeft(LAMBDA lv, id : LevelWith(lv, id, b.orders[id].remaining), EmptyLevel,
           Ascending({id \in b.live : b.orders[id].side = side
                                      /\ b.orders[id].price = price}))

ExposureOf_WholeOrder(b, a) ==
  FoldSet(LAMBDA id, e : ExposureAdd(e, b.orders[id].price, b.orders[id].qty),
          NoExposure, {id \in b.live : b.orders[id].account = a})

ExposureOf(b, a) ==
  FoldSet(LAMBDA id, e : ExposureAdd(e, b.orders[id].price, b.orders[id].remaining),
          NoExposure, {id \in b.live : b.orders[id].account = a})

(* A snapshot of old has no closing times: ids order it.                   *)
ClosedOf(b) ==
  IF b.closed # <<>> THEN b.closed
  ELSE LET ids == Ascending({id \in OrderId : b.orders[id] # None} \ b.live)
       IN [i \in DOMAIN ids |-> Closing(ids[i], b.orders[ids[i]].at)]

FinishBook(b) ==
  LET done == ClosedOf(b)
  IN b @@ [level |-> [s \in Side |-> [p \in Price |-> LevelOf(b, s, p)]],
           exposure |-> [a \in Account |-> ExposureOf(b, a)],
           lastNow |-> IF done = <<>> THEN 0 ELSE done[Len(done)].at]

Rebuilt == FinishBook(Seqs!FoldLeft(AddLine, NewBuilder(Header), WriteSnapshot))

-----------------------------------------------------------------------------
(* check_invariants, asked of a book b.                                    *)

ThisBook ==
  [orders |-> orders, byAccount |-> byAccount, level |-> level, exposure |-> exposure,
   balances |-> balances, closed |-> closed, trades |-> trades]

LiveIn(b, id) == b.orders[id] # None /\ Live(b.orders[id])

RestingAt(b, side, price) ==
  {i \in DOMAIN b.level[side][price].queue : LiveIn(b, b.level[side][price].queue[i])}

KeptLevelsMatch(b) ==
  \A s \in Side : \A p \in {q \in Price : b.level[s][q] # EmptyLevel} :
    LET lv == b.level[s][p]
        rests == RestingAt(b, s, p)
    IN /\ lv.total # 0 /\ lv.live # 0
       /\ \A i \in rests : b.orders[lv.queue[i]].side = s /\ b.orders[lv.queue[i]].price = p
       /\ Maps!IsInjective([i \in rests |-> lv.queue[i]])
       /\ lv.live = Cardinality(rests)
       /\ lv.total = MapThenSumSet(LAMBDA i : b.orders[lv.queue[i]].remaining, rests)

Uncrossed(b) ==
  \A p, q \in Price :
    b.level["buy"][p] # EmptyLevel /\ b.level["sell"][q] # EmptyLevel => p < q

Consistent(o) ==
  CASE o.status = "open" -> o.remaining = o.qty
    [] o.status = "partial" -> 0 < o.remaining /\ o.remaining < o.qty
    [] o.status = "filled" -> o.remaining = 0
    [] OTHER -> o.remaining > 0

OrdersConsistent(b) ==
  LET resting == UNION {{b.level[s][p].queue[i] : i \in RestingAt(b, s, p)} :
                          <<s, p>> \in Side \X Price}
  IN \A id \in {i \in OrderId : b.orders[i] # None} :
       /\ Consistent(b.orders[id])
       /\ LiveIn(b, id) <=> id \in resting
       /\ id \in b.byAccount[b.orders[id].account]

Needed(b, a, side, value(_, _)) ==
  MapThenSumSet(LAMBDA id : value(b.orders[id].price, b.orders[id].remaining),
    {id \in b.byAccount[a] : LiveIn(b, id) /\ b.orders[id].side = side})

AccountsConsistent(b) ==
  \A a \in Account :
    LET lives == {id \in b.byAccount[a] : LiveIn(b, id)}
        notional(price, rest) == price * rest
        lots(price, rest) == rest
    IN /\ \A id \in b.byAccount[a] : b.orders[id] # None
       /\ b.exposure[a] =
            [open |-> Cardinality(lives),
             notional |-> Needed(b, a, "buy", notional) + Needed(b, a, "sell", notional)]
       /\ EnforceBalances =>
            /\ b.balances[a].usdcReserved = Needed(b, a, "buy", notional)
            /\ b.balances[a].ethReserved = Needed(b, a, "sell", lots)

WithinRetention(b) ==
  /\ b.trades # <<>> => b.trades[Len(b.trades)].id + 1 - b.trades[1].id = Len(b.trades)
  /\ Len(b.closed) <= KeepClosed /\ Len(b.trades) <= KeepTrades

CheckInvariants(b) ==
  /\ KeptLevelsMatch(b)
  /\ Uncrossed(b)
  /\ OrdersConsistent(b)
  /\ AccountsConsistent(b)
  /\ WithinRetention(b)

-----------------------------------------------------------------------------
(* Compaction loses nothing: between any two commands the book passes its  *)
(* audit, and the book rebuilt from its snapshot passes it too and is the  *)
(* same in everything that later commands and answers depend on, time      *)
(* priority and every index included; only queue entries of orders no      *)
(* longer live are gone.                                                   *)
SnapshotRebuilds ==
  pc = "idle" =>
    LET b == Rebuilt
    IN /\ CheckInvariants(ThisBook) /\ CheckInvariants(b)
       /\ b.orders = orders /\ b.byAccount = byAccount /\ b.byClientId = byClientId
       /\ b.fillIds = fillIds /\ b.closed = closed /\ b.trades = trades
       /\ b.balances = balances /\ b.ledgers = ledgers /\ b.exposure = exposure
       /\ \A a \in Account : b.tradesOf[a] = Ascending(tradesOf[a])
       /\ b.level = [s \in Side |-> [p \in Price |->
                       [level[s][p] EXCEPT
                          !.queue = SelectSeq(@, LAMBDA id : id \in LiveIds)]]]
       /\ [f \in DOMAIN Header |-> b[f]] = Header

=============================================================================
