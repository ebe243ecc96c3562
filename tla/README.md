# Verification of the trading system

TLA+ models of the order book engine with its journal and its server, of the
MCP server with its tools, and of the chat service with its gate, sessions,
audit log and model clients; the TLC configurations that check them; and the
TLAPS proofs about the order book, the engine with its journal and its server,
the gate's turns, the sessions and the audit log. Paths such as `engine/src/book.rs` are
relative to `crates/` in the repository. `PROJECT.json` maps every definition to
the source lines it stands for, and lists every run, the mutation that shows
each property can fail, the hazards and the findings.

- [The system](#the-system): inventory of components
- [Modules](#modules): what models what, and how it corresponds to the code
- [Runs](#runs): what each run checks, its bounds, what it shows
- [Findings](#findings): where the code differs from what it says of itself
- [Proofs](#proofs): what holds for every value of the constants
- [Not modelled](#not-modelled), and the [plan](#plan)

## The system

A chat service lets a language model trade on a local ETH/USDC order book.
Three processes, one behind the other:

    user --HTTP--> agent service --MCP--> MCP server --gRPC--> engine server
                   sessions, gate,        units, policy,      queue, matcher,
                   audit log              replay lookup       journal, feed

| Component | State | Operations | Interactions | What is hard |
|---|---|---|---|---|
| Order book `engine/src/book.rs` | levels with id queues, orders, idempotency and account indexes, wallets, ledgers, exposure counters, trades, retention window, event sequence | deposit, withdraw, place (match, rest, refuse), cancel, cancel all, retry lookup, retention, queries, export and rebuild | called by the matcher thread only; events go to the feed, snapshots to readers | lazy cancellation against level totals; reservations through price improvement; incremental exposure; a retry's answer long after; archiving under every index |
| Sequencer `engine/src/sequencer.rs` | bounded queue, batch with pending replies, published snapshot, broadcast | submit, enqueue, take, commit, publish, send events, reply | many client tasks, one matcher thread; journal before apply, commit before anybody is told | group commit and its failure, a write that fails half way, a full queue, a matcher that stopped |
| Journal and recovery `engine/src/journal.rs` | journal, retired journal, generation marker, snapshot, buffer | append, commit, compact, recover | read at start, written by the matcher | crash or power loss between any two system calls, recovery itself included |
| Engine server `engine-server/src/lib.rs` | rate buckets, streams, subscriptions | unary calls, pipelined stream, event feed, start and funding | gRPC in, sequencer handle out | backpressure over three channels, lagging subscribers, a funding cut short |
| MCP tools and policy `mcp-server/src/tools.rs`, `policy.rs` | session notional, one-minute window, accepted keys, placements lock | eleven tools; placement: look up, check, charge, place, release | model calls in, engine calls out | an answer that never comes, a retry of it, counts that are stale when used |
| Unit conversion `mcp-server/src/units.rs` | none | decimal strings to ticks and lots and back | tools and gate | boundary values, rounding |
| MCP transport `mcp-server/src/protocol.rs`, `jsonrpc.rs`, `transport/` | subscriptions, the pump's window, requests under way | dispatch, batches, subscribe, notify | host or agent in, tools out | requests that interleave with notifications, streams that end, clients that go away |
| Agent turn and gate `agent-service/src/agent.rs`, `gate.rs` | session: turn, pending confirmation, carried request; turn: permissions, actions sent | the tool loop, intercept, verify, compensate | model API, MCP calls, audit log | a model that may call for anything, consent over several turns, a turn cut short at any await |
| Model and MCP clients `anthropic.rs`, `deepseek.rs`, `mcp_client.rs` | the messages of a session, one flag shared by all sessions | create with retries, translate both ways, handshake, call with a timeout | provider and MCP server | the form each API requires of a history, after failures, abandoned turns and a downgrade |
| Agent sessions `agent-service/src/http.rs` | session store, per-session lock, remembered replies, rate window | chat, read, evict | hyper tasks, one lock per session | retries while the first attempt runs, eviction under a running turn |
| Audit log `agent-service/src/audit.rs` | file, last hash, failed flag | append, verify at start | before every action | a half-written record, a crash or power loss in one, two turns at once |
| Metrics, wire format, evaluations, demo | none that anything above depends on | | | |

What makes each correct:

- **Book**: orders trade in price-time priority and never cross; nothing is
  created, lost or left reserved; exposure stays within limits; a retried
  placement is told what the first one was told; the event feed alone tells
  what rests; archived orders leave no trace in an index; a rebuilt book is the
  same book; what people are shown of it is true.
- **Sequencer and journal**: nothing is told before it is on disk (as far as
  the configuration promises), nothing told is lost, a restart rebuilds exactly
  the book that was served, and every request is answered.
- **Server**: results of a stream come in request order, no subscriber misses an
  event unawares, nobody waits for another's client, and an account gets no more
  through than its rate allows (which the code keeps with an exception, see
  [Findings](#findings)).
- **Tools and policy**: whatever exists at the engine, or still may, is charged
  and within the limits; every call returns.
- **Transport and clients**: requests to a model have the form its API wants
  (with the exceptions under [Findings](#findings)), a call runs once and its result is true, a host told of changes catches up.
- **Turn and gate**: an action keeps to what the user's words say of it, or is the
  very one the user was shown and confirmed, and at most one runs per turn. That
  it goes no further than the words, the documents want too, and the code does
  not keep to ([Findings](#findings)).
- **Sessions**: one turn of a session at a time; a session in use stays; a
  request id runs once and a retry is told what the first attempt was told.
- **Audit**: an action has its record first and for good; a log that opens is
  what was written.

## Modules

`Reference` and `Units` are shared by several groups, everything else belongs to
one. Modules with `MC` in front give the constants of one group their values;
those ending in `Invariants` hold a group's properties (`MCAudit` holds the
audit log's, `BookSnapshot` and `Answers` theirs).

### Order book

| Module | Models |
|---|---|
| `Accounts` | wallets, ledgers, exposure counters: `reserve`, `release`, `settle`, `record_buy`, `record_sell`, `exposure_add`, `exposure_sub` as pure operators |
| `Book` | the `Book` struct and every operation that changes it |
| `BookInvariants`, `BookProofs` | the properties, and their proofs |
| `PriceTime` | the abstract order book (a set of resting orders and one incoming order); `BookInvariants` maps `Book` to it |
| `BookSnapshot` | what `export` keeps, how `from_snapshot` rebuilds the indexes, the book's own audit |
| `Units`, `Reference` | decimal texts and integers; the reference price of the market |
| `Answers` | the book's queries, the server's translation of them, and what the reading tools make of it |

The variables of `Book` are the fields of the struct: `keys` and `level` are
the two `BTreeMap`s of levels (an id queue that keeps cancelled ids until
matching meets them, a displayed total and a count of live orders), `orders`,
`byAccount`, `byClientId`, `fillIds`, `closed`, `trades` and `tradesOf` the
order memory and its indexes, `balances`, `ledgers` and `exposure` the accounts.
`feed` is what `record_into` leaves of the last command. Three variables are
history: `mirror` (what a subscriber adds up), `placed` (what each placement was
answered) and `moves` (a bound).

A placement is several steps, because its loop is where the difficulties are:
`AcceptOrder` or `RejectOrder` (intake with every check in the order the code
makes them, the fill-or-kill walk `Available` included), then per iteration of
the loop `DropStale`, `StopAtOwn` or `Fill`, and finally `FinishFilled`,
`FinishResting` or `FinishCancelled`, each with the archiving the code does at
its end. `CancelAll` collects ids and cancels them one step each. Calls that
return an error before they change anything are stuttering steps.

`BookSnapshot` and `Answers` have no state: they are functions of a book,
checked in every reachable one, so that each query and each conversion meets
every shape a book can take. Figures have one decimal for prices, one for
quantities, two for notionals; `MaxWord` stands for the width of the integers.

Amounts are integers; a subtraction that would wrap shows as a negative amount,
which `CommitmentsAreExact` excludes. Sums that could pass 64 bits are not
modelled. Time is a small set, and a command may carry an earlier time than the
one before it: the sequencer hands over the wall clock's reading as it is
(`sequencer.rs:121-129`), and the book uses it for dates and archiving by age only.

### Journal, start and matcher

| Module | Models |
|---|---|
| `Journal` | the directory, file contents, what is synced, the `BufWriter` |
| `Startup` | recovery, compaction, opening and funding: one system call a step |
| `Engine` | queue, batches, commit, snapshot, events, replies, crashes, power losses, errors |
| `DurableLog` | the promise: a log that loses nothing anybody was told of |
| `EngineInvariants` | properties and the mapping to `DurableLog` |

Here a book is the sequence of commands applied to it: `Book` is deterministic
(no step of one command has a choice), so equal sequences are equal books. A
journal line is three pieces, two halves of its text and its newline, so that a
buffer can spill, a write fail and a power loss tear in the middle. The
directory is one value with the history of values since the last `sync_dir`.
`pc` runs over the system calls of recovery and compaction and then over the
stations of a batch. `told` is history: the commands that replies so far rest
on, a read resting on the whole book it was answered from; `spoilt` the commands
whose append failed since the start. A deployment (sync or not, buffer size,
what the disk holds first, which faults may happen) is `setup`, chosen in
`Init`. `setup.entries` says what the file system does with the name of a new
file when the file is synced: puts it on disk too, as ext4 does, or not.

Assumptions on the environment: directory changes reach the disk in order and a
rename is atomic; a power loss keeps what was synced and any prefix of the rest;
a failing system call at start is a crash there; a restart has the
configuration the snapshot was taken with. `DurableSetups` names what the
promise of durability takes beyond that: where power may be lost, commits are
synced (`ENGINE_JOURNAL_FSYNC`), and a synced file has its name on disk.

### Engine server

| Module | Models |
|---|---|
| `Server` | rate limiter, unary calls, the two tasks of a pipelined stream, subscriptions, the matcher with its batches and the broadcast buffer |
| `ServerInvariants`, `ServerProofs` | the properties, and their proofs |

What the book does with a command is free here (`Book` says what it does), and
so is what clients do: they send, stop reading and hang up at any time. A
request that arrives first reads the clock (`Arrive`), and some time later holds
the limiter's lock and learns whether it is let through (`Admit`, in `Call` and
`ReadMessage`): in between, others may read and be admitted, so that a bucket's
time may go back. On a stream it is then `Enqueue`d, takes its place among the
replies to come (`SendPending`), is awaited in order by `NextPending` and
written by `WriteResult`; each of the queue, the replies pending and the results
outgoing is a bounded sequence whose writer waits when it is full. `clock` holds
the readings of calls on their way to the lock; `admitted` and `late` (how long an
account's calls have waited for the lock) are history.

### MCP tools

| Module | Models |
|---|---|
| `Policy` | the risk rules: window, cap, price band, and the charge |
| `Tools` | the acting tools, concurrent, over an engine with a queue |
| `ToolsInvariants`, `ToolsProofs` | the properties, and their proofs |

A call is where it stands: waiting for the lock, looking up its retry's
original, reading the market, counting open orders, placing, and so on, one
engine call a step. The engine may answer, refuse, or go away with or without
executing; a deadline may pass while a request is queued.

### MCP transport and model clients

| Module | Models |
|---|---|
| `Rpc` | JSON-RPC messages and batches, dispatch, the checks of an HTTP request: operators |
| `Mcp` | the server process behind stdio (loop, pump, host) or HTTP (requests that are dropped with their client) |
| `Transcript` | the messages of a session, the note channels, the translation to and from chat completions: operators |
| `Conversation` | handshake, the clients' retries and timeouts, and the loop of a turn, over `Mcp` |
| `ConversationInvariants` | the properties |

`audience` tells which of its two users the server has: a host over stdio, whose
behaviour is that of the code's own tests and documents (it subscribes, and
reads again what it is told of), or the chat service over HTTP. They are two
kinds of behaviour of one specification and never meet. `CallTool` of the server
and `CallTool` of the service are the two ends of a call: the server's end may
run after the client has given up. What the gate and the audit decide is
`Turn`'s and `Audit`'s: here they may hold any call back.

### Agent turn and gate

| Module | Models |
|---|---|
| `Words` | the gate's reading of a text: clauses, verbs, sides, figures, ids, framing, questions, confirmations |
| `Gate` | `Permissions`, the intercept decision, what a reply discloses: operators |
| `Turn` | `chat_turn`: begin, model responses, calls, audit, answer, end, compensation, abandonment |
| `TurnInvariants` | the properties |

A text is a sequence of clauses and a clause a set of words and figures. The
lists of words are a few words each, chosen to overlap as the code's do ("order"
is a verb of trading also in "cancel order 7"). A figure may be a price or a
quantity, so both are plain numbers and a notional is their product. The model
is free: any action, no token, any token issued, or an invented one; its reply
may show the terms of any action or none; a response may pause, refuse or be cut
off. `ran` is history: each action sent to the MCP server with the turn's words
at that moment. A turn may be abandoned at each await (model call, tool call,
compensating cancel), which drops its local variables and keeps the session's,
as the dropped future does. `Expire` is the confirmation's time to live, at any
moment. A failing audit write is nondeterministic and final, as the log's
`failed` flag is.

### Agent sessions

| Module | Models |
|---|---|
| `Sessions` | the session store with leases and evictions, the lock, and the chat and read handlers |
| `SessionsInvariants` | the properties |

A handler is a place in the list of requests made so far: it arrives (and
joins, creates or misses a session, or finds every session busy), waits for the
session's lock, and is then answered from memory, refused, or runs a turn that
ends well or badly (`Turn` is what happens in it). `Drop` is a connection that
goes away where the handler awaits; lock and lease go with it, the reservation
of its request id stays. `runs` is history. An evicted session is a value of its
own in `session`, so that a session made anew under the same id is told apart
from it. What refuses a request before it touches a session is left out.

### Audit log

`Audit` models append, sync and verification at start. An entry is a number and
a hash the sequence of entries it stands for, so a hash collision does not
exist. Turns append at the same time; a write or a sync may fail, the process
crash, the machine lose power, and the file be edited while the service is down.

## Runs

A configuration that only changes what a system is (gate on or off, sync or not,
risk limits, provider) is a choice of `Init`, so one run covers all of them.
Bounds are constants of the `.cfg` or guards named in the module.

| Run | Instance | Shows |
|---|---|---|
| `book_matching` | 2 accounts, 4 orders on 2 levels of either side, own orders in the way, buys of every time in force, cancels, two client ids that come back; one closed order and one trade remembered, a maximum age of 1 between times 0 and 2 | the book implements price-time priority, fill-or-kill included; levels with their lazily cancelled queues are exact and never cross; a retry tells the original outcome; archiving keeps every index exact; the events alone tell what rests; a book rebuilt from its snapshot is the same; listings are true |
| `book_money` | tight wallets, limits of 2 orders and a notional of 5, price improvement, 5 orders, one deposit or withdrawal | reservations and exposure counters are those of the live orders and within the limits; wallets, ledgers and cost accounting agree; quotes and statements are right to the last digit; every command returns; closed orders are final |
| `engine` | without sync: 3 crashes, 4 commands, from no disk, an empty journal or a retirement without marker; with a sync per batch, from each of the same: a buffer of 4 or 5 pieces that spills inside a batch, 2 crashes or power losses, 1 failing append, flush or sync; queue and batch of 2 | the book is the journal, funded once; recovery never replays twice and always comes back; nothing told is lost; snapshot, events, replies in this order; every request is answered or its connection lost |
| `server` | a stream with 2 messages and a client that cancels, of one account, and another account's subscriber; rate 1 a second, times 0 and 1; queue, outgoing results, events and feed of 1, 2 pending replies, batches of 2 | results in request order; from one mutation let through to another the burst, and the rate for the time between and for what calls waited for the lock; no silent gap in a feed; whoever waits is answered, whoever else does not read |
| `tools` | 3 concurrent calls, at most 2 of them placements, one shared key; a cap of two small orders and one open order; a window too tight for a second action; a listing of 1 order, an engine queue of 2 | charges cover every order that exists or is queued; limits hold at the engine and in every minute; every call returns |
| `conversation` | stdio: 2 messages of the host, 3 events, 1 end of the stream; HTTP: 4 provider set-ups (which API, whether it takes system-role messages, which channel is configured), 2 turns of 2 iterations, 2 attempts a request, 1 lost request | each turn's words and note once, results directly behind their calls unless a turn was cut short there; a call runs once and its result is true; a host catches up; every turn returns |
| `turn` | gated orders (3 turns), gated cancels (2 turns), gate off with 2 calls a response (2 turns), a goal run | one action a turn and a confirmation; an action keeps to what the words fix, or is the one shown and confirmed; compensation hits unrequested orders only; turns end |
| `sessions` | 3 requests of 2 sessions for one place in the store: retries, a changed message, another id, a read; one remembered id, one turn per rolling minute of two ticks | one turn at a time, evictions included; a remembered request runs once and replays the original outcome; the rate window holds; every request ends |
| `audit` | 2 turns, 4 records, 2 faults | every action is in the log for good; the log stays one chain; what opens is a prefix of what was written |

Deadlock is checked in the two runs of the book. Everywhere else the inputs are
bounded (`CHECK_DEADLOCK FALSE`): the system stops when they are used up, or
when a start has been refused, which is final.

Why the bounds are enough:

- Book: a level with a stale front, a live entry and another level behind it
  need three resting orders and one taker; a counter that is off by one stays
  off, so one release too many shows at once.
- Engine: three crashes are one in the run, one in the compaction that a restart
  performs, and one in the recovery from that. Where power is lost, one loss
  takes the end of a batch or of a compaction and the other the recovery from
  it; a new file's name is on disk once the file is synced (`DurableSetups`),
  since the code alone does not see to it (see [Findings](#findings)).
- Server: with room for one, every writer waits; a batch of two is one that
  mixes clients; a lag needs one event more than the buffer has room for. For the
  limiter, one call waits while another is admitted and a third is credited
  again, and one tick refills the whole burst.
- Tools: one placement whose answer is lost, one that finds what it left, one
  more to count or to cancel. In the minute of one tick two actions are inside
  or outside of one window.
- Conversation: an abandoned turn, a downgrade or a failure shows in the next
  request, two attempts are a failure and its retry. The client keeps nothing of
  a lost request, so a second one starts from where the first did. For notifications, one event in the window,
  one while others are told, and one behind that.
- Turn: consent takes at most three turns, a request, the question about it, the
  answer; a fourth starts like the first, since a session keeps only the pending
  action and the carried request. The first action sent closes a turn for others.
- Sessions: one request that runs, one that evicts or interferes, and one that
  finds out. With one place in the store an eviction has one candidate: which of
  several goes is not checked.
- Audit: two faults are a torn write and the loss, or the edit, behind it.

Fairness is weak throughout, and of what the program itself does:

- `Book`: the steps of a command in progress (`Work`): the matcher thread runs.
  New commands need not come.
- `Engine`: `Work`: the process runs, and is started again when it is down.
  Crashes are bounded, so that "it serves in the end" is about recovery and not
  about luck.
- `Server`: the matcher; each of a stream's two tasks; each subscription's task; a
  call that has arrived gets the limiter's lock, which is held for a few
  instructions and never across an await. Clients need not send, read or hang up.
- `Tools`: `Runtime`: calls advance, and their deadlines pass (`GiveUp`). The
  engine need not answer.
- `Conversation`: the server handles what it was sent (`Serve`), the pump runs,
  the host does what it has begun (`HostStep`); on the service's side its loop
  runs and a provider answers or fails, as each request to it has a deadline.
- `Turn`: `Loop`: the model and the MCP server answer or fail, both have
  deadlines in the code.
- `Sessions`: each handler: its task runs, a turn ends (`TurnEnds`), and the
  lock, which is granted in order of arrival, is free again for the waiting when
  the others have ended.

## Findings

Runs that are expected to find a violation of what the code or its documents
say:

| Run | What happens |
|---|---|
| `engine_joined_line` | recovery accepts a last line without its newline and appends behind it: a synced and answered command then makes every later start fail |
| `turn_hidden_cancel` | a pending cancel the user never saw lets a bare "yes" permit cancels, and a cancel of any order then runs without a token |
| `turn_history` | a turn dropped while it waits for a tool, or a response cut off behind a call, leaves a call without a result in the session's history, which the provider refuses from then on |

Differences that have no run of their own. The first three are stated as
properties beside those that are checked; with the property named added to the
run named, TLC finds it violated:

- The limiter reads the clock before it takes its lock (`lib.rs:87`) and sets the
  bucket's time to that reading even when it is the older one (`lib.rs:91`). A
  call that waited, even one that is refused, has later calls credited the same
  stretch again: with a rate of one, two mutations pass that read the same
  instant, where `lib.rs:44-45` speaks of "Mutations one account may send per
  second" with "a burst of one second". (`server` with `RateKept`; what does hold
  is `RateKeptButForWaits`.)
- "yes" after a request that states only a price lets through any quantity at
  that price without a token (`gate.rs:749`), also one that no reply showed, and a
  large one; `docs/07-decisions.md:87` says "Derived quantities still use the
  token flow". (`turn` with `DerivedQuantitiesUseTokens`; what does hold is
  `ActionsKeepToWords`.)
- After a downgrade of the note channel, system-role notes of earlier turns stay
  in the history (`agent.rs:381-394` replaces this turn's messages only): the
  turn that is sent again, and each later one of the session, still has a message
  the provider refuses, where `docs/04-agent-service.md:46` says the service
  "stays there for the rest of the process". (`conversation` with
  `StaysOnUserChannel`; `RequestsKeepForm` is about the messages a turn adds.)

The others are mostly visible in one step:

- The journal is created without syncing its directory entry (`journal.rs:70`),
  by a first start and again behind each compaction: a power loss can take the
  file with synced commands, which `docs/02-engine.md:160` excludes. With
  `entries` FALSE in the setups of `engine`, `ImplementsDurableLog` is violated.
- A failing append may leave part of a line too, and the matcher goes on behind
  it: `ToldIsReadable` fails after it as after a power loss. It may also leave a
  whole record, when only its newline did not fit: the command is answered
  `Shutdown` and is not in the book, but a restart replays it. The matcher stops
  at a failing commit "so the book cannot drift from its journal"
  (`sequencer.rs:272`), and not at a failing append: hence `spoilt` in
  `BookIsJournal`.
- A funding of several accounts that a power loss, or a crash behind a full
  buffer, cuts short is not completed by the next start
  (`engine-server/src/lib.rs:727-748`), since the book is no longer empty:
  `BookIsJournal` claims a whole funding under `FundingIsWhole`.
- `submit` answers a closed queue with `Busy` (`sequencer.rs:312`), as if a
  retry could help.
- The retry of an order whose first attempt is still queued at the engine finds
  no original and is charged again (`tools.rs:616`). `ChargesCoverOrders` holds:
  the error is on the safe side.
- Events that come while the stdio pump's stream is not open are never told
  (`stdio.rs:33-67`), and nothing tells the host to read again;
  `docs/03-mcp-server.md:80` says "nothing is lost that a re-read would not
  recover". `HostCatchesUp` excludes them (`unheard`).
- A batch with a subscription is accepted over HTTP, where it can have no effect
  (`http.rs:124-128`, "say so instead of accepting it silently").
- A failure while a response's body is read is not retried, unlike one before it.
- With the gate off, a model call that fails after an unrequested order
  (`Abandon`) skips the compensation, which `UndoesUnrequested` does not claim
  to happen.

## Proofs

Each theorem holds for every value of the constants that the named assumption of
its module admits; TLC evaluates the assumptions on the runs. Where a run checks
the same property, the run shows it on a small instance.

| Theorem (module) | Says |
|---|---|
| `TypeInvariant`, `TypeCorrect` (`BookProofs`) | the inductive invariant `TypeInv`; every variable of the book keeps its type |
| `NeverCrossed` (`BookProofs`) | the best bid is below the best ask, also between two iterations of the matching loop |
| `WalletsExplained` (`BookProofs`) | a wallet is deposits minus withdrawals plus receipts minus payments |
| `LedgersAddUp` (`BookProofs`) | cost accounting loses no lot and no cost, whatever the division rounds |
| `FeedHasNoGap` (`BookProofs`) | the events of a command carry consecutive numbers up to the last |
| `ClosedAreFinal` (`BookProofs`) | the record of a closed order never changes until it is archived |
| `QueuesExact` (`BookProofs`) | a level's totals are those of its queue's live entries; every live order is in one queue, in arrival order |
| `CommitmentsExact` (`BookProofs`) | reservations and exposure are the sums over the live orders, the limits hold, nothing goes below zero |
| `FeedIsFaithful` (`BookProofs`) | events have no gap, and a picture kept from the events alone has the open quantity of every order |
| `MemoryExact` (`BookProofs`) | the indexes name exactly the orders in memory; the retention window lists exactly the closed ones; retained trades have no gap |
| `PriceTimePriority` (`BookProofs`) | every step of the book is a step of `PriceTime` or invisible there |
| `RetryExact` (`BookProofs`) | a retry is told the order as its placement left it, and all but the oldest of its fills |
| `EngineInvariant`, `BookIsItsJournal` (`EngineProofs`) | the inductive invariant `EngineInv`; the book served is what a restart would rebuild, each command in it once, the funding whole |
| `DurableInvariant`, `EventsComeBetween` (`EngineProofs`) | what a reply told of was announced and published before, and is in every journal a crash or a power loss may leave |
| `JournalIsADurableLog` (`EngineProofs`) | journal, compaction, recovery and matcher implement `DurableLog`: nothing told is lost |
| `ServerInvariant` (`ServerProofs`) | the inductive invariant `ServerInv` of the server |
| `InOrder` (`ServerProofs`) | results of a stream come in the order of its requests, whose commands ran in that order |
| `RateIsKept` (`ServerProofs`) | from one mutation let through to another an account gets its burst and its rate, for the time between them and what its calls waited for the limiter's lock |
| `NoSilentGap` (`ServerProofs`) | a feed misses nothing before the loss it tells of |
| `ToolsTypes` (`ToolsProofs`) | types of the acting tools; the one placement under way holds the lock |
| `ChargesCover` (`ToolsProofs`) | whatever the engine executed, or still may, is charged, and within the session cap |
| `LimitsKept` (`ToolsProofs`) | open orders with those on their way stay within the limit, and the actions of any minute |
| `TurnTypes` (`TurnProofs`) | types of a session's turn, with the texts and the confirmation it carries over |
| `OneActionPerTurn` (`TurnProofs`) | a turn sends one action at most, and a confirmation is good for one |
| `KeepsToWords` (`TurnProofs`) | what the user's words fix about an action, the action keeps to, unless it is the very one that was shown and confirmed |
| `OnlyUnrequestedUndone` (`TurnProofs`) | only an order nobody asked for is taken back, and only once |
| `SessionsOrderly` (`SessionsProofs`) | one turn of a session at a time, through evictions, and no more in a minute than it may start |
| `RetriesSafe` (`SessionsProofs`) | a remembered request id runs once, and its retry is told the original outcome |
| `LogHolds` (`AuditProofs`) | an action's record stays in the log; the log is one chain that the next record goes on from, and only its last line may be torn |
| `OpensHistory` (`AuditProofs`) | a log that opens, even after an edit, is a prefix of what was written |

`SequenceLemmas` holds what several of them cite: induction over the naturals
stated for a set (the claim becomes the set of numbers it is true of, so that no
operator is a parameter), appending to a list, parts of a list, and sums over
finite sets.

**Order book** (`BookProofs`; `BookAssumption`:
a finite set of accounts, positive prices and quantities, well-typed requests).
`TypeOK` alone is not inductive. A step of the matching loop uses that the order
being placed has a type and an id no stored order has (`InProgress`,
`FreshIds`), a step of `CancelAll` that its list holds live orders, and
archiving that the retention window lists closed orders only (`ClosedAreDead`):
otherwise it could remove an order that a level's queue still offers. `TypeInv`
is their conjunction. There is one lemma per action for its
preservation, resting on lemmas about the operators (what `Reserve`, a fill or
archiving returns). A second part shows each of these properties inductive
relative to `TypeInv`: `NotCrossed` because an order rests only when matching has left
nothing it crosses; wallets by the per-operation lemmas of its first part
(reserving and releasing are internal, a fill moves both sides by the same
amounts), for every account whether balances are enforced or not; ledgers
through a stronger per-ledger invariant that relates cost and inventory; the
feed because numbers are assigned one by one from the counter.

**Order book, exactness** (`BookProofs`, from the same assumption). The sums
of the model are folds over finite sets, so it rests on what a sum does when one
term changes (`SequenceLemmas`, by induction over the subsets of a finite set). What
the stored orders and the one being placed hold open is written as one weight per
order id and per property (lots of a side, notional, reserved cash); a step of
the matcher changes the weight of two ids at most, and each operator (`Reserve`,
a fill, a release, an archiving) has a lemma that says what it does to amounts
and to weights. `LevelsExact` states levels through their queues and says in
addition that queues rise in arrival order and that no id is in two of them: lazy
cancellation leaves entries of orders that are gone, which weigh nothing.
`BookExact` joins it with exposure, wallets, ledgers, the feed's mirror and
`PartsExact`, what the order being placed has reserved beyond its remaining
quantity times its limit. They have to be proved together: that an amount does
not go below zero when something is released follows from its being the sum the
released term belongs to, and that the sum is right from the amount having been
there. `CommitmentsAreExact` is read off `BookExact`.

**Order book, memory** (`BookProofs`). `MemoryRight` strengthens
`MemoryIsExact` to hold in the middle of a command: the order being placed is in
the indexes from its intake on, before it is stored (`Kept` is what is stored and
it), the window lists each closed order once, and the trades retained are the last
ones, numbered without a gap. Indexes look only at an order's account, client id
and presence, so a fill leaves them alone; archiving takes from the front of the
window, and the per-account lists lose exactly the trades that leave it.

**Order book, retries** (`BookProofs`). `RepliesRight` says what an order's
record and its noted fills have to do with the reply it got, at any moment:
terms are the same, the remainder is what the noted quantity leaves of the order,
the reason is the record's unless the user cancelled it since, and a live order
has no reason. Trade ids of a placement rise (`FillsRise`) and the trades
retained are the latest, so that those of its fills still there are the last
ones (`LatestAreLast`).

**Order book, refinement** (`BookProofs`; also `NoneAssumption`: "None" is no
incoming order). What an order meets is first told by the living orders alone
(`Against`, `Sooner`, `Foremost`), and the front of the best level is shown to be
the foremost of them (`FrontIsForemost`, from `LevelsExact`). The availability
walk of a fill-or-kill order goes over queue entries: `WalkMeets` and
`AvailableIsAhead` show that it counts the lots of the living orders that come
before the taker's own (`SumAhead`). A fill takes its quantity from that sum and
from the order's remainder alike (`FillAhead`), so that the promise made at intake
holds until the end (`PlacingRight`), and a fill-or-kill order is never dropped
with a remainder: nothing would be ahead of it then (`NothingAhead`). With the
lemmas that map the living orders to the resting set (`ShowingAfterPut`,
`MetInBoth`), there is one lemma per kind of step (`AcceptArrives`,
`FillTradesOnce`, `RestingRests`, `CancelledDiscards` and so on).

**Engine and journal** (`EngineProofs`; `EngineAssumption`,
`JournalAssumption`, `StartupAssumption`: sizes are numbers, the buffer has room
for a line, the funding has numbers). A log is what the files tell under the
names of a directory: the snapshot, the retired journal unless the snapshot
contains it, the journal. `EngineInv` relates every directory a power loss may
leave to the present one (`DirsHold`): it has either the same open journal and
the same base, or it ends where the present base does; a file that is to be
replayed in front of another is whole on disk. That is what makes each step of a
compaction leave the log alone, and lets a loss in any of them take an end of it
only. `StartHolds` says what the memory of a start holds at each of its system
calls, `NumbersHold` that commands come in order of their numbers, `BookFollows`
what book and journal have in common while it serves, `FundingHolds` that the
funding is on disk whole or not at all. Each step is then one of three kinds:
the log is the `Same`, has `Grown` by a command, or was `Cut` at its end
(`EngineStep`). `ToldHolds` adds that what was told is in the log of what is
synced, under each of the directories; a commit makes the present one the only
one, which needs `DurableSetups`. `JournalIsADurableLog` maps the three kinds,
and a reply, to `Accept`, `Lose`, `Tell` or a stutter. `DurableSetups` is not for
convenience: without a sync a reply tells of what a power loss takes, and without
the names so does a synced one, as TLC shows. `BookIsItsJournal` needs neither.
What a list of pieces reads as is a function over its length; that it reads
prefixes as prefixes, and line by line, is by induction (`RecordsAreRead`).

**Server** (`ServerProofs`; `ServerAssumption`: callers, streams and subscribers
are distinct, channels have room for one, a stream places orders). `ServerInv`
has three parts that share no variable but the log. `PipelineHolds` says where a
request can be: its place in the queue is decided for (`Decided`), its command is
queued, in the batch or executed, and each of these is in request order and
before the next (`QueueHolds`); whoever still waits has no answer (`AnswersWait`);
what a stream's client got, and what is written for it, is the beginning of its
answers, followed without a gap by what the writer holds, what is pending and
what the reader holds (`StreamHolds`), until the client hangs up. `InOrder` is
read off it. `FeedsHold` says of a subscription that what it told, with the one
event it may hold back for want of room, is what concerns it between its first
event and its next, rising, and that a loss is its last word (`FeedRight`); that
the snapshot comes from what was broadcast (`ShownFirst`) is what leaves no gap
between snapshot and feed. `LimiterHolds` is about history: what an account was
let through since any of its admissions, with the tokens left, is covered by its
burst, the time on the bucket since then and the time its calls have waited for
the lock since then (`Covered`). A refill adds to both sides what time on the
bucket goes on by; where a late reading sets the bucket's time back, the caller
has waited for at least as long, since time on the bucket is never ahead of the
clock; and a token taken moves from one summand to the other.
`RateKeptButForWaits` is the case where the last admission was just made.
`RateKept`, the rate by the readings alone, is not true ([Findings](#findings)).

**Tools and policy** (`ToolsProofs`; `ToolsAssumption`, `PolicyAssumption`: limits
and bounds are numbers, orders have a price and a quantity, calls, blank and sent
keys differ). What the properties say is not inductive: they must say what a call
knows between its steps. `ToolsInv` has seven conjuncts besides the limit on open
orders. `CallsRight` says what a call at each step has, and that it holds
the lock exactly while it places an order. `QueueRight` ties each request the
engine holds to the call that waits for it, or to nobody, and has no placement
queued behind a count: the count of a call is answered before that call places,
and placements take turns. `CountRight` then says that from the answer to its
count until it sends, a call's number bounds the live orders and no placement is
queued, not even one whose call was given up, since the count was queued behind
it. So a placement that is sent finds room, and the limit, which counts queued
keys the book does not have, holds from then on: serving moves a key from the one
set to the other. `ChargesRight` adds to the executed and the queued value what
the holder of the lock has charged and not sent, or been refused and not given
back (`Unsettled`): a placement's steps move its value from one summand to the
next, a lost answer drops it from the left side only. `WindowRight` gives every
action of the last minute an entry of its own in the window, by an injection
that grows with each admission (`ChecksWindow`), although an earlier clock
reading may enter after a later one and expired entries leave only from the
front; counting its domain gives the rate. Dropping the request of a call given
up leaves the others in their order: a rising map between the places
(`ThinningFacts`) carries queue and sums over.

**Turn and gate** (`TurnProofs`; `TurnAssumption`, `GateAssumption`: a
deployment's messages are texts, its actions are actions). Types are invariant
together with what a pending confirmation says of itself. `OneActionPerTurn`
needs `Spent`: the actions sent are of turns up to this one, none is of this
turn while its one action is left, and none used the token of the pending
action, so that neither is available to a second call. `KeepsToWords` takes
each way the gate can let an action through (at once, on the words or on a yes
that stands for them; or on a token) and shows that the first leaves what the
words fix as they fix it (`PermitsByWords`) and that the second is a confirmation
of what was shown; `DisclosedIsShown` relates the reply's
figures to the pending action. `OnlyUnrequestedUndone` needs that while an order
awaits its verification, it is the last action sent and of this turn
(`OrderIsLast`). What a text says (`Words`) is used through its definitions;
that a list of figures found by the gate contains the figure sought is the
lemma `FiguresOfOneClause`.

**Sessions** (`SessionsProofs`; `SessionsAssumption`: limits are numbers, there
is room for one session and one answer). The invariant `SessionsInv` has eight
parts. `StoreHolds` and `LeasesHold` are about the present: a session in use is
in the store under its one name, and has one running turn at most; without the
lease, an eviction could make the session anew beside its running turn. The rest
relate what a session remembers to all runs that ever were: its times are those
of its last runs, and those it forgot are old (`TimesTell`); its responses carry
the last request ids that ran, each once (`ResponsesTell`), and each is the
outcome of a request with that id, or "unknown" while it runs or once it was
dropped (`AnswersKept`). From `TimesTell`, starting a turn keeps the rate over
every window, not only the one that ends now. From `ResponsesTell`, an id that
runs again has been forgotten, so that as many others ran in between: the
cardinality of a set of ids is compared with the number of responses.

**Audit log** (`AuditProofs`; `AuditAssumption`: the bounds are numbers). A hash is the sequence of entries it stands for, so that a chained
file determines its entries (`HashOfChain`, by induction on its length). The
invariant says that the hash of each whole line in the file, edited or not, is a
prefix of what was written (`HashesAreHistory`), that the service's last hash is
the last line's, and that a record is synced before its action
(`RecordsStay`). `OpensHistory` follows: a chain that verifies ends in a hash
that is history, and the hash is its entries.

Only model-checked:

- All liveness (`EveryCommandReturns`, `RestartServes`, `EveryRequestAnswered`,
  `EveryoneIsServed`, `CallsReturn`, `HostCatchesUp`, `TurnsReturn`, `TurnEnds`,
  `EveryRequestEnds`): the prover has no rule for fairness here.
- What is folded over a sequence or selected from one by the library's operators:
  statements and listings (`AnswersAddUp`, `ListingsAreTrue`). What a retry is
  told is selected too, by a recursive function (`OnlyIn`), which the provers can
  unfold, and charges are sums over sets of places.
- What a snapshot rebuilds (`SnapshotRebuilds`).
- Transport and clients.

## Not modelled

- `engine-server/src/main.rs` (reads the environment and calls `serve`), metrics
  (nothing reads them back), the wire format (generated).
- The evaluation harness and the demo site: around the system, not in it.
- Schemas, texts, prompts, formatting and framing of bytes.
- The check of figures in a reply, token accounting, the bookkeeping of goal
  runs, prompt caching, effort and the delay between attempts.
- Reconfiguring the limits or the retention of a running book; an audit log that
  is switched off; 64-bit overflow of sums in the book.

Simplifications that a property's reader should know:

- A call given up before the engine queued its request never has it queued, and
  the account's orders all come from one MCP process (`Tools`).
- A tool that asks the engine twice is answered from one book (`Answers`).
- Tasks waiting for a lock or for room are served in any order, not the one they
  came in, except where a property needs it (`Server`, `Sessions`).
- The directory entry of the audit log is on disk, and that of a journal once it
  is synced where power may be lost (`DurableSetups`).
- Ids the provider gives its calls are unique; the service's own HTTP requests
  pass the checks of origin, version and content type.
- The stdio host and the chat service are not combined: a server has one transport.

## Plan

Done: order book with its queries and durable form; journal, start, matcher;
engine server; tools and policy; transport and clients; turn and gate; sessions;
audit log.

Proved: book (types, matching and its refinement of `PriceTime`, queues, memory,
retries, money, exposure, feed), engine and journal, server (order of results,
rate, feed), tools (lock, limits, charges), turns, sessions, audit log.

Next is a proof again, since the model covers what has state: the transport and
its clients, `RequestsKeepForm` first. A subscriber that subscribes again after a
lag would show what happens between its reading and its new subscription.

Left of the model: the goal runs of the evaluations, and reconfiguration of a
running book.
