# Verification of the data feed

TLA+ specifications of `src/data_feed`, a C++ program that streams order books
from exchanges (Kraken, Coinbase), records them to files and serves them to
websocket clients. TLC checks the specifications on small instances; TLAPS
proves the theorems in the `*_proofs` modules for every value of the constants.

## The system

One process. Each venue has an `L2Manager` with four threads around it; data
flows from top to bottom, and every arrow between threads is a queue, a mutex or
a stop token.

```
  venue ── websocket ── WebsocketFeed (network thread)
    │                     │  raw_frames_queue_ (bounded, spsc)
    │                   L2Parser (parser thread)
    │ REST                │  decoder → route → gate → checksum
    │        ┌────────────┴───────────┐ core::Receiver
    │   FileWriter                Transmitter → Stream ← Outbox
    │ (bounded spsc queue,             │ Watcher::Send
    │  writer thread, files)         Server: one Session per client
    └── Router: ids, listings ── commands ──┘
        supervisor thread that connects the managers
```

| Component | State | Operations | What is hard |
|---|---|---|---|
| `core/spsc.h` | the queue, a stop token, a give-up flag | `PushBlocking`, `Drain` | a stop or a failure between any two reads of the loops |
| `net/websocket_feed` | socket, io_context, pending texts | `Connect`, `Send`, `Run`, `Next`, `Close`, `Disconnect` | stopping at a full queue, in a read, in a half-written text; a venue that does not answer the close |
| `venue/l2_manager` | subscriptions, connected, pending resubscribes, cached pairs | `Subscribe`, `Unsubscribe`, `List`, `ListPairs`, `Connect`, `Disconnect`, destructor, resubscriber thread | a lock released during a REST call; joins with a lock held; requests from three threads; a cache dated before its fetch |
| `venue/l2_parser` | routes: receiver, gate, book | `Attach`, `Detach`, `Start`, `Emit` | frames of an earlier subscription or connection |
| `l2/book`, recording format, `frontend/wire` | levels by side | `Apply`, `Serialize`, `MakeBook` | levels the depth pushes out; a replay that must rebuild the same book |
| `l2/file_writer` | file, queue | `Receive`, `OnGap`, writer thread, destructor | gaps through the queue, names by the second, failures |
| `frontend/stream`, `outbox`, `transmitter` | book, gap, watchers | `Receive`, `Interrupt`, `Watch`, `Unwatch` | watching during a gap; lookup and call under different locks |
| `frontend/server` | sessions, send queues, command strands | accept, handshake, read, write, commands, destructor | handlers that complete around `Close()` and the destructor; full queues |
| `venue/router`, `venue/manager.h` | id counter, retries | `Subscribe`, `Unsubscribe`, `List`, `ListPairs`, supervisor | concurrent ids, their limit; lists put together over time; backoff |
| adapters, Kraken's REST, Coinbase's products | none | checks, fetches | answers that are errors, not listed, not JSON |
| `coinbase/l2_decoder` | two sequence numbers | `Decode` | lost, damaged, repeated and overtaken frames |
| `kraken/l2_decoder`, checksum, `crypto/crc32` | none | `Decode`, `BookChecksum` | decimal texts, missing and mistyped members |
| `timing/aggregator`, `main.cc` | a queue per thread, a file | `Start`, `Stop`, `Record`, thread exit, writer thread | threads that exit, stops in mid-pass |

`PROJECT.json` lists every component with its status and, under `hazards`, what
in this code a test would hardly reach, by line, with the properties about it.

## Modules

| Module | Models | State and actions |
|---|---|---|
| `Channel` | what `core/spsc.h` promises | sent, received; send, receive, finish |
| `Spsc` | `core/spsc.h` | one action per read or write of shared state in the two loops |
| `Feed` | `net/websocket_feed`, as the producer of an `Spsc` | the owner's calls; the network thread, one handler of the io_context at a time; the parser's `Drain()` |
| `BookStream` | what `core/receiver.h` promises a receiver | what each receiver was last told |
| `L2Parser` | `venue/l2_parser` | operators on routes: attach, detach, start over, deliver, mismatch, ignore |
| `L2Manager` | `venue/l2_manager` with the network, parser and resubscriber threads; the venue is external | composes `L2Parser` with the threads; see below |
| `FileWriter` | `l2/file_writer` | the disk as a function from names to messages; construct, receive, gap, consume, fail, destroy |
| `Stream` | `frontend/stream`, `outbox`, `transmitter` | per id the book, gap and watchers; per client what it knows |
| `Receivers` | `MakeReceiverFactoryCallback()` of `venue/router` | a subscription's sink: `FileWriter`'s steps, or `Stream`'s |
| `Server` | `frontend/server` | per connection the socket, queues and strand; the acceptor; the staged destructor |
| `SubscriptionId` | `venue/manager.h` | ids as integers of limited width |
| `Router` | the ids of `venue/router` | one action per atomic step of concurrent `Subscribe()` and `Unsubscribe()` calls |
| `Supervisor` | `Router::Supervise()` | rounds, attempts and delays in ticks; a connect may fail, or hang |
| `Json`, `Decimal`, `UnixTime`, `Crc32` | `core/json`, `core/decimal`, `core/unix_time`, `crypto/crc32` | operators |
| `Rest` | adapters, `kraken/pair_precision`, `tradable_pairs`, `rest_error`, `coinbase/products` | from a response to a value, an error or a failed assertion |
| `Commands` | `Server::Run()` and its handlers, the enums of `frontend/wire`, `Router` and `L2Manager` below them; extends `Router` and `Rest` | per client the command it runs, in steps wherever a lock is let go; per venue the pairs cached; the catalogue the venues have and those they had, with their ages |
| `Book` | `l2/book`, `l2/message`, `l2/file_header` | levels by side; records |
| `Wire` | `frontend/wire`, `Stream::SnapshotLocked()` | Books and StreamInfo |
| `CoinbaseDecoder` | `coinbase/l2_decoder` | the venue's numbered frames, the wire, the decoder |
| `KrakenDecoder` | `kraken/l2_decoder`, `kraken/checksum` | Kraken's whole book, the frame's text, and the parser's, a replay's and a client's book |
| `Decoders` | `Adapter::MakeDecoder()` | one decoder or the other |
| `Aggregator` | `timing/aggregator`, the end of `main()` | `Record()`, `Start()`, `Stop()` and the writer's pass in single accesses |
| `MCL2Manager`, `MCServer`, `MCCommands`, `MCDecoders` | | the instances TLC checks |
| `Feed_proofs`, `L2Manager_proofs`, `FileWriter_proofs`, `Stream_proofs`, `Server_proofs`, `Commands_proofs`, `Aggregator_proofs`, `Decoders_proofs` | | theorems about the module each is named for; `Feed_proofs` has `Spsc`'s too, `Commands_proofs` has `Router`'s and `Supervisor`'s |

Conventions. An action is what a thread does without another thread being able
to see or disturb it: the whole of a critical section, or a single atomic access
outside of one. Data is abstracted to what the properties tell apart: in
`L2Manager` a book is the place in the venue's stream that it reflects, in
`Stream` a client is what it would know after reading all it was sent; only `Book`
and the modules above it have levels. What is outside of `src/` (venues, the
wire, clients, boost's queue and io_context, readers of a recording) is marked
external in `PROJECT.json` and modelled from how the code uses it. Operators
commented as mutants change one definition the way a plausible mistake would;
nothing uses them, and each makes the property it is listed with fail.

### The manager

What runs under `life_cycle_mutex_` without waiting is one step.
`DisconnectLocked()` waits for the network thread and then for the parser
thread, with the mutex held, so it is three steps, and `lifeCycle` is both the
mutex and the place in it. `Subscribe()` lets go of the mutex while it fetches
the pair's precision, so it is two steps with anything in between. The
resubscriber takes a pair off `pending`, lets go of its own lock, and takes the
life cycle mutex later. A decoded change is named by the venue's stream it
belongs to and its place there; whether its checksum agrees is part of it (absent,
agrees, differs, or the frame cannot be decoded), and the book's own place must
agree as well.

`L2Manager` implements `BookStream` (`KeepsContract`): every receiver sees
snapshots, updates that continue exactly the last message, and gaps, whatever the
threads do. `FileWriter` and `Stream` start from that contract: the messages they
receive are those it allows, including a snapshot that no gap announced, as the
finding shows.

### The feed

`Feed` shows what `L2Manager` takes for granted of its network thread: that
joining it ends, that every frame it read is queued by then, and that texts go out
in order. It extends `Spsc`, whose producer is the network thread in its push and
whose consumer is the parser's `Drain()`. A handler that completes is one step; an
io_context without work is stopped, and runs nothing until `Next()` restarts it.

### Commands

`Commands` follows a command from the wire to the venue and back. Each client has
one strand, so its commands run one after the other; those of different clients
overlap between any two locks. A venue lists each symbol in some state (online,
offline, disabled, an alias of another, absent), which may change under a cached
list, and answers a request truly, with an error, with something that is not its
JSON, or not at all. A response is JSON that `Rest` takes apart as the code does;
where the code reads a member that is not there, Debug builds fail an assertion and
Release builds go on with what rapidjson gives, and both are outcomes.

### Levels

`KrakenDecoder` has no concurrency: its state is the book Kraken keeps, in full, and
the books the program makes of the frames about it. Every frame is text (numbers
with zeros to spare or none, its time, its members there, missing or of another
type), is decoded, emitted, recorded, replayed, streamed and applied by a client.

## Runs

| Run | Instance | Shows |
|---|---|---|
| `feed` | 1 slot, 3 frames, 2 texts, 2 connects | no frame is lost or reordered before the stop (`NothingLost`, `ReadIsQueued`), the queue implements `Channel`, `Disconnect()` returns, a text goes out unless the connection ends |
| `manager_safety` | 1 pair, 2 recordings, 2 depths, 2 frame slots, 3 messages a stream, 2 faults | routes are the subscriptions', one a pair; connected or not, nothing in between; the checked book is the receiver's; the venue ends up streaming what is subscribed; an id, a refusal or a failure that is answered holds when given; the receivers' contract |
| `manager_live` | 1 subscription, 1 slot, 3 faults | no deadlock of mutex, joins and queue; every gap ends with a snapshot |
| `manager_break` | 1 subscription, 2 faults | the first finding, a violation |
| `receivers` | recorded: 3 writers, 5 entries, 2 seconds, 1 fault; live: 1 stream, 2 clients, 4 messages or gaps, 3 calls each | each file is one unbroken stretch from a snapshot on; closed files are never replaced; what was received is on disk once the writer is gone; a watching client has the stream's book or knows the gap; watching takes effect |
| `server` | 1 connection, 2 streams, 3 commands, 1 frame queued before Books are dropped | skipped numbers show exactly the lost Books; replies once and in order; no Book of a stream no longer watched; a dropped connection is forgotten for good |
| `server_live` | 2 connections, 1 command thread, 1 command and 1 Book | the destructor ends, while connections come, commands run and a stream publishes; dropped connections are forgotten |
| `router` | 2 venues, delays of 1, 2 and 3 ticks, 2 drops | attempts are spaced; every venue is retried, unless a connect hangs |
| `router_hang` | 2 venues, no drops | the second finding, a violation |
| `commands` | 2 clients, 3 commands, 2 venues, 2 counters, 1 change of a listing | ids are distinct and ordered up to the limit, and lead to their manager; replies hold of the subscriptions there are; a list misses none that was there throughout; a listed pair can be started; cached pairs are no older than their lifetime |
| `decoders` | Coinbase: 4 frames, 1 fault; Kraken: 2 prices, 2 quantities, depth 1 or full | Coinbase's changes emitted are an unbroken run, and nothing gets out past a lost heartbeat; Kraken's book is the venue's top, with its checksum, in the parser, in a replay and at a client; texts decode to what they say |
| `aggregator` | 2 threads, queues of 1, 2 samples each, 2 files | every sample is written once or counted as dropped; `Stop()` writes out what came before it |

Bounds. Every bound is a constant named in its module. Queues of one or two slots
make "full" and "full again" happen; one more value, frame or command than that
overtakes them. Two ids for one pair are enough for every check in `Subscribe()`,
which compares one id with the one that is there. Two faults let a second one
meet the recovery from the first. Two connections matter to the `Server` only
through the pool they share and through the destructor, so `server_live` has
two and `server` one; that a full queue drops a connection happens in `server` only. Pairs share nothing in `L2Manager` but the queues, so its
runs have one. Three commands are two that overlap and one that disturbs them. One
price more than the depth is what can be pushed out; the two prices have different
numbers of digits, so checksum texts differ where levels do, and two decimals let
a text have fewer than them. A second has one digit of nanoseconds in `UnixTime`'s
instance, and the largest i64 is one TLC has.

Symmetry: `manager_safety` over the two ids and the two depths, `server` over the two
streams and `commands` over the two clients, which the specifications never
distinguish; all their properties are safety properties. The runs with liveness
use none.

Deadlock checking is off where the program may come to rest: each configuration
says why.

Fairness. Threads are scheduled (weak fairness of each thread's steps) and a
mutex that is free again and again is eventually had (strong fairness, where a
step needs one). In `L2Manager`, `ConnectFeed` and `Connect` are strongly fair
because the Router's supervisor tries again as long as it runs (`Reconnects`) and
the venue can be reached again and again and answers its handshakes; a run has a
bounded number of faults. `LifeCycleEnds` and `GapEnds` are conditional on that: no
timeout bounds a handshake, and a venue that never answers one is the second finding.
The venue answers requests and sends frames. In `Feed`, a write that keeps being
possible completes or fails, and a closed socket aborts what is pending; the venue
need not send or answer anything. In `Supervisor`, a `Connect()` returns, throws or
hangs for good, as nothing times a handshake out, and time passes; `Reconnects` holds
only as long as none hangs. No client, caller or destructor has to
act.

## Findings

`manager_break`. A checksum mismatch queues a resubscribe. If the connection
drops and comes back first, the resubscribe is carried out on a stream that is
well, and the receiver goes on to a snapshot with no `OnGap()`. A recording then
has two stretches in one file, which file_writer.h:35 excludes; a replay still
gives right books, as the second starts with a snapshot.

`router_hang`. `websocket_feed.cc:84` to 87 resolve, connect and handshake
synchronously; the timeouts of line 88 are set afterwards and bound asynchronous
operations only. A venue that accepts the TCP connection and answers nothing keeps the
supervisor's one thread, so another venue that is down stays down, where router.h:32
says that every venue is kept connected; `~Router` waits for that thread as well. In the
run, the first venue hangs and the second is never tried.

More that need no run:

- ARCHITECTURE.md:86 says updates in flight from an earlier subscription never
  reach the new receiver. They do if the earlier subscription's snapshot is in
  flight too: it opens the new route's gate (l2_parser.h:105). The contract holds,
  as they are a consistent stream, but it may be at the earlier depth.
- `Stream::Watch()` before the first snapshot sends neither a snapshot nor a status
  (stream.cc:102), where stream.h:58 says one of them follows the `StreamInfo`.
- README.md:36 of the repository says a write failure triggers an unsubscribe, while
  `FileWriter::failed_` is read by nothing but the push that gives up.

## Proofs

Each `*_proofs` module proves, of the specification that TLC checks (`FileWriter`'s and
`Stream`'s, of which `Receivers` takes one or the other) and for all values of
its constants, an inductive invariant (`Init => IInv`, `IInv /\ [Next]_vars => IInv'`)
and from it the properties the runs check. The only assumptions are those the
modules name: a queue has room (`CapacityAssumption`, `BoundsAssumption`,
`FileBoundsAssumption`, `AggregatorAssumption`), counts and bounds are numbers, the
recordings' ids are among the ids (`RecordingsAssumption`), the ids clients name are
none of the values that mean "no id" (`ServerAssumption`), venues and sinks fit a
byte (`RouterAssumption`), there are the two venues and the two sinks of the code and a
pair has some number of decimals (`CommandsAssumption`), and a venue that lists a symbol
writes it as its adapter says (`CatalogueAssumption`; `adapter.h:23`,
`coinbase/adapter.cc:48`). Of Kraken (`KrakenAssumption`): prices and quantities fit an
i64, a level's quantity is not 0 (that removes it), a time written as ISO 8601 is a
clock's reading whose nanoseconds since 1970 fit an i64, and there is such a time, so that a
well-formed frame can be written at all. The supervisor's first delay is not 0 and at most
the limit (`SupervisorAssumption`), as the defaults of router.h:21 are.
They hold however many clients, streams, threads, calls, frames, failures and restarts the
constants allow.

| Theorem | States |
|---|---|
| `Feed_proofs`: `TypeCorrect`, `NothingIsLost`, `ImplementsChannel` | types; `NothingLost`; the queue implements `Channel` (safety) |
| `Feed_proofs`: `ReadsAreQueued`, `FeedLosesNothing`, `FeedIsChannel` | `ReadIsQueued`; `NothingLost` and `Channel` with the network thread as the producer |
| `L2Manager_proofs`: `PairsAreRoutedOnce`, `NothingHalfConnected`, `GatesFollowReceivers`, `VenueFollows`, `AnswersAreTrue`, `ContractKept` | `RoutedOncePerPair`, `FullyConnectedOrNot`, `CheckedBookIsReceivers`, `VenueFollowsSubscriptions`, `AnswersHold`; the manager implements `BookStream` |
| `FileWriter_proofs`: `StretchesAreFiles`, `EverythingIsRecorded`, `NoneReplaced` | `FilesAreStretches`, `NothingLost`, `RecordingsKept` |
| `Stream_proofs`: `BooksAreShared`, `CallsTakeEffect` | `WatchersHaveBook`, `WatchedAsWanted` |
| `Server_proofs`: `DroppedForGood`, `CommandsAnswered`, `BooksAreWatched`, `SkipsTellLosses` | `ForgottenForGood`, `AnsweredInOrder`, `NoStrayBooks`, `GapsShow` |
| `Commands_proofs`: `IdsSort`, `IdsLead` | `IdsInOrder`, `IdsReachTheirManager` |
| `Commands_proofs`: `CommandsUseIds`, `CommandsKeepIds` | the commands implement `Router`'s ids; `IdsInOrder` and `IdsReachTheirManager` of them |
| `Commands_proofs`: `ListsAreWhole`, `RepliesAreTrue`, `ServedPairsAreFresh`, `ListedPairsStart` | `ListingsHold`, `RepliesHold`, `PairsFresh`, `PairsCanStart` |
| `Commands_proofs`: `RetriesAreSpaced` | `RetriesSpaced`, of `Supervisor` |
| `Aggregator_proofs`: `SamplesWrittenOnce`, `StopIsComplete` | `EachWrittenOnce`, `StopWritesOut` |
| `Decoders_proofs`: `EmitsUnbroken`, `SkipsStopIt` | `EmittedUnbroken`, `NothingPastLostHeartbeat` |
| `Decoders_proofs`: `BooksAreVenues`, `ReplaysAreBooks`, `ChecksumsAgree`, `MessagesAreMeant` | `BookIsVenues`, `ReplayIsBook`, `ChecksumsMatch`, `DecodedAsMeant` |
| `Decoders_proofs`: `NumbersRoundTrip`, `CrcSame` | a number's text scaled back gives the number, with any decimals and any zeros to spare; `crc32.cc`'s table by bytes computes the CRC by bits, of every sequence of bytes |

The arguments, and why the properties alone are not inductive:

- **Queue.** `IInv` adds to the types that the stop follows the producer's end
  (`StopsAfterProducer`), so that an empty queue seen after the stop stays empty,
  and that what was consumed and what is queued are the values pushed so far, in
  order (`InOrder`). For `ImplementsChannel`, every step of the two loops is a send,
  a receive, the end, or a stutter of `Channel`.
- **Feed.** Every handler is a step of `Spsc` or leaves it (`FeedStepIsSpscStep`),
  so the queue's theorems carry over; the frame last read is the value last pushed
  or about to be (`FramesPushed`), and the thread has ended before the feed is
  closed (`ThreadEnds`).
- **Manager.** `LifeInv` ties both threads, the queue and the requests to the place in
  the life cycle, `SubscribedInv` the routes to the subscriptions. `Continuity` says
  of every frame between venue and parser, and of the next one the venue will send,
  that it continues the pair's frame before it or the receiver's stream; that makes
  the update behind an open gate the receiver's next. The requests on their way
  lead from what the venue streams to what is subscribed (`VenueFollows`). In
  `ContractKept` each step tells each receiver what `BookStream` lets it be told.
- **Recordings.** The messages of the open file and the entries of the queue form one
  chain in which each entry follows the one before it (`ChainInv`), so a file closed at
  a gap is one stretch and the next one begins with a snapshot. `NoneReplaced` needs
  that `FinalPath()` finds a free name, by the pigeonhole principle (`FreeName`).
- **Streams.** What one call tells a client makes its view the stream's (`ViewInv`);
  a client has at most one entry in `watchers_` (in `TypeInv`), as a `Watch()` erases
  the one before; a call between its two locks is an unwatch that will take effect or
  a watch that has not yet (`WantsInv`).
- **Server.** A step concerns one connection; the others are as they were. Its `Forget()`
  is the last in its strand (`Leaving`); what counts against `kMaxPendingCommands` is
  what waits and runs (`PendingInv`); the replies in its queues and those its commands
  will post are consecutive (`AnswerInv`); and a client that reads what is on its
  way watches every stream that may still send to it (`StrayInv`). For `GapsShow`,
  `GapInv` has, for each number the client may wait for, how many Books were sent before
  it: a number skipped was a dropped Book's, so the count grows by the Books read and the
  numbers skipped alone.
- **Ids.** Calls are numbered as they took counters (`CallsNumbered`), and every id in a
  manager's table encodes a counter and that venue (`TablesEncoded`). `IdFits`: up to
  the last counter nothing of an id is lost to the integer's width.
- **Commands.** `CommandInv`: an id in a table is that of an answered call whose book is
  known, and no call is answered twice, so what enters a table while a `List` is under way
  was not there when it began, and what was there and still is has been found of every
  manager asked. A client's step leaves the commands of the others as they were, and
  what it does to the tables (`CallsStay`, `BooksStay`) keeps what they rely on, so each
  action needs to be looked at for its own client only. `PairsInv`: the pairs cached,
  awaited or answered are those of a catalogue the venue had no longer ago than they
  were asked for, and every book handed out has the pair's precision and was online. That
  takes what a venue's answers become (`PrecisionsFetched`, `PairsListed`): `Rest` and `Json`
  are operators without recursion, and a step's text ends in the digit `FractionDigits()`
  looks for, which `CHOOSE` then is, whatever the decimals (`StepsSayDecimals`).
- **Aggregator.** A retired producer's thread has exited, so what the drain finds after
  that read is all there will be (`PlaceInv`); a pass that began after the stop was
  read leaves no producer behind it with anything from before the stop
  (`FinalInv`); `dropped_` is the drops since the file was opened (`DropInv`).
- **Coinbase's decoder.** The frames followed are those numbered from the first to the
  last one (`Followed`), and each number is one frame's (`NumbersInv`), as only what was
  sent is ever on the wire (`WireInv`). What was emitted is what they hold (`EmitInv`),
  and until it fails the decoder's counter is that of the last heartbeat among them
  (`BeatInv`), so a counter that skips is noticed at the very frame that skipped
  (`SkipInv`).

- **Retries.** While a venue is down, what is left of its wait and what has passed of it make
  up at least the first delay doubled per failure (`WaitsKept`), its next delay is the one its
  failures ask for (`DelaysDoubled`), and a venue found due stays due until its round
  is done with it (`DueStaysDue`): time passes while another venue is connected, and
  must not let it be tried early.
- **Kraken's book.** `BooksAgree`: the parser's book is cut to its depth and, until a frame
  cannot be decoded, is the top of Kraken's; the replay's and the client's are the
  parser's. A step replaces the top by one that may need levels from below the depth, which
  Kraken sends, and leaves out those pushed out, which it does not. What is left of the
  larger book after cutting is the new top (`KeptOfPart`): a level of the old top that is
  not in the new one is told of as removed or has `depth` better ones before it, all of
  which the book has. Levels are put in order by their rank among them (`Ranks`,
  `RanksTaken`), so the record and the Book, which are sequences, give back the sides
  (`SidesRead`, `RecordReads`).
- **Kraken's texts.** `NumbersRoundTrip` takes the code's loop over characters as a run of states
  and shows that it passes those of the number's own digits (`DigitsRead`), which
  `CHOOSE` in the writer's model picks one way only (`DigitsOfIs`). `DaysAgree`: the days
  that unix_time.cc counts by eras from March, with `div` and `%`, are the calendar's counted
  from January, for each of the years; `FractionAgrees`: nine digits of a fraction are
  read and the others ignored.
- **Checksums.** `ChecksumSays`: the checksum that came with the last message is Kraken's top's.
  The decoder takes it of its own book in its own way, stripping the dot and leading zeros
  from what the digits make (`SideDigitsAre`), and by table (`CrcSame`: eight steps of
  one bit are one step of a byte, and both folds pass the same registers).
- **Recursive functions.** The models have no `RECURSIVE` operator; what recurs is a function
  (`Pow10`, the runs over texts and registers, `Doubled`). That such a function exists and
  what it is at each number is shown in the module that needs it (`Recursion`,
  `Inductive`), from the fact that every set of numbers has a least one (`Least`), as the
  library's induction rules take an operator that the provers cannot instantiate.

Only model-checked: liveness, that is `DisconnectEnds`, `SendsGoOut`, `LifeCycleEnds`,
`GapEnds`, `ShutdownEnds`, `DroppedIsForgotten` and `Reconnects`, because fairness and
`ENABLED` are out of the prover's reach. Every safety property and every action property of
the passing runs has a theorem. The theorems are about the models: that a model is the
code is for a reader to compare, by the lines in `PROJECT.json`.

## Not modelled

- Bytes: protobuf's encoding, the layout and alignment of records, the raw log.
- The websocket and TLS handshakes and name resolution: they succeed or throw, and in
  `Supervisor` may never end.
  `HttpsClientOneShot` sets no timeout, so a venue that accepts a request and never
  answers holds a command's thread, and for `ListPairs()` its mutex; the model's
  requests are always answered or fail.
- Kraken's token, credentials, base64 and hashes: nothing on the book path calls
  them. The bound on a frame's length in `kraken/message_size.cc`: only its test
  does.
- An i64 that overflows in `ScaleDecimalStringToI64()`: the venues' prices are far
  below it.
- The debug log, RAII timers, command line, scripts and third-party code.

With that, what is left of `src/data_feed` is declarations, text and I/O.

## Plan

1. Done: the modules above, and proofs of every safety property the passing runs check.
2. Left: the order in which `main.cc` builds and takes down the parts (see "Not modelled"
   for the rest), and whatever the code adds.
