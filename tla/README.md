# Verification of asio-aggregator

The program keeps WebSocket connections to several cryptocurrency venues, keeps
an order book of BTC-USDT for each, sums the books into a consolidated one and
streams it over gRPC to clients, which print views of it. This directory holds
TLA+ models of it, the TLC configurations that check them and the proofs about
them. Paths below are relative to the repository (`src/` of the repository is
`src/src/` from here).

## 1. Inventory

| Component | State | Operations | Interacts with |
|---|---|---|---|
| `market_connector` (`market_connector.cpp`) | `stopped_`, `retry_count_`, three timers, `ws_`, `buffer_`, local books | `start`, `fail`, `on_resolve`, `on_connect`, `on_ssl_handshake`, `on_ws_handshake`, `on_write`, `on_read`, `do_ping`, timer handlers | the venue; `parse_message` of its subclass; `Aggregator::on_book_updated` |
| Venue parsers (`binance_`, `okx_`, `bybit_`, `bitget_connector.cpp`) | `local_bids_`, `local_asks_` | `parse_message` | called by `handle_message` |
| Consolidated book (`Aggregator.cpp:77-132`) | `consolidated_bids_`, `consolidated_asks_`, `version_`, the strand's queue | `on_book_updated`, `update_consolidated_book`, `build_book_update` | reads the local books of all connectors |
| `SubscribeBook` service (`Aggregator.cpp:169-204`) | per call: `last_seen_version`, the promise, the call's context | post, `fut.get()`, compare, `Write`, sleep, return | posts to the strand; a gRPC client |
| Process (`main.cpp`, `Aggregator.cpp:19-26, 134-167`) | `io_context` work, gRPC thread, `grpc_server_` | `ioc.run()`, `start_grpc_server`, destructor | both of the above |
| Bybit connector and its venue (`bybit_connector.cpp`) | the local book from a snapshot and deltas, `buffer_` | `parse_message`, `on_read`, `consume` | the venue's book, which deltas follow change by change |
| Client stream loop (`Run()` of `client_*.cpp`) | `retry_count`, channel, reader | connect, `Read`, `Finish`, backoff | the service |
| Client views (`client_*.cpp`) | none | best bid and offer, top ten, price bands, volume bands | one update |

Threads: one thread runs `ioc.run()` (`main.cpp:13`) and with it every handler
of every connector and every task of the strand; one thread builds the gRPC
server and waits; gRPC gives each `SubscribeBook` call a thread of its own.

What is hard, and what each part must guarantee:

- **Connector.** Nothing ties a completion to the connection attempt that
  issued it. Late completions, expired timers whose handler is already queued,
  failures of several operations of several attempts, and pings cancelled by
  other pings all meet the same two variables, `stopped_` and `retry_count_`.
  It must not reconnect twice for one failure, not exceed its budget, not stall
  while it believes it is running, not read one attempt twice, keep the
  heartbeat going, and keep the handshake guarded by its timer.
- **Consolidated book.** Local books change between the posting of an update
  and its run. The sum must be fresh whenever no update is pending, lose no
  quantity, and count one version for each.
- **Service.** A promise on the stack of a blocked thread is set by a task on
  another; versions go on being counted meanwhile. A client must be shown
  exactly the version its call recorded, never go back, not miss the last
  frame, and its call must end when it leaves.
- **Parsers.** Zero quantities, deltas against snapshots, frames that break
  off half way.
- **Process.** Three kinds of threads end at different times: `ioc.run()` returns
  when every venue has been given up, while calls still come in and post to its
  strand; the server starts, or fails to, whenever its thread gets there. Nothing
  may be destroyed while a thread uses it, and every wait must end.
- **Bybit stream.** A delta that is lost, read twice or laid over the book of an
  earlier connection leaves the local book wrong until the next snapshot, and
  nothing in the code would notice. `start` and `fail` throw the buffer away
  while reads are outstanding and handlers queued.
- **Clients.** They subscribe again and again, to servers that start anew, with
  frames of a broken call still to read: they must not show an older book after
  a newer one, and must catch up in the end. Backoff arithmetic in 32 bits;
  indices into short books; bands of a crossed, wide or shallow book.

`PROJECT.json` lists each hazard with its line and with the properties that
would catch it going wrong, or the reason why none does yet.

## 2. Modules

| Module | What it is |
|---|---|
| `OrderBook` | Books as values: the four `parse_message` overrides, the sum over the venues, the update built from it. No variables. |
| `Aggregator` | The local books, the strand, the consolidated book and every `SubscribeBook` call. |
| `BookFeed` | What the service promises, with no strand, promise or venue: books are published in order, a subscriber is shown some of them, never back, never twice, and none older than when it subscribed. |
| `AggregatorMC` | Venues, frames, prices and quantities for TLC. |
| `OrderBookProofs` | Lemmas about the operators of `OrderBook`, and what the other proofs need: induction over intervals and finite sets, the folds and sums of the library, places in an order. |
| `AggregatorProofs` | Theorems about `Aggregator`, among them that it implements `BookFeed`. |
| `Connector` | One `market_connector`: operations, timers, the queue of the `io_context`, `start` and `fail`. |
| `ConnectorProofs` | Theorems about `Connector`: retries, reconnection, chains of operations. |
| `HeartbeatProofs` | Theorems about its timers: heartbeat and handshake. |
| `BybitStream` | A `Connector` with its venue, the frames on the connection, `buffer_` and the local book. |
| `BybitStreamMC` | A venue with a bid that comes and goes and an ask, for TLC. |
| `BybitStreamProofs` | Theorems about `BybitStream`: the local book, and when a frame can be missing in it. |
| `Process` | The process around the Aggregator: `ioc.run()` and its end, the thread of the gRPC server, the destructor. |
| `ProcessMC` | Two venues with one frame each, for TLC. |
| `ProcessProofs` | Theorems about `Process`: nothing in use is destroyed, and what holds of the Aggregator holds in the process. |
| `ClientViews` | What the three clients print of one update, as functions. No variables. |
| `Client` | The loop of a client, against a server and a network that fail. |
| `ClientMC` | Books for TLC: one-sided, crossed, shallow, wide. |
| `ClientProofs` | Theorems about `Client`: types, and that it is never taken back. |
| `ClientViewsProofs` | Theorems about what a client prints. |

`Aggregator` EXTENDS `OrderBook` and instantiates `BookFeed` under the
refinement mapping `seen <- last_seen_version`, `shown <- view`,
`Render <- BuildUpdate`; `published` and `joined` are history variables of
`Aggregator` with the same names. `Process` EXTENDS `Aggregator`: each of its
steps takes a step of the Aggregator, if the thread concerned is still there, or
leaves it alone. `BybitStream` EXTENDS `Connector` in the same way, and adds to
each of its steps what it does to the connection and the book. `Client` EXTENDS
`ClientViews`, and keeps of the server only what `BookFeed` promises: `Send` is
`Deliver` of `BookFeed`, with the same `joined`.

### Correspondence: Aggregator

| Model | Code |
|---|---|
| `HandleMessage(c, msg)` | `handle_message`: `parse_message`, then `on_book_updated` posts a task, whatever the frame was |
| `UpdateConsolidatedBook` | the posted task: clear, sum, `version_` + 1 |
| `PostBuild(s)` | the test of `while`, a new promise, the task posted |
| `BuildBookUpdate(s)` | that task: build, load the version, `set_value` |
| `WriteUpdate`, `WriteFails`, `SkipUpdate` | what follows `fut.get()`: a newer version written, `Write` false, nothing new |
| `Wake(s)`, `ReturnCancelled(s)` | end of the 20 ms sleep; the loop ends |
| `SubscribeBook(s)`, `Cancel(s)` | the client calls; the client goes away |

Data: a `std::map` is a function from its prices to their quantities. A frame
(`Message`) is the levels that can be read from it and the array (`bad`) in
which a conversion error stops the parser; the catch block leaves the book as it
is at that moment, so `Replaced` keeps the levels before the error and, for an
error among the bids, no asks. Prices and quantities are integers, for the code
only compares and adds them. `published` is a history variable: the consolidated
book of each version; `joined` is another, the version at the moment when a call
began. Connections are up throughout in this module.

### Correspondence: Connector

An operation that was issued is in `outstanding`; when the network, or the
closing of its socket, completes it, its handler joins `ready`, the FIFO of the
`io_context`, and other handlers run before it does. `armed` holds the waits on
the timers. Each record carries the `attempt` that issued it: a history only,
which no guard of a handler reads.

- `cancel()` and `expires_after()` remove the wait and queue its handler with
  `operation_aborted`; a wait that expired before is in the queue with success
  and can no longer be cancelled. Handlers of cancelled handshake and reconnect
  timers do nothing (`market_connector.cpp:129, 173`) and are left out; that of
  the ping timer closes the WebSocket and is kept.
- `async_connect` (`OnResolve`) closes and reopens the socket of `ws_`, which
  aborts what earlier attempts have outstanding on it, in any order. Nothing
  else closes it: the closing in `start` and `fail` is commented out.
- Errors are of three kinds: those in the list of `fail` (`retry`), all others
  (`fatal`) and `operation_aborted`, which is in the list too. Resolver errors
  are never in the list.
- `ping_write` stands for the WebSocket ping of Binance and the text ping of
  the others. `async_close` has an empty handler; what it does to the connection
  is among the ways in which an operation can end.
- Release builds leave out the assertions of Beast (the Dockerfile builds with
  `CMAKE_BUILD_TYPE=Release`), so operations of two attempts on one stream go on
  side by side.

### Correspondence: BybitStream

| Model | Code or environment |
|---|---|
| `VenueChanges(ch)` | the venue sets or removes a level; if it has a subscriber, it sends a delta |
| `SubscriptionCompletes(o)` | the subscription of an attempt arrives; the venue answers with its whole book |
| `ReadCompletes(o)` | `async_read` appends a frame to `buffer_`, its handler is queued |
| `FrameHandled` | `on_read` without error: `handle_message` takes all of `buffer_`, then `consume` |
| `ConnectionReplaced` | `on_resolve` without error: `async_connect` on the socket of `ws_` |
| `OtherHandler` | every other handler; those that call `fail` or `start` consume `buffer_` |

`ws_` and `buffer_` are one object each, whichever attempt works with them. A
read that has received a part of a frame when `buffer_` is consumed delivers the
rest, which is no JSON (`NoFrame`); nor are two frames in a row, nor an empty
buffer. The parser reports an error for all of them and the book stays as it is.
Acknowledgements and pongs, which the parser ignores, are left out of the wire.
`lost` is a history variable: a frame of the present subscription was cut or
thrown away, or handled together with another.
Whether Beast lets a stream shake hands a second time after an error is its own
affair: the model has both outcomes, as a handshake may fail at any time.

### Correspondence: Process

| Model | Code |
|---|---|
| `Receive`, `RunTask`, `GiveUp` | `ioc.run()` (`main.cpp:13`): a frame, a task of the strand, the last handler of a connector |
| `RunReturns` | no connector has work and the strand is empty; `main` returns |
| `Destruct`, `ShutdownReturns`, `JoinReturns` | `~Aggregator` (`Aggregator.cpp:19-26`) |
| `NoSocket`, `PortInUse`, `BuildAndStart`, `AssignServer`, `WaitReturns` | `start_grpc_server` (`Aggregator.cpp:134-167`) |
| `Accept`, `RunCall`, `Hangup` | the calls, which run on whatever the main thread does |

A connector is `up` while it has an operation, a timer or a handler left. A
task in the queue is work too, and keeps `ioc.run()` from returning. `Shutdown()`
has no deadline: it accepts no call any more, cancels none and waits for those
in progress; `Wait()` returns once it is complete. `grpc_server` tells the server
that runs (`started`) from the pointer that has been assigned (`set`), because
the destructor reads that pointer without synchronisation. `killed` is the end
by `exit(1)` or by `Wait()` on a null pointer.

### Correspondence: Client and ClientViews

| Model | Code or environment |
|---|---|
| `Publish`, `Crash`, `Restart` | the server: a new book; it ends, its books with it; it is started again |
| `Send`, `BreakStream` | the call of the client: an update is written, newer than the last and no older than the call, as `BookFeed` promises, though not always the current one; the connection is lost with a part of what was on its way |
| `Subscribe` | a new channel, stub and reader; succeeds whether or not there is a server |
| `ReadUpdate` | `Read` returns true: a one-sided update is skipped with `continue`, any other is printed and resets `retry_count` |
| `ReadPastEnd` | the same in `client_bbo`, where the list of the asks ends in undefined behaviour |
| `ReadFails` | `Read` returns false: `Finish`, `++retry_count`, the delay |
| `Wake` | the end of `sleep_for` |

`Converted` is the conversion to `int` of `client_bbo.cpp:149`: a double out of
range is undefined, x86 gives the smallest `int`, ARM the largest. `Delays` caps
it as `std::min` does, applies the jitter in tenths, and takes no time at all if
it is negative. The largest delay is therefore 36 s. Frames carry the life of the
server, their version and their book: a history that no guard reads.

A band of prices or volumes is computed as the code does it, level by level from
the best one; the properties say of the same row what it should be, from the book
as a set of levels. Doubles are exact integers: what rounding makes of a level
that lies on the very edge of a band is left out.

## 3. Runs

| Run | Instance | Distinct states | What it shows |
|---|---|---|---|
| `aggregator` | Bybit and OKX, 2 subscribers (symmetric), 3 frames | 554 332 | five safety invariants, see below |
| `aggregator_live` | Binance and OKX, 1 subscriber, 4 frames, fair | 107 710 | two liveness properties and the refinement of `BookFeed` |
| `okx_zero` | as `aggregator`, 1 subscriber | - | violation: a level of quantity 0 stays in the OKX book |
| `connector` | `MAX_RETRY` 2, subscribing | 990 356 | six safety invariants |
| `connector_live` | `MAX_RETRY` 1, not subscribing, fair | 11 665 | two liveness properties |
| `connector_reset` | `MAX_RETRY` 1, subscribing | - | violation: `start()` leaves operations outstanding |
| `bybit_stream` | `MAX_RETRY` 1, 1 bid, 1 ask, 2 changes, fair | 1 653 301 | two safety invariants, one liveness property |
| `process` | 2 venues, 2 subscribers, 2 frames, fair | 166 619 | two invariants, two liveness properties |
| `process_hang` | 1 venue, 1 subscriber, 1 frame, fair | - | violation: `fut.get()` never returns |
| `client` | 3 books, 2 lives of the server, 2 failures in a row, fair | 77 879 | three views, one action property, one liveness property |
| `client_backoff` | no server, 24 failures in a row | - | violation: a delay of 0 |
| `client_top_asks` | one book with three asks, a list of two | - | violation: the list leaves out the best ask |

Aggregator:

- `ConsolidatedIsFresh`, `QuantityConserved`: with no update on the strand the
  consolidated book is the sum of the local ones, and its quantities add up.
- `ViewMatchesVersion`: what a client holds is the update of the version its
  call recorded, while other versions are counted in between.
- `PromiseAlive`: a task on the strand refers to the promise of a call that is
  blocked in `fut.get()`; a waiting call has its task or its value.
- `ViewShowsBestLevels`: best prices first, none twice, cut off at the depth.
- `EventuallyInSync`: once the venues fall silent, as `MaxVersion` has them do,
  every call comes to show the sum of what they last said, unless it is cancelled
  or its client never reads again (`Unread`): the last frame is not lost between
  the strand, the comparison and the sleep.
- `CancelledCallEnds`: a cancelled call ends, wherever it is, as long as
  `ioc.run()` serves the strand.
- `FeedSpec`: the whole implements `BookFeed`. In particular the first update of a
  call is no older than its beginning, whichever task builds it: a client that
  subscribes again after a lost call is not taken back by the server.

Connector:

- `RetryBudget`, `ReconnectExclusive`: one counted retry for each attempt, at
  most `MAX_RETRY`; one reconnection at a time, only while stopped.
- `ChainAlive`, `ChainExclusive`: the current attempt always has an operation on
  its way; no attempt has two.
- `HeartbeatCovers`: while streaming, a ping is armed, queued or being written,
  however pings of several attempts cancel each other.
- `HandshakeGuarded`, `HandshakeEnds`: the WebSocket handshake is watched by its
  timer, also beside earlier attempts, unless one of these has got through its
  own handshake and streams (`EarlierStreaming`). The exception is real: the
  handler of an earlier handshake cancels the timer all attempts share. That the
  timer may expire on a handshake that has just succeeded is allowed: the
  connector then reconnects.
- `ReconnectHappens`: a scheduled reconnection takes place.

Bybit stream:

- `BookTracksVenue`: while the current attempt is served, and no earlier one is
  alive, the local book with the frames still to be handled laid over it is the
  venue's: nothing lost, doubled or left over from an earlier connection.
- `LossNoticed`: whoever reads from the connection, a stopped connector or two
  attempts at once, the book is exact in this sense until a frame is lost, and a
  connection of the current attempt that lost one has stopped, or has an earlier
  attempt beside it, in which case a failure of either stops it. Frames are
  really lost: `fail()` and `start()` clear the buffer under queued handlers and
  outstanding reads, and two reads on one buffer let one handler take two frames.
  What the property shows is that no such loss passes into a connection that goes
  on as if nothing had happened.
- `BookCatchesUp`: if the connection lasts and the venue falls silent, as
  `MaxChanges` has it do, the local book comes to be the venue's.

Client:

- `NeverBackwards`: whatever is lost, a client never shows an older book of the
  same life of the server after a newer one, nor one of an earlier life.
- `CatchesUp`: once the server stays up and connections are not lost any more,
  the client comes to show the current book, unless it is one-sided, or
  `client_bbo` has died on a short list.
- `TopOfBookMatches`, `PriceBandsMatchBook`, `VolumeBandsMatchBook`: what is
  printed agrees with the book the update was built from. (`client` keeps
  `client_bbo` and `client_price_bands`; the third client has the same loop, and
  all views are evaluated on every book shown.)

Process:

- `ProcessInv`: types, and calls exist only between the start of the server and
  the end of `Shutdown()`.
- `DestroyedUnused`: the destructor is not over before the last call and the
  thread of the server.
- `AnsweredWhileRunning`: a call that waits while `ioc.run()` runs is answered,
  even if every venue is given up meanwhile.
- `DestructorEnds`: what can hold up the destructor for ever. If the pointer was
  assigned when it began, only a call that never ends: one in `fut.get()` with
  nobody to run its task (`Blocked`), or one in a `Write` that its connected
  client does not read (`Unread`). Otherwise also a server it has missed: it finds
  `grpc_server_` null although the server runs, and joins a thread that nobody
  tells to end (`ServerMissed`). The code has all three; the property says that
  there is no fourth, in whatever order the threads run.

Bounds. `MaxVersion` bounds the frames handled; three are enough for an update
to wait on the strand while a second frame arrives and a third is handled
between a build and its write. Three prices with `MaxDepth` 2 make an update
leave one out. `MaxRetry` 2 (10 in the code) gives three attempts, hence two
earlier ones beside the current one. `MaxQueue` bounds the handlers queued
before the network or the clock may add one: the handlers themselves are not
bound by it. Three handlers of different attempts, or an expired timer among
completions, can wait together. `MaxChanges` 2 lets a bid appear and disappear,
or a bid and an ask appear, before, between and after two attempts. `MaxLives` and `MaxFailures`
2 let a client fail against the same server, against one that has started anew,
and against none; `MaxInFlight` 2 lets a part of a stream be lost. `TopLevels` is
10 in the code; 1 in `client` and 2 in `client_top_asks` make short books both
shorter and longer than the list. `FeedBooks` combines five sides of bids with
four of asks: empty, crossed, with a level of quantity zero, with notional values
below, at and above the smaller bands.

Deadlock is checked in the runs of `Aggregator`. It is not in those of
`Connector`, `BybitStream`, `Process` and `Client`: a connector that has given up
has nothing left to do and stops, a process ends, or hangs in its destructor, and
a client waits in `Read` for a server that has no more to say, or has died.

Fairness. `ioc.run()` runs what is queued (weak fairness of the handlers and of
the strand) and timers expire; the thread of a call runs on, except that nothing
brings it out of a `Write` whose client is connected and does not read: the
fairness of a call is that of `~ Unread(s) /\ CallStep(s)`. The main
thread and the thread of the server go on wherever they are not blocked.
Nothing is assumed of venues, clients or the network: a frame, an answer, a
cancellation may never come, and a client may never read. That is why the only liveness of `Connector` is
about its timers. `BookCatchesUp` supposes a connection that lasts and reads what
was sent on it; the fairness of `ReadCompletes` is strong because `MaxQueue`,
which the `io_context` does not have, holds a completion up whenever the queue is
full. Of the client in `Client`, which reads unless it waits or has died, `Run` goes
on, and `Send` serves an open call, which is what `EventuallyInSync` shows of the
server for a client that reads; that failures end is a premise of
`CatchesUp` and not a fairness condition.

### Disagreements met

- `okx_zero`: `tests.cpp:48` states that a level of quantity 0.0 is deleted from
  the OKX book; `okx_connector.cpp:38-48` stores it. (The test file does not
  compile as it stands, as `parse_message` is protected, so nothing runs the
  statement.)
- `connector_reset`: `market_connector.cpp:45` and `:53` say that `start()`
  resets all WebSocket state; it resets the timers and the buffer, and leaves
  the operations of the earlier attempt outstanding on the stream.
- `process_hang`: the comments at `Aggregator.cpp:176` and `:186` say that the call
  waits for the strand to run its task; if every venue has been given up and
  `ioc.run()` has returned, nobody runs it. The call stays in `fut.get()` for
  ever, and so does `Shutdown()`.
- `client_backoff`: `client_bbo.cpp:28` and `:35` give the backoff a ceiling of
  30 s and a jitter of a fifth; line 149 converts to `int` before it caps, and
  from the 23rd failure in a row the client may subscribe again at once. The
  other two clients have the same lines.
- `client_top_asks`: `client_bbo.cpp:104-112` heads and comments the list as the
  ten lowest asks; line 113 reads the asks 10 to 1 counted from 0, so that the
  best ask is left out, and the last one may not exist.

## 4. Proofs

TLAPS proves, for any set of venues, of subscribers and of frames, any depth,
any retry budget, any books and any number of failures, every safety property
of the runs above:

| Theorem | Says |
|---|---|
| `AggregatorProofs!TypeCorrect` | `Spec => []TypeOK` |
| `AggregatorProofs!NoUpdateLost` | `Spec => []ConsolidatedIsFresh` |
| `AggregatorProofs!VersionedViews` | `Spec => []ViewMatchesVersion` |
| `AggregatorProofs!PromisesOutliveTasks` | `Spec => []PromiseAlive` |
| `AggregatorProofs!NothingLostInSum` | `Spec => []QuantityConserved` |
| `AggregatorProofs!BestLevelsSent` | `Spec => []ViewShowsBestLevels` |
| `AggregatorProofs!ImplementsFeed` | `Spec => FeedSpec` |
| `ConnectorProofs!TypeCorrect` | `Spec => []TypeOK` |
| `ConnectorProofs!RetriesBounded` | `Spec => []RetryBudget` |
| `ConnectorProofs!OneReconnection` | `Spec => []ReconnectExclusive` |
| `ConnectorProofs!NeverIdle` | `Spec => []ChainAlive` |
| `ConnectorProofs!NoFork` | `Spec => []ChainExclusive` |
| `HeartbeatProofs!HeartbeatRuns` | `Spec => []HeartbeatCovers` |
| `HeartbeatProofs!HandshakeWatched` | `Spec => []HandshakeGuarded` |
| `BybitStreamProofs!StreamTypeCorrect` | `StreamSpec => []StreamTypeOK` |
| `BybitStreamProofs!BookTracks` | `StreamSpec => []BookTracksVenue` |
| `BybitStreamProofs!LossIsNoticed` | `StreamSpec => []LossNoticed` |
| `ProcessProofs!ProcessInvariant` | `ProcessSpec => []ProcessInv` |
| `ProcessProofs!DestroyedWhenUnused` | `ProcessSpec => []DestroyedUnused` |
| `ProcessProofs!SafeInProcess` | `ProcessSpec =>` the five safety properties of the Aggregator above |
| `ProcessProofs!FeedInProcess` | `ProcessSpec => FeedSpec` |
| `ClientProofs!ClientTypeCorrect` | `Spec => []ClientTypeOK` |
| `ClientProofs!NotTakenBack` | `Spec => NeverBackwards` |
| `ClientViewsProofs!TopOfBookShown` | `Spec => []TopOfBookMatches` |
| `ClientViewsProofs!PriceBandsShown` | `Spec => [](ScreenFits => PriceBandsMatchBook)` |
| `ClientViewsProofs!VolumeBandsShown` | `Spec => [](ScreenFits => VolumeBandsMatchBook)` |

Assumptions are those of the constants: `BookAssumption`, `AggregatorAssumption`,
`ConnectorAssumption`, `StreamAssumption` and `ClientAssumption`; the last one has
`TopLevels` no larger than `MaxDepth` (10 and 5000 in the code), without which the
top list could not be filled from an update. `ScreenFits` says that the book on the
screen has no side longer than `MaxDepth`: of a longer one the client sees only the
first levels, and its bands are those of the cut book. (The venues are subscribed
with far fewer levels than 5000, all together.) The bounds (`MaxVersion`,
`MaxQueue`, `MaxLives`, `MaxFailures`, `MaxInFlight`) are arbitrary in the
theorems, so that they hold for behaviours of any length.

**Aggregator.** `ViewMatchesVersion` is not inductive: a call writes the value of
its promise, so the invariant also says of every value that waits in a promise
that it is the update of the version stored with it, and that the history ends
with the consolidated book. The promise protocol is kept beside it, for a
waiting call has one task on the strand or one value. The refinement maps an
update to `Publish`, the beginning of a call to `Join`, a write to `Deliver`, a
return to `Leave` and all else to a stutter. That a write is never older than
the beginning of its call is `AnswersSinceJoin`: the value in a promise was built
at or after that moment.

`QuantityConserved` and `ViewShowsBestLevels` are about data, not about steps: they
hold of every book that `Merge` and `BuildUpdate` make, and `ConsolidatedIsFresh`
and `ViewMatchesVersion` bring them to the state. The proof that nothing is lost
sums a table of venues and prices in both directions (`SumOfTable`). That an update
shows the best levels needs that every member of a finite ordered set has one place
in it (`PlaceFacts`), which is what `Descending` and `Ascending` say of a
`std::map`'s iteration.

**Connector.** Each handler does one of five things: it fails, carries its
attempt on, works for the heartbeat, connects, or starts anew (`RunCases`); one
lemma for each shows that it preserves the invariant. `IInv` strengthens the
properties in three ways. `Chains` says of *every* attempt, the earlier ones
included, that it has at most one operation outstanding or queued, and none
before it starts: without the earlier attempts the step that aborts them while
connecting could not be shown harmless. `Budget` says that a running connector
has paid for exactly its attempt, and one that will reconnect for the next.
`OneWait` says that the reconnect timer has one wait.

**Timers of the connector.** The order of the queue does not matter to them, so the
argument is about the set of what is pending. `Beats` follows the current attempt:
if it streams, a ping is armed, queued or written. `Guards` has to carry the
exception of `HandshakeGuarded` along: an earlier attempt that streams goes on
streaming until it fails and so stops the connector.

**Bybit stream.** Every step of it is a step of `Connector` or none, so that the
invariants of `ConnectorProofs` and `HeartbeatProofs` hold of it (the lemma
`ConnectorInside`, which follows from how the steps are composed). `Tracks` says
that the book of the venue is what the parser makes of the local book, the frames in
`buffer_` and all frames on the wire, read one after the other, as long as none
was lost. To see it kept, a frame may be appended to the wire
or taken from the head of the queue: a fold over a sequence can be taken apart at
both ends (`ReadAppend`, `ReadCons`). A delta does to the parsed book what the
change did to the venue's (`ChangeRead`), because the venue has no level of quantity
zero; a snapshot makes the book equal, whatever it was. `Noticed` says that no frame
is lost while the current attempt is alone and runs. It needs `OneFrame`, that each
of its handlers finds one frame in the buffer, which in turn needs that the chain
of an attempt is single; and it needs that an attempt which is alone was so before
(`AloneBefore`), so that no loss beside another attempt is left behind when that
one ends: it ends by stopping the connector.

**Process.** Each of its steps is a step of the Aggregator or leaves it alone (the
lemma `AggregatorInside`, which follows from how the steps are composed), and this
carries every theorem about `Aggregator` over to the process.
`DestroyedUnused` follows from `ShutdownInOrder`, which is inductive together with
the types: a thread that is done had no server, so that there never was a call,
or one whose `Shutdown()` has returned, so that there is none any more.

**Client.** `NeverBackwards` speaks of two screens in a row, but what comes next
on the screen has been on its way for many steps. `OrderInv` therefore orders
everything that was sent: the screen comes before every frame of the stream, these
are in order, and none is newer than what an open call may be sent next, the last
update of the call or the book at its beginning (`CallAhead`). A server
that goes down forgets its books, and the order survives because its next life is
counted; a broken call keeps a prefix, which is in order too.

`ClientTypeOK` adds what keeps the bounds: a server that is down has a life left, a
client that will find its call broken has a failure left. The delay is a duration
because the conversion to `int`, whatever it yields, is cut off at zero by
`sleep_for`.

**Client views.** An update is the first levels of each side in the order of its
map (`Cut`); if the book fits, it is all of them. The walk of `client_price_bands`
stops at the first level outside: nothing that comes before a price inside is
outside, so it meets exactly the levels inside (`RowWalk`). The walk of
`client_volume_bands` is followed level by level (`Walked`): the bands printed so
far are those that some prefix of the levels has reached, each with the first level
that did, and the others are out of reach of all prefixes. The prefixes are the sets
of levels up to a price that the property speaks of, so that nothing is supposed of
the sign of prices or quantities.

Induction. The provers cannot instantiate the induction theorems of the library,
which take an operator, so induction is done with sets: of a well-founded order a
non-empty set of counterexamples has a minimal member (`LeastNat`, `LeastSubset`,
`IntervalInduction`). The folds of the library choose a recursive function;
`FoldExists` proves, once, that there is one. The prover knows no definition of
`SortSeq`, so that nothing can be proved of it: the orders of the maps are therefore
defined by the number of prices that come before one.

Only model-checked: all liveness (`EventuallyInSync`, `CancelledCallEnds`,
`ReconnectHappens`, `HandshakeEnds`, `AnsweredWhileRunning`, `DestructorEnds`,
`BookCatchesUp`, `CatchesUp`), for fairness and ENABLED are beyond the prover; and the
five runs that find a violation, which are examples.

## 5. Not modelled

JSON text and number formats (a frame is the levels it carries), TLS and
WebSocket themselves (an operation ends well or with an error), the lengths of
the timers and of the backoff of a connector (a timer expires at any time),
timestamps, logging, build and deployment files. Undefined behaviour of
libraries' buffers (`net::buffer` of a local string) has no state here.

- **Configuration loading.** `Aggregator::start` reads one file and constructs the
  connectors before anything runs; the set of venues is a constant.
- **Bitget.** Its parser is in `OrderBook` and in the proofs; no run has one,
  since `Aggregator::start` constructs none.
- **Rounding.** Prices and quantities are exact. Sums of doubles, and levels on the
  very edge of a band, may come out differently in the last digit.
- **Silent losses.** A connection that dies without a word leaves a client in
  `Read`, and a connector in its read, for ever: nothing in the program watches
  them. A call that breaks is one that gRPC reports.
- **The whole chain in one model.** A venue with its connector (`BybitStream`), the
  Aggregator in its process (`Process`) and a client (`Client`) are checked each
  by itself and meet at narrow places: a local book, and `BookFeed`. The product
  of their states is beyond TLC.

## 6. Plan

What is left, in order of what matters:

1. The safety halves of the liveness properties as theorems: what a blocked call
   waits for, and that nothing but a venue's silence keeps a connector waiting.
2. A run of `Connector` with a larger `MaxQueue`, if the time allows it.
