------------------------------- MODULE Aggregator -------------------------------
(***************************************************************************)
(* The Aggregator and the SubscribeBook calls it serves.  Two kinds of     *)
(* threads meet here:                                                      *)
(*   - the one thread in ioc.run() (main.cpp): it parses frames into the   *)
(*     local books, and runs the tasks posted to the strand, in order;     *)
(*   - one gRPC thread for each subscriber: it posts a task that builds an *)
(*     update, blocks in fut.get(), writes, and starts again.              *)
(* The connection of each venue is up throughout; its loss and recovery is *)
(* the subject of Connector.                                               *)
(***************************************************************************)
EXTENDS OrderBook

CONSTANTS
    Connectors,     \* connectors_, built from connectors.json
    Exchange,       \* Exchange[c]: whose parse_message c runs
    FeedMessages,   \* FeedMessages[c]: the frames its venue may send
    Subscribers,    \* the callers of SubscribeBook
    NoUpdate,       \* what the client of a call that wrote nothing holds
    MaxVersion      \* bound: frames handled in a behaviour

ASSUME AggregatorAssumption ==
    /\ IsFiniteSet(Connectors)
    /\ Exchange \in [Connectors -> Exchanges]
    /\ FeedMessages \in [Connectors -> SUBSET Message]
    /\ MaxVersion \in Nat

VARIABLES
    local_books,        \* local_bids_ and local_asks_ of each connector
    strand_queue,       \* the tasks posted to strand_, in order
    consolidated,       \* consolidated_bids_ and consolidated_asks_
    version,            \* version_
    pc,                 \* where the SubscribeBook call of each subscriber is
    cancelled,          \* context->IsCancelled() of that call
    last_seen_version,  \* its local variable of this name
    fut,                \* its promise: {} until it is set, then {its value}
    view,               \* the update its client received last
    joined,             \* history: the version when the call began, until it writes
    published           \* history: the consolidated book of each version

vars == <<local_books, strand_queue, consolidated, version, pc, cancelled,
          last_seen_version, fut, view, joined, published>>

feedVars == <<local_books, consolidated, version, published>>
callVars == <<pc, cancelled, last_seen_version, fut, view, joined>>

UpdateTask   == [kind |-> "update"]
BuildTask(s) == [kind |-> "build", by |-> s]
Tasks == {UpdateTask} \cup {BuildTask(s) : s \in Subscribers}

Init ==
    /\ local_books = [c \in Connectors |-> EmptyBook]
    /\ strand_queue = << >>
    /\ consolidated = EmptyBook
    /\ version = 0
    /\ pc = [s \in Subscribers |-> "idle"]
    /\ cancelled = [s \in Subscribers |-> FALSE]
    /\ last_seen_version = [s \in Subscribers |-> 0]
    /\ fut = [s \in Subscribers |-> {}]
    /\ view = [s \in Subscribers |-> NoUpdate]
    /\ joined = [s \in Subscribers |-> 0]
    /\ published = << >>

-----------------------------------------------------------------------------
(* Handlers of the io_context *)

PendingUpdates ==
    Cardinality({i \in DOMAIN strand_queue : strand_queue[i] = UpdateTask})

\* Mutant of HandleMessage: only snapshots are notified.
HandleMessageNotifyingSnapshots(c, msg) ==
    /\ version + PendingUpdates < MaxVersion
    /\ local_books' = [local_books EXCEPT ![c] = Parse(Exchange[c], @, msg)]
    /\ strand_queue' = IF msg.kind = "snapshot"
                       THEN Append(strand_queue, UpdateTask) ELSE strand_queue
    /\ UNCHANGED <<consolidated, version, published>>
    /\ UNCHANGED callVars

\* A frame of c other than a pong arrives: parse_message, then on_book_updated
\* posts the update, whatever the frame was.
HandleMessage(c, msg) ==
    /\ version + PendingUpdates < MaxVersion
    /\ local_books' = [local_books EXCEPT ![c] = Parse(Exchange[c], @, msg)]
    /\ strand_queue' = Append(strand_queue, UpdateTask)
    /\ UNCHANGED <<consolidated, version, published>>
    /\ UNCHANGED callVars

\* Clear, sum the local books as they are now, count the version.
UpdateConsolidatedBook ==
    /\ strand_queue # << >>
    /\ Head(strand_queue) = UpdateTask
    /\ strand_queue' = Tail(strand_queue)
    /\ consolidated' = Merge(local_books)
    /\ version' = version + 1
    /\ published' = Append(published, consolidated')
    /\ UNCHANGED local_books
    /\ UNCHANGED callVars

\* The task posted by SubscribeBook sets the promise of s to the update and
\* the version it was built from.
BuildBookUpdate(s) ==
    /\ strand_queue # << >>
    /\ Head(strand_queue) = BuildTask(s)
    /\ strand_queue' = Tail(strand_queue)
    /\ fut' = [fut EXCEPT ![s] = {[update |-> BuildUpdate(consolidated),
                                   version |-> version]}]
    /\ UNCHANGED feedVars
    /\ UNCHANGED <<pc, cancelled, last_seen_version, view, joined>>

StrandStep == UpdateConsolidatedBook \/ \E s \in Subscribers : BuildBookUpdate(s)

-----------------------------------------------------------------------------
(* SubscribeBook, on a thread of the gRPC server *)

\* A client calls; last_seen_version starts at 0.
SubscribeBook(s) ==
    /\ pc[s] = "idle"
    /\ pc' = [pc EXCEPT ![s] = "loop"]
    /\ cancelled' = [cancelled EXCEPT ![s] = FALSE]
    /\ joined' = [joined EXCEPT ![s] = version]
    /\ UNCHANGED feedVars
    /\ UNCHANGED <<strand_queue, last_seen_version, fut, view>>

\* Mutant of PostBuild: the while condition is not tested.
PostBuildUnchecked(s) ==
    /\ pc[s] = "loop"
    /\ pc' = [pc EXCEPT ![s] = "wait"]
    /\ fut' = [fut EXCEPT ![s] = {}]
    /\ strand_queue' = Append(strand_queue, BuildTask(s))
    /\ UNCHANGED feedVars
    /\ UNCHANGED <<cancelled, last_seen_version, view, joined>>

\* while (!context->IsCancelled()): a new promise, and the task that sets it.
PostBuild(s) ==
    /\ pc[s] = "loop"
    /\ ~cancelled[s]
    /\ pc' = [pc EXCEPT ![s] = "wait"]
    /\ fut' = [fut EXCEPT ![s] = {}]
    /\ strand_queue' = Append(strand_queue, BuildTask(s))
    /\ UNCHANGED feedVars
    /\ UNCHANGED <<cancelled, last_seen_version, view, joined>>

\* Mutant of Return: last_seen_version outlives the call.
ReturnRemembering(s) ==
    /\ pc' = [pc EXCEPT ![s] = "idle"]
    /\ view' = [view EXCEPT ![s] = NoUpdate]
    /\ joined' = [joined EXCEPT ![s] = 0]
    /\ UNCHANGED feedVars
    /\ UNCHANGED <<strand_queue, cancelled, last_seen_version>>

\* The call is over: what it had seen goes with it.
Return(s) ==
    /\ pc' = [pc EXCEPT ![s] = "idle"]
    /\ last_seen_version' = [last_seen_version EXCEPT ![s] = 0]
    /\ view' = [view EXCEPT ![s] = NoUpdate]
    /\ joined' = [joined EXCEPT ![s] = 0]
    /\ UNCHANGED feedVars
    /\ UNCHANGED <<strand_queue, cancelled>>

\* The while condition is false.
ReturnCancelled(s) ==
    /\ pc[s] = "loop"
    /\ cancelled[s]
    /\ Return(s)
    /\ UNCHANGED fut

\* Mutant of WriteUpdate: the version is loaded again after fut.get().
WriteUpdateReloading(s) ==
    /\ pc[s] = "wait"
    /\ \E result \in fut[s] :
          /\ version > last_seen_version[s]
          /\ last_seen_version' = [last_seen_version EXCEPT ![s] = version]
          /\ view' = [view EXCEPT ![s] = result.update]
    /\ fut' = [fut EXCEPT ![s] = {}]
    /\ pc' = [pc EXCEPT ![s] = "loop"]
    /\ joined' = [joined EXCEPT ![s] = 0]
    /\ UNCHANGED feedVars
    /\ UNCHANGED <<strand_queue, cancelled>>

\* fut.get() returned a version newer than any this call has written.
WriteUpdate(s) ==
    /\ pc[s] = "wait"
    /\ \E result \in fut[s] :
          /\ result.version > last_seen_version[s]
          /\ last_seen_version' = [last_seen_version EXCEPT ![s] = result.version]
          /\ view' = [view EXCEPT ![s] = result.update]
    /\ fut' = [fut EXCEPT ![s] = {}]
    /\ pc' = [pc EXCEPT ![s] = "loop"]
    /\ joined' = [joined EXCEPT ![s] = 0]
    /\ UNCHANGED feedVars
    /\ UNCHANGED <<strand_queue, cancelled>>

\* Write returns false, as it does once the client is gone: break.
WriteFails(s) ==
    /\ pc[s] = "wait"
    /\ \E result \in fut[s] : result.version > last_seen_version[s]
    /\ cancelled[s]
    /\ fut' = [fut EXCEPT ![s] = {}]
    /\ Return(s)

\* Mutant of SkipUpdate: wait_for gives up before the promise is set.
SkipUpdateTimedOut(s) ==
    /\ pc[s] = "wait"
    /\ \A result \in fut[s] : result.version <= last_seen_version[s]
    /\ fut' = [fut EXCEPT ![s] = {}]
    /\ pc' = [pc EXCEPT ![s] = "sleep"]
    /\ UNCHANGED feedVars
    /\ UNCHANGED <<strand_queue, cancelled, last_seen_version, view, joined>>

\* Nothing new: sleep_for(20 ms).
SkipUpdate(s) ==
    /\ pc[s] = "wait"
    /\ \E result \in fut[s] : result.version <= last_seen_version[s]
    /\ fut' = [fut EXCEPT ![s] = {}]
    /\ pc' = [pc EXCEPT ![s] = "sleep"]
    /\ UNCHANGED feedVars
    /\ UNCHANGED <<strand_queue, cancelled, last_seen_version, view, joined>>

Wake(s) ==
    /\ pc[s] = "sleep"
    /\ pc' = [pc EXCEPT ![s] = "loop"]
    /\ UNCHANGED feedVars
    /\ UNCHANGED <<strand_queue, cancelled, last_seen_version, fut, view, joined>>

\* The client cancels the call or its connection breaks.
Cancel(s) ==
    /\ pc[s] # "idle"
    /\ ~cancelled[s]
    /\ cancelled' = [cancelled EXCEPT ![s] = TRUE]
    /\ UNCHANGED feedVars
    /\ UNCHANGED <<strand_queue, pc, last_seen_version, fut, view, joined>>

CallStep(s) ==
    \/ PostBuild(s)
    \/ ReturnCancelled(s)
    \/ WriteUpdate(s)
    \/ WriteFails(s)
    \/ SkipUpdate(s)
    \/ Wake(s)

-----------------------------------------------------------------------------

Next ==
    \/ \E c \in Connectors : \E msg \in FeedMessages[c] : HandleMessage(c, msg)
    \/ UpdateConsolidatedBook
    \/ \E s \in Subscribers :
          \/ BuildBookUpdate(s)
          \/ SubscribeBook(s)
          \/ CallStep(s)
          \/ Cancel(s)

Spec == Init /\ [][Next]_vars

\* The call of s is in Write, which blocks for as long as its client is there
\* and does not read.
Unread(s) ==
    /\ pc[s] = "wait"
    /\ ~ cancelled[s]
    /\ \E result \in fut[s] : result.version > last_seen_version[s]

\* ioc.run() runs what is queued, and the thread of a call runs, but it is left
\* to the client whether Write returns.  Venues and clients owe nothing.
Fairness ==
    /\ WF_vars(StrandStep)
    /\ \A s \in Subscribers : WF_vars(~ Unread(s) /\ CallStep(s))

FairSpec == Spec /\ Fairness

-----------------------------------------------------------------------------
(* Properties *)

\* Types, with the shape of the books a subscriber can be sent.
TypeOK ==
    /\ local_books \in [Connectors -> Book]
    /\ strand_queue \in Seq(Tasks)
    /\ DOMAIN consolidated.bids \subseteq Price
    /\ DOMAIN consolidated.asks \subseteq Price
    /\ version \in Nat
    /\ pc \in [Subscribers -> {"idle", "loop", "wait", "sleep"}]
    /\ cancelled \in [Subscribers -> BOOLEAN]
    /\ last_seen_version \in [Subscribers -> 0 .. version]
    /\ DOMAIN fut = Subscribers
    /\ \A s \in Subscribers : \A result \in fut[s] : result.version \in 0 .. version
    /\ DOMAIN view = Subscribers
    /\ joined \in [Subscribers -> 0 .. version]
    /\ Len(published) = version

\* However frames, updates and builds interleave, once no update is left on
\* the strand the consolidated book is the sum of the local books: a frame
\* that arrives while an update waits is covered by one of the two
\* (Aggregator.cpp:77-103).
ConsolidatedIsFresh ==
    (\A i \in DOMAIN strand_queue : strand_queue[i] # UpdateTask)
        => consolidated = Merge(local_books)

\* The sum loses and invents nothing: with no update left on the strand, the
\* quantities of a side add up to those of the venues, also where several
\* venues quote one price (Aggregator.cpp:89-96).
SideTotal(side) == SumFunction(side)

QuantityConserved ==
    (\A i \in DOMAIN strand_queue : strand_queue[i] # UpdateTask) =>
        /\ SideTotal(consolidated.bids) =
             SumFunction([c \in Connectors |-> SideTotal(local_books[c].bids)])
        /\ SideTotal(consolidated.asks) =
             SumFunction([c \in Connectors |-> SideTotal(local_books[c].asks)])

\* What a client holds is the update of the very version its call recorded,
\* though versions go on being counted while the promise, the write and the
\* next iteration run (Aggregator.cpp:180-195).
ViewMatchesVersion ==
    \A s \in Subscribers :
        view[s] = IF last_seen_version[s] = 0 THEN NoUpdate
                  ELSE BuildUpdate(published[last_seen_version[s]])

\* The promise a build task refers to lives in the frame of a call that is
\* blocked in fut.get(): a task is on the strand only while its call waits,
\* once, and a waiting call has either its task there or its value, so it is
\* neither answered twice nor forgotten (Aggregator.cpp:177-186).
BuildsQueued(s) == {i \in DOMAIN strand_queue : strand_queue[i] = BuildTask(s)}

PromiseAlive ==
    \A s \in Subscribers :
        /\ \A i, j \in BuildsQueued(s) : i = j
        /\ BuildsQueued(s) # {} => pc[s] = "wait" /\ fut[s] = {}
        /\ pc[s] = "wait" /\ fut[s] = {} => BuildsQueued(s) # {}

\* An update shows the best prices first, no price twice, as many levels as
\* the depth allows and none that a better hidden one should precede, on both
\* sides alike (Aggregator.cpp:113-129).
ShowsBest(levels, side, Before(_, _)) ==
    LET priced == {levels[i].price : i \in DOMAIN levels}
    IN  /\ priced \subseteq DOMAIN side
        /\ Len(levels) = Cardinality(priced)
        /\ \A i, j \in DOMAIN levels :
              i < j => Before(levels[i].price, levels[j].price)
        /\ \A i \in DOMAIN levels : levels[i].quantity = side[levels[i].price]
        /\ \A p \in DOMAIN side \ priced :
              /\ Len(levels) = MaxDepth
              /\ \A q \in priced : Before(q, p)

ViewShowsBestLevels ==
    \A s \in Subscribers : view[s] # NoUpdate =>
        LET book == published[last_seen_version[s]]
        IN  /\ ShowsBest(view[s].bids, book.bids, LAMBDA p, q : p > q)
            /\ ShowsBest(view[s].asks, book.asks, LAMBDA p, q : p < q)

\* A level that an OKX frame gives the quantity 0 is not in its book
\* (okx_connector.cpp:38-47 against tests.cpp:48).
OkxErasesZeroLevels ==
    \A c \in Connectors : Exchange[c] = "OKX" =>
        /\ \A p \in DOMAIN local_books[c].bids : local_books[c].bids[p] # 0
        /\ \A p \in DOMAIN local_books[c].asks : local_books[c].asks[p] # 0

\* Every call that is neither cancelled nor left for ever in a Write that its
\* client does not read keeps coming back to showing the client the sum of what
\* the venues last said: when they fall silent, as MaxVersion has them do, the
\* last frame is not lost between the strand and the 20 ms sleep
\* (Aggregator.cpp:169-204).
InSync(s) ==
    /\ last_seen_version[s] = version
    /\ version > 0 => view[s] = BuildUpdate(Merge(local_books))

EventuallyInSync ==
    \A s \in Subscribers :
        \/ <>[]Unread(s)
        \/ []<>(pc[s] = "idle" \/ cancelled[s] \/ InSync(s))

\* A call whose client is gone ends, also when it was in a Write that nobody
\* read (Aggregator.cpp:175, 195).
CancelledCallEnds ==
    \A s \in Subscribers : cancelled[s] ~> pc[s] = "idle"

\* The detailed system implements the feed a client may rely on.
Feed == INSTANCE BookFeed WITH
            Render  <- BuildUpdate,
            Nothing <- NoUpdate,
            seen    <- last_seen_version,
            shown   <- view

FeedSpec == Feed!Spec

=============================================================================
