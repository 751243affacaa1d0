------------------------------- MODULE BybitStream -------------------------------
(***************************************************************************)
(* A connector and its venue: the Connector, the frames on its connection, *)
(* the buffer they are read into and the local book that bybit_connector   *)
(* keeps from a snapshot and deltas.  Bybit is the venue for which a lost  *)
(* frame matters: the others send whole books.                             *)
(*                                                                         *)
(* ws_ is one object: it has one connection at a time, whichever attempts  *)
(* have operations on it, and all of them read into the one buffer_.       *)
(***************************************************************************)
EXTENDS Connector, OrderBook

CONSTANTS
    Changes,        \* the levels the venue may set: side, price and quantity
    MaxChanges      \* bound: how often it does

ASSUME StreamAssumption ==
    /\ Changes \subseteq [side : {"bids", "asks"}, price : Price, quantity : Quantity]
    /\ MaxChanges \in Nat

VARIABLES
    venue,          \* the book of the venue
    changes,        \* how often it has changed
    subscriber,     \* attempt whose subscription the venue serves, 0 if none
    wire,           \* frames sent on the connection and not yet read
    buffer,         \* buffer_: frames read whose handler has not run
    local_book,     \* local_bids_ and local_asks_
    lost            \* history: a frame of this subscription was dropped or cut

streamVars == <<venue, changes, subscriber, wire, buffer, local_book, lost>>
allVars    == <<vars, streamVars>>

StreamInit ==
    /\ Init
    /\ venue = EmptyBook
    /\ changes = 0
    /\ subscriber = 0
    /\ wire = << >>
    /\ buffer = << >>
    /\ local_book = EmptyBook
    /\ lost = FALSE

-----------------------------------------------------------------------------
(* The venue *)

Snapshot(book) ==
    [kind |-> "snapshot", bids |-> book.bids, asks |-> book.asks, bad |-> "none"]

OneLevel(side, ch) ==
    IF side = ch.side THEN [p \in {ch.price} |-> ch.quantity] ELSE EmptySide

Delta(ch) ==
    [kind |-> "delta", bids |-> OneLevel("bids", ch), asks |-> OneLevel("asks", ch),
     bad |-> "none"]

\* Text that is not JSON.
NoFrame == [kind |-> "other", bids |-> EmptySide, asks |-> EmptySide, bad |-> "none"]

\* A level is set, or removed by quantity 0; a subscriber is sent the delta.
VenueChanges(ch) ==
    /\ changes < MaxChanges
    /\ changes' = changes + 1
    /\ LET prices == IF ch.quantity = 0 THEN DOMAIN venue[ch.side] \ {ch.price}
                     ELSE DOMAIN venue[ch.side] \cup {ch.price}
       IN  venue' = [venue EXCEPT ![ch.side] =
                        [p \in prices |-> IF p = ch.price THEN ch.quantity ELSE @[p]]]
    /\ wire' = IF subscriber = 0 THEN wire ELSE Append(wire, Delta(ch))
    /\ UNCHANGED <<subscriber, buffer, local_book, lost>>
    /\ UNCHANGED vars

-----------------------------------------------------------------------------
(* The network *)

\* The subscription of an attempt reaches the venue, which answers with its
\* whole book.
SubscriptionCompletes(o) ==
    /\ o.op = "write"
    /\ Complete(o, "ok")
    /\ subscriber' = o.attempt
    /\ wire' = Append(wire, Snapshot(venue))
    /\ lost' = FALSE
    /\ UNCHANGED <<venue, changes, buffer, local_book>>

\* async_read appends the next frame to buffer_.
ReadCompletes(o) ==
    /\ o.op = "read"
    /\ wire # << >>
    /\ Complete(o, "ok")
    /\ buffer' = Append(buffer, Head(wire))
    /\ wire' = Tail(wire)
    /\ UNCHANGED <<venue, changes, subscriber, local_book, lost>>

OtherCompletes(o, ec) ==
    /\ ec = "ok" => o.op \notin {"write", "read"}
    /\ Complete(o, ec)
    /\ UNCHANGED streamVars

TimerExpires(w) ==
    /\ Expire(w)
    /\ UNCHANGED streamVars

-----------------------------------------------------------------------------
(* Handlers *)

\* async_connect replaces the connection.
ConnectionReplaced ==
    /\ Runs("resolve") /\ Event.ec = "ok"
    /\ OnResolve
    /\ subscriber' = 0
    /\ wire' = << >>
    /\ lost' = FALSE
    /\ UNCHANGED <<venue, changes, buffer, local_book>>

\* on_read takes all that is in buffer_.  Nothing, or two frames in a row, is
\* no JSON: the parser reports an error and the book stays.
FrameHandled ==
    /\ Runs("read") /\ Event.ec = "ok"
    /\ OnRead
    /\ local_book' = IF Len(buffer) = 1 THEN ParseBybit(local_book, buffer[1])
                     ELSE local_book
    /\ buffer' = << >>
    /\ lost' = (lost \/ Len(buffer) > 1)
    /\ UNCHANGED <<venue, changes, subscriber, wire>>

\* Mutant of BufferConsumed: the handler of the ping timer does it too.
BufferConsumedByPing ==
    attempt' # attempt \/ (stopped' /\ ~ stopped) \/ Event.op = "ping"

\* fail() and start() consume buffer_: a frame whose handler is queued is lost,
\* and of one that a read has received in part only the rest will be read.
BufferConsumed == attempt' # attempt \/ (stopped' /\ ~ stopped)
ReadOutstanding == \E o \in outstanding : o.op = "read"

OtherHandler ==
    /\ RunHandler
    /\ Event.ec = "ok" => Event.op \notin {"resolve", "read"}
    /\ buffer' = IF BufferConsumed THEN << >> ELSE buffer
    /\ \/ UNCHANGED wire
       \/ /\ BufferConsumed /\ ReadOutstanding /\ wire # << >>
          /\ wire' = <<NoFrame>> \o Tail(wire)
    /\ lost' = (lost \/ wire' # wire \/ (buffer # << >> /\ buffer' = << >>))
    /\ UNCHANGED <<venue, changes, subscriber, local_book>>

-----------------------------------------------------------------------------

HandlerStep == ConnectionReplaced \/ FrameHandled \/ OtherHandler

StreamNext ==
    \/ HandlerStep
    \/ \E o \in outstanding :
          \/ SubscriptionCompletes(o)
          \/ ReadCompletes(o)
          \/ \E ec \in Outcomes(o.op) : OtherCompletes(o, ec)
    \/ \E w \in armed : TimerExpires(w)
    \/ \E ch \in Changes : VenueChanges(ch)

StreamSpec == StreamInit /\ [][StreamNext]_allVars

\* ioc.run() runs the queued handlers, and what is on the wire arrives: with
\* strong fairness, because MaxQueue, which the io_context does not have, holds
\* it up whenever the queue is full.
StreamFairness ==
    /\ WF_allVars(HandlerStep)
    /\ SF_allVars(\E o \in outstanding : ReadCompletes(o))

FairStream == StreamSpec /\ StreamFairness

-----------------------------------------------------------------------------
(* Properties *)

StreamTypeOK ==
    /\ TypeOK
    /\ venue \in Book
    /\ changes \in 0 .. MaxChanges
    /\ subscriber \in 0 .. attempt
    /\ wire \in Seq(Message)
    /\ buffer \in Seq(Message)
    /\ local_book \in Book
    /\ lost \in BOOLEAN

\* An earlier attempt still has an operation on its way, or its handler.
EarlierAlive ==
    \E a \in 1 .. attempt - 1 : ChainOutstanding(a) # {} \/ ChainQueued(a) # {}

\* The current attempt is served, and no earlier one is alive beside it.
Established == ~ stopped /\ subscriber = attempt /\ ~ EarlierAlive

\* The local book once every frame on its way has been read.
BookAhead == FoldLeft(ParseBybit, local_book, buffer \o wire)

\* While the current attempt is served, the local book with the frames on their
\* way is the book of the venue: no failure, late handler or reconnection
\* before has cost it a delta or left it one of an earlier connection
\* (bybit_connector.cpp:54-93, market_connector.cpp:51, 86, 238-253).
BookTracksVenue == Established => BookAhead = venue

\* Whoever reads from the connection, a stopped connector or two attempts at once,
\* the local book with the frames on their way is the venue's until buffer_ is
\* consumed under a frame, by fail(), start() or the handler of another one.  Such
\* a loss is never that of a connection that could go on as if nothing had
\* happened: the connector has stopped, or an earlier attempt is alive beside the
\* current one, and whichever ends first stops it
\* (market_connector.cpp:51, 86, 238-239).
LossNoticed ==
    /\ subscriber # 0 /\ ~ lost => BookAhead = venue
    /\ subscriber = attempt /\ lost => stopped \/ EarlierAlive

\* A connection that lasts brings the local book up to the venue's, once the
\* venue falls silent, as MaxChanges makes it: every frame sent is read and
\* handled (market_connector.cpp:217-254).
BookCatchesUp == <>[]Established => []<>(local_book = venue)

=============================================================================
