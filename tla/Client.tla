-------------------------------- MODULE Client --------------------------------
(***************************************************************************)
(* One client of the service: the loop of Run() that the three clients     *)
(* share (client_bbo, client_price_bands, client_volume_bands) - subscribe,*)
(* read, show, and after the end of a stream wait and subscribe again -    *)
(* against a server and a network that fail.                               *)
(*                                                                         *)
(* The server keeps of the Aggregator what BookFeed promises: books with   *)
(* versions, of which a call is sent some, each newer than the last and    *)
(* none older than the book of the moment when it subscribed.  Here the    *)
(* server also crashes and comes back with no book, and calls break.       *)
(***************************************************************************)
EXTENDS ClientViews

CONSTANTS
    Kinds,              \* the clients: of {"bbo", "price_bands", "volume_bands"}
    InitialBackoff,     \* INITIAL_BACKOFF_MS (1000 in the code)
    MaxBackoff,         \* MAX_BACKOFF_MS (30000 in the code)
    IntMax,             \* the largest int
    FeedBooks,          \* FeedBooks[n]: what the n-th published book may be
    NoFrame,            \* what the screen shows before the first frame
    MaxLives,           \* bound: lives of the server
    MaxFailures,        \* bound: failed streams in a row
    MaxInFlight         \* bound: frames of a stream that wait to be read

ASSUME ClientAssumption ==
    /\ Kinds \subseteq {"bbo", "price_bands", "volume_bands"}
    /\ InitialBackoff \in Nat \ {0}
    /\ MaxBackoff \in Nat
    /\ IntMax \in Nat
    /\ FeedBooks \in Seq(SUBSET Book)
    /\ TopLevels \in 0 .. MaxDepth
    /\ MaxLives \in Nat \ {0}
    /\ MaxFailures \in Nat
    /\ MaxInFlight \in Nat \ {0}

VARIABLES
    \* the server and its side of the call
    server,         \* "up" or "down"
    life,           \* how often it has been started
    published,      \* its books, one for each version of this life
    feeds,          \* books published in all lives
    sent,           \* last_seen_version of the call
    joined,         \* joined of BookFeed: the version when the call was made,
                    \* until it has been sent one
    \* the network
    call,           \* "none", "open" or "broken"
    stream,         \* frames sent to the client and not yet read
    \* the client
    kind,           \* which of the clients it is
    phase,          \* where Run() is: "subscribe", "read", "sleep" or "dead"
    retry_count,    \* its local variable
    delay,          \* milliseconds it sleeps for
    screen          \* the frame it shows

serverVars == <<server, life, published, feeds>>
callVars   == <<sent, joined, call, stream>>
clientVars == <<kind, phase, retry_count, delay, screen>>
vars       == <<serverVars, callVars, clientVars>>

version == Len(published)

\* One update on its way, with the book it was built from.
Frame(v) == [life |-> life, version |-> v, book |-> published[v]]
Update(frame) == BuildUpdate(frame.book)

Init ==
    /\ server \in {"up", "down"}
    /\ life = IF server = "up" THEN 1 ELSE 0
    /\ published = << >>
    /\ feeds = 0
    /\ sent = 0
    /\ joined = 0
    /\ call = "none"
    /\ stream = << >>
    /\ kind \in Kinds
    /\ phase = "subscribe"
    /\ retry_count = 0
    /\ delay = 0
    /\ screen = NoFrame

-----------------------------------------------------------------------------
(* The server *)

Publish(book) ==
    /\ server = "up"
    /\ feeds < Len(FeedBooks)
    /\ book \in FeedBooks[feeds + 1]
    /\ feeds' = feeds + 1
    /\ published' = Append(published, book)
    /\ UNCHANGED <<server, life>>
    /\ UNCHANGED <<callVars, clientVars>>

\* Mutant of Send: a call is sent books from before it was made, too.
SendEvery ==
    /\ call = "open"
    /\ Len(stream) < MaxInFlight
    /\ \E v \in sent + 1 .. version :
          /\ sent' = v
          /\ stream' = Append(stream, Frame(v))
    /\ joined' = 0
    /\ UNCHANGED call
    /\ UNCHANGED <<serverVars, clientVars>>

\* Deliver of BookFeed: the update and its version are taken in one task, and
\* written when the version may no longer be the current one.
Send ==
    /\ call = "open"
    /\ Len(stream) < MaxInFlight
    /\ \E v \in sent + 1 .. version :
          /\ v >= joined
          /\ sent' = v
          /\ stream' = Append(stream, Frame(v))
    /\ joined' = 0
    /\ UNCHANGED call
    /\ UNCHANGED <<serverVars, clientVars>>

\* An open call breaks, and takes with it what has not arrived yet.
Break ==
    /\ call = "open"
    /\ call' = "broken"
    /\ \E n \in 0 .. Len(stream) : stream' = SubSeq(stream, 1, n)
    /\ UNCHANGED <<sent, joined>>

\* The process ends, its books with it.
Crash ==
    /\ server = "up"
    /\ life < MaxLives
    /\ retry_count < MaxFailures
    /\ server' = "down"
    /\ published' = << >>
    /\ Break \/ (call # "open" /\ UNCHANGED callVars)
    /\ UNCHANGED <<life, feeds>>
    /\ UNCHANGED clientVars

Restart ==
    /\ server = "down"
    /\ server' = "up"
    /\ life' = life + 1
    /\ UNCHANGED <<published, feeds>>
    /\ UNCHANGED <<callVars, clientVars>>

\* The connection is lost while the server goes on.
BreakStream ==
    /\ retry_count < MaxFailures
    /\ Break
    /\ UNCHANGED serverVars
    /\ UNCHANGED clientVars

-----------------------------------------------------------------------------
(* The client *)

\* Mutant of Subscribe: a call goes on from where the last one was.
SubscribeResuming ==
    /\ phase = "subscribe"
    /\ server = "up" \/ retry_count < MaxFailures
    /\ phase' = "read"
    /\ call' = IF server = "up" THEN "open" ELSE "broken"
    /\ stream' = << >>
    /\ joined' = version
    /\ UNCHANGED sent
    /\ UNCHANGED serverVars
    /\ UNCHANGED <<kind, retry_count, delay, screen>>

\* A new channel, stub and call.  It "connects" whether or not a server is
\* there: the first Read will tell.
Subscribe ==
    /\ phase = "subscribe"
    /\ server = "up" \/ retry_count < MaxFailures
    /\ phase' = "read"
    /\ call' = IF server = "up" THEN "open" ELSE "broken"
    /\ sent' = 0
    /\ joined' = version
    /\ stream' = << >>
    /\ UNCHANGED serverVars
    /\ UNCHANGED <<kind, retry_count, delay, screen>>

\* Read returned an update.  A one-sided one is skipped, and does not reset the
\* count of failures; any other is shown.
ReadUpdate ==
    /\ phase = "read"
    /\ stream # << >>
    /\ stream' = Tail(stream)
    /\ LET frame == Head(stream) IN
       \/ /\ TwoSided(Update(frame))
          /\ screen' = frame
          /\ retry_count' = 0
       \/ /\ ~ TwoSided(Update(frame))
          /\ UNCHANGED <<screen, retry_count>>
    /\ UNCHANGED <<sent, joined, call, kind, phase, delay>>
    /\ UNCHANGED serverVars

\* client_bbo reads asks that an update does not have: it may show anything, as
\* ReadUpdate does with PastEnd, or die.
ReadPastEnd ==
    /\ phase = "read"
    /\ kind = "bbo"
    /\ stream # << >>
    /\ LET update == Update(Head(stream)) IN
       /\ TwoSided(update)
       /\ PastEnd \in {TopAsks(update)[n] : n \in 1 .. TopLevels}
    /\ phase' = "dead"
    /\ stream' = Tail(stream)
    /\ UNCHANGED <<sent, joined, call, kind, retry_count, delay, screen>>
    /\ UNCHANGED serverVars

\* static_cast<int>(1000 * pow(2, n - 1)).  Out of range it is undefined: x86
\* gives the smallest int, ARM the largest.
Converted(n) ==
    IF InitialBackoff <= IntMax \div 2 ^ (n - 1)
    THEN {InitialBackoff * 2 ^ (n - 1)}
    ELSE {-IntMax - 1, IntMax}

\* What sleep_for waits for after n failures in a row: the backoff with a
\* jitter of 0.8 to 1.2, in tenths, and no time at all if it is negative.
Delays(n) ==
    {(Max({Min({ms, MaxBackoff}), 0}) * jitter) \div 10 :
        ms \in Converted(n), jitter \in {8, 10, 12}}

\* Mutant of ReadFails: the client gives up.
ReadFailsForGood ==
    /\ phase = "read"
    /\ call = "broken"
    /\ stream = << >>
    /\ phase' = "dead"
    /\ UNCHANGED <<callVars, kind, retry_count, delay, screen>>
    /\ UNCHANGED serverVars

\* Read returns false once a broken call has nothing left; Finish.
ReadFails ==
    /\ phase = "read"
    /\ call = "broken"
    /\ stream = << >>
    /\ phase' = "sleep"
    /\ retry_count' = retry_count + 1
    /\ delay' \in Delays(retry_count + 1)
    /\ UNCHANGED callVars
    /\ UNCHANGED <<kind, screen>>
    /\ UNCHANGED serverVars

Wake ==
    /\ phase = "sleep"
    /\ phase' = "subscribe"
    /\ call' = "none"
    /\ delay' = 0
    /\ UNCHANGED <<sent, joined, stream, kind, retry_count, screen>>
    /\ UNCHANGED serverVars

Run == Subscribe \/ ReadUpdate \/ ReadPastEnd \/ ReadFails \/ Wake

-----------------------------------------------------------------------------

Next ==
    \/ \E n \in DOMAIN FeedBooks : \E book \in FeedBooks[n] : Publish(book)
    \/ Send
    \/ Crash
    \/ Restart
    \/ BreakStream
    \/ Run

Spec == Init /\ [][Next]_vars

\* The client runs, and the server serves its call (EventuallyInSync of
\* Aggregator).  Nothing brings a server back, and books may not come.
Fairness == WF_vars(Run) /\ WF_vars(Send)

FairSpec == Spec /\ Fairness

-----------------------------------------------------------------------------
(* Properties *)

Frames == [life : Nat, version : Nat, book : Book]

\* Types, with an open call being one of this life of the server, behind none of
\* its books.
ClientTypeOK ==
    /\ server \in {"up", "down"}
    /\ life \in 0 .. MaxLives
    /\ published \in Seq(Book)
    /\ feeds \in version .. Len(FeedBooks)
    /\ sent \in Nat
    /\ joined \in Nat
    /\ call \in {"none", "open", "broken"}
    /\ stream \in Seq(Frames)
    /\ kind \in Kinds
    /\ phase \in {"subscribe", "read", "sleep", "dead"}
    /\ retry_count \in 0 .. MaxFailures
    /\ delay \in Nat
    /\ screen \in Frames \cup {NoFrame}
    /\ call = "open" => server = "up" /\ sent <= version /\ joined <= version

\* A client is never taken back: not within a stream, not by the frames that
\* wait when it breaks, and not by subscribing again, unless the server has
\* started anew in the meantime (client_bbo.cpp:37-55, Aggregator.cpp:173-195).
NeverBackwards ==
    [][screen # NoFrame =>
          \/ screen'.life > screen.life
          \/ screen'.life = screen.life /\ screen'.version >= screen.version]_vars

\* However often server and network failed, once they last a client shows the
\* current book, or the last one that has both sides was followed by others; a
\* client_bbo may have died on a short book (client_bbo.cpp:37-160).
UpToDate ==
    version > 0 /\ TwoSided(BuildUpdate(published[version])) =>
        screen # NoFrame /\ screen.life = life /\ screen.version = version

CatchesUp ==
    (<>[](server = "up") /\ <>[][~ BreakStream]_vars)
        => []<>(UpToDate \/ (kind = "bbo" /\ phase = "dead"))

Notional(side, prices) == SumFunction([p \in prices |-> p * side[p]])
Volume(side, prices)   == SumFunction([p \in prices |-> side[p]])

\* A row of the price bands sums the levels of the book whose price is within
\* so many basis points of the mid price, and names the farthest of them, also
\* when the book is crossed or nothing is that near
\* (client_price_bands.cpp:62-128).
PriceBandsMatch(book, bands) ==
    LET twice_mid == Max(DOMAIN book.bids) + Min(DOMAIN book.asks)
        bids(bps) == {p \in DOMAIN book.bids : 20000 * p >= twice_mid * (10000 - bps)}
        asks(bps) == {p \in DOMAIN book.asks : 20000 * p <= twice_mid * (10000 + bps)}
    IN  \A k \in DOMAIN BpsLevels :
           LET near == bids(BpsLevels[k])
               far  == asks(BpsLevels[k])
           IN  /\ bands[k].bid.volume = Volume(book.bids, near)
               /\ bands[k].bid.closest = {p \in near : \A q \in near : p <= q}
               /\ bands[k].ask.volume = Volume(book.asks, far)
               /\ bands[k].ask.closest = {p \in far : \A q \in far : p >= q}

PriceBandsMatchBook ==
    screen # NoFrame => PriceBandsMatch(screen.book, PriceBands(Update(screen)))

\* A row of the volume bands names the first price at which the notional value
\* up to it reaches the band, and that value; a band is "not reached" exactly
\* when the whole side does not, and then names the last price
\* (client_volume_bands.cpp:70-115).
VolumeBandMatches(row, band, side, upTo) ==
    LET filled == {p \in DOMAIN side : Notional(side, upTo[p]) >= band}
    IN  /\ row.reached = (filled # {})
        /\ row.price \in DOMAIN side
        /\ row.cum = Notional(side, upTo[row.price])
        /\ row.reached => row.price \in filled
        /\ row.reached => \A p \in filled : upTo[row.price] \subseteq upTo[p]
        /\ ~ row.reached => upTo[row.price] = DOMAIN side

VolumeBandsMatch(book, bids, asks) ==
    LET B == DOMAIN book.bids
        A == DOMAIN book.asks
    IN  \A k \in DOMAIN Bands :
           /\ VolumeBandMatches(bids[k], Bands[k], book.bids,
                  [p \in B |-> {q \in B : q >= p}])
           /\ VolumeBandMatches(asks[k], Bands[k], book.asks,
                  [p \in A |-> {q \in A : q <= p}])

VolumeBandsMatchBook ==
    screen # NoFrame =>
        VolumeBandsMatch(screen.book, VolumeBands(Update(screen).bids),
                         VolumeBands(Update(screen).asks))

\* client_bbo shows the levels of the best prices and the ten best bids, and
\* warns exactly when some bid of the book is above some ask
\* (client_bbo.cpp:60-72, 120-127).
TopOfBookMatches ==
    screen # NoFrame =>
        LET book == screen.book
            top  == TopBids(Update(screen))
            rows == {top[n].price : n \in DOMAIN top}
        IN  /\ \A p \in DOMAIN book.bids : p <= BestBid(Update(screen)).price
            /\ \A p \in DOMAIN book.asks : p >= BestAsk(Update(screen)).price
            /\ (CrossedWarning(Update(screen)) # {}) =
                  (\E p \in DOMAIN book.bids, q \in DOMAIN book.asks : p > q)
            /\ rows \subseteq DOMAIN book.bids
            /\ Cardinality(rows) = Min({TopLevels, Cardinality(DOMAIN book.bids)})
            /\ \A p \in DOMAIN book.bids \ rows : \A q \in rows : p < q

\* "Top 10 Asks": at most ten levels, those of the lowest prices
\* (client_bbo.cpp:104-118).
TopAsksAreLowest ==
    screen # NoFrame /\ kind = "bbo" =>
        LET asks == Update(screen).asks
            rows == TopAsks(Update(screen))
        IN  {rows[n] : n \in 1 .. TopLevels} =
                {asks[n] : n \in 1 .. Min({TopLevels, Len(asks)})}

\* A client waits between one attempt and the next, the backoff give or take a
\* fifth, never less than the first backoff nor more than the largest
\* (client_bbo.cpp:28-35, 148-154).
DelayWithinJitter ==
    phase = "sleep" =>
        /\ 10 * delay >= 8 * InitialBackoff
        /\ 10 * delay <= 12 * MaxBackoff

=============================================================================
