------------------------------- MODULE OrderBook -------------------------------
(***************************************************************************)
(* Order books as values: what a venue's message does to the local book of *)
(* its connector (the parse_message overrides), how the local books are    *)
(* summed into the consolidated one (Aggregator::update_consolidated_book) *)
(* and what of it a subscriber is sent (Aggregator::build_book_update).    *)
(*                                                                         *)
(* A std::map<double, double> is a function from the prices it holds to    *)
(* their quantities.  Prices and quantities are integers: the code only    *)
(* compares them, adds quantities and tests them against 0.0.              *)
(***************************************************************************)
EXTENDS Integers, Sequences, FiniteSets, FiniteSetsExt, SequencesExt

CONSTANTS
    Price,      \* the prices a level can have
    Quantity,   \* the quantities a message can carry, 0 among them
    MaxDepth    \* MAX_DEPTH: levels of one side in an update (5000 in the code)

ASSUME BookAssumption ==
    /\ Price \subseteq Int
    /\ IsFiniteSet(Price)
    /\ Quantity \subseteq Nat
    /\ 0 \in Quantity
    /\ MaxDepth \in Nat \ {0}

Side == UNION {[S -> Quantity] : S \in SUBSET Price}
Book == [bids : Side, asks : Side]

EmptySide == [p \in {} |-> 0]
EmptyBook == [bids |-> EmptySide, asks |-> EmptySide]

(* One text frame as a connector reads it.  "other" is everything that      *)
(* carries no book for this venue: acknowledgements, other topics, text     *)
(* that is not JSON.  bids and asks are the levels that can be read; bad is *)
(* the array where a level that cannot be converted stops the parser, so    *)
(* that the levels listed for this array are those that come before it.     *)
Message == [kind : {"snapshot", "delta", "other"},
            bids : Side, asks : Side,
            bad : {"none", "bids", "asks"}]

-----------------------------------------------------------------------------
(* parse_message *)

\* Levels assigned one by one to a map that was cleared.  A conversion error
\* leaves the loops at once: the levels already read stay, asks are cleared.
Replaced(msg) ==
    [bids |-> msg.bids,
     asks |-> IF msg.bad = "bids" THEN EmptySide ELSE msg.asks]

\* Only frames with "lastUpdateId" are read.
ParseBinance(book, msg) == IF msg.kind = "snapshot" THEN Replaced(msg) ELSE book

\* Every frame with "data" replaces the book, whatever its "action" says.
ParseOkx(book, msg) == IF msg.kind = "other" THEN book ELSE Replaced(msg)

\* Only frames with "action" : "snapshot" are read.
ParseBitget(book, msg) == IF msg.kind = "snapshot" THEN Replaced(msg) ELSE book

\* if (qty > 0.0) side[price] = qty
Positive(levels) ==
    [p \in {p \in DOMAIN levels : levels[p] > 0} |-> levels[p]]

\* Mutant of Overlaid: the quantity of a delta is added to that of the level.
OverlaidAdding(side, levels) ==
    LET erased == {p \in DOMAIN levels : levels[p] = 0}
        kept   == (DOMAIN side \cup DOMAIN levels) \ erased
    IN  [p \in kept |-> (IF p \in DOMAIN levels THEN levels[p] ELSE 0)
                       + (IF p \in DOMAIN side THEN side[p] ELSE 0)]

\* A zero quantity erases the level, any other one sets it.
Overlaid(side, levels) ==
    LET erased == {p \in DOMAIN levels : levels[p] = 0}
        kept   == (DOMAIN side \cup DOMAIN levels) \ erased
    IN  [p \in kept |-> IF p \in DOMAIN levels THEN levels[p] ELSE side[p]]

BybitSnapshot(msg) ==
    LET read == Replaced(msg)
    IN  [bids |-> Positive(read.bids), asks |-> Positive(read.asks)]

BybitDelta(book, msg) ==
    [bids |-> Overlaid(book.bids, msg.bids),
     asks |-> IF msg.bad = "bids" THEN book.asks
              ELSE Overlaid(book.asks, msg.asks)]

\* Mutant of ParseBybit: a snapshot does not clear the book.
ParseBybitMerging(book, msg) ==
    IF msg.kind = "other" THEN book ELSE BybitDelta(book, msg)

ParseBybit(book, msg) ==
    CASE msg.kind = "snapshot" -> BybitSnapshot(msg)
      [] msg.kind = "delta"    -> BybitDelta(book, msg)
      [] msg.kind = "other"    -> book

Exchanges == {"Binance", "OKX", "Bitget", "Bybit"}

\* The override that the connector of an exchange runs.
Parse(exchange, book, msg) ==
    CASE exchange = "Binance" -> ParseBinance(book, msg)
      [] exchange = "OKX"     -> ParseOkx(book, msg)
      [] exchange = "Bitget"  -> ParseBitget(book, msg)
      [] exchange = "Bybit"   -> ParseBybit(book, msg)

-----------------------------------------------------------------------------
(* The consolidated book and the update built from it *)

\* Mutant of Total: consolidated[price] = qty, the last venue wins.
TotalOfLast(sides, p) ==
    sides[CHOOSE c \in DOMAIN sides : p \in DOMAIN sides[c]][p]

\* consolidated[price] += qty, over the sides that list the price.
Total(sides, p) ==
    SumFunction([c \in {c \in DOMAIN sides : p \in DOMAIN sides[c]} |-> sides[c][p]])

MergeSide(sides) ==
    [p \in UNION {DOMAIN sides[c] : c \in DOMAIN sides} |-> Total(sides, p)]

Merge(books) ==
    [bids |-> MergeSide([c \in DOMAIN books |-> books[c].bids]),
     asks |-> MergeSide([c \in DOMAIN books |-> books[c].asks])]

\* The order of a map's comparator, std::greater for bids, less for asks: the
\* price in place i has i - 1 others before it.
Descending(prices) ==
    [i \in 1 .. Cardinality(prices) |->
        CHOOSE p \in prices : Cardinality({q \in prices : q > p}) = i - 1]
Ascending(prices) ==
    [i \in 1 .. Cardinality(prices) |->
        CHOOSE p \in prices : Cardinality({q \in prices : q < p}) = i - 1]

\* The first MaxDepth levels of a side in that order.
BestLevels(side, prices) ==
    [i \in 1 .. Min({MaxDepth, Len(prices)}) |->
        [price |-> prices[i], quantity |-> side[prices[i]]]]

\* Mutant of BuildUpdate: count is not reset before the asks.
BuildUpdateOneCount(book) ==
    LET bids == BestLevels(book.bids, Descending(DOMAIN book.bids))
        asks == BestLevels(book.asks, Ascending(DOMAIN book.asks))
    IN  [bids |-> bids,
         asks |-> SubSeq(asks, 1, Min({Len(asks), MaxDepth - Len(bids)}))]

BuildUpdate(book) ==
    [bids |-> BestLevels(book.bids, Descending(DOMAIN book.bids)),
     asks |-> BestLevels(book.asks, Ascending(DOMAIN book.asks))]

=============================================================================
