----------------------------- MODULE ClientViews -----------------------------
(***************************************************************************)
(* What the three clients print of one update: best bid and offer and the  *)
(* top levels (client_bbo.cpp), volume within a distance of the mid price  *)
(* (client_price_bands.cpp), price at which a notional value is reached    *)
(* (client_volume_bands.cpp).  The doubles of the code are exact integers  *)
(* here: what rounding does to a level on the edge of a band is left out.  *)
(***************************************************************************)
EXTENDS OrderBook

CONSTANTS
    TopLevels,      \* max_level: rows of a top list (10 in the code)
    PastEnd         \* whatever lies behind the last level of an update

\* Updates without bids or without asks are skipped by every client.
TwoSided(update) == update.bids # << >> /\ update.asks # << >>

-----------------------------------------------------------------------------
(* client_bbo *)

BestBid(update) == update.bids[1]
BestAsk(update) == update.asks[1]

\* The spread of the warning "crossed", or none.
CrossedWarning(update) ==
    {s \in {BestBid(update).price - BestAsk(update).price} : s > 0}

\* Mutant of TopBids: read from index 1, as the asks are.
TopBidsFromOne(update) ==
    [n \in 1 .. Min({TopLevels, Len(update.bids) - 1}) |-> update.bids[n + 1]]

TopBids(update) ==
    [n \in 1 .. Min({TopLevels, Len(update.bids)}) |-> update.bids[n]]

\* Row n is update.asks(n), counted from 0, for n from 10 down to 1; the size
\* of the book is computed and not used.
TopAsks(update) ==
    [n \in 1 .. TopLevels |->
        IF n < Len(update.asks) THEN update.asks[n + 1] ELSE PastEnd]

-----------------------------------------------------------------------------
(* client_price_bands *)

BpsLevels == <<1, 2, 5, 10, 20, 50, 100, 200, 500, 1000>>

\* The levels from the best one on, up to the first that is not inside: their
\* volume, and the price of the last of them, if there is one.
BandRow(levels, inside) ==
    LET walked == {i \in DOMAIN levels : \A j \in 1 .. i : levels[j].price \in inside}
    IN  [volume  |-> SumFunction([i \in walked |-> levels[i].quantity]),
         closest |-> {levels[i].price : i \in {i \in walked : i + 1 \notin walked}}]

\* Mutant of PriceBands: the distance is taken from the best bid and best ask.
PriceBandsOfBest(update) ==
    [k \in DOMAIN BpsLevels |->
        LET bid == BestBid(update).price
            ask == BestAsk(update).price
        IN  [bid |-> BandRow(update.bids,
                 {p \in Price : 10000 * p >= bid * (10000 - BpsLevels[k])}),
             ask |-> BandRow(update.asks,
                 {p \in Price : 10000 * p <= ask * (10000 + BpsLevels[k])})]]

\* price >= mid * (1 - bps/10000) for bids, <= mid * (1 + bps/10000) for asks.
PriceBands(update) ==
    [k \in DOMAIN BpsLevels |->
        LET twice_mid == BestBid(update).price + BestAsk(update).price
        IN  [bid |-> BandRow(update.bids,
                 {p \in Price : 20000 * p >= twice_mid * (10000 - BpsLevels[k])}),
             ask |-> BandRow(update.asks,
                 {p \in Price : 20000 * p <= twice_mid * (10000 + BpsLevels[k])})]]

-----------------------------------------------------------------------------
(* client_volume_bands *)

Bands == <<10000, 100000, 1000000, 5000000, 10000000, 25000000, 50000000>>

\* Mutant of Walk: a level prints one band at most.
WalkOneBand(acc, level) ==
    LET cum == acc.cum + level.quantity * level.price
        met == {k \in {Len(acc.rows) + 1} \cap DOMAIN Bands : Bands[k] <= cum}
    IN  [cum  |-> cum,
         last |-> level.price,
         rows |-> acc.rows \o
             [k \in 1 .. Cardinality(met) |->
                 [reached |-> TRUE, price |-> level.price, cum |-> cum]]]

\* One level: its notional is added, then every band that is now reached, in
\* order, is printed with it.  The rows printed so far count as band_idx.
Walk(acc, level) ==
    LET cum == acc.cum + level.quantity * level.price
        met == {k \in Len(acc.rows) + 1 .. Len(Bands) :
                   \A j \in Len(acc.rows) + 1 .. k : cum >= Bands[j]}
    IN  [cum  |-> cum,
         last |-> level.price,
         rows |-> acc.rows \o
             [k \in 1 .. Cardinality(met) |->
                 [reached |-> TRUE, price |-> level.price, cum |-> cum]]]

\* The bands left over are "not reached": the total and the last price.
VolumeBands(levels) ==
    LET end == FoldLeft(Walk, [cum |-> 0, last |-> 0, rows |-> << >>], levels)
    IN  [k \in DOMAIN Bands |->
            IF k <= Len(end.rows) THEN end.rows[k]
            ELSE [reached |-> FALSE, price |-> end.last, cum |-> end.cum]]

=============================================================================
