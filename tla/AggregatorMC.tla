------------------------------ MODULE AggregatorMC ------------------------------
(***************************************************************************)
(* Small instances of Aggregator: two connectors, Bybit or Binance beside  *)
(* OKX, and three prices of which an update shows two.  The frames are     *)
(* chosen so that prices overlap between the venues, a delta erases and    *)
(* adds levels, a snapshot lists a zero quantity, a frame breaks off half  *)
(* read, and one carries no book.                                          *)
(***************************************************************************)
EXTENDS Aggregator

CONSTANTS bybit, binance, okx

MCConnectors == {bybit, okx}
MCOtherConnectors == {binance, okx}
MCPrice == 1 .. 3
MCQuantity == 0 .. 2

ExchangeOf(c) == CASE c = bybit -> "Bybit" [] c = binance -> "Binance" [] c = okx -> "OKX"
MCExchange == [c \in MCConnectors |-> ExchangeOf(c)]
MCOtherExchange == [c \in MCOtherConnectors |-> ExchangeOf(c)]

Levels(set) == [p \in {l[1] : l \in set} |-> (CHOOSE l \in set : l[1] = p)[2]]
Frame(kind, bids, asks, bad) ==
    [kind |-> kind, bids |-> Levels(bids), asks |-> Levels(asks), bad |-> bad]

BybitFrames ==
    { Frame("snapshot", {<<1, 1>>, <<2, 2>>}, {<<1, 0>>, <<2, 1>>, <<3, 2>>}, "none"),
      Frame("delta", {<<1, 0>>, <<3, 1>>}, {<<3, 0>>}, "none"),
      Frame("other", {}, {}, "none") }

BinanceFrames ==
    { Frame("snapshot", {<<1, 2>>, <<2, 1>>}, {<<2, 0>>, <<3, 1>>}, "none"),
      Frame("snapshot", {<<2, 2>>, <<3, 1>>}, {<<1, 1>>}, "asks"),
      Frame("other", {}, {}, "none") }

OkxFrames ==
    { Frame("snapshot", {<<2, 1>>, <<1, 0>>}, {<<1, 2>>, <<3, 1>>}, "none"),
      Frame("snapshot", {<<3, 2>>}, {<<2, 1>>}, "bids") }

FramesOf(c) ==
    CASE c = bybit -> BybitFrames [] c = binance -> BinanceFrames [] c = okx -> OkxFrames
MCFeedMessages == [c \in MCConnectors |-> FramesOf(c)]
MCOtherFeedMessages == [c \in MCOtherConnectors |-> FramesOf(c)]

MCSymmetry == Permutations(Subscribers)

=============================================================================
