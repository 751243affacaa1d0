------------------------------- MODULE ProcessMC -------------------------------
(***************************************************************************)
(* A small instance of Process.  What the books hold does not matter here: *)
(* one price, and one frame for each venue.                                *)
(***************************************************************************)
EXTENDS Process

MCPrice == {1}
MCQuantity == {0, 1}
MCExchange == [c \in Connectors |-> "Binance"]

Level == [p \in {1} |-> 1]
MCFeedMessages ==
    [c \in Connectors |-> {[kind |-> "snapshot", bids |-> Level, asks |-> Level, bad |-> "none"]}]

=============================================================================
