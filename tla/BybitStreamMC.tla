------------------------------ MODULE BybitStreamMC ------------------------------
(***************************************************************************)
(* A small instance of BybitStream: a bid that comes and goes, and an ask. *)
(***************************************************************************)
EXTENDS BybitStream

MCPrice == {1, 2}
MCQuantity == {0, 1}

Change(side, price, quantity) == [side |-> side, price |-> price, quantity |-> quantity]
MCChanges ==
    {Change("bids", 1, 1), Change("bids", 1, 0), Change("asks", 2, 1)}

=============================================================================
