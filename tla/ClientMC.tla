-------------------------------- MODULE ClientMC --------------------------------
(***************************************************************************)
(* Small instances of Client.  The first book combines any side of MCBids  *)
(* with any of MCAsks: books that are one-sided or crossed, with levels of *)
(* quantity zero, wide and narrow, with notional values below, between, at *)
(* and above the bands.  The later books are few.                          *)
(***************************************************************************)
EXTENDS Client

MCPrice == {98, 99, 100, 110}
MCQuantity == {0, 100, 1000}
MCIntMax == 2147483647

Levels(set) == [p \in {l[1] : l \in set} |-> (CHOOSE l \in set : l[1] = p)[2]]

MCBids == { Levels({}),
            Levels({<<99, 100>>}),
            Levels({<<99, 0>>, <<98, 1000>>}),
            Levels({<<100, 100>>, <<99, 1000>>, <<98, 100>>}),
            Levels({<<110, 1000>>, <<99, 100>>}) }
MCAsks == { Levels({}),
            Levels({<<100, 100>>}),
            Levels({<<99, 100>>, <<100, 1000>>}),
            Levels({<<98, 0>>, <<100, 1000>>, <<110, 1000>>}) }

MCFirstBooks == [bids : MCBids, asks : MCAsks]
MCOneSided == [bids |-> Levels({<<99, 100>>}), asks |-> Levels({})]
MCLater    == [bids |-> Levels({<<99, 100>>}), asks |-> Levels({<<110, 100>>})]
MCFeedBooks == <<MCFirstBooks, {MCLater, MCOneSided}, {MCLater}>>

\* The server is away, or has nothing to say.
MCNoBooks == << >>

\* One book with three asks.
MCDeepBooks ==
    <<{[bids |-> Levels({<<98, 100>>}),
        asks |-> Levels({<<99, 100>>, <<100, 100>>, <<110, 100>>})]}>>

=============================================================================
