\* Two venues, two subscribers, every interleaving of three frames.
CONSTANTS
    bybit = bybit
    binance = binance
    okx = okx
    NoUpdate = NoUpdate
    Price <- MCPrice
    Quantity <- MCQuantity
    Connectors <- MCConnectors
    Exchange <- MCExchange
    FeedMessages <- MCFeedMessages
    Subscribers = {s1, s2}
    MaxDepth = 2
    MaxVersion = 3
SPECIFICATION Spec
SYMMETRY MCSymmetry
INVARIANTS
    TypeOK
    ConsolidatedIsFresh
    QuantityConserved
    ViewMatchesVersion
    PromiseAlive
    ViewShowsBestLevels
