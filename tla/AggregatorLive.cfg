\* Binance and OKX, one subscriber, four frames, under the fairness of the scheduling.
CONSTANTS
    bybit = bybit
    binance = binance
    okx = okx
    NoUpdate = NoUpdate
    Price <- MCPrice
    Quantity <- MCQuantity
    Connectors <- MCOtherConnectors
    Exchange <- MCOtherExchange
    FeedMessages <- MCOtherFeedMessages
    Subscribers = {s1}
    MaxDepth = 2
    MaxVersion = 4
SPECIFICATION FairSpec
PROPERTIES
    EventuallyInSync
    CancelledCallEnds
    FeedSpec
