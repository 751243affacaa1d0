\* Two venues, one subscriber; an OKX frame lists a level of quantity 0.
CONSTANTS
    bybit = bybit
    binance = binance
    okx = okx
    NoUpdate = NoUpdate
    Price <- MCPrice
    Quantity <- MCQuantity
    Connectors <- MCConnectors
    Exchange <- MCExchange
    FeedMessages <- MCFeedMessages
    Subscribers = {s1}
    MaxDepth = 2
    MaxVersion = 3
SPECIFICATION Spec
INVARIANT
    OkxErasesZeroLevels
