\* One venue, one subscriber: a call that posts after ioc.run() has returned.
CONSTANTS
    NoUpdate = NoUpdate
    Price <- MCPrice
    Quantity <- MCQuantity
    Connectors = {v1}
    Exchange <- MCExchange
    FeedMessages <- MCFeedMessages
    Subscribers = {s1}
    MaxDepth = 1
    MaxVersion = 1
SPECIFICATION FairProcess
CHECK_DEADLOCK FALSE
PROPERTY
    GetReturns
