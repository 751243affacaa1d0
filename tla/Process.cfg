\* Two venues, two subscribers, and every end of the process.
CONSTANTS
    NoUpdate = NoUpdate
    Price <- MCPrice
    Quantity <- MCQuantity
    Connectors = {v1, v2}
    Exchange <- MCExchange
    FeedMessages <- MCFeedMessages
    Subscribers = {s1, s2}
    MaxDepth = 1
    MaxVersion = 2
SPECIFICATION FairProcess
CHECK_DEADLOCK FALSE
INVARIANTS
    ProcessInv
    DestroyedUnused
PROPERTIES
    AnsweredWhileRunning
    DestructorEnds
