\* A server that is away while a client fails 24 times in a row.
CONSTANTS
    Price <- MCPrice
    Quantity <- MCQuantity
    MaxDepth = 10
    TopLevels = 10
    PastEnd = PastEnd
    NoFrame = NoFrame
    Kinds = {"bbo"}
    InitialBackoff = 1000
    MaxBackoff = 30000
    IntMax <- MCIntMax
    FeedBooks <- MCNoBooks
    MaxLives = 2
    MaxFailures = 24
    MaxInFlight = 1
SPECIFICATION Spec
CHECK_DEADLOCK FALSE
INVARIANT
    DelayWithinJitter
