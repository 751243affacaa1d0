\* A book with three asks and a list of two.
CONSTANTS
    Price <- MCPrice
    Quantity <- MCQuantity
    MaxDepth = 5
    TopLevels = 2
    PastEnd = PastEnd
    NoFrame = NoFrame
    Kinds = {"bbo"}
    InitialBackoff = 1000
    MaxBackoff = 30000
    IntMax <- MCIntMax
    FeedBooks <- MCDeepBooks
    MaxLives = 2
    MaxFailures = 1
    MaxInFlight = 1
SPECIFICATION Spec
CHECK_DEADLOCK FALSE
INVARIANT
    TopAsksAreLowest
