\* Three books, two lives of the server, two failed streams in a row.
CONSTANTS
    Price <- MCPrice
    Quantity <- MCQuantity
    MaxDepth = 5
    TopLevels = 1
    PastEnd = PastEnd
    NoFrame = NoFrame
    Kinds = {"bbo", "price_bands"}
    InitialBackoff = 1000
    MaxBackoff = 30000
    IntMax <- MCIntMax
    FeedBooks <- MCFeedBooks
    MaxLives = 2
    MaxFailures = 2
    MaxInFlight = 2
SPECIFICATION FairSpec
CHECK_DEADLOCK FALSE
INVARIANTS
    ClientTypeOK
    TopOfBookMatches
    PriceBandsMatchBook
    VolumeBandsMatchBook
PROPERTIES
    NeverBackwards
    CatchesUp
