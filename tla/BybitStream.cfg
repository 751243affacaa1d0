\* Two attempts and two changes of the venue's book; what is sent arrives.
CONSTANTS
    MaxRetry = 1
    MaxQueue = 2
    HasSubscription = TRUE
    Price <- MCPrice
    Quantity <- MCQuantity
    MaxDepth = 1
    Changes <- MCChanges
    MaxChanges = 2
SPECIFICATION FairStream
CHECK_DEADLOCK FALSE
INVARIANTS
    StreamTypeOK
    BookTracksVenue
    LossNoticed
PROPERTY
    BookCatchesUp
