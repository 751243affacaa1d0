\* What start() leaves behind of the attempt before it.
CONSTANTS
    MaxRetry = 1
    MaxQueue = 3
    HasSubscription = TRUE
SPECIFICATION Spec
CHECK_DEADLOCK FALSE
PROPERTY
    StartResetsState
