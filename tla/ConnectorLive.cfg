\* Two attempts at most, under the fairness of ioc.run() and the timers.
CONSTANTS
    MaxRetry = 1
    MaxQueue = 3
    HasSubscription = FALSE
SPECIFICATION FairSpec
CHECK_DEADLOCK FALSE
PROPERTIES
    ReconnectHappens
    HandshakeEnds
