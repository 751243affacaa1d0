\* Three attempts at most, every order of completions, timeouts and handlers.
CONSTANTS
    MaxRetry = 2
    MaxQueue = 3
    HasSubscription = TRUE
SPECIFICATION Spec
CHECK_DEADLOCK FALSE
INVARIANTS
    TypeOK
    RetryBudget
    ReconnectExclusive
    ChainAlive
    ChainExclusive
    HeartbeatCovers
    HandshakeGuarded
