SPECIFICATION TokenFairSpec
CONSTANTS
    c1 = c1
    c2 = c2
    Calls = {c1, c2}
    MaxTokens = 3
INVARIANTS
    SingleFlight
    RefusedOnlyIfEnded
PROPERTIES
    RetriedWithNewerToken
    QueuedIsReleased
