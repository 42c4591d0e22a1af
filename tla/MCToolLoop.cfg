SPECIFICATION FairSpec
CONSTANTS
    MaxToolCalls = 3
    Responses <- Batches
    RepeatIds = TRUE
    MaxDeliveryAttempts = 2
    AllowTimeouts = TRUE
    MaxCommands = 2
    MaxCrashes = 1
INVARIANTS
    TypeOK
    ProposedOnce
    NothingAroundMalformed
    ContinuationComplete
    ResultIsTrue
PROPERTIES
    RunSettles
