SPECIFICATION Spec
CONSTANTS
    MaxRuns = 3
    MaxCommands = 2
    MaxCrashes = 1
    Resolutions <- Confirm
    MaxDeliveryAttempts = 2
    MaxExecutions = 1
    AllowTimeouts = TRUE
    AllowExpiry = TRUE
    AllowBrokenLoads = TRUE
    RepeatCommands = TRUE
INVARIANTS
    ActiveRunHoldsSession
    AnswerReachesOnce
    StartedInOrder
