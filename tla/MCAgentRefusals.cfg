SPECIFICATION FairSpec
CONSTANTS
    MaxRuns = 2
    MaxCommands = 1
    MaxCrashes = 1
    Resolutions <- ConfirmOrReject
    MaxDeliveryAttempts = 2
    MaxExecutions = 2
    AllowTimeouts = TRUE
    AllowExpiry = FALSE
    AllowBrokenLoads = TRUE
    RepeatCommands = FALSE
INVARIANTS
    TypeOK
PROPERTIES
    ReopenedByRefusalOnly
    ResumedAfterDecision
    RunsFinish
    DecidedRunsResume
