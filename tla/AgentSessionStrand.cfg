SPECIFICATION FairSpec
CONSTANTS
    MaxRuns = 2
    MaxCommands = 0
    MaxCrashes = 1
    Resolutions <- NoCommands
    MaxDeliveryAttempts = 2
    MaxExecutions = 1
    AllowTimeouts = TRUE
    AllowExpiry = FALSE
    AllowBrokenLoads = TRUE
    RepeatCommands = FALSE
PROPERTIES
    QueuedRunsStart
