SPECIFICATION Spec
CONSTANTS
    MaxToolCalls = 2
    Responses <- OneWrite
    RepeatIds = FALSE
    MaxDeliveryAttempts = 2
    AllowTimeouts = FALSE
    MaxCommands = 1
    MaxCrashes = 0
PROPERTY
    WaitsForEveryWrite
