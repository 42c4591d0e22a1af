SPECIFICATION FairSpec
CONSTANTS
    a1 = a1
    a2 = a2
    app1 = app1
    applied = applied
    offer = offer
    Actions = {a1, a2}
    Apps <- MCApps
    Statuses <- MCStatuses
    NoStatus = NoStatus
    TargetApp <- MCTargetApp
    TargetStatus <- MCTargetStatus
    MaxAttempts = 2
    RetryDelay = 1
    StaleAfter = 1
    Ttl = 1
    MaxRequeues = 1
    MaxFaults = 1
    MaxCrashes = 1
INVARIANTS
    TypeOK
    HistoryReplays
    OneEffectPerAction
    OutboxMatchesFacts
PROPERTIES
    ImplementsConfirmedWrites
    ConfirmedIsSettled
