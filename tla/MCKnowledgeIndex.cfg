SPECIFICATION FairSpec
CONSTANTS
    d1 = d1
    d2 = d2
    Docs <- MCDocs
    MaxAttempts = 2
    MaxCrashes = 1
    MaxRequeues = 1
    MaxRebuilds = 1
INVARIANTS
    TypeOK
    ReadyIsIndexed
PROPERTIES
    ActiveIsSettled
    RemovedIsCleaned
CHECK_DEADLOCK FALSE
