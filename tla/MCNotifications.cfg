SPECIFICATION FairSpec
CONSTANTS
    n1 = n1
    n2 = n2
    Notes <- TwoNotes
    Answers <- MCAnswers
    MaxAttempts = 2
    MaxRequeues = 1
    MaxFaults = 1
INVARIANTS
    TypeOK
    HistoryIsTrue
    DuplicatesAccounted
PROPERTIES
    NotificationsEnd
