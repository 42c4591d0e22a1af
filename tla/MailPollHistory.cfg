SPECIFICATION Spec
CONSTANTS
    MaxMails = 2
    MaxChanges = 0
    BatchSize = 1
    Damages <- Undamaged
    MailIds <- Keys
    JobMails <- MCJobMails
    MaxEventAttempts = 2
    MaxRequeues = 1
    MaxCrashes = 0
PROPERTIES
    HistoryIsNotIngested
CHECK_DEADLOCK FALSE
