SPECIFICATION FairSpec
CONSTANTS
    MaxMails = 2
    MaxChanges = 1
    BatchSize = 1
    Damages <- AnyDamage
    MailIds <- Keys
    JobMails <- MCJobMails
    MaxEventAttempts = 2
    MaxRequeues = 1
    MaxCrashes = 1
INVARIANTS
    TypeOK
    NoMailSkipped
    StoredOnce
    EffectsAreDurable
PROPERTIES
    MailIsSettled
    ImplementsMailOutcomes
CHECK_DEADLOCK FALSE
