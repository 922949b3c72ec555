SPECIFICATION Spec
CONSTANTS
    Api = {"api"}
    Scheduler = {"other"}
    Operator = {"other"}
    RetentionLocal = 0
    RetentionOffsite = 1
    OffsiteEnabled = TRUE
    MaxBackups = 3
    MaxVersion = 2
INVARIANTS
    RestoredAsAsked
    GoodBackupStays
    SourceHeld
    RetainedByCount
CHECK_DEADLOCK FALSE
