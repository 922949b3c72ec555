SPECIFICATION Spec
CONSTANTS
    Api = {"api"}
    Scheduler = {"other"}
    Operator = {"other"}
    RetentionLocal = 1
    RetentionOffsite = 1
    OffsiteEnabled = TRUE
    MaxBackups = 2
    MaxVersion = 1
INVARIANT OffsiteCopyRestorable
CHECK_DEADLOCK FALSE
