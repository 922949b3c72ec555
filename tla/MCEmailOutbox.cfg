SPECIFICATION FairSpec
CONSTANTS
    m1 = m1
    m2 = m2
    m3 = m3
    w1 = w1
    w2 = w2
    Messages = {m1, m2}
    Workers = {w1, w2}
    BatchSize = 2
    MaxAttempts = 3
    MaxCrashes = 2
INVARIANTS
    RetryLimit
    SentWasTaken
    DuplicatesExplained
PROPERTIES
    FinishedIsFinal
    DeliversAsPromised
    EveryMessageSettles
CHECK_DEADLOCK FALSE
