CONSTANTS
    Requests = {r1, r2}
    Tokens = {t1}
    MaxRate = 2
    MaxAttempts = 2
    Window = 2
    LockFor = 2
    Life = 1
SPECIFICATION SCFairSpec
INVARIANTS
    GuessesBounded
    RefusedToTheLastSecond
PROPERTIES
    CountersEnd
