SPECIFICATION Spec
CONSTANTS
    r1 = r1
    r2 = r2
    f1 = f1
    f2 = f2
    f3 = f3
    Requests = {r1, r2}
    Files = {f1, f2, f3}
    Pdfs = {f1}
    MaxFileCount = 2
    MaxTotalSize = 2
    CacheMayFail = FALSE
SYMMETRY Symmetry
INVARIANTS
    TypeOK
    RowsBacked
    FileCountExact
    WithinTotalSize
    PublicIsReviewed
    StatusMatchesLog
PROPERTIES
    WorkflowUnlessRaced
CHECK_DEADLOCK FALSE
