SPECIFICATION Spec
CONSTANTS
    r1 = r1
    r2 = r2
    f1 = f1
    f2 = f2
    f3 = f3
    Requests = {r1, r2}
    Files = {f1, f2, f3}
    Pdfs = {f1}
    MaxFileCount = 2
    MaxTotalSize = 2
    CacheMayFail = TRUE
SYMMETRY Symmetry
INVARIANT RowsBacked
CHECK_DEADLOCK FALSE
