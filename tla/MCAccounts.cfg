CONSTANTS
    Users = {root, u1}
    Root = root
    Tokens = {t1, t2}
    Entities = {e1}
    Requests = {r1, r2}
    MaxStarts = 8
    None = None
SYMMETRY Symmetric
SPECIFICATION Spec
INVARIANTS
    RedeemedOnce
    OneLiveToken
    AdminRemains
CHECK_DEADLOCK FALSE
