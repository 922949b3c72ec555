SPECIFICATION Spec
CONSTANTS
    r1 = r1
    r2 = r2
    t1 = t1
    t2 = t2
    t3 = t3
    None = None
    Requests = {r1, r2}
    Tokens = {t1, t2, t3}
SYMMETRY Symmetry
INVARIANTS
    TypeOK
    OneLivePerLogin
    RevocationComplete
