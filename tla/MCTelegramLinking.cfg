SPECIFICATION Spec
CONSTANTS
    u1 = u1
    u2 = u2
    t1 = t1
    t2 = t2
    l1 = l1
    l2 = l2
    s1 = s1
    s2 = s2
    s3 = s3
    r1 = r1
    r2 = r2
    None = None
    Users = {u1, u2}
    Telegrams = {t1, t2}
    LinkIds = {l1, l2}
    Sessions = {s1, s2, s3}
    Requests = {r1, r2}
SYMMETRY Symmetry
INVARIANTS
    TypeOK
    LinkWasAsked
    OneLiveSession
PROPERTIES
    ActiveLinkEndsByUnlink
CHECK_DEADLOCK FALSE
