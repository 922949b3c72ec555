CONSTANTS
    Users = {u1}
    Names = {"n1", "n2"}
    Slugs = {"s1", "s2"}
    SlugOf <- MCSlugOf
    Seed <- MCSeed
    MaxEntities = 4
    MaxProposals = 1
    Requests = {r1, r2}
SPECIFICATION MCSpec
INVARIANTS
    TypeOK
    NamesUnique
    DecisionTookEffect
    DecidableIsListed
    HomeMatchesStatus
SYMMETRY RequestSymmetry
CHECK_DEADLOCK FALSE
