SPECIFICATION FairSpec
CONSTANTS
    Admins = {"admin"}
    UniversityScope = {}
    FacultyScope = {}
    SubjectScope = {}
    Owner = "admin"
    Materials = {material}
    Requests = {"r1", "r2"}
    Workers = {"w1", "w2"}
    BatchSize = 1
    MaxAttempts = 2
    MaxEvents = 2
    MaxAnnounced = 1
    MaxCrashes = 1
INVARIANTS
    DuplicatesExplained
    CallsBounded
PROPERTIES
    DispatchedIsFinal
    DeliversUnlessShared
    EveryEventSettles
CHECK_DEADLOCK FALSE
