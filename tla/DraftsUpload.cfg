SPECIFICATION Spec
CONSTANTS
    Reqs = {r1, r2}
    Mutexes = {m1, m2}
    Kinds = {"save", "upload"}
    NoMutex = NoMutex
    NoReq = NoReq
    NoRow = NoRow
    NoUid = NoUid
    MaxFaults = 0
CHECK_DEADLOCK FALSE
INVARIANT StagingKnowsCopy
