SPECIFICATION FairSpec
CONSTANTS
    Reqs = {r1, r2, r3}
    Mutexes = {m1, m2}
    Kinds = {"save", "delete", "cleanup", "upload", "unattach"}
    NoMutex = NoMutex
    NoReq = NoReq
    NoRow = NoRow
    NoUid = NoUid
    MaxFaults = 1
CHECK_DEADLOCK FALSE
INVARIANTS NoLockLeak LastAnswerHolds AttachmentsReadable StraysCounted
PROPERTIES OneAtATime EveryRequestEnds
