SPECIFICATION Spec
CONSTANTS
    Ids = {e1, e2}
    None = None
    MaxAttempts = 2
    BaseBackoff = 1
    MaxBackoff = 2
    IdleTimeout = 1
    UndoDelays = {0, 1}
    MaxFaults = 1
SYMMETRY Symmetry
INVARIANTS TypeOK SnapshotCurrent AttemptsBounded DraftKeptUntilSent FailureAnnounced
PROPERTIES NoResendAfterAck UndoIsFinal
