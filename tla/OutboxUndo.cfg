SPECIFICATION Spec
CONSTANTS
    Ids = {e1}
    None = None
    MaxAttempts = 2
    BaseBackoff = 1
    MaxBackoff = 2
    IdleTimeout = 1
    UndoDelays = {0, 1}
    MaxFaults = 0
INVARIANT CancelledNotSent
