SPECIFICATION Spec
CONSTANTS
    Accounts = {a1, a2}
    Browsers = {b1, b2}
    Email <- OneMailbox
    Procs = {p1, p2}
    Purger = purger
    None = None
SYMMETRY Symmetry
INVARIANTS ConsistentAtRest LoginHolds RevokedIsForgotten
