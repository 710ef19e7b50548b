SPECIFICATION Spec
CONSTANTS
    Requests = {r1, r2}
    Secrets = {s1}
    Creds = {k1}
    Nonces = {n1}
    None = None
    MaxFailures = 2
    LockTime = 1
    MaxTime = 1
    MaxMail = 1
    Budgets <- MCMode
INVARIANTS PasskeyLeft
CHECK_DEADLOCK FALSE
