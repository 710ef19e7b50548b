SPECIFICATION FairSpec
CONSTANTS
    Accounts = {a1, a2}
    Browsers = {b1, b2}
    Email <- OneMailbox
    Procs = {p1}
    Purger = purger
    None = None
PROPERTIES ExpiredIsForgotten
