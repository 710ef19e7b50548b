SPECIFICATION Spec
CONSTANTS
    Requests = {r1, r2}
    Secrets = {k1, k2}
    Creds = {c1, c2}
    Nonces = {n1, n2}
    None = None
    MaxFailures = 1
    LockTime = 1
    MaxTime = 2
    MaxMail = 2
    Tasks = {t1, t2}
    Senders = {s1}
    Mine = {}
    RuleIds = {f1, f2}
    InApp = {f2}
    NoTest = {}
    Stops = {f1}
    SieveHost = TRUE
    Never = Never
    s1 = s1
    f1 = f1
    Endpoints = {p1, p2}
    Emails = {e1, e2, e3}
    Groups = {g1}
    e1 = e1
    e2 = e2
    MaxRequests = 4
    LoginBudgets <- MCLoginBudgets
    From <- MCFrom
    Acts <- MCActs
    Hits <- MCHits
    MailBudgets <- MCMailBudgets
    MaxEvents = 1
    PushBudgets <- MCPushBudgets
    Lower <- MCLower
    Card <- MCCard
    DateTexts <- MCTexts
    Rules <- MCRules
    SourceUids <- MCSourceUids
    Windows <- MCWindows
    Files <- MCFiles
    Templates <- MCTemplates
    MaxListed = 2
    CalRequests = 2
    Dates <- MCDates
    Pictures <- MCPictures
    Values <- MCPictures
    FolderNames <- MCFolderNames
    Inbox = s1
    System <- MCDates
    Refused = {}
    FiledUids <- MCFiledUids
    Keys <- MCKeys
    Excluded <- MCExcluded
    TopLevel <- MCTopLevel
    Contents <- MCContents
    InHead <- MCInHead
    InBody <- MCInBody
    Date <- MCDate
    Words <- MCWords
    Filters <- MCFilters
    Limit = 2
    DEEP_INDEX_BATCH = 1
    SearchBudgets <- MCSearchBudgets
    MailUids <- MCUids
    max_idle = 1
    max_age = 1
    Logout = 2
    MAX_CONCURRENT_CONNECTS_PER_ACCOUNT = 1
    CallBudgets <- MCCallBudgets
SYMMETRY Symmetry
INVARIANTS TypeOK PasswordLoginAllowed DeletedKeyRefused FirstReplyKept Noticed
INVARIANTS NeverRetried SuggestedOnce ListSound FoldersAccounted SearchSound NothingLost
PROPERTIES MailKept HandedOutAlive
CHECK_DEADLOCK FALSE
