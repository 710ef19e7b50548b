SPECIFICATION WatchedSpec
CONSTANTS
    MaxUid = 2
    Flags = {seen}
    Seen = seen
    Gone = gone
    Requests = {r1}
    Cold = 1
    Span = 1
    Caps = {"qresync", "condstore", "plain"}
    Faults = {"imap", "eof", "row", "stall", "cut", "open", "background", "lost"}
    Budgets <- MCBudgets
INVARIANTS TypeOK Accounted
PROPERTIES MarkSound SkipSound Relabelled Converges
CHECK_DEADLOCK FALSE
