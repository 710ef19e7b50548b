SPECIFICATION Spec
CONSTANTS
    Conns = {c1, c2}
    Push = push
    View = view
    Workers = {w1, w2, w3}
    Idles = {i1, i2}
    Channels = {h1, h2}
    None = None
    Capacity = 1
    MaxChanges = 2
    Budgets <- MCPush
INVARIANTS PushKeepsIdle
CHECK_DEADLOCK FALSE
