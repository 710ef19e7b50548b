----------------------------- MODULE MCRealtime -----------------------------
EXTENDS Realtime

Budget(c, o, p, f, s) ==
    [change |-> c, open |-> o, push |-> p, fault |-> f, split |-> s]

MCBudgets ==
    {Budget(2, 1, 0, 0, 0), Budget(1, 1, 0, 1, 1), Budget(1, 1, 1, 0, 0),
     Budget(1, 2, 0, 0, 0), Budget(0, 2, 0, 0, 1)}

MCPush == {Budget(0, 1, 1, 0, 0)}
=============================================================================
