------------------------------ MODULE MCLogin ------------------------------
EXTENDS Login

Budget(l, c, x, g, s, d, m, p, e) ==
    [login |-> l, confirm |-> c, remove |-> x, register |-> g, signin |-> s,
     drop |-> d, mode |-> m, mail |-> p, error |-> e]
\* A deletion of a passkey and a change of the mode; UserData has the other budgets.
MCMode == {Budget(0, 0, 0, 0, 0, 1, 1, 0, 0)}
=============================================================================
