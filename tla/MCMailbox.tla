----------------------------- MODULE MCMailbox -----------------------------
(* Small instances of Mailbox. *)
EXTENDS Mailbox

Budget(c, b, f, o, v) ==
    [change |-> c, rebuild |-> b, fault |-> f, op |-> o, rival |-> v]

\* Two changes at the server and a fault; one, a fault and a request; one and a
\* change of UIDVALIDITY; one, a fault and two cycles that overlap.
MCBudgets == {Budget(2, 0, 1, 0, 0), Budget(1, 0, 1, 1, 0),
              Budget(1, 1, 0, 0, 0), Budget(1, 0, 1, 0, 1)}
=============================================================================
