--------------------------- MODULE MCSessionStore ---------------------------
EXTENDS SessionStore, TLC

\* Two logins of one mailbox, so that the duplicate check has something to find.
OneMailbox == [a \in Accounts |-> "mailbox"]

Symmetry == Permutations(Accounts) \cup Permutations(Browsers) \cup Permutations(Procs)
=============================================================================
