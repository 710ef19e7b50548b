------------------------------- MODULE Mutex -------------------------------
(***************************************************************************)
(* What DraftLocks promises for one draft: the requests that save or       *)
(* discard it wait, enter one at a time, and leave.  How it keeps the      *)
(* promise, with a mutex that is created and thrown away as requests come  *)
(* and go, is in Drafts, which implements this specification.              *)
(***************************************************************************)
CONSTANT Clients

VARIABLE state  \* state[c]: outside, waiting, or in the critical section

TypeOK == state \in [Clients -> {"out", "waiting", "in"}]

Init == state = [c \in Clients |-> "out"]

Move(c, from, to) == state[c] = from /\ state' = [state EXCEPT ![c] = to]

Ask(c)    == Move(c, "out", "waiting")
Enter(c)  == (\A d \in Clients : state[d] # "in") /\ Move(c, "waiting", "in")
Leave(c)  == Move(c, "in", "out")
GiveUp(c) == Move(c, "waiting", "out")

Next == \E c \in Clients : Ask(c) \/ Enter(c) \/ Leave(c) \/ GiveUp(c)

Spec == Init /\ [][Next]_state

=============================================================================
