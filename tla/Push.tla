-------------------------------- MODULE Push --------------------------------
(***************************************************************************)
(* Background notifications of one user.                                   *)
(*                                                                         *)
(*   backend/src/push/worker.rs   the loop that looks for credentials (at, *)
(*                                found, using), and the user's task       *)
(*                                (running, events, todo)                  *)
(*   backend/src/db/push.rs       push_credential (cred), push_subscription*)
(*                                (subs)                                   *)
(*   backend/src/routes/push.rs   the requests                             *)
(*   backend/src/imap/session_cache.rs   the account's sessions (pooled)   *)
(*   backend/src/realtime/idle.rs   the IDLE connection (idling)           *)
(*   backend/src/push/credential.rs, sender.rs   what they return          *)
(*                                                                         *)
(* A stored password is the number of the request that stored it.  One     *)
(* statement, probe or notification is one step.                           *)
(***************************************************************************)
EXTENDS Naturals, FiniteSets

CONSTANTS
    Endpoints,  \* browser registrations
    MaxEvents,  \* bound: new-mail events waiting
    Budgets     \* bounds: requests, changes outside, failures, restarts

VARIABLES
    cred,     \* push_credential: its password (0: no row), invalid_since
    subs,     \* push_subscription
    deleting, \* delete_credential is between its two statements
    at,       \* the loop: "scan", "decrypt", "probe", "mark", "start", "wait"
    using,    \* the loop: the password it unsealed
    running,  \* the user's task: the password of its IDLE connection, 0 without
    idling,   \* the IDLE connection stands
    events,   \* the user's task: NewMail events to be taken
    todo,     \* the user's task: registrations still to be notified
    gone,     \* the user's task: a registration the service does not know
    stored,   \* passwords stored so far
    valid,    \* mail server: the passwords it accepts
    pooled,   \* a session of the account is in the pool, whoever logged in
    sealed,   \* the passwords sealed with the key in use
    alive,    \* push service: the registrations it knows
    left,     \* what is left of the budget
    rejected, \* history: passwords the mail server rejected to the loop
    unmarked  \* history: a rejection could not be recorded

db == <<cred, subs, deleting, stored>>
loop == <<at, using>>
idle == <<running, idling, events, todo, gone>>
outside == <<valid, pooled, sealed, alive>>
history == <<rejected, unmarked>>
vars == <<db, loop, idle, outside, left, history>>

Init ==
    /\ cred = [pw |-> 0, bad |-> FALSE] /\ subs = {} /\ deleting = FALSE /\ stored = 0
    /\ at = "scan" /\ using = 0
    /\ running = 0 /\ idling = FALSE /\ events = 0 /\ todo = {} /\ gone = {}
    /\ valid = {} /\ pooled = FALSE /\ sealed = {} /\ alive = Endpoints
    /\ left \in Budgets /\ rejected = {} /\ unmarked = FALSE

Spend(what) == left[what] > 0 /\ left' = [left EXCEPT ![what] = @ - 1]

\* notify_waiters reaches the loop only while it waits.
Woken == IF at = "wait" THEN at' = "scan" ELSE UNCHANGED at

-----------------------------------------------------------------------------
(* routes/push.rs and db/push.rs                                           *)

\* Storing clears the mark.  The mail server may know the password or not.
store_credential ==
    /\ Spend("request")
    /\ stored' = stored + 1 /\ cred' = [pw |-> stored', bad |-> FALSE]
    /\ valid' \in {valid, valid \cup {stored'}} /\ sealed' = sealed \cup {stored'}
    /\ Woken
    /\ UNCHANGED <<subs, deleting, using, idle, pooled, alive, history>>

delete_credential ==
    /\ Spend("request") /\ ~deleting /\ deleting' = TRUE
    /\ cred' = [pw |-> 0, bad |-> FALSE]
    /\ UNCHANGED <<subs, stored, loop, idle, outside, history>>

delete_subscriptions ==
    /\ deleting /\ deleting' = FALSE /\ subs' = {} /\ Woken
    /\ UNCHANGED <<cred, stored, using, idle, outside, left, history>>

subscribe ==
    /\ Spend("request") /\ \E e \in Endpoints : subs' = subs \cup {e}
    /\ UNCHANGED <<cred, deleting, stored, loop, idle, outside, history>>

unsubscribe ==
    /\ Spend("request") /\ \E e \in subs : subs' = subs \ {e}
    /\ UNCHANGED <<cred, deleting, stored, loop, idle, outside, history>>

mark_invalid == IF cred.pw = 0 THEN UNCHANGED cred ELSE cred' = [cred EXCEPT !.bad = TRUE]

-----------------------------------------------------------------------------
(* The loop                                                                *)

users_with_push_all == cred.pw # 0
users_with_push == cred.pw # 0 /\ ~cred.bad

\* A user whose task runs is passed over, whatever was stored since.
Scan ==
    /\ at = "scan"
    /\ at' = IF users_with_push /\ running = 0 THEN "decrypt" ELSE "wait"
    /\ UNCHANGED <<db, using, idle, outside, left, history>>

decrypt_credentials ==
    /\ at = "decrypt"
    /\ \/ cred.pw = 0 /\ at' = "wait" /\ UNCHANGED using
       \/ cred.pw # 0 /\ cred.pw \in sealed /\ at' = "probe" /\ using' = cred.pw
       \/ cred.pw # 0 /\ cred.pw \notin sealed /\ at' = "mark" /\ UNCHANGED using
    /\ UNCHANGED <<db, idle, outside, left, history>>

\* A session in the pool answers whatever password the loop has: the pool is keyed
\* by account and host.  Without one the password is tried.  Only a rejected
\* password is marked; any other error leaves it for later, and its session is closed.
credential_still_works ==
    /\ at = "probe"
    /\ \/ (pooled \/ using \in valid) /\ at' = "start" /\ pooled' = TRUE
          /\ UNCHANGED <<left, rejected>>
       \/ ~pooled /\ using \notin valid /\ at' = "mark"
          /\ rejected' = rejected \cup {using} /\ UNCHANGED <<left, pooled>>
       \/ Spend("fail") /\ at' = "wait" /\ pooled' = FALSE /\ UNCHANGED rejected
    /\ UNCHANGED <<db, using, idle, valid, sealed, alive, unmarked>>

\* Whichever password is stored by now.  A failure is not looked at.
Mark ==
    /\ at = "mark" /\ at' = "wait"
    /\ \/ mark_invalid /\ UNCHANGED <<left, unmarked>>
       \/ Spend("fail") /\ unmarked' = TRUE /\ UNCHANGED cred
    /\ UNCHANGED <<subs, deleting, stored, using, idle, outside, rejected>>

\* The task is never stopped: its event channel does not close.
start_for_user ==
    /\ at = "start" /\ at' = "wait"
    /\ running' = using /\ idling' = FALSE
    /\ UNCHANGED <<db, using, events, todo, gone, outside, left, history>>

Rescan ==
    /\ at = "wait" /\ at' = "scan"
    /\ UNCHANGED <<db, using, idle, outside, left, history>>

-----------------------------------------------------------------------------
(* The user's task                                                         *)

\* A connection of its own, with the password it was started with.  One that is
\* rejected, or that fails, is tried again for ever and changes nothing: no mark is
\* set, and a password stored meanwhile is not taken.
run_idle_session ==
    /\ running \in valid /\ ~idling /\ idling' = TRUE
    /\ UNCHANGED <<db, loop, running, events, todo, gone, outside, left, history>>
IdleBreaks ==
    /\ idling /\ idling' = FALSE
    /\ UNCHANGED <<db, loop, running, events, todo, gone, outside, left, history>>

\* A cycle, which IDLE or a page asked for, found new mail, and the filters left
\* some of it.
NewMail ==
    /\ running # 0 /\ events < MaxEvents /\ Spend("event") /\ events' = events + 1
    /\ UNCHANGED <<db, loop, running, idling, todo, gone, outside, history>>

\* deliver: the registrations there are now
TakeEvent ==
    /\ events > 0 /\ todo = {} /\ gone = {}
    /\ events' = events - 1 /\ todo' = subs
    /\ UNCHANGED <<db, loop, running, idling, gone, outside, left, history>>

send ==
    /\ gone = {}
    /\ \E e \in todo :
          /\ todo' = todo \ {e}
          /\ gone' = IF e \in alive THEN {} ELSE {e}
    /\ UNCHANGED <<db, loop, running, idling, events, outside, left, history>>

DropGone ==
    /\ gone # {} /\ gone' = {} /\ subs' = subs \ gone
    /\ UNCHANGED <<cred, deleting, stored, loop, running, idling, events, todo, outside, left,
                   history>>

-----------------------------------------------------------------------------
(* Outside, and restarts                                                   *)

Revoke ==
    /\ Spend("change") /\ \E p \in valid : valid' = valid \ {p}
    /\ UNCHANGED <<db, loop, idle, pooled, sealed, alive, history>>
\* The user's pages log in with the password typed there, and their sessions stay
\* in the pool for a while; the server does not end the one of a password revoked.
Pooled ==
    /\ pooled' = ~pooled
    /\ UNCHANGED <<db, loop, idle, valid, sealed, alive, left, history>>
Expire ==
    /\ Spend("change") /\ \E e \in alive : alive' = alive \ {e}
    /\ UNCHANGED <<db, loop, idle, valid, pooled, sealed, history>>

\* The process starts anew, with the same key or another one.
Restart ==
    /\ Spend("restart") /\ sealed' \in {sealed, {}}
    /\ at' = "scan" /\ using' = 0 /\ deleting' = FALSE
    /\ running' = 0 /\ idling' = FALSE /\ pooled' = FALSE /\ events' = 0 /\ todo' = {} /\ gone' = {}
    /\ unmarked' = (unmarked \/ at = "mark")
    /\ UNCHANGED <<cred, subs, stored, valid, alive, rejected>>

Next ==
    \/ store_credential \/ delete_credential \/ delete_subscriptions
    \/ subscribe \/ unsubscribe
    \/ Scan \/ decrypt_credentials \/ credential_still_works \/ Mark
    \/ start_for_user \/ Rescan
    \/ run_idle_session \/ IdleBreaks \/ NewMail \/ TakeEvent \/ send \/ DropGone
    \/ Revoke \/ Pooled \/ Expire \/ Restart

Spec == Init /\ [][Next]_vars

-----------------------------------------------------------------------------

Places == {"scan", "decrypt", "probe", "mark", "start", "wait"}

TypeOK ==
    /\ stored \in Nat /\ cred \in [pw : 0..stored, bad : BOOLEAN]
    /\ subs \subseteq Endpoints /\ deleting \in BOOLEAN
    /\ at \in Places /\ using \in 0..stored /\ (at = "probe" => using # 0)
    /\ running \in 0..stored /\ {idling, pooled} \subseteq BOOLEAN /\ events \in 0..MaxEvents
    /\ todo \subseteq Endpoints /\ gone \subseteq Endpoints /\ alive \subseteq Endpoints
    /\ valid \subseteq 1..stored /\ sealed \subseteq 1..stored
    /\ rejected \subseteq 1..stored /\ unmarked \in BOOLEAN

\* Of "a password the server rejects is marked invalid and never retried"
\* (push/worker.rs:171) what the code keeps: one that was rejected to the loop is
\* neither probed nor given to IDLE again, over rescans, requests, sessions of other
\* passwords in the pool and restarts, unless the mark itself could not be written,
\* or the process ended before it was.  A password revoked later, or one that a
\* pooled session answered for, is not rejected to the loop: run_idle_session tries
\* it for ever.
NeverRetried ==
    unmarked \/ (running \notin rejected /\ (at \in {"probe", "start"} => using \notin rejected))

=============================================================================
