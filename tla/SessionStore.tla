---------------------------- MODULE SessionStore ----------------------------
(***************************************************************************)
(* The in-memory session store: four concurrent maps that requests on      *)
(* several threads and the purge task change one map operation at a time.  *)
(*                                                                         *)
(*   backend/src/auth/session.rs     SessionStore                          *)
(*   backend/src/routes/auth.rs      login, list, remove, logout           *)
(*   backend/src/routes/mfa.rs       passkey_login_complete                *)
(*   backend/src/auth/middleware.rs  auth_guard                            *)
(*   backend/src/main.rs             the purge task                        *)
(*                                                                         *)
(* A session token and its account id are drawn together and never bound   *)
(* to another: the model uses the account for both.  A Vec of accounts is  *)
(* a set, since every account is pushed once.  Each action is one access   *)
(* to one map, which its shard lock makes atomic.                          *)
(*                                                                         *)
(* A client may present a cookie it was told to clear: another tab's       *)
(* request may be on its way.                                              *)
(***************************************************************************)
EXTENDS FiniteSets

CONSTANTS
    Accounts,   \* account ids; each is one generate_id(), used by one login
    Browsers,   \* browser ids
    Email,      \* Accounts -> the mailbox (email and host) it logs in to
    Procs,      \* request handlers that run at the same time
    Purger,     \* the purge task
    None

ASSUME SessionAssumption ==
    /\ Purger \notin Procs
    /\ None \notin Accounts /\ None \notin Browsers

VARIABLES
    sessions,   \* keys of `sessions'
    a2s,        \* keys of account_to_session
    a2b,        \* account_to_browser: Accounts -> browser or None
    browsers,   \* keys of `browsers' ...
    list,       \* ... and their accounts, {} for a missing key
    status,     \* Accounts -> "new", "opening", "answered" or "refused"
    home,       \* Accounts -> the browser id of its login
    expired,    \* accounts idle for longer than the timeout
    revoked,    \* accounts a logout or removal asked for by the user took
    swept,      \* accounts list_accounts took because their cookie was missing
    op,         \* what each process does,
    pc,         \* where it is,
    acct,       \* the account it works on,
    todo,       \* accounts it has in a local Vec,
    scan,       \* browsers its retain has not visited,
    jar         \* and the session cookies its request carries

maps   == <<sessions, a2s, a2b, browsers, list>>
client == <<status, home, expired, revoked, swept>>
procs  == <<op, pc, acct, todo, scan, jar>>
vars   == <<maps, client, procs>>

Tasks == Procs \cup {Purger}

Adding   == {"sess", "a2s", "a2b", "push"}
Guarding == {"token", "get"}
Evicting == {"drop", "ev_a2s", "ev_a2b", "retain"}
Removing == {"ra_a2s", "ra_sess", "ra_a2b", "ra_list"}
Clearing == {"lo_a2b", "lo_a2s", "lo_sess"}
PCs == {"idle", "clone", "filter", "take", "next"}
         \cup Adding \cup Guarding \cup Evicting \cup Removing \cup Clearing

Ops == {"none", "login", "request", "logout", "remove", "list", "purge"}

\* The accounts whose login was answered: the client has their cookies.
Jar == {a \in Accounts : status[a] = "answered"}
Known == {home[a] : a \in Jar}

(***************************************************************************)
(* A process moves on: within an operation, or to the end of it.           *)
(***************************************************************************)
Goto(p, l) ==
    /\ pc' = [pc EXCEPT ![p] = l]
    /\ UNCHANGED <<op, acct, todo, scan, jar>>

End(p) ==
    /\ pc' = [pc EXCEPT ![p] = "idle"]
    /\ op' = [op EXCEPT ![p] = "none"]
    /\ acct' = [acct EXCEPT ![p] = None]
    /\ todo' = [todo EXCEPT ![p] = {}]
    /\ scan' = [scan EXCEPT ![p] = {}]
    /\ jar' = [jar EXCEPT ![p] = {}]

\* Into the loop over the accounts todo, or past it.
Loop(p, accounts) ==
    IF accounts = {}
    THEN End(p)
    ELSE /\ todo' = [todo EXCEPT ![p] = accounts]
         /\ pc' = [pc EXCEPT ![p] = "next"]
         /\ acct' = [acct EXCEPT ![p] = None]
         /\ UNCHANGED <<op, scan, jar>>

\* An operation begins with its first access to a map.
Start(p, o, a, l) ==
    /\ pc[p] = "idle"
    /\ op' = [op EXCEPT ![p] = o]
    /\ acct' = [acct EXCEPT ![p] = a]
    /\ pc' = [pc EXCEPT ![p] = l]
    /\ UNCHANGED scan

Open(a, b) ==
    /\ status[a] = "new"
    /\ status' = [status EXCEPT ![a] = "opening"]
    /\ home' = [home EXCEPT ![a] = b]
    /\ UNCHANGED <<expired, revoked, swept>>

(***************************************************************************)
(* create_browser and add_account_to_browser.                              *)
(***************************************************************************)
\* The first login of a browser: create_browser makes the id.
FirstLogin(p, a, b) ==
    /\ \A x \in Accounts : home[x] # b
    /\ browsers' = browsers \cup {b}
    /\ Start(p, "login", a, "sess") /\ UNCHANGED <<todo, jar>>
    /\ Open(a, b)
    /\ UNCHANGED <<sessions, a2s, a2b, list>>

\* passkey_login_complete goes straight to add_account_to_browser.
PasskeyLogin(p, a, b) ==
    /\ b \in Known
    /\ sessions' = sessions \cup {a}
    /\ Start(p, "login", a, "a2s") /\ UNCHANGED <<todo, jar>>
    /\ Open(a, b)
    /\ UNCHANGED <<a2s, a2b, browsers, list>>

InsertSession(p) ==
    /\ pc[p] = "sess"
    /\ sessions' = sessions \cup {acct[p]}
    /\ Goto(p, "a2s")
    /\ UNCHANGED <<a2s, a2b, browsers, list, client>>

InsertToken(p) ==
    /\ pc[p] = "a2s"
    /\ a2s' = a2s \cup {acct[p]}
    /\ Goto(p, "a2b")
    /\ UNCHANGED <<sessions, a2b, browsers, list, client>>

InsertBrowser(p) ==
    /\ pc[p] = "a2b"
    /\ a2b' = [a2b EXCEPT ![acct[p]] = home[acct[p]]]
    /\ Goto(p, "push")
    /\ UNCHANGED <<sessions, a2s, browsers, list, client>>

Answer(a) ==
    /\ status' = [status EXCEPT ![a] = "answered"]
    /\ UNCHANGED <<home, expired, revoked, swept>>

\* Mutant: get_mut in place of entry(..).or_default().
Push_if_present(p) ==
    /\ pc[p] = "push"
    /\ list' = [list EXCEPT ![home[acct[p]]] =
                   IF home[acct[p]] \in browsers THEN @ \cup {acct[p]} ELSE @]
    /\ Answer(acct[p])
    /\ End(p)
    /\ UNCHANGED <<sessions, a2s, a2b, browsers>>

\* entry(browser_id).or_default().push(account_id), and the answer.
Push(p) ==
    /\ pc[p] = "push"
    /\ browsers' = browsers \cup {home[acct[p]]}
    /\ list' = [list EXCEPT ![home[acct[p]]] = @ \cup {acct[p]}]
    /\ Answer(acct[p])
    /\ End(p)
    /\ UNCHANGED <<sessions, a2s, a2b>>

(***************************************************************************)
(* get_browser_accounts: the list is cloned, then each account is looked   *)
(* up.  An account of the clone can only disappear, and the callers ask    *)
(* about accounts one by one, so the lookups are one step.                 *)
(***************************************************************************)
Clone(p, b) == todo' = [todo EXCEPT ![p] = list[b]]

\* Login with the browser id of earlier logins.
Login(p, a, b) ==
    /\ b \in Known
    /\ Start(p, "login", a, "filter") /\ Clone(p, b) /\ UNCHANGED jar
    /\ Open(a, b)
    /\ UNCHANGED maps

\* DELETE /accounts/{id} and GET /accounts need the browser cookie only.
Remove(p, a) ==
    /\ a \in Jar
    /\ Start(p, "remove", a, "filter") /\ Clone(p, home[a]) /\ UNCHANGED jar
    /\ UNCHANGED <<maps, client>>

\* The cookies of GET /accounts are older than what the handler reads; its
\* browser_exists decides nothing that the empty list of a missing browser does not.
ListAccounts(p, a) ==
    /\ a \in Jar
    /\ Start(p, "list", a, "clone")
    /\ jar' = [jar EXCEPT ![p] = {x \in Jar : home[x] = home[a]}]
    /\ UNCHANGED <<todo, maps, client>>

CloneList(p) ==
    /\ pc[p] = "clone"
    /\ Clone(p, home[acct[p]])
    /\ pc' = [pc EXCEPT ![p] = "filter"]
    /\ UNCHANGED <<op, acct, scan, jar, maps, client>>

Seen(p) == todo[p] \cap a2s \cap sessions
Duplicate(p) == \E x \in Seen(p) : Email[x] = Email[acct[p]]

FilterLogin(p) ==
    /\ pc[p] = "filter" /\ op[p] = "login"
    /\ IF Duplicate(p)
       THEN status' = [status EXCEPT ![acct[p]] = "refused"] /\ End(p)
       ELSE /\ pc' = [pc EXCEPT ![p] = "sess"]
            /\ todo' = [todo EXCEPT ![p] = {}]
            /\ UNCHANGED <<status, op, acct, scan, jar>>
    /\ UNCHANGED <<maps, home, expired, revoked, swept>>

FilterRemove(p) ==
    /\ pc[p] = "filter" /\ op[p] = "remove"
    /\ IF acct[p] \in Seen(p)
       THEN /\ pc' = [pc EXCEPT ![p] = "ra_a2s"]
            /\ todo' = [todo EXCEPT ![p] = {}]
            /\ UNCHANGED <<op, acct, scan, jar>>
       ELSE End(p)
    /\ UNCHANGED <<maps, client>>

FilterList(p) ==
    /\ pc[p] = "filter" /\ op[p] = "list"
    /\ Loop(p, Seen(p))
    /\ UNCHANGED <<maps, client>>

(***************************************************************************)
(* get_account_session and get.                                            *)
(***************************************************************************)
\* A protected route, and logout, which is one: auth_guard runs first.
Request(p, a, o) ==
    /\ a \in Jar
    /\ IF a \in list[home[a]]
       THEN Start(p, o, a, "token") /\ UNCHANGED <<todo, jar>>
       ELSE pc[p] = "idle" /\ UNCHANGED procs
    /\ UNCHANGED <<maps, client>>

CheckToken(p) ==
    /\ pc[p] = "token"
    /\ IF acct[p] \in a2s THEN Goto(p, "get") ELSE End(p)
    /\ UNCHANGED <<maps, client>>

\* What follows a get that returned None.
NoSession(p) == IF op[p] = "list" THEN Goto(p, "ra_a2s") ELSE End(p)

GetMissing(p) ==
    /\ pc[p] = "get" /\ acct[p] \notin sessions
    /\ NoSession(p)
    /\ UNCHANGED <<maps, client>>

GetExpired(p) ==
    /\ pc[p] = "get" /\ acct[p] \in sessions \cap expired
    /\ Goto(p, "drop")
    /\ UNCHANGED <<maps, client>>

\* last_accessed = now, and the session is returned.
GetServed(p) ==
    /\ pc[p] = "get" /\ acct[p] \in sessions \ expired
    /\ CASE op[p] = "logout" -> Goto(p, "take")
         [] op[p] = "list"   -> Loop(p, todo[p])
         [] OTHER            -> End(p)
    /\ UNCHANGED <<maps, client>>

DropSession(p) ==
    /\ pc[p] = "drop"
    /\ sessions' = sessions \ {acct[p]}
    /\ Goto(p, "ev_a2s")
    /\ UNCHANGED <<a2s, a2b, browsers, list, client>>

(***************************************************************************)
(* evict_account.                                                          *)
(***************************************************************************)
EvictToken(p) ==
    /\ pc[p] = "ev_a2s"
    /\ a2s' = a2s \ {acct[p]}
    /\ Goto(p, "ev_a2b")
    /\ UNCHANGED <<sessions, a2b, browsers, list, client>>

EvictBrowser(p) ==
    /\ pc[p] = "ev_a2b"
    /\ a2b' = [a2b EXCEPT ![acct[p]] = None]
    /\ pc' = [pc EXCEPT ![p] = "retain"]
    /\ scan' = [scan EXCEPT ![p] = Browsers]
    /\ UNCHANGED <<op, acct, todo, jar, sessions, a2s, browsers, list, client>>

\* Mutant: only emptied lists are dropped, the account stays in the others.
Retain_nonempty(p, b) ==
    /\ pc[p] = "retain" /\ b \in scan[p]
    /\ browsers' = IF list[b] \ {acct[p]} = {} THEN browsers \ {b} ELSE browsers
    /\ list' = IF list[b] \ {acct[p]} = {} THEN [list EXCEPT ![b] = {}] ELSE list
    /\ scan' = [scan EXCEPT ![p] = @ \ {b}]
    /\ UNCHANGED <<pc, op, acct, todo, jar, sessions, a2s, a2b, client>>

\* browsers.retain locks shard after shard: one browser at a time, in any order.
Retain(p, b) ==
    /\ pc[p] = "retain" /\ b \in scan[p]
    /\ list' = [list EXCEPT ![b] = @ \ {acct[p]}]
    /\ browsers' = IF list'[b] = {} THEN browsers \ {b} ELSE browsers
    /\ scan' = [scan EXCEPT ![p] = @ \ {b}]
    /\ UNCHANGED <<pc, op, acct, todo, jar, sessions, a2s, a2b, client>>

Evicted(p) ==
    /\ pc[p] = "retain" /\ scan[p] = {}
    /\ IF op[p] = "purge" THEN Loop(p, todo[p]) ELSE NoSession(p)
    /\ UNCHANGED <<maps, client>>

\* Mutant: the expired accounts are not collected.
Purge_only ==
    /\ sessions' = sessions \ expired
    /\ pc[Purger] = "idle"
    /\ UNCHANGED <<procs, a2s, a2b, browsers, list, client>>

\* The interval ticks: purge_expired begins with sessions.retain.  Nothing
\* revives an expired session, so its shards are one step; the accounts found
\* are evicted one after the other.  A purge that finds none is a stuttering step.
Purge ==
    /\ sessions \cap expired # {}
    /\ sessions' = sessions \ expired
    /\ Start(Purger, "purge", None, "next")
    /\ todo' = [todo EXCEPT ![Purger] = sessions \cap expired]
    /\ UNCHANGED <<jar, a2s, a2b, browsers, list, client>>

(***************************************************************************)
(* The loops of logout, list_accounts and purge_expired.                   *)
(***************************************************************************)
NextAccount(p, a) ==
    /\ pc[p] = "next" /\ a \in todo[p]
    /\ acct' = [acct EXCEPT ![p] = a]
    /\ todo' = [todo EXCEPT ![p] = @ \ {a}]
    /\ pc' = [pc EXCEPT ![p] =
          CASE op[p] = "logout"               -> "lo_a2b"
            [] op[p] = "purge"                -> "ev_a2s"
            [] op[p] = "list" /\ a \in jar[p] -> "get"
            [] OTHER                          -> "ra_a2s"]
    /\ UNCHANGED <<op, scan, jar, maps, client>>

(***************************************************************************)
(* remove_browser.                                                         *)
(***************************************************************************)
TakeBrowser(p) ==
    /\ pc[p] = "take"
    /\ LET b == home[acct[p]]
       IN  /\ Loop(p, list[b])
           /\ browsers' = browsers \ {b}
           /\ list' = [list EXCEPT ![b] = {}]
           /\ revoked' = revoked \cup list[b]
    /\ UNCHANGED <<sessions, a2s, a2b, status, home, expired, swept>>

ClearBrowser(p) ==
    /\ pc[p] = "lo_a2b"
    /\ a2b' = [a2b EXCEPT ![acct[p]] = None]
    /\ Goto(p, "lo_a2s")
    /\ UNCHANGED <<sessions, a2s, browsers, list, client>>

\* Mutant: the loop ends with the token and leaves the session to the purge.
ClearToken_only(p) ==
    /\ pc[p] = "lo_a2s"
    /\ a2s' = a2s \ {acct[p]}
    /\ Loop(p, todo[p])
    /\ UNCHANGED <<sessions, a2b, browsers, list, client>>

ClearToken(p) ==
    /\ pc[p] = "lo_a2s"
    /\ a2s' = a2s \ {acct[p]}
    /\ IF acct[p] \in a2s THEN Goto(p, "lo_sess") ELSE Loop(p, todo[p])
    /\ UNCHANGED <<sessions, a2b, browsers, list, client>>

ClearSession(p) ==
    /\ pc[p] = "lo_sess"
    /\ sessions' = sessions \ {acct[p]}
    /\ Loop(p, todo[p])
    /\ UNCHANGED <<a2s, a2b, browsers, list, client>>

(***************************************************************************)
(* remove_account.                                                         *)
(***************************************************************************)
Removed(p) == IF op[p] = "list" THEN Loop(p, todo[p]) ELSE End(p)

RemoveToken(p) ==
    /\ pc[p] = "ra_a2s"
    /\ a2s' = a2s \ {acct[p]}
    /\ IF acct[p] \in a2s THEN Goto(p, "ra_sess") ELSE Removed(p)
    /\ revoked' = IF op[p] = "remove" THEN revoked \cup {acct[p]} ELSE revoked
    /\ swept' = IF op[p] = "list" /\ acct[p] \notin jar[p] THEN swept \cup {acct[p]} ELSE swept
    /\ UNCHANGED <<sessions, a2b, browsers, list, status, home, expired>>

RemoveSession(p) ==
    /\ pc[p] = "ra_sess"
    /\ sessions' = sessions \ {acct[p]}
    /\ Goto(p, "ra_a2b")
    /\ UNCHANGED <<a2s, a2b, browsers, list, client>>

RemoveBrowserOf(p) ==
    /\ pc[p] = "ra_a2b"
    /\ a2b' = [a2b EXCEPT ![acct[p]] = None]
    /\ IF a2b[acct[p]] # None THEN Goto(p, "ra_list") ELSE Removed(p)
    /\ UNCHANGED <<sessions, a2s, browsers, list, client>>

\* The browser keeps its entry, even if the list is now empty.
RemoveFromList(p) ==
    /\ pc[p] = "ra_list"
    /\ list' = [list EXCEPT ![home[acct[p]]] = @ \ {acct[p]}]
    /\ Removed(p)
    /\ UNCHANGED <<sessions, a2s, a2b, browsers, client>>

(***************************************************************************)
(* Specification.                                                          *)
(***************************************************************************)
\* The sliding window of an answered login runs out; a login takes no time
\* against the timeout of hours.
Expire(a) ==
    /\ status[a] = "answered" /\ a \in sessions \ expired
    /\ expired' = expired \cup {a}
    /\ UNCHANGED <<maps, procs, status, home, revoked, swept>>

Init ==
    /\ sessions = {} /\ a2s = {} /\ a2b = [a \in Accounts |-> None]
    /\ browsers = {} /\ list = [b \in Browsers |-> {}]
    /\ status = [a \in Accounts |-> "new"]
    /\ home = [a \in Accounts |-> None]
    /\ expired = {} /\ revoked = {} /\ swept = {}
    /\ op = [p \in Tasks |-> "none"] /\ pc = [p \in Tasks |-> "idle"]
    /\ acct = [p \in Tasks |-> None] /\ todo = [p \in Tasks |-> {}]
    /\ scan = [p \in Tasks |-> {}] /\ jar = [p \in Tasks |-> {}]

Add(p) ==
    InsertSession(p) \/ InsertToken(p) \/ InsertBrowser(p) \/ Push(p)

Look(p) ==
    \/ CloneList(p) \/ FilterLogin(p) \/ FilterRemove(p) \/ FilterList(p)
    \/ CheckToken(p) \/ GetMissing(p) \/ GetExpired(p) \/ GetServed(p)

Evict(p) ==
    \/ DropSession(p) \/ EvictToken(p) \/ EvictBrowser(p) \/ Evicted(p)
    \/ (\E b \in Browsers : Retain(p, b))

Take(p) ==
    \/ (\E a \in Accounts : NextAccount(p, a))
    \/ TakeBrowser(p) \/ ClearBrowser(p) \/ ClearToken(p) \/ ClearSession(p)
    \/ RemoveToken(p) \/ RemoveSession(p) \/ RemoveBrowserOf(p) \/ RemoveFromList(p)

Step(p) == Add(p) \/ Look(p) \/ Evict(p) \/ Take(p)

Arrive(p, a) ==
    \/ \E b \in Browsers : Login(p, a, b) \/ PasskeyLogin(p, a, b) \/ FirstLogin(p, a, b)
    \/ \E o \in {"request", "logout"} : Request(p, a, o)
    \/ Remove(p, a) \/ ListAccounts(p, a)

Next ==
    \/ \E p \in Procs, a \in Accounts : Arrive(p, a)
    \/ \E p \in Tasks : Step(p)
    \/ Purge
    \/ \E a \in Accounts : Expire(a)

Spec == Init /\ [][Next]_vars

\* The functions of the store do not block, and the purge task runs on an
\* interval for as long as the process does.
FairSpec == Spec /\ WF_vars(Purge) /\ \A p \in Tasks : WF_vars(Step(p))

(***************************************************************************)
(* Properties.                                                             *)
(***************************************************************************)
AtRest == \A p \in Tasks : pc[p] = "idle"

\* check_consistency finds nothing whenever no operation is under way: four
\* maps, changed one after the other by every operation in its own order, agree
\* again once the last of any overlapping operations has returned.
ConsistentAtRest ==
    AtRest =>
        /\ sessions = a2s
        /\ \A b \in Browsers : list[b] \subseteq a2s
        /\ \A a \in Accounts : a2b[a] # None => a \in a2s /\ a2b[a] \in browsers

Touched == expired \cup revoked \cup swept

Usable(a) == a \in sessions \cap a2s \cap list[home[a]] /\ home[a] \in browsers

\* A login that was answered can be used until it expires or somebody takes it
\* out: the evictions and removals of other accounts, which also delete empty
\* browsers, never cost it a map entry.
LoginHolds == \A a \in Jar \ Touched : Usable(a)

\* The processes that still have to do something about an account on its way out.
At(p, a, ls) == acct[p] = a /\ pc[p] \in ls
Holds(p, a)  == op[p] \in {"logout", "purge"} /\ a \in todo[p]
Leaving(a)   == \E p \in Tasks : At(p, a, Evicting \cup Removing \cup Clearing) \/ Holds(p, a)

\* Once whoever works on it is through, an account that was logged out or
\* removed is in none of the maps: no session with its password is left behind,
\* whichever of two overlapping removals found which entry.
RevokedIsForgotten ==
    \A a \in revoked :
        ~Leaving(a) => a \notin sessions \cup a2s \cup list[home[a]] /\ a2b[a] = None

\* The purge task forgets an expired session and everything that points to it.
ExpiredIsForgotten ==
    \A a \in Accounts :
        a \in expired ~>
            /\ a \notin sessions \cup a2s /\ a2b[a] = None
            /\ \A b \in Browsers : a \notin list[b]

(***************************************************************************)
(* The inductive invariant: for every entry that does not fit, the process *)
(* that is going to remove it.                                             *)
(***************************************************************************)
Statuses == {"new", "opening", "answered", "refused"}

TypeOK ==
    /\ sessions \subseteq Accounts /\ a2s \subseteq Accounts
    /\ a2b \in [Accounts -> Browsers \cup {None}]
    /\ browsers \subseteq Browsers /\ list \in [Browsers -> SUBSET Accounts]
    /\ status \in [Accounts -> Statuses]
    /\ home \in [Accounts -> Browsers \cup {None}]
    /\ expired \subseteq Jar /\ revoked \subseteq Jar /\ swept \subseteq Jar
    /\ op \in [Tasks -> Ops] /\ pc \in [Tasks -> PCs]
    /\ acct \in [Tasks -> Accounts \cup {None}]
    /\ todo \in [Tasks -> SUBSET Accounts] /\ scan \in [Tasks -> SUBSET Browsers]
    /\ jar \in [Tasks -> SUBSET Accounts]

\* Every process is at a place of its operation ...
LabelsOK(p) ==
    /\ op[p] = "none"    => pc[p] = "idle"
    /\ op[p] = "login"   => pc[p] \in {"filter"} \cup Adding
    /\ op[p] = "request" => pc[p] \in Guarding \cup Evicting
    /\ op[p] = "logout"  => pc[p] \in {"take", "next"} \cup Guarding \cup Evicting \cup Clearing
    /\ op[p] = "remove"  => pc[p] \in {"filter"} \cup Removing
    /\ op[p] = "list"    => pc[p] \in {"clone", "filter", "next", "get"} \cup Evicting \cup Removing
    /\ op[p] = "purge"   => pc[p] \in {"next", "ev_a2s", "ev_a2b", "retain"}

\* ... on an account that is open, or on the one it is opening and nobody else
\* knows of.
WellPlaced(p) ==
    /\ LabelsOK(p)
    /\ todo[p] \subseteq Jar
    /\ op[p] = "login" =>
          /\ acct[p] \in Accounts /\ status[acct[p]] = "opening"
          /\ \A q \in Tasks : op[q] = "login" /\ acct[q] = acct[p] => q = p
    /\ op[p] # "login" => acct[p] \in Jar \cup {None}
    /\ pc[p] \notin {"idle", "next"} => acct[p] # None
    /\ op[p] \in {"none", "logout"} /\ pc[p] \notin {"next"} \cup Clearing => todo[p] = {}

ProcShape == \A p \in Tasks : WellPlaced(p)

AddedBy(a, ls) == \E p \in Tasks : op[p] = "login" /\ At(p, a, ls)

\* Before its login is answered an account is in the maps its login has reached.
OpeningShape ==
    \A a \in Accounts \ Jar :
        /\ a \in sessions <=> AddedBy(a, {"a2s", "a2b", "push"})
        /\ a \in a2s <=> AddedBy(a, {"a2b", "push"})
        /\ a2b[a] # None <=> AddedBy(a, {"push"})

HomeShape ==
    /\ \A a \in Accounts : status[a] # "new" => home[a] \in Browsers
    /\ \A a \in Accounts : a2b[a] \in {None, home[a]}
    /\ \A b \in Browsers : \A a \in list[b] : a \in Jar /\ home[a] = b /\ b \in browsers

Busy(a, ls) == \E p \in Tasks : At(p, a, ls)
Taken(a)    == \E p \in Tasks : op[p] = "logout" /\ (a \in todo[p] \/ At(p, a, {"lo_a2b"}))
Purged(a)   == \E p \in Tasks : op[p] = "purge" /\ a \in todo[p]
Scanned(a)  == \E p \in Tasks : At(p, a, {"retain"}) /\ home[a] \in scan[p]

\* What points to a missing entry, or is pointed to by none, is about to go.
SessionNamed(a) == a \in sessions => a \in a2s \/ Busy(a, {"ra_sess", "lo_sess"})
NameValid(a)    == a \in a2s => a \in sessions \/ Busy(a, {"ev_a2s"}) \/ Purged(a)
ListedNamed(a)  == a \in list[home[a]] /\ a \notin a2s =>
                      a2b[a] = None \/ Busy(a, {"ra_sess", "ra_a2b", "ev_a2b"})
ListedBound(a)  == a \in list[home[a]] /\ a2b[a] = None => Busy(a, {"ra_list"}) \/ Scanned(a)
BoundNamed(a)   == a2b[a] # None => a \in a2s \/ Busy(a, {"ra_sess", "ra_a2b", "ev_a2b"})
BoundListed(a)  == a2b[a] # None => a \in list[home[a]] \/ Taken(a)
RevokedTaken(a) == a \in revoked \cap a2s => Taken(a) \/ Busy(a, {"lo_a2s"})

Accounted(a) ==
    /\ SessionNamed(a) /\ NameValid(a)
    /\ ListedNamed(a) /\ ListedBound(a)
    /\ BoundNamed(a) /\ BoundListed(a)
    /\ RevokedTaken(a)

Responsible == \A a \in Jar : Accounted(a)

\* What a process has removed stays removed.
KeepsOut(p) ==
    /\ pc[p] \in {"ra_sess", "ra_a2b", "ra_list", "lo_sess", "ev_a2b", "retain"} => acct[p] \notin a2s
    /\ pc[p] \in {"ev_a2s", "ev_a2b", "retain"} => acct[p] \notin sessions
    /\ op[p] = "purge" => todo[p] \cap sessions = {}
    /\ pc[p] \in {"ra_list", "retain", "lo_a2s", "lo_sess"} => a2b[acct[p]] = None
    /\ pc[p] \in Clearing => acct[p] \notin list[home[acct[p]]]
    /\ op[p] = "logout" => \A a \in todo[p] : a \notin list[home[a]]

StaysOut == \A p \in Tasks : KeepsOut(p)

\* Nobody takes out an account without a reason.
HasReason(p) ==
    /\ pc[p] \in Evicting \cup Clearing \cup (Removing \ {"ra_a2s"}) => acct[p] \in Touched
    /\ pc[p] = "ra_a2s" /\ op[p] = "list" /\ acct[p] \in jar[p] => acct[p] \in Touched
    /\ op[p] \in {"logout", "purge"} => todo[p] \subseteq Touched

WithReason == \A p \in Tasks : HasReason(p)

SessionInv ==
    /\ TypeOK /\ ProcShape /\ OpeningShape /\ HomeShape
    /\ Responsible /\ StaysOut /\ WithReason /\ LoginHolds
=============================================================================
