------------------------------- MODULE Login -------------------------------
(***************************************************************************)
(* Signing in to one account, and the settings that decide how.            *)
(*                                                                         *)
(*   backend/src/routes/auth.rs      login: password, or password and code *)
(*   backend/src/routes/mfa.rs       TOTP, passkeys, passkey-only mode     *)
(*   backend/src/db/mfa.rs           the rows (totp, used, lockout, keys,  *)
(*                                   only)                                 *)
(*   backend/src/mfa/totp.rs         verify_and_record, is_locked_out      *)
(*   backend/src/mfa/passkey.rs      the ceremonies (pending)              *)
(*                                                                         *)
(* A request is a task.  with_user_db runs its statements on a connection  *)
(* of its own, in autocommit: one statement is one step, and those of two  *)
(* requests interleave.  A code is the secret and the time step it was     *)
(* made from; an encrypted password is the password.  What a new session   *)
(* goes through afterwards is SessionStore's.                              *)
(***************************************************************************)
EXTENDS Naturals, FiniteSets

CONSTANTS
    Requests,     \* tasks
    Secrets,      \* TOTP secrets
    Creds,        \* passkeys an authenticator may hold
    Nonces,       \* ceremony nonces: random, never drawn twice
    None,
    MaxFailures,  \* failures that lock: 5
    LockTime,     \* time steps a lock lasts: 900 s are 30 steps
    MaxTime,      \* bound: time steps
    MaxMail,      \* bound: passwords the mail server gets to see
    Budgets       \* bound: requests of each kind, changes of the password and
                  \* database errors in one behaviour

Kinds == {"login", "confirm", "remove", "register", "signin", "drop", "mode"}

VARIABLES
    now,      \* time, in TOTP steps
    mail,     \* the password the mail server accepts
    home,     \* the directory of the user exists
    totp,     \* mfa_totp: the secret, or None
    used,     \* mfa_totp_used_steps
    lockout,  \* mfa_lockout
    keys,     \* mfa_passkeys: Creds -> the password kept, 0 without a row
    only,     \* mfa_settings.passkey_only
    pending,  \* PasskeyService.pending_reg, pending_auth: Nonces -> ceremony
    pc,       \* Requests -> where it is
    loc,      \* Requests -> its local variables
    seen,     \* history: Requests -> what held at some time since it began
    left      \* history: what is left of the budget

db == <<totp, used, lockout, keys, only>>
world == <<now, mail, home>>
vars == <<world, db, pending, pc, loc, seen, left>>

NoCode == [of |-> None, step |-> 0]
Codes == [of : Secrets, step : 0..(MaxTime + 1)]
Locals == [kind : Kinds \cup {"none"}, pw : 0..MaxMail, code : Codes \cup {NoCode},
           secret : Secrets \cup {None}, cred : Creds \cup {None},
           error : BOOLEAN, accepted : BOOLEAN, on : BOOLEAN]
NoLocals == [kind |-> "none", pw |-> 0, code |-> NoCode, secret |-> None,
             cred |-> None, error |-> FALSE, accepted |-> FALSE, on |-> FALSE]
NoCeremony == [kind |-> "none", creds |-> {}]
Nothing == [mode |-> FALSE, plain |-> FALSE, open |-> FALSE, key |-> FALSE]

Pcs == {"idle", "settings", "enrolled", "locked", "secret", "imap", "step", "use",
        "reset", "count", "lock", "session", "upsert", "erase", "forget", "unlock",
        "insert", "fetch", "mode", "last", "delete", "any", "set"}

Init ==
    /\ now = 1 /\ mail = 1 /\ home \in BOOLEAN
    /\ totp \in IF home THEN Secrets \cup {None} ELSE {None}
    /\ used = {} /\ lockout = [count |-> 0, until |-> 0]
    /\ keys \in {k \in [Creds -> {0, 1}] :
                    (\A c \in Creds : k[c] = 0) \/ (home /\ \A c \in Creds : k[c] = 1)}
    /\ only \in IF \E c \in Creds : keys[c] # 0 THEN BOOLEAN ELSE {FALSE}
    /\ pending = [n \in Nonces |-> NoCeremony]
    /\ pc = [r \in Requests |-> "idle"] /\ loc = [r \in Requests |-> NoLocals]
    /\ seen = [r \in Requests |-> Nothing]
    /\ left \in Budgets

Spend(k) == left[k] > 0 /\ left' = [left EXCEPT ![k] = @ - 1]
Goto(r, l) == pc' = [pc EXCEPT ![r] = l]
Begin(r, kind, l, with) ==
    /\ pc[r] = "idle" /\ Spend(kind) /\ Goto(r, l)
    /\ loc' = [loc EXCEPT ![r] = with]
Answer(r) ==
    /\ pc' = [pc EXCEPT ![r] = "idle"]
    /\ loc' = [loc EXCEPT ![r] = NoLocals]

-----------------------------------------------------------------------------
(* The statements of db/mfa.rs                                             *)

is_totp_enrolled == totp # None
upsert_totp_secret(s) == totp' = s /\ UNCHANGED <<used, lockout, keys, only>>
is_step_used(s) == s \in used
record_used_step(s) == used' = used \cup {s} /\ UNCHANGED <<totp, lockout, keys, only>>
check_lockout == lockout.until > now
add_failure ==
    lockout' = [lockout EXCEPT !.count = @ + 1] /\ UNCHANGED <<totp, used, keys, only>>
set_lock ==
    /\ lockout' = [lockout EXCEPT !.until = now + LockTime]
    /\ UNCHANGED <<totp, used, keys, only>>
reset_lockout ==
    lockout' = [count |-> 0, until |-> 0] /\ UNCHANGED <<totp, used, keys, only>>
get_passkey(c) == keys[c]
list_passkeys == {c \in Creds : keys[c] # 0}
has_passkeys == list_passkeys # {}
put_passkey(c, pw) == keys' = [keys EXCEPT ![c] = pw] /\ UNCHANGED <<totp, used, lockout, only>>
\* A second row with the same credential violates the primary key.
insert_passkey(c, pw) == IF get_passkey(c) = 0 THEN put_passkey(c, pw) ELSE UNCHANGED db
delete_passkey(c) == put_passkey(c, 0)
set_passkey_only(on) == only' = on /\ UNCHANGED <<totp, used, lockout, keys>>

-----------------------------------------------------------------------------
(* What the requests share                                                 *)

\* What imap_auth finds out about a password.
Validate(pw) == {"down", IF pw = mail THEN "accepted" ELSE "refused"}
\* The codes an authenticator shows about now.
Shown == [of : Secrets, step : {s \in 0..(MaxTime + 1) : s + 1 >= now /\ s <= now + 1}]

-----------------------------------------------------------------------------
(* POST /api/auth/login                                                    *)

Login(r) ==
    /\ \E pw \in 1..mail, code \in Shown \cup {NoCode} :
          Begin(r, "login", IF home THEN "settings" ELSE "imap",
                [NoLocals EXCEPT !.kind = "login", !.pw = pw, !.code = code])
    /\ UNCHANGED <<world, db, pending>>

GateSettings(r) ==
    /\ pc[r] = "settings"
    /\ IF only THEN Answer(r) ELSE Goto(r, "enrolled") /\ UNCHANGED loc
    /\ UNCHANGED <<world, db, pending, left>>

\* (a mutant: the code may be left out)
GateEnrolled_code_optional(r) ==
    /\ pc[r] = "enrolled"
    /\ Goto(r, IF totp = None \/ loc[r].code = NoCode THEN "imap" ELSE "locked")
    /\ UNCHANGED <<world, db, pending, loc, left>>

GateEnrolled(r) ==
    /\ pc[r] = "enrolled"
    /\ CASE ~is_totp_enrolled -> Goto(r, "imap") /\ UNCHANGED loc
         [] is_totp_enrolled /\ loc[r].code = NoCode -> Answer(r)
         [] OTHER -> Goto(r, "locked") /\ UNCHANGED loc
    /\ UNCHANGED <<world, db, pending, left>>

\* Without a secret: a login answers 500, a removal 400.
LoadSecret(r) ==
    /\ pc[r] = "secret"
    /\ IF totp = None THEN Answer(r)
       ELSE /\ loc' = [loc EXCEPT ![r].secret = totp]
            /\ Goto(r, IF loc[r].kind = "login" THEN "imap" ELSE "locked")
    /\ UNCHANGED <<world, db, pending, left>>

\* The lock is looked at before the secret by a login, after it by a removal.
LockCheck(r) ==
    /\ pc[r] = "locked"
    /\ IF check_lockout THEN Answer(r)
       ELSE /\ Goto(r, IF loc[r].kind = "login" THEN "secret" ELSE "step")
            /\ UNCHANGED loc
    /\ UNCHANGED <<world, db, pending, left>>

\* An error of the database while the gate looks: a failed read counts as `no',
\* a failed closure as an account without a second factor.
GateError(r) ==
    /\ Spend("error")
    /\ \/ pc[r] = "settings" /\ Goto(r, "enrolled")
       \/ pc[r] \in {"settings", "enrolled"} /\ Goto(r, "imap")
       \/ pc[r] = "locked" /\ Goto(r, IF loc[r].kind = "login" THEN "secret" ELSE "step")
       \/ pc[r] = "mode" /\ Goto(r, "delete")
    /\ loc' = [loc EXCEPT ![r].error = TRUE]
    /\ UNCHANGED <<world, db, pending>>

\* An error of any other statement ends the request.
StatementFails(r) ==
    /\ pc[r] \notin {"idle", "settings", "enrolled", "locked", "mode", "imap", "session"}
    /\ Spend("error")
    /\ Answer(r)
    /\ UNCHANGED <<world, db, pending>>

\* The mail server has answered.  A refusal, or no answer, counts as a failure
\* when a code came with the password.
ImapAnswer(r) ==
    /\ pc[r] = "imap"
    /\ \E answer \in Validate(loc[r].pw) :
          CASE answer = "accepted" /\ loc[r].secret # None ->
                  Goto(r, "step") /\ UNCHANGED loc
            [] answer = "accepted" /\ loc[r].secret = None ->
                  Goto(r, "session") /\ UNCHANGED loc
            [] answer # "accepted" /\ loc[r].secret # None ->
                  Goto(r, "count") /\ UNCHANGED loc
            [] OTHER -> Answer(r)
    /\ UNCHANGED <<world, db, pending, left>>

\* A server named in the request is not allowed, or none is configured.
NoServer(r) ==
    /\ pc[r] = "imap" /\ loc[r].kind = "login"
    /\ Answer(r)
    /\ UNCHANGED <<world, db, pending, left>>

\* create_login_session
Session(r) ==
    /\ pc[r] = "session"
    /\ home' = TRUE
    /\ Answer(r)
    /\ UNCHANGED <<now, mail, db, pending, left>>

-----------------------------------------------------------------------------
(* verify_and_record, shared by login, confirm and remove                  *)

Matches(code, secret) ==
    code.of = secret /\ code.step + 1 >= now /\ code.step <= now + 1

\* Steps are pruned after ten time steps, when no code can match them.
CheckStep(r) ==
    /\ pc[r] = "step"
    /\ CASE ~Matches(loc[r].code, loc[r].secret) -> Goto(r, "count") /\ UNCHANGED loc
         [] Matches(loc[r].code, loc[r].secret) /\ is_step_used(loc[r].code.step) -> Answer(r)
         [] OTHER -> Goto(r, "use") /\ UNCHANGED loc
    /\ UNCHANGED <<world, db, pending, left>>

RecordStep(r) ==
    /\ pc[r] = "use"
    /\ record_used_step(loc[r].code.step)
    /\ loc' = [loc EXCEPT ![r].accepted = TRUE]
    /\ Goto(r, "reset")
    /\ UNCHANGED <<world, pending, left>>

ResetLockout(r) ==
    /\ pc[r] = "reset"
    /\ reset_lockout
    /\ Goto(r, CASE loc[r].kind = "login" -> "session"
                 [] loc[r].kind = "confirm" -> "upsert"
                 [] OTHER -> "erase")
    /\ UNCHANGED <<world, pending, loc, left>>

\* increment_lockout: the count, and in a second statement the lock.
CountFailure(r) ==
    /\ pc[r] = "count"
    /\ add_failure
    /\ IF lockout.count + 1 >= MaxFailures THEN Goto(r, "lock") /\ UNCHANGED loc
       ELSE Answer(r)
    /\ UNCHANGED <<world, pending, left>>

SetLock(r) ==
    /\ pc[r] = "lock"
    /\ set_lock
    /\ Answer(r)
    /\ UNCHANGED <<world, pending, left>>

-----------------------------------------------------------------------------
(* TOTP: confirm (enrol, or replace) and remove                            *)

TotpConfirm(r) ==
    /\ home
    /\ \E code \in Shown, secret \in Secrets :
          Begin(r, "confirm", "locked", [NoLocals EXCEPT
                   !.kind = "confirm", !.code = code, !.secret = secret])
    /\ UNCHANGED <<world, db, pending>>

UpsertSecret(r) ==
    /\ pc[r] = "upsert"
    /\ upsert_totp_secret(loc[r].secret)
    /\ Answer(r)
    /\ UNCHANGED <<world, pending, left>>

TotpDelete(r) ==
    /\ home
    /\ \E code \in Shown :
          Begin(r, "remove", "secret",
                [NoLocals EXCEPT !.kind = "remove", !.code = code])
    /\ UNCHANGED <<world, db, pending>>

\* delete_totp: three statements
EraseSecret(r) ==
    /\ pc[r] = "erase" /\ totp' = None /\ Goto(r, "forget")
    /\ UNCHANGED <<world, used, lockout, keys, only, pending, loc, left>>
ForgetSteps(r) ==
    /\ pc[r] = "forget" /\ used' = {} /\ Goto(r, "unlock")
    /\ UNCHANGED <<world, totp, lockout, keys, only, pending, loc, left>>
Unlock(r) ==
    /\ pc[r] = "unlock" /\ reset_lockout /\ Answer(r)
    /\ UNCHANGED <<world, pending, left>>

-----------------------------------------------------------------------------
(* Passkeys: the ceremonies, and the table                                 *)

Fresh == {n \in Nonces : pending[n] = NoCeremony}
Finish(n) == pending' = [pending EXCEPT ![n] = [kind |-> "spent", creds |-> {}]]

\* The keys that exist are excluded by the authenticator.
RegisterBegin ==
    /\ home /\ Spend("register")
    /\ \E n \in Fresh : pending' = [pending EXCEPT ![n] =
                           [kind |-> "reg", creds |-> Creds \ list_passkeys]]
    /\ UNCHANGED <<world, db, pc, loc>>

\* The session that asks may have begun before the password last changed.
RegisterComplete(r) ==
    /\ \E n \in Nonces, pw \in 1..mail : \E c \in pending[n].creds :
          /\ pending[n].kind = "reg"
          /\ Finish(n)
          /\ pc[r] = "idle" /\ Goto(r, "insert")
          /\ loc' = [loc EXCEPT ![r] = [NoLocals EXCEPT
                        !.kind = "register", !.cred = c, !.pw = pw]]
    /\ UNCHANGED <<world, db, left>>

\* A key enrolled meanwhile violates the primary key: 409.
InsertPasskey(r) ==
    /\ pc[r] = "insert"
    /\ insert_passkey(loc[r].cred, loc[r].pw)
    /\ Answer(r)
    /\ UNCHANGED <<world, pending, left>>

\* Without keys, or without the user, the challenge is a fake one.
SigninBegin ==
    /\ Spend("signin")
    /\ \E n \in Fresh : pending' = [pending EXCEPT ![n] =
                           IF home /\ has_passkeys
                           THEN [kind |-> "auth", creds |-> list_passkeys]
                           ELSE [kind |-> "fake", creds |-> {}]]
    /\ UNCHANGED <<world, db, pc, loc>>

SigninComplete(r) ==
    /\ pc[r] = "idle"
    /\ \E n \in Nonces :
          /\ Finish(n)
          /\ \/ pending[n].kind = "fake" /\ UNCHANGED <<pc, loc>>
             \/ /\ pending[n].kind = "auth"
                /\ \E c \in pending[n].creds :
                      /\ Goto(r, "fetch")
                      /\ loc' = [loc EXCEPT ![r] =
                                   [NoLocals EXCEPT !.kind = "signin", !.cred = c]]
    /\ UNCHANGED <<world, db, left>>

\* (a mutant: the password comes with the challenge, not from the row)
FetchPasskey_from_challenge(r) ==
    /\ pc[r] = "fetch"
    /\ loc' = [loc EXCEPT ![r].pw = 1] /\ Goto(r, "imap")
    /\ UNCHANGED <<world, db, pending, left>>

\* The row may have been deleted since the challenge: 401.
FetchPasskey(r) ==
    /\ pc[r] = "fetch"
    /\ IF get_passkey(loc[r].cred) = 0 THEN Answer(r)
       ELSE /\ loc' = [loc EXCEPT ![r].pw = get_passkey(loc[r].cred)]
            /\ Goto(r, "imap")
    /\ UNCHANGED <<world, db, pending, left>>

PasskeyDelete(r) ==
    /\ home
    /\ \E c \in Creds : Begin(r, "drop", "mode",
                              [NoLocals EXCEPT !.kind = "drop", !.cred = c])
    /\ UNCHANGED <<world, db, pending>>

ReadMode(r) ==
    /\ pc[r] = "mode" /\ Goto(r, IF only THEN "last" ELSE "delete")
    /\ UNCHANGED <<world, db, pending, loc, left>>

\* Not the last one in passkey-only mode
CountKeys(r) ==
    /\ pc[r] = "last"
    /\ IF Cardinality(list_passkeys) <= 1 THEN Answer(r)
       ELSE Goto(r, "delete") /\ UNCHANGED loc
    /\ UNCHANGED <<world, db, pending, left>>

DeleteKey(r) ==
    /\ pc[r] = "delete"
    /\ delete_passkey(loc[r].cred)
    /\ Answer(r)
    /\ UNCHANGED <<world, pending, left>>

PasskeyOnly(r) ==
    /\ home
    /\ \E on \in BOOLEAN : Begin(r, "mode", IF on THEN "any" ELSE "set",
                                 [NoLocals EXCEPT !.kind = "mode", !.on = on])
    /\ UNCHANGED <<world, db, pending>>

\* has_passkeys
AnyKey(r) ==
    /\ pc[r] = "any"
    /\ IF ~has_passkeys THEN Answer(r) ELSE Goto(r, "set") /\ UNCHANGED loc
    /\ UNCHANGED <<world, db, pending, left>>

SetMode(r) ==
    /\ pc[r] = "set" /\ set_passkey_only(loc[r].on) /\ Answer(r)
    /\ UNCHANGED <<world, pending, left>>

-----------------------------------------------------------------------------

Tick ==
    /\ now < MaxTime /\ now' = now + 1
    /\ UNCHANGED <<mail, home, db, pending, pc, loc, left>>

ChangePassword ==
    /\ mail < MaxMail /\ Spend("mail") /\ mail' = mail + 1
    /\ UNCHANGED <<now, home, db, pending, pc, loc>>

Step ==
    \/ Tick \/ ChangePassword \/ RegisterBegin \/ SigninBegin
    \/ \E r \in Requests :
          \/ Login(r) \/ GateSettings(r) \/ GateEnrolled(r) \/ LoadSecret(r)
          \/ LockCheck(r) \/ GateError(r) \/ StatementFails(r)
          \/ ImapAnswer(r) \/ NoServer(r) \/ Session(r)
          \/ CheckStep(r) \/ RecordStep(r) \/ ResetLockout(r)
          \/ CountFailure(r) \/ SetLock(r)
          \/ TotpConfirm(r) \/ UpsertSecret(r) \/ TotpDelete(r)
          \/ EraseSecret(r) \/ ForgetSteps(r) \/ Unlock(r)
          \/ RegisterComplete(r) \/ InsertPasskey(r)
          \/ SigninComplete(r) \/ FetchPasskey(r)
          \/ PasskeyDelete(r) \/ ReadMode(r) \/ CountKeys(r) \/ DeleteKey(r)
          \/ PasskeyOnly(r) \/ AnyKey(r) \/ SetMode(r)

\* What held at some time since a request began.
Watch ==
    seen' = [r \in Requests |->
        IF pc'[r] = "idle" THEN Nothing
        ELSE [mode |-> seen[r].mode \/ ~only',
              plain |-> seen[r].plain \/ totp' = None,
              open |-> seen[r].open \/ ~(lockout'.until > now'),
              key |-> seen[r].key \/ (loc'[r].cred # None /\ keys'[loc'[r].cred] # 0)]]

Next == Step /\ Watch

Spec == Init /\ [][Next]_vars


-----------------------------------------------------------------------------

TypeOK ==
    /\ now \in 0..MaxTime /\ mail \in 1..MaxMail /\ home \in BOOLEAN
    /\ totp \in Secrets \cup {None}
    /\ used \subseteq 0..(MaxTime + 1)
    /\ lockout \in [count : Nat, until : Nat]
    /\ keys \in [Creds -> 0..MaxMail] /\ only \in BOOLEAN
    /\ pending \in [Nonces -> [kind : {"none", "reg", "auth", "fake", "spent"},
                               creds : SUBSET Creds]]
    /\ pc \in [Requests -> Pcs] /\ loc \in [Requests -> Locals]
    /\ seen \in [Requests -> [mode : BOOLEAN, plain : BOOLEAN,
                              open : BOOLEAN, key : BOOLEAN]]
    /\ home \/ (totp = None /\ list_passkeys = {} /\ ~only)

\* A password opens a session only if, at some time while the request ran, it
\* was enough: passkey-only mode was off, and either no TOTP secret was enrolled
\* or the account was not locked and a code of the enrolled secret was taken.
\* The reads of the gate, the mail server's answer and the verification are far
\* apart, and the settings change in between.  (A login whose gate met a
\* database error is let through by the code, and excepted.)
PasswordLoginAllowed ==
    \A r \in Requests :
        pc[r] = "session" /\ loc[r].kind = "login" /\ ~loc[r].error =>
            /\ seen[r].mode
            /\ seen[r].plain \/ (seen[r].open /\ loc[r].accepted)

\* A passkey opens a session only if its row was there while the completing
\* request ran: a key deleted after its challenge was handed out is refused.
DeletedKeyRefused ==
    \A r \in Requests :
        pc[r] = "session" /\ loc[r].kind = "signin" => seen[r].key

\* In passkey-only mode a passkey is left, once no request is under way:
\* "Refuse to delete the last passkey while passkey-only mode is enabled -
\* that would fully lock the account out" (routes/mfa.rs:800).
PasskeyLeft ==
    (\A r \in Requests : pc[r] = "idle") /\ only => list_passkeys # {}

=============================================================================
