----------------------------- MODULE LoginProofs -----------------------------
(***************************************************************************)
(* Why a session is never opened by a password alone, or by a deleted key: *)
(* what a request has found out when it is somewhere in the gate, it held  *)
(* at some time since the request began (Gate, Key), whatever the others   *)
(* change between two of its statements.                                   *)
(***************************************************************************)
EXTENDS Login, TLAPS

Shape ==
    /\ pc = [r \in Requests |-> pc[r]]
    /\ loc = [r \in Requests |-> loc[r]]
    /\ \A r \in Requests : DOMAIN loc[r] = DOMAIN NoLocals
    /\ pending = [n \in Nonces |-> pending[n]]
    /\ \A n \in Nonces : pending[n].creds \subseteq Creds

\* Only the requests of a user who has a directory write a secret or the mode.
Writes(l, v) == l \in {"upsert", "any", "set"} \/ v.kind = "confirm"
HomeFirst ==
    /\ home \/ (totp = None /\ ~only)
    /\ \A r \in Requests : Writes(pc[r], loc[r]) => home

\* What a login that met no database error has seen, and where.
Gate(r) ==
    loc[r].kind = "login" /\ ~loc[r].error =>
        /\ pc[r] \in {"settings", "enrolled"} => loc[r].secret = None
        /\ pc[r] \notin {"idle", "settings"} => seen[r].mode
        /\ pc[r] \in {"secret", "step", "use", "reset"} => seen[r].open
        /\ pc[r] = "imap" => IF loc[r].secret = None THEN seen[r].plain ELSE seen[r].open
        /\ pc[r] = "reset" => loc[r].accepted
        /\ pc[r] = "session" => seen[r].plain \/ (seen[r].open /\ loc[r].accepted)

\* A sign-in with a passkey has found its row.
Key(r) ==
    /\ pc[r] = "fetch" => loc[r].kind = "signin" /\ loc[r].cred # None
    /\ loc[r].kind = "signin" /\ pc[r] \notin {"idle", "fetch"} => seen[r].key

LoginInv == Shape /\ HomeFirst /\ \A r \in Requests : Gate(r) /\ Key(r)

-----------------------------------------------------------------------------

\* What held once is remembered until the answer.
LEMMA Remembered ==
    ASSUME Watch, NEW r \in Requests, pc'[r] # "idle"
    PROVE  /\ seen[r].mode \/ ~only' => seen'[r].mode
           /\ seen[r].plain \/ totp' = None => seen'[r].plain
           /\ seen[r].open \/ ~(lockout'.until > now') => seen'[r].open
           /\ seen[r].key \/ (loc'[r].cred # None /\ keys'[loc'[r].cred] # 0) => seen'[r].key
  BY DEF Watch

\* A request that does not move keeps what it has seen.
LEMMA OthersKeep ==
    ASSUME Watch, NEW r \in Requests, pc'[r] = pc[r], loc'[r] = loc[r], Gate(r), Key(r)
    PROVE  Gate(r)' /\ Key(r)'
<1>1. CASE pc[r] = "idle"
  BY <1>1 DEF Gate, Key
<1>2. CASE pc[r] # "idle"
  BY <1>2, Remembered DEF Gate, Key
<1> QED
  BY <1>1, <1>2

\* A step of the request r: where it goes, with which locals.
Moves(r, l, v) ==
    /\ pc' = [u \in Requests |-> IF u = r THEN l ELSE pc[u]]
    /\ loc' = [u \in Requests |-> IF u = r THEN v ELSE loc[u]]

HomeKept == (home => home') /\ (home' \/ (totp' = None /\ ~only'))
PendingKept ==
    /\ pending' = [n \in Nonces |-> pending'[n]]
    /\ \A n \in Nonces : pending'[n].creds \subseteq Creds

LEMMA MoveKeeps ==
    ASSUME LoginInv, Watch, NEW r \in Requests, NEW l, NEW v, Moves(r, l, v),
           DOMAIN v = DOMAIN NoLocals, HomeKept, PendingKept,
           Writes(l, v) => home, Gate(r)', Key(r)'
    PROVE  LoginInv'
<1>1. /\ pc'[r] = l /\ loc'[r] = v
      /\ \A u \in Requests : u # r => pc'[u] = pc[u] /\ loc'[u] = loc[u]
  BY DEF Moves
<1>2. Shape'
  <2>1. pc' = [u \in Requests |-> pc'[u]] /\ loc' = [u \in Requests |-> loc'[u]]
    BY DEF Moves
  <2>2. \A u \in Requests : DOMAIN loc'[u] = DOMAIN NoLocals
    BY <1>1 DEF LoginInv, Shape
  <2> QED
    BY <2>1, <2>2 DEF PendingKept, Shape
<1>3. HomeFirst'
  BY <1>1 DEF HomeKept, LoginInv, HomeFirst, Writes
<1>4. \A u \in Requests : Gate(u)' /\ Key(u)'
  BY <1>1, OthersKeep DEF LoginInv
<1> QED
  BY <1>2, <1>3, <1>4 DEF LoginInv

LEMMA AnswerKeeps ==
    ASSUME LoginInv, Watch, NEW r \in Requests, Answer(r), HomeKept, PendingKept
    PROVE  LoginInv'
<1>1. Moves(r, "idle", NoLocals)
  BY DEF LoginInv, Shape, Answer, Moves
<1>2. pc'[r] = "idle" /\ loc'[r] = NoLocals
  BY <1>1 DEF Moves
<1>3. Gate(r)' /\ Key(r)' /\ ~Writes("idle", NoLocals)
  BY <1>2 DEF Gate, Key, NoLocals, Writes
<1> QED
  BY <1>1, <1>3, MoveKeeps

\* The next step of a request, its locals as they are.
LEMMA GotoKeeps ==
    ASSUME LoginInv, Watch, NEW r \in Requests, NEW l, Goto(r, l), loc' = loc,
           pc[r] \notin {"idle", "fetch"}, l \notin {"idle", "fetch"},
           HomeKept, PendingKept, Writes(l, loc[r]) => home, Gate(r)'
    PROVE  LoginInv'
<1>1. Moves(r, l, loc[r])
  BY DEF LoginInv, Shape, Goto, Moves
<1>2. pc'[r] = l /\ loc'[r] = loc[r]
  BY <1>1 DEF Moves
<1>3. Key(r)'
  BY <1>2, Remembered DEF LoginInv, Key
<1>4. DOMAIN loc[r] = DOMAIN NoLocals
  BY DEF LoginInv, Shape
<1> QED
  BY <1>1, <1>3, <1>4, MoveKeeps

\* ... to where nothing is asked of it.
Asked == {"settings", "enrolled", "secret", "step", "use", "reset", "imap", "session"}

LEMMA ElsewhereKeeps ==
    ASSUME LoginInv, Watch, NEW r \in Requests, NEW l, Goto(r, l), loc' = loc,
           pc[r] \notin {"idle", "settings", "fetch"}, l \notin Asked \cup {"idle", "fetch"},
           HomeKept, PendingKept, Writes(l, loc[r]) => home
    PROVE  LoginInv'
<1>1. pc'[r] = l
  BY DEF LoginInv, Shape, Goto
<1>2. Gate(r)'
  BY <1>1, Remembered DEF LoginInv, Gate, Asked
<1> QED
  BY <1>2, GotoKeeps

\* A request begins.
LEMMA BeginKeeps ==
    ASSUME LoginInv, Watch, NEW r \in Requests, NEW kind, NEW l, NEW v, Begin(r, kind, l, v),
           DOMAIN v = DOMAIN NoLocals, HomeKept, PendingKept, Writes(l, v) => home,
           l # "fetch", v.kind # "signin", v.kind = "login" => Gate(r)'
    PROVE  LoginInv'
<1>1. Moves(r, l, v)
  BY DEF LoginInv, Shape, Begin, Goto, Moves
<1>2. pc'[r] = l /\ loc'[r] = v
  BY <1>1 DEF Moves
<1>3. Gate(r)' /\ Key(r)'
  BY <1>2 DEF Gate, Key
<1> QED
  BY <1>1, <1>3, MoveKeeps

LEMMA QuietHome ==
    ASSUME LoginInv, UNCHANGED <<home, totp, only>> PROVE HomeKept
  BY DEF LoginInv, HomeFirst, HomeKept

LEMMA QuietPending ==
    ASSUME LoginInv, UNCHANGED pending PROVE PendingKept
  BY DEF LoginInv, Shape, PendingKept

-----------------------------------------------------------------------------
(* The gate of a login                                                     *)

LEMMA GateKeeps ==
    ASSUME LoginInv, Watch, NEW r \in Requests,
           GateSettings(r) \/ GateEnrolled(r) \/ LoadSecret(r) \/ LockCheck(r) \/ GateError(r)
    PROVE  LoginInv'
<1>1. UNCHANGED <<world, db, pending>>
  BY DEF GateSettings, GateEnrolled, LoadSecret, LockCheck, GateError
<1>2. HomeKept /\ PendingKept
  BY <1>1, QuietHome, QuietPending DEF world, db
<1>3. Gate(r) /\ Key(r) /\ DOMAIN loc[r] = DOMAIN NoLocals
  BY DEF LoginInv, Shape
<1>4. ASSUME NEW l, Goto(r, l) PROVE pc'[r] = l
  BY <1>4 DEF LoginInv, Shape, Goto
<1>5. CASE GateSettings(r)
  <2>1. CASE Answer(r)
    BY <1>2, <2>1, AnswerKeeps
  <2>2. CASE ~only /\ pc[r] = "settings" /\ Goto(r, "enrolled") /\ loc' = loc
    <3>1. pc'[r] = "enrolled" /\ ~only'
      BY <1>1, <1>4, <2>2 DEF db
    <3>2. Gate(r)'
      BY <1>3, <2>2, <3>1, Remembered DEF Gate
    <3>3. ~Writes("enrolled", loc[r]) \/ home
      BY DEF LoginInv, HomeFirst, Writes
    <3> QED
      BY <1>2, <2>2, <3>2, <3>3, GotoKeeps
  <2> QED
    BY <1>5, <2>1, <2>2 DEF GateSettings
<1>6. CASE GateEnrolled(r)
  <2>1. CASE Answer(r)
    BY <1>2, <2>1, AnswerKeeps
  <2>2. CASE totp = None /\ pc[r] = "enrolled" /\ Goto(r, "imap") /\ loc' = loc
    <3>1. pc'[r] = "imap" /\ totp' = None
      BY <1>1, <1>4, <2>2 DEF db
    <3>2. Gate(r)'
      BY <1>3, <2>2, <3>1, Remembered DEF Gate
    <3> QED
      BY <1>2, <2>2, <3>2, GotoKeeps DEF LoginInv, HomeFirst, Writes
  <2>3. CASE pc[r] = "enrolled" /\ Goto(r, "locked") /\ loc' = loc
    BY <1>2, <2>3, ElsewhereKeeps DEF LoginInv, HomeFirst, Writes, Asked
  <2> QED
    BY <1>6, <2>1, <2>2, <2>3 DEF GateEnrolled, is_totp_enrolled
<1>7. CASE LoadSecret(r)
  <2> DEFINE v == [loc[r] EXCEPT !.secret = totp]
  <2>1. CASE Answer(r)
    BY <1>2, <2>1, AnswerKeeps
  <2>2. CASE /\ totp # None /\ pc[r] = "secret" /\ loc' = [loc EXCEPT ![r].secret = totp]
             /\ Goto(r, IF loc[r].kind = "login" THEN "imap" ELSE "locked")
    <3> DEFINE l == IF loc[r].kind = "login" THEN "imap" ELSE "locked"
    <3>1. Moves(r, l, v)
      BY <2>2 DEF LoginInv, Shape, Goto, Moves
    <3>2. /\ DOMAIN v = DOMAIN NoLocals
          /\ v.secret = totp /\ v.kind = loc[r].kind /\ v.error = loc[r].error /\ v.cred = loc[r].cred
      BY <1>3 DEF NoLocals
    <3> HIDE DEF v
    <3>3. pc'[r] = l /\ loc'[r] = v
      BY <3>1 DEF Moves
    <3>4. Gate(r)' /\ Key(r)'
      BY <1>3, <2>2, <3>2, <3>3, Remembered DEF Gate, Key
    <3>5. Writes(l, v) => home
      BY <3>2 DEF Writes, LoginInv, HomeFirst
    <3> HIDE DEF l
    <3> QED
      BY <1>2, <3>1, <3>2, <3>4, <3>5, MoveKeeps
  <2> QED
    BY <1>7, <2>1, <2>2 DEF LoadSecret
<1>8. CASE LockCheck(r)
  <2>1. CASE Answer(r)
    BY <1>2, <2>1, AnswerKeeps
  <2>2. CASE /\ ~check_lockout /\ pc[r] = "locked" /\ loc' = loc
             /\ Goto(r, IF loc[r].kind = "login" THEN "secret" ELSE "step")
    <3> DEFINE l == IF loc[r].kind = "login" THEN "secret" ELSE "step"
    <3>1. pc'[r] = l /\ ~(lockout'.until > now')
      BY <1>1, <1>4, <2>2 DEF db, world, check_lockout
    <3>2. Gate(r)'
      BY <1>3, <2>2, <3>1, Remembered DEF Gate
    <3> QED
      BY <1>2, <2>2, <3>2, GotoKeeps DEF LoginInv, HomeFirst, Writes
  <2> QED
    BY <1>8, <2>1, <2>2 DEF LockCheck
<1>9. CASE GateError(r)
  <2> DEFINE v == [loc[r] EXCEPT !.error = TRUE]
  <2>1. PICK l \in {"enrolled", "imap", "secret", "step", "delete"} :
           Goto(r, l) /\ pc[r] \in {"settings", "enrolled", "locked", "mode"}
    BY <1>9 DEF GateError
  <2>2. Moves(r, l, v)
    BY <1>9, <2>1 DEF GateError, LoginInv, Shape, Goto, Moves
  <2>3. /\ DOMAIN v = DOMAIN NoLocals
        /\ v.error = TRUE /\ v.kind = loc[r].kind /\ v.cred = loc[r].cred
    BY <1>3 DEF NoLocals
  <2> HIDE DEF v
  <2>4. pc'[r] = l /\ loc'[r] = v
    BY <2>2 DEF Moves
  <2>5. Gate(r)' /\ Key(r)'
    BY <1>3, <2>1, <2>3, <2>4, Remembered DEF Gate, Key
  <2>6. Writes(l, v) => home
    BY <2>3 DEF Writes, LoginInv, HomeFirst
  <2> QED
    BY <1>2, <2>2, <2>3, <2>5, <2>6, MoveKeeps
<1> QED
  BY <1>5, <1>6, <1>7, <1>8, <1>9

-----------------------------------------------------------------------------
(* The mail server's answer, and the code                                  *)

LEMMA AnswersKeep ==
    ASSUME LoginInv, Watch, NEW r \in Requests,
           StatementFails(r) \/ NoServer(r) \/ ImapAnswer(r) \/ Session(r)
    PROVE  LoginInv'
<1>1. UNCHANGED <<totp, only, pending>> /\ (home => home') /\ (home' = home \/ home')
  BY DEF StatementFails, NoServer, ImapAnswer, Session, world, db
<1>2. HomeKept /\ PendingKept
  BY <1>1, QuietPending DEF HomeKept, LoginInv, HomeFirst
<1>3. Gate(r) /\ Key(r)
  BY DEF LoginInv
<1>4. CASE Answer(r)
  BY <1>2, <1>4, AnswerKeeps
<1>5. CASE /\ pc[r] = "imap" /\ loc' = loc
           /\ \/ loc[r].secret # None /\ Goto(r, "step")
              \/ loc[r].secret = None /\ Goto(r, "session")
  <2> DEFINE l == IF loc[r].secret # None THEN "step" ELSE "session"
  <2>1. Goto(r, l) /\ pc'[r] = l
    BY <1>5 DEF LoginInv, Shape, Goto
  <2>2. Gate(r)'
    BY <1>3, <1>5, <2>1, Remembered DEF Gate
  <2>3. ~Writes(l, loc[r]) \/ home
    BY DEF LoginInv, HomeFirst, Writes
  <2>4. l \notin {"idle", "fetch"}
    OBVIOUS
  <2> HIDE DEF l
  <2> QED
    BY <1>2, <1>5, <2>1, <2>2, <2>3, <2>4, GotoKeeps
<1>6. CASE pc[r] = "imap" /\ loc' = loc /\ Goto(r, "count")
  BY <1>2, <1>6, ElsewhereKeeps DEF LoginInv, HomeFirst, Writes, Asked
<1> QED
  BY <1>4, <1>5, <1>6 DEF StatementFails, NoServer, ImapAnswer, Session

LEMMA CodeKeeps ==
    ASSUME LoginInv, Watch, NEW r \in Requests,
           CheckStep(r) \/ RecordStep(r) \/ ResetLockout(r) \/ CountFailure(r) \/ SetLock(r)
    PROVE  LoginInv'
<1>1. UNCHANGED <<home, totp, only, pending>>
  BY DEF CheckStep, RecordStep, ResetLockout, CountFailure, SetLock, world, db,
         record_used_step, reset_lockout, add_failure, set_lock
<1>2. HomeKept /\ PendingKept
  BY <1>1, QuietHome, QuietPending
<1>3. Gate(r) /\ Key(r) /\ DOMAIN loc[r] = DOMAIN NoLocals
  BY DEF LoginInv, Shape
<1>4. CASE Answer(r)
  BY <1>2, <1>4, AnswerKeeps
<1>5. CASE pc[r] \in {"step", "count"} /\ loc' = loc /\ (Goto(r, "count") \/ Goto(r, "lock"))
  BY <1>2, <1>5, ElsewhereKeeps DEF LoginInv, HomeFirst, Writes, Asked
<1>6. CASE pc[r] = "step" /\ loc' = loc /\ Goto(r, "use")
  <2>1. pc'[r] = "use"
    BY <1>6 DEF LoginInv, Shape, Goto
  <2>2. Gate(r)'
    BY <1>3, <1>6, <2>1, Remembered DEF Gate
  <2> QED
    BY <1>2, <1>6, <2>2, GotoKeeps DEF LoginInv, HomeFirst, Writes
<1>7. CASE RecordStep(r)
  <2> DEFINE v == [loc[r] EXCEPT !.accepted = TRUE]
  <2>1. pc[r] = "use" /\ Moves(r, "reset", v)
    BY <1>7 DEF RecordStep, LoginInv, Shape, Goto, Moves
  <2>2. /\ DOMAIN v = DOMAIN NoLocals /\ v.accepted = TRUE
        /\ v.kind = loc[r].kind /\ v.error = loc[r].error /\ v.cred = loc[r].cred
    BY <1>3 DEF NoLocals
  <2> HIDE DEF v
  <2>3. pc'[r] = "reset" /\ loc'[r] = v
    BY <2>1 DEF Moves
  <2>4. Gate(r)' /\ Key(r)'
    BY <1>3, <2>1, <2>2, <2>3, Remembered DEF Gate, Key
  <2>5. Writes("reset", v) => home
    BY <2>2 DEF Writes, LoginInv, HomeFirst
  <2> QED
    BY <1>2, <2>1, <2>2, <2>4, <2>5, MoveKeeps
<1>8. CASE ResetLockout(r)
  <2>1. pc[r] = "reset" /\ loc' = loc
    BY <1>8 DEF ResetLockout
  <2>2. CASE loc[r].kind = "login" /\ Goto(r, "session")
    <3>1. pc'[r] = "session"
      BY <2>2 DEF LoginInv, Shape, Goto
    <3>2. Gate(r)'
      BY <1>3, <2>1, <2>2, <3>1, Remembered DEF Gate
    <3> QED
      BY <1>2, <2>1, <2>2, <3>2, GotoKeeps DEF LoginInv, HomeFirst, Writes
  <2>3. CASE loc[r].kind = "confirm" /\ Goto(r, "upsert")
    BY <1>2, <2>1, <2>3, ElsewhereKeeps DEF LoginInv, HomeFirst, Writes, Asked
  <2>4. CASE Goto(r, "erase")
    BY <1>2, <2>1, <2>4, ElsewhereKeeps DEF LoginInv, HomeFirst, Writes, Asked
  <2> QED
    BY <1>8, <2>2, <2>3, <2>4 DEF ResetLockout
<1> QED
  BY <1>4, <1>5, <1>6, <1>7, <1>8 DEF CheckStep, CountFailure, SetLock

-----------------------------------------------------------------------------
(* Requests that begin                                                     *)

LEMMA BeginningsKeep ==
    ASSUME LoginInv, Watch, NEW r \in Requests,
           Login(r) \/ TotpConfirm(r) \/ TotpDelete(r) \/ PasskeyDelete(r) \/ PasskeyOnly(r)
    PROVE  LoginInv'
<1>1. UNCHANGED <<world, db, pending>>
  BY DEF Login, TotpConfirm, TotpDelete, PasskeyDelete, PasskeyOnly
<1>2. HomeKept /\ PendingKept
  BY <1>1, QuietHome, QuietPending DEF world, db
<1>3. ASSUME NEW kind, NEW l, NEW v, Begin(r, kind, l, v) PROVE pc'[r] = l /\ loc'[r] = v
  BY <1>3 DEF LoginInv, Shape, Begin, Goto
<1>4. CASE Login(r)
  <2>1. PICK pw \in 1..mail, code \in Shown \cup {NoCode} :
           Begin(r, "login", IF home THEN "settings" ELSE "imap",
                 [NoLocals EXCEPT !.kind = "login", !.pw = pw, !.code = code])
    BY <1>4 DEF Login
  <2> DEFINE l == IF home THEN "settings" ELSE "imap"
             v == [NoLocals EXCEPT !.kind = "login", !.pw = pw, !.code = code]
  <2>2. DOMAIN v = DOMAIN NoLocals /\ v.kind = "login" /\ v.secret = None
    BY DEF NoLocals
  <2>3. Begin(r, "login", l, v)
    BY <2>1
  <2> HIDE DEF v
  <2>4. pc'[r] = l /\ loc'[r] = v
    BY <1>3, <2>3
  <2>5. ~home => ~only' /\ totp' = None
    BY <1>1 DEF db, LoginInv, HomeFirst
  <2>6. Gate(r)'
    BY <2>2, <2>4, <2>5, Remembered DEF Gate
  <2>7. ~Writes(l, v) /\ l # "fetch"
    BY <2>2 DEF Writes
  <2> HIDE DEF l
  <2> QED
    BY <1>2, <2>2, <2>3, <2>6, <2>7, BeginKeeps
<1>5. CASE TotpConfirm(r)
  <2>1. PICK code \in Shown, secret \in Secrets :
           Begin(r, "confirm", "locked", [NoLocals EXCEPT
                    !.kind = "confirm", !.code = code, !.secret = secret])
    BY <1>5 DEF TotpConfirm
  <2>2. home
    BY <1>5 DEF TotpConfirm
  <2> DEFINE v == [NoLocals EXCEPT !.kind = "confirm", !.code = code, !.secret = secret]
  <2>3. DOMAIN v = DOMAIN NoLocals /\ v.kind = "confirm"
    BY DEF NoLocals
  <2>4. Begin(r, "confirm", "locked", v)
    BY <2>1
  <2> HIDE DEF v
  <2> QED
    BY <1>2, <2>2, <2>3, <2>4, BeginKeeps
<1>6. CASE TotpDelete(r)
  <2>1. PICK code \in Shown :
           Begin(r, "remove", "secret", [NoLocals EXCEPT !.kind = "remove", !.code = code])
    BY <1>6 DEF TotpDelete
  <2> DEFINE v == [NoLocals EXCEPT !.kind = "remove", !.code = code]
  <2>2. DOMAIN v = DOMAIN NoLocals /\ v.kind = "remove"
    BY DEF NoLocals
  <2>3. Begin(r, "remove", "secret", v)
    BY <2>1
  <2> HIDE DEF v
  <2> QED
    BY <1>2, <2>2, <2>3, BeginKeeps DEF Writes
<1>7. CASE PasskeyDelete(r)
  <2>1. PICK c \in Creds :
           Begin(r, "drop", "mode", [NoLocals EXCEPT !.kind = "drop", !.cred = c])
    BY <1>7 DEF PasskeyDelete
  <2> DEFINE v == [NoLocals EXCEPT !.kind = "drop", !.cred = c]
  <2>2. DOMAIN v = DOMAIN NoLocals /\ v.kind = "drop"
    BY DEF NoLocals
  <2>3. Begin(r, "drop", "mode", v)
    BY <2>1
  <2> HIDE DEF v
  <2> QED
    BY <1>2, <2>2, <2>3, BeginKeeps DEF Writes
<1>8. CASE PasskeyOnly(r)
  <2>1. PICK on \in BOOLEAN :
           Begin(r, "mode", IF on THEN "any" ELSE "set", [NoLocals EXCEPT !.kind = "mode", !.on = on])
    BY <1>8 DEF PasskeyOnly
  <2>2. home
    BY <1>8 DEF PasskeyOnly
  <2> DEFINE l == IF on THEN "any" ELSE "set"
             v == [NoLocals EXCEPT !.kind = "mode", !.on = on]
  <2>3. DOMAIN v = DOMAIN NoLocals /\ v.kind = "mode" /\ l # "fetch"
    BY DEF NoLocals
  <2>4. Begin(r, "mode", l, v)
    BY <2>1
  <2> HIDE DEF l, v
  <2> QED
    BY <1>2, <2>2, <2>3, <2>4, BeginKeeps
<1> QED
  BY <1>4, <1>5, <1>6, <1>7, <1>8

-----------------------------------------------------------------------------
(* The settings                                                            *)

LEMMA SettingsKeep ==
    ASSUME LoginInv, Watch, NEW r \in Requests,
           \/ UpsertSecret(r) \/ EraseSecret(r) \/ ForgetSteps(r) \/ Unlock(r)
           \/ InsertPasskey(r) \/ ReadMode(r) \/ CountKeys(r) \/ DeleteKey(r)
           \/ AnyKey(r) \/ SetMode(r)
    PROVE  LoginInv'
<1> USE DEF world, db
<1>1. UNCHANGED <<home, pending>>
  BY DEF UpsertSecret, EraseSecret, ForgetSteps, Unlock, InsertPasskey, ReadMode,
         CountKeys, DeleteKey, AnyKey, SetMode
<1>2. PendingKept
  BY <1>1, QuietPending
<1>3. HomeKept
  <2>1. CASE UpsertSecret(r) \/ SetMode(r)
    BY <1>1, <2>1 DEF UpsertSecret, SetMode, LoginInv, HomeFirst, Writes, HomeKept
  <2>2. CASE EraseSecret(r)
    BY <1>1, <2>2 DEF EraseSecret, LoginInv, HomeFirst, HomeKept
  <2>3. CASE UNCHANGED <<totp, only>>
    BY <1>1, <2>3, QuietHome
  <2> QED
    BY <2>1, <2>2, <2>3 DEF ForgetSteps, Unlock, InsertPasskey, ReadMode, CountKeys,
       DeleteKey, AnyKey, reset_lockout, insert_passkey, put_passkey, delete_passkey
<1>4. CASE Answer(r)
  BY <1>2, <1>3, <1>4, AnswerKeeps
<1>5. CASE /\ pc[r] \in {"erase", "forget", "mode", "last"} /\ loc' = loc
           /\ \E l \in {"forget", "unlock", "last", "delete"} : Goto(r, l)
  BY <1>2, <1>3, <1>5, ElsewhereKeeps DEF LoginInv, HomeFirst, Writes, Asked
<1>6. CASE pc[r] = "any" /\ loc' = loc /\ Goto(r, "set")
  BY <1>2, <1>3, <1>6, ElsewhereKeeps DEF LoginInv, HomeFirst, Writes, Asked
<1> QED
  BY <1>4, <1>5, <1>6 DEF UpsertSecret, EraseSecret, ForgetSteps, Unlock, InsertPasskey,
     ReadMode, CountKeys, DeleteKey, AnyKey, SetMode

\* A ceremony is finished once.
LEMMA FinishKeeps ==
    ASSUME LoginInv, NEW n \in Nonces, Finish(n) PROVE PendingKept
<1>1. pending' = [m \in Nonces |-> IF m = n THEN [kind |-> "spent", creds |-> {}] ELSE pending[m]]
  BY DEF LoginInv, Shape, Finish
<1> QED
  BY <1>1 DEF LoginInv, Shape, PendingKept

LEMMA CeremoniesKeep ==
    ASSUME LoginInv, None \notin Creds, Watch, NEW r \in Requests,
           RegisterComplete(r) \/ SigninComplete(r) \/ FetchPasskey(r)
    PROVE  LoginInv'
<1>1. UNCHANGED <<home, totp, only>>
  BY DEF RegisterComplete, SigninComplete, FetchPasskey, world, db
<1>2. HomeKept
  BY <1>1, QuietHome
<1>3. Gate(r) /\ Key(r) /\ DOMAIN loc[r] = DOMAIN NoLocals
  BY DEF LoginInv, Shape
<1>4. ASSUME NEW n \in Nonces, NEW pw \in 1..mail, NEW c \in pending[n].creds,
             Finish(n), pc[r] = "idle", Goto(r, "insert"),
             loc' = [loc EXCEPT ![r] = [NoLocals EXCEPT !.kind = "register", !.cred = c, !.pw = pw]]
      PROVE  LoginInv'
  <2> DEFINE v == [NoLocals EXCEPT !.kind = "register", !.cred = c, !.pw = pw]
  <2>1. DOMAIN v = DOMAIN NoLocals /\ v.kind = "register"
    BY DEF NoLocals
  <2>2. Moves(r, "insert", v)
    BY <1>4 DEF LoginInv, Shape, Goto, Moves
  <2> HIDE DEF v
  <2>3. pc'[r] = "insert" /\ loc'[r] = v
    BY <2>2 DEF Moves
  <2>4. Gate(r)' /\ Key(r)' /\ ~Writes("insert", v)
    BY <2>1, <2>3 DEF Gate, Key, Writes
  <2> QED
    BY <1>2, <1>4, <2>1, <2>2, <2>4, MoveKeeps, FinishKeeps
<1>5. CASE SigninComplete(r)
  <2> PICK n \in Nonces :
         /\ Finish(n)
         /\ \/ UNCHANGED <<pc, loc>>
            \/ \E c \in pending[n].creds :
                  /\ Goto(r, "fetch")
                  /\ loc' = [loc EXCEPT ![r] = [NoLocals EXCEPT !.kind = "signin", !.cred = c]]
    BY <1>5 DEF SigninComplete
  <2>1. PendingKept
    BY FinishKeeps
  <2>2. CASE UNCHANGED <<pc, loc>>
    <3>1. Shape'
      BY <2>1, <2>2 DEF LoginInv, Shape, PendingKept
    <3>2. HomeFirst'
      BY <1>1, <2>2 DEF LoginInv, HomeFirst
    <3> QED
      BY <2>2, <3>1, <3>2, OthersKeep DEF LoginInv
  <2>3. ASSUME NEW c \in pending[n].creds, Goto(r, "fetch"),
               loc' = [loc EXCEPT ![r] = [NoLocals EXCEPT !.kind = "signin", !.cred = c]]
        PROVE  LoginInv'
    <3> DEFINE v == [NoLocals EXCEPT !.kind = "signin", !.cred = c]
    <3>1. DOMAIN v = DOMAIN NoLocals /\ v.kind = "signin" /\ v.cred = c
      BY DEF NoLocals
    <3>2. Moves(r, "fetch", v)
      BY <2>3 DEF LoginInv, Shape, Goto, Moves
    <3> HIDE DEF v
    <3>3. pc'[r] = "fetch" /\ loc'[r] = v
      BY <3>2 DEF Moves
    <3>4. c # None
      BY DEF LoginInv, Shape
    <3>5. Gate(r)' /\ Key(r)' /\ ~Writes("fetch", v)
      BY <3>1, <3>3, <3>4 DEF Gate, Key, Writes
    <3> QED
      BY <1>2, <2>1, <3>1, <3>2, <3>5, MoveKeeps
  <2> QED
    BY <2>2, <2>3
<1>6. CASE FetchPasskey(r)
  <2>1. PendingKept
    BY <1>6, QuietPending DEF FetchPasskey
  <2>2. CASE Answer(r)
    BY <1>2, <2>1, <2>2, AnswerKeeps
  <2>3. CASE /\ pc[r] = "fetch" /\ keys[loc[r].cred] # 0 /\ keys' = keys /\ Goto(r, "imap")
             /\ loc' = [loc EXCEPT ![r].pw = keys[loc[r].cred]]
    <3> DEFINE v == [loc[r] EXCEPT !.pw = keys[loc[r].cred]]
    <3>1. DOMAIN v = DOMAIN NoLocals /\ v.kind = loc[r].kind /\ v.cred = loc[r].cred
      BY <1>3 DEF NoLocals
    <3>2. Moves(r, "imap", v)
      BY <2>3 DEF LoginInv, Shape, Goto, Moves
    <3> HIDE DEF v
    <3>3. pc'[r] = "imap" /\ loc'[r] = v
      BY <3>2 DEF Moves
    <3>4. v.kind = "signin" /\ v.cred # None /\ keys'[v.cred] # 0
      BY <1>3, <2>3, <3>1 DEF Key
    <3>5. Gate(r)' /\ Key(r)' /\ ~Writes("imap", v)
      BY <3>3, <3>4, Remembered DEF Gate, Key, Writes
    <3> QED
      BY <1>2, <2>1, <3>1, <3>2, <3>5, MoveKeeps
  <2> QED
    BY <1>6, <2>2, <2>3 DEF FetchPasskey, get_passkey, db
<1> QED
  BY <1>4, <1>5, <1>6 DEF RegisterComplete

\* No request moves: the clock, the password, a challenge that is handed out.
LEMMA WorldKeeps ==
    ASSUME LoginInv, Watch, Tick \/ ChangePassword \/ RegisterBegin \/ SigninBegin
    PROVE  LoginInv'
<1>1. UNCHANGED <<home, totp, only, pc, loc>>
  BY DEF Tick, ChangePassword, RegisterBegin, SigninBegin, world, db
<1>2. PendingKept
  <2>1. ASSUME NEW n \in Nonces, NEW c, pending' = [pending EXCEPT ![n] = c], c.creds \subseteq Creds
        PROVE  PendingKept
    <3>1. pending' = [m \in Nonces |-> IF m = n THEN c ELSE pending[m]]
      BY <2>1 DEF LoginInv, Shape
    <3> QED
      BY <2>1, <3>1 DEF LoginInv, Shape, PendingKept
  <2>2. CASE RegisterBegin
    <3> DEFINE c == [kind |-> "reg", creds |-> Creds \ list_passkeys]
    <3>1. PICK n \in Nonces : pending' = [pending EXCEPT ![n] = c]
      BY <2>2 DEF RegisterBegin, Fresh
    <3>2. c.creds \subseteq Creds
      OBVIOUS
    <3> HIDE DEF c
    <3> QED
      BY <2>1, <3>1, <3>2
  <2>3. CASE SigninBegin
    <3> DEFINE c == IF home /\ has_passkeys THEN [kind |-> "auth", creds |-> list_passkeys]
                                           ELSE [kind |-> "fake", creds |-> {}]
    <3>1. PICK n \in Nonces : pending' = [pending EXCEPT ![n] = c]
      BY <2>3 DEF SigninBegin, Fresh
    <3>2. c.creds \subseteq Creds
      BY DEF list_passkeys
    <3> HIDE DEF c
    <3> QED
      BY <2>1, <3>1, <3>2
  <2>4. CASE Tick \/ ChangePassword
    BY <2>4, QuietPending DEF Tick, ChangePassword
  <2> QED
    BY <2>2, <2>3, <2>4
<1>3. Shape' /\ HomeFirst'
  BY <1>1, <1>2 DEF LoginInv, Shape, HomeFirst, PendingKept
<1> QED
  BY <1>1, <1>3, OthersKeep DEF LoginInv

-----------------------------------------------------------------------------
(* The theorems                                                            *)

LEMMA LoginInit == Init => LoginInv
<1> SUFFICES ASSUME Init PROVE LoginInv
  OBVIOUS
<1>1. \A r \in Requests : pc[r] = "idle" /\ loc[r] = NoLocals
  BY DEF Init
<1>2. Shape
  <2>1. \A n \in Nonces : pending[n].creds = {}
    BY DEF Init, NoCeremony
  <2>2. /\ pc = [r \in Requests |-> pc[r]] /\ loc = [r \in Requests |-> loc[r]]
        /\ pending = [n \in Nonces |-> pending[n]]
    BY DEF Init
  <2> QED
    BY <1>1, <2>1, <2>2 DEF Shape
<1>3. home \/ (totp = None /\ ~only)
  <2>1. ~home => \A c \in Creds : keys[c] = 0
    BY DEF Init
  <2> QED
    BY <2>1 DEF Init
<1>4. HomeFirst /\ \A r \in Requests : Gate(r) /\ Key(r)
  BY <1>1, <1>3 DEF HomeFirst, Writes, Gate, Key, NoLocals
<1> QED
  BY <1>2, <1>4 DEF LoginInv

LEMMA LoginStep ==
    ASSUME LoginInv, None \notin Creds, [Next]_vars PROVE LoginInv'
<1>1. CASE Next
  <2>1. Watch
    BY <1>1 DEF Next
  <2>2. CASE Tick \/ ChangePassword \/ RegisterBegin \/ SigninBegin
    BY <2>1, <2>2, WorldKeeps
  <2>3. ASSUME NEW r \in Requests,
               \/ Login(r) \/ GateSettings(r) \/ GateEnrolled(r) \/ LoadSecret(r)
               \/ LockCheck(r) \/ GateError(r) \/ StatementFails(r)
               \/ ImapAnswer(r) \/ NoServer(r) \/ Session(r)
               \/ CheckStep(r) \/ RecordStep(r) \/ ResetLockout(r)
               \/ CountFailure(r) \/ SetLock(r)
               \/ TotpConfirm(r) \/ UpsertSecret(r) \/ TotpDelete(r)
               \/ EraseSecret(r) \/ ForgetSteps(r) \/ Unlock(r)
               \/ RegisterComplete(r) \/ InsertPasskey(r)
               \/ SigninComplete(r) \/ FetchPasskey(r)
               \/ PasskeyDelete(r) \/ ReadMode(r) \/ CountKeys(r) \/ DeleteKey(r)
               \/ PasskeyOnly(r) \/ AnyKey(r) \/ SetMode(r)
        PROVE  LoginInv'
    BY <2>1, <2>3, GateKeeps, AnswersKeep, CodeKeeps, BeginningsKeep, SettingsKeep, CeremoniesKeep
  <2> QED
    BY <1>1, <2>2, <2>3 DEF Next, Step
<1>2. CASE UNCHANGED vars
  BY <1>2 DEF vars, world, db, LoginInv, Shape, HomeFirst, Writes, Gate, Key
<1> QED
  BY <1>1, <1>2

\* The inductive invariant holds for any number of requests, keys, secrets and
\* ceremonies, however the statements of the requests interleave.
THEOREM LoginInvariant == ASSUME None \notin Creds PROVE Spec => []LoginInv
  BY LoginInit, LoginStep, PTL DEF Spec

\* A password opens a session only if it was enough at some time while the
\* request ran, alone or with the code that was taken (routes/auth.rs:257).
THEOREM PasswordNeedsGate == ASSUME None \notin Creds PROVE Spec => []PasswordLoginAllowed
<1>1. LoginInv => PasswordLoginAllowed
  BY DEF LoginInv, Gate, PasswordLoginAllowed
<1> QED
  BY <1>1, LoginInvariant, PTL

\* A key deleted after its challenge was handed out opens no session
\* (routes/mfa.rs:589).
THEOREM KeyStillThere == ASSUME None \notin Creds PROVE Spec => []DeletedKeyRefused
<1>1. LoginInv => DeletedKeyRefused
  BY DEF LoginInv, Key, DeletedKeyRefused
<1> QED
  BY <1>1, LoginInvariant, PTL

-----------------------------------------------------------------------------
(* The types: without a directory there are no rows, and so no settings    *)

\* Only a user who has a directory is given a key to register, and keeps one.
Registering ==
    /\ (\E n \in Nonces : pending[n].kind = "reg") => home
    /\ (\E r \in Requests : pc[r] = "insert") => home

LoginTypes == TypeOK /\ Registering

Ceremonies == [kind : {"none", "reg", "auth", "fake", "spent"}, creds : SUBSET Creds]

\* The locals a request begins with, and what becomes of them.
LEMMA LocalsTyped ==
    ASSUME MaxMail \in Nat
    PROVE  /\ NoLocals \in Locals
           /\ \A v \in Locals :
                 /\ v.pw \in 0..MaxMail /\ v.code \in Codes \cup {NoCode} /\ v.cred \in Creds \cup {None}
                 /\ v.secret \in Secrets \cup {None} /\ v.on \in BOOLEAN
                 /\ [v EXCEPT !.error = TRUE] \in Locals /\ [v EXCEPT !.accepted = TRUE] \in Locals
           /\ \A v \in Locals, s \in Secrets \cup {None} : [v EXCEPT !.secret = s] \in Locals
           /\ \A v \in Locals, p \in 0..MaxMail : [v EXCEPT !.pw = p] \in Locals
<1>1. NoLocals \in Locals
  BY DEF Locals, NoLocals
<1>2. ASSUME NEW v \in Locals
      PROVE  /\ v.pw \in 0..MaxMail /\ v.code \in Codes \cup {NoCode} /\ v.cred \in Creds \cup {None}
             /\ v.secret \in Secrets \cup {None} /\ v.on \in BOOLEAN
  BY DEF Locals
<1>3. ASSUME NEW v \in Locals
      PROVE  [v EXCEPT !.error = TRUE] \in Locals /\ [v EXCEPT !.accepted = TRUE] \in Locals
  BY DEF Locals
<1>4. ASSUME NEW v \in Locals, NEW s \in Secrets \cup {None} PROVE [v EXCEPT !.secret = s] \in Locals
  BY DEF Locals
<1>5. ASSUME NEW v \in Locals, NEW p \in 0..MaxMail PROVE [v EXCEPT !.pw = p] \in Locals
  BY DEF Locals
<1> QED
  BY <1>1, <1>2, <1>3, <1>4, <1>5

LEMMA BeginningsTyped ==
    ASSUME MaxMail \in Nat
    PROVE  /\ \A p \in 0..MaxMail, c \in Codes \cup {NoCode} :
                 [NoLocals EXCEPT !.kind = "login", !.pw = p, !.code = c] \in Locals
           /\ \A c \in Codes, s \in Secrets :
                 [NoLocals EXCEPT !.kind = "confirm", !.code = c, !.secret = s] \in Locals
           /\ \A c \in Codes : [NoLocals EXCEPT !.kind = "remove", !.code = c] \in Locals
           /\ \A c \in Creds, p \in 0..MaxMail :
                 [NoLocals EXCEPT !.kind = "register", !.cred = c, !.pw = p] \in Locals
           /\ \A c \in Creds : /\ [NoLocals EXCEPT !.kind = "signin", !.cred = c] \in Locals
                               /\ [NoLocals EXCEPT !.kind = "drop", !.cred = c] \in Locals
           /\ \A on \in BOOLEAN : [NoLocals EXCEPT !.kind = "mode", !.on = on] \in Locals
<1>0. NoLocals \in Locals
  BY LocalsTyped
<1>1. ASSUME NEW p \in 0..MaxMail, NEW c \in Codes \cup {NoCode}
      PROVE  [NoLocals EXCEPT !.kind = "login", !.pw = p, !.code = c] \in Locals
  BY <1>0 DEF Locals, Kinds
<1>2. ASSUME NEW c \in Codes, NEW s \in Secrets
      PROVE  [NoLocals EXCEPT !.kind = "confirm", !.code = c, !.secret = s] \in Locals
  BY <1>0 DEF Locals, Kinds
<1>3. ASSUME NEW c \in Codes PROVE [NoLocals EXCEPT !.kind = "remove", !.code = c] \in Locals
  BY <1>0 DEF Locals, Kinds
<1>4. ASSUME NEW c \in Creds, NEW p \in 0..MaxMail
      PROVE  [NoLocals EXCEPT !.kind = "register", !.cred = c, !.pw = p] \in Locals
  BY <1>0 DEF Locals, Kinds
<1>5. ASSUME NEW c \in Creds
      PROVE  /\ [NoLocals EXCEPT !.kind = "signin", !.cred = c] \in Locals
             /\ [NoLocals EXCEPT !.kind = "drop", !.cred = c] \in Locals
  BY <1>0 DEF Locals, Kinds
<1>6. ASSUME NEW on \in BOOLEAN PROVE [NoLocals EXCEPT !.kind = "mode", !.on = on] \in Locals
  BY <1>0 DEF Locals, Kinds
<1> QED
  BY <1>1, <1>2, <1>3, <1>4, <1>5, <1>6

LEMMA CodesTyped ==
    ASSUME MaxTime \in Nat
    PROVE  /\ Shown \subseteq Codes
           /\ \A c \in Codes \cup {NoCode} : c.step \in 0..(MaxTime + 1)
<1>1. ASSUME NEW c \in Shown PROVE c \in Codes
  <2>1. c \in [of : Secrets, step : {s \in 0..(MaxTime + 1) : s + 1 >= now /\ s <= now + 1}]
    BY DEF Shown
  <2> QED
    BY <2>1 DEF Codes
<1>2. \A c \in Codes \cup {NoCode} : c.step \in 0..(MaxTime + 1)
  BY DEF Codes, NoCode
<1> QED
  BY <1>1, <1>2

\* Where a request is, and with which locals.
PlaceTyped == pc' \in [Requests -> Pcs] /\ loc' \in [Requests -> Locals]

LEMMA Placed ==
    ASSUME TypeOK, NEW r \in Requests, NEW l \in Pcs, Goto(r, l),
           loc' = loc \/ \E v \in Locals : loc' = [loc EXCEPT ![r] = v]
    PROVE  PlaceTyped
  BY DEF TypeOK, Goto, PlaceTyped

LEMMA AnswerPlaced == ASSUME MaxMail \in Nat, TypeOK, NEW r \in Requests, Answer(r) PROVE PlaceTyped
  BY LocalsTyped DEF TypeOK, Answer, PlaceTyped, Pcs

Bounded == MaxTime \in Nat \ {0} /\ MaxMail \in Nat \ {0} /\ LockTime \in Nat

LEMMA GatePlaces ==
    ASSUME Bounded, TypeOK, NEW r \in Requests,
           \/ GateSettings(r) \/ GateEnrolled(r) \/ LoadSecret(r) \/ LockCheck(r)
           \/ GateError(r) \/ StatementFails(r) \/ ImapAnswer(r) \/ NoServer(r) \/ Session(r)
    PROVE  PlaceTyped
<1> USE DEF Bounded
<1>1. loc[r] \in Locals
  BY DEF TypeOK
<1>2. \/ Answer(r)
      \/ \E l \in Pcs : Goto(r, l) /\ (loc' = loc \/ \E v \in Locals : loc' = [loc EXCEPT ![r] = v])
  <2> DEFINE Goes == \/ Answer(r)
                     \/ \E l \in Pcs : Goto(r, l) /\ (loc' = loc \/ \E v \in Locals : loc' = [loc EXCEPT ![r] = v])
  <2>1. \A l \in {"settings", "enrolled", "locked", "secret", "imap", "step", "count", "session", "delete"} : l \in Pcs
    BY DEF Pcs
  <2>2. CASE GateSettings(r) \/ GateEnrolled(r) \/ LockCheck(r)
    BY <2>1, <2>2 DEF GateSettings, GateEnrolled, LockCheck
  <2>3. CASE LoadSecret(r)
    <3>1. [loc[r] EXCEPT !.secret = totp] \in Locals
      BY <1>1, LocalsTyped DEF TypeOK
    <3>2. Answer(r) \/ (loc' = [loc EXCEPT ![r] = [loc[r] EXCEPT !.secret = totp]]
                        /\ \E l \in {"imap", "locked"} : Goto(r, l))
      BY <2>3 DEF LoadSecret
    <3> QED
      BY <2>1, <3>1, <3>2
  <2>4. CASE GateError(r)
    <3>1. [loc[r] EXCEPT !.error = TRUE] \in Locals
      BY <1>1, LocalsTyped
    <3>2. /\ loc' = [loc EXCEPT ![r] = [loc[r] EXCEPT !.error = TRUE]]
          /\ \E l \in {"enrolled", "imap", "secret", "step", "delete"} : Goto(r, l)
      BY <2>4 DEF GateError
    <3> QED
      BY <2>1, <3>1, <3>2
  <2>5. CASE ImapAnswer(r)
    BY <2>1, <2>5 DEF ImapAnswer
  <2>6. CASE StatementFails(r) \/ NoServer(r) \/ Session(r)
    BY <2>6 DEF StatementFails, NoServer, Session
  <2> QED
    BY <2>2, <2>3, <2>4, <2>5, <2>6
<1> QED
  BY <1>2, AnswerPlaced, Placed

LEMMA CodePlaces ==
    ASSUME Bounded, LoginInv, TypeOK, NEW r \in Requests,
           \/ CheckStep(r) \/ RecordStep(r) \/ ResetLockout(r) \/ CountFailure(r) \/ SetLock(r)
           \/ UpsertSecret(r) \/ EraseSecret(r) \/ ForgetSteps(r) \/ Unlock(r)
           \/ InsertPasskey(r) \/ FetchPasskey(r) \/ ReadMode(r) \/ CountKeys(r) \/ DeleteKey(r)
           \/ AnyKey(r) \/ SetMode(r)
    PROVE  PlaceTyped
<1> USE DEF Bounded
<1>1. loc[r] \in Locals
  BY DEF TypeOK
<1>2. \A l \in {"count", "use", "reset", "session", "upsert", "erase", "lock", "forget", "unlock",
                "imap", "last", "delete", "set"} : l \in Pcs
  BY DEF Pcs
<1>3. CASE RecordStep(r)
  <2>1. [loc[r] EXCEPT !.accepted = TRUE] \in Locals
    BY <1>1, LocalsTyped
  <2>2. loc' = [loc EXCEPT ![r] = [loc[r] EXCEPT !.accepted = TRUE]] /\ Goto(r, "reset")
    BY <1>3 DEF RecordStep
  <2> QED
    BY <1>2, <2>1, <2>2, Placed
<1>4. CASE FetchPasskey(r)
  <2>1. CASE Answer(r)
    BY <2>1, AnswerPlaced
  <2>2. CASE ~ Answer(r)
    <3> DEFINE p == keys[loc[r].cred]
    <3>1. p # 0 /\ loc' = [loc EXCEPT ![r] = [loc[r] EXCEPT !.pw = p]] /\ Goto(r, "imap")
      BY <1>4, <2>2 DEF FetchPasskey, get_passkey
    <3>2. p \in 0..MaxMail
      <4>1. loc[r].cred \in Creds
        BY <1>1, <1>4, LocalsTyped DEF FetchPasskey, LoginInv, Key
      <4> QED
        BY <4>1 DEF TypeOK
    <3>3. [loc[r] EXCEPT !.pw = p] \in Locals
      BY <1>1, <3>2, LocalsTyped
    <3> QED
      BY <1>2, <3>1, <3>3, Placed
  <2> QED
    BY <2>1, <2>2
<1>5. CASE \/ CheckStep(r) \/ ResetLockout(r) \/ CountFailure(r) \/ SetLock(r) \/ UpsertSecret(r)
           \/ EraseSecret(r) \/ ForgetSteps(r) \/ Unlock(r) \/ InsertPasskey(r) \/ ReadMode(r)
           \/ CountKeys(r) \/ DeleteKey(r) \/ AnyKey(r) \/ SetMode(r)
  <2>1. Answer(r) \/ (loc' = loc /\ \E l \in Pcs : Goto(r, l))
    BY <1>2, <1>5 DEF CheckStep, ResetLockout, CountFailure, SetLock, UpsertSecret, EraseSecret,
       ForgetSteps, Unlock, InsertPasskey, ReadMode, CountKeys, DeleteKey, AnyKey, SetMode
  <2> QED
    BY <2>1, AnswerPlaced, Placed
<1> QED
  BY <1>3, <1>4, <1>5

LEMMA BeginningPlaces ==
    ASSUME Bounded, TypeOK, NEW r \in Requests,
           \/ Login(r) \/ TotpConfirm(r) \/ TotpDelete(r) \/ RegisterComplete(r)
           \/ SigninComplete(r) \/ PasskeyDelete(r) \/ PasskeyOnly(r)
    PROVE  PlaceTyped
<1> USE DEF Bounded
<1>1. /\ 1..mail \subseteq 0..MaxMail /\ Shown \subseteq Codes
      /\ \A n \in Nonces : pending[n].creds \subseteq Creds
      /\ UNCHANGED <<pc, loc>> => PlaceTyped
  BY CodesTyped DEF TypeOK, PlaceTyped
<1>2. \A l \in {"settings", "imap", "locked", "secret", "insert", "fetch", "mode", "any", "set"} : l \in Pcs
  BY DEF Pcs
<1>3. UNCHANGED <<pc, loc>> \/ \E l \in Pcs, v \in Locals : Goto(r, l) /\ loc' = [loc EXCEPT ![r] = v]
  <2>1. CASE Login(r)
    <3>1. PICK p \in 1..mail, c \in Shown \cup {NoCode}, l \in {"settings", "imap"} :
            /\ Goto(r, l)
            /\ loc' = [loc EXCEPT ![r] = [NoLocals EXCEPT !.kind = "login", !.pw = p, !.code = c]]
      BY <2>1 DEF Login, Begin
    <3>2. [NoLocals EXCEPT !.kind = "login", !.pw = p, !.code = c] \in Locals
      BY <1>1, BeginningsTyped
    <3> QED
      BY <1>2, <3>1, <3>2
  <2>2. CASE TotpConfirm(r)
    <3>1. PICK c \in Shown, s \in Secrets :
            /\ Goto(r, "locked")
            /\ loc' = [loc EXCEPT ![r] = [NoLocals EXCEPT !.kind = "confirm", !.code = c, !.secret = s]]
      BY <2>2 DEF TotpConfirm, Begin
    <3>2. [NoLocals EXCEPT !.kind = "confirm", !.code = c, !.secret = s] \in Locals
      BY <1>1, BeginningsTyped
    <3> QED
      BY <1>2, <3>1, <3>2
  <2>3. CASE TotpDelete(r)
    <3>1. PICK c \in Shown :
            /\ Goto(r, "secret")
            /\ loc' = [loc EXCEPT ![r] = [NoLocals EXCEPT !.kind = "remove", !.code = c]]
      BY <2>3 DEF TotpDelete, Begin
    <3>2. [NoLocals EXCEPT !.kind = "remove", !.code = c] \in Locals
      BY <1>1, BeginningsTyped
    <3> QED
      BY <1>2, <3>1, <3>2
  <2>4. CASE RegisterComplete(r)
    <3>1. PICK p \in 1..mail, c \in Creds :
            /\ Goto(r, "insert")
            /\ loc' = [loc EXCEPT ![r] = [NoLocals EXCEPT !.kind = "register", !.cred = c, !.pw = p]]
      BY <1>1, <2>4 DEF RegisterComplete
    <3>2. [NoLocals EXCEPT !.kind = "register", !.cred = c, !.pw = p] \in Locals
      BY <1>1, BeginningsTyped
    <3> QED
      BY <1>2, <3>1, <3>2
  <2>5. CASE SigninComplete(r)
    <3>1. CASE UNCHANGED <<pc, loc>>
      BY <3>1
    <3>2. CASE ~ UNCHANGED <<pc, loc>>
      <4>1. PICK c \in Creds :
              /\ Goto(r, "fetch")
              /\ loc' = [loc EXCEPT ![r] = [NoLocals EXCEPT !.kind = "signin", !.cred = c]]
        BY <1>1, <2>5, <3>2 DEF SigninComplete
      <4>2. [NoLocals EXCEPT !.kind = "signin", !.cred = c] \in Locals
        BY <1>1, BeginningsTyped
      <4> QED
        BY <1>2, <4>1, <4>2
    <3> QED
      BY <3>1, <3>2
  <2>6. CASE PasskeyDelete(r)
    <3>1. PICK c \in Creds :
            /\ Goto(r, "mode")
            /\ loc' = [loc EXCEPT ![r] = [NoLocals EXCEPT !.kind = "drop", !.cred = c]]
      BY <2>6 DEF PasskeyDelete, Begin
    <3>2. [NoLocals EXCEPT !.kind = "drop", !.cred = c] \in Locals
      BY BeginningsTyped
    <3> QED
      BY <1>2, <3>1, <3>2
  <2>7. CASE PasskeyOnly(r)
    <3>1. PICK on \in BOOLEAN, l \in {"any", "set"} :
            /\ Goto(r, l)
            /\ loc' = [loc EXCEPT ![r] = [NoLocals EXCEPT !.kind = "mode", !.on = on]]
      BY <2>7 DEF PasskeyOnly, Begin
    <3>2. [NoLocals EXCEPT !.kind = "mode", !.on = on] \in Locals
      BY BeginningsTyped
    <3> QED
      BY <1>2, <3>1, <3>2
  <2> QED
    BY <2>1, <2>2, <2>3, <2>4, <2>5, <2>6, <2>7
<1> QED
  BY <1>1, <1>3, Placed

\* The rows, the ceremonies and the directory.
Tables ==
    /\ now \in 0..MaxTime /\ mail \in 1..MaxMail /\ home \in BOOLEAN
    /\ totp \in Secrets \cup {None} /\ used \subseteq 0..(MaxTime + 1)
    /\ lockout \in [count : Nat, until : Nat]
    /\ keys \in [Creds -> 0..MaxMail] /\ only \in BOOLEAN
    /\ pending \in [Nonces -> Ceremonies]
    /\ home \/ (totp = None /\ list_passkeys = {} /\ ~only)

Placing == pc \in [Requests -> Pcs] /\ loc \in [Requests -> Locals]
Remembering == seen \in [Requests -> [mode : BOOLEAN, plain : BOOLEAN, open : BOOLEAN, key : BOOLEAN]]

LEMMA TypesSplit == TypeOK <=> Tables /\ Placing /\ Remembering
  BY DEF TypeOK, Tables, Placing, Remembering, Ceremonies

LEMMA SameTables ==
    ASSUME Tables, UNCHANGED <<world, db, pending>> PROVE Tables'
  BY DEF Tables, world, db, list_passkeys

LEMMA RowsTyped ==
    ASSUME Bounded, LoginInv, TypeOK, Registering, NEW r \in Requests,
           \/ RecordStep(r) \/ ResetLockout(r) \/ CountFailure(r) \/ SetLock(r)
           \/ UpsertSecret(r) \/ EraseSecret(r) \/ ForgetSteps(r) \/ Unlock(r)
           \/ InsertPasskey(r) \/ DeleteKey(r) \/ SetMode(r)
    PROVE  Tables'
<1> USE DEF Bounded, world, db
<1>1. /\ loc[r] \in Locals /\ loc[r].pw \in 0..MaxMail /\ loc[r].secret \in Secrets \cup {None}
      /\ loc[r].on \in BOOLEAN /\ loc[r].code.step \in 0..(MaxTime + 1)
  <2>1. loc[r] \in Locals
    BY DEF TypeOK
  <2>2. loc[r].code \in Codes \cup {NoCode}
    BY <2>1, LocalsTyped
  <2> QED
    BY <2>1, <2>2, LocalsTyped, CodesTyped
<1>2. Tables
  BY TypesSplit
<1>3. CASE RecordStep(r)
  <2>1. UNCHANGED <<now, mail, home, totp, lockout, keys, only, pending>>
    BY <1>3 DEF RecordStep, record_used_step
  <2>2. used' = used \cup {loc[r].code.step}
    BY <1>3 DEF RecordStep, record_used_step
  <2> QED
    BY <1>1, <1>2, <2>1, <2>2 DEF Tables, list_passkeys
<1>4. CASE ResetLockout(r) \/ CountFailure(r) \/ SetLock(r) \/ Unlock(r)
  <2>1. UNCHANGED <<now, mail, home, totp, used, keys, only, pending>>
    BY <1>4 DEF ResetLockout, CountFailure, SetLock, Unlock, reset_lockout, add_failure, set_lock
  <2>2. lockout' \in [count : Nat, until : Nat]
    <3>1. lockout \in [count : Nat, until : Nat] /\ now \in Nat
      BY <1>2 DEF Tables
    <3>2. \/ lockout' = [count |-> 0, until |-> 0]
          \/ lockout' = [lockout EXCEPT !.count = @ + 1]
          \/ lockout' = [lockout EXCEPT !.until = now + LockTime]
      BY <1>4 DEF ResetLockout, CountFailure, SetLock, Unlock, reset_lockout, add_failure, set_lock
    <3> QED
      BY <3>1, <3>2
  <2> QED
    BY <1>2, <2>1, <2>2 DEF Tables, list_passkeys
<1>5. CASE UpsertSecret(r)
  <2>1. home /\ totp' = loc[r].secret
    BY <1>5 DEF UpsertSecret, upsert_totp_secret, LoginInv, HomeFirst, Writes
  <2>2. UNCHANGED <<now, mail, home, used, lockout, keys, only, pending>>
    BY <1>5 DEF UpsertSecret, upsert_totp_secret
  <2> QED
    BY <1>1, <1>2, <2>1, <2>2 DEF Tables
<1>6. CASE EraseSecret(r)
  BY <1>2, <1>6 DEF EraseSecret, Tables, list_passkeys
<1>7. CASE ForgetSteps(r)
  BY <1>2, <1>7 DEF ForgetSteps, Tables, list_passkeys
<1>8. CASE InsertPasskey(r)
  <2>1. home
    BY <1>8 DEF InsertPasskey, Registering
  <2>2. UNCHANGED <<now, mail, home, totp, used, lockout, only, pending>>
    BY <1>8 DEF InsertPasskey, insert_passkey, put_passkey
  <2>3. keys' = keys \/ keys' = [keys EXCEPT ![loc[r].cred] = loc[r].pw]
    BY <1>8 DEF InsertPasskey, insert_passkey, put_passkey
  <2>4. keys' \in [Creds -> 0..MaxMail]
    BY <1>1, <1>2, <2>3 DEF Tables
  <2> QED
    BY <1>2, <2>1, <2>2, <2>4 DEF Tables
<1>9. CASE DeleteKey(r)
  <2>1. UNCHANGED <<now, mail, home, totp, used, lockout, only, pending>>
    BY <1>9 DEF DeleteKey, delete_passkey, put_passkey
  <2>2. keys' = [keys EXCEPT ![loc[r].cred] = 0]
    BY <1>9 DEF DeleteKey, delete_passkey, put_passkey
  <2>3. keys' \in [Creds -> 0..MaxMail]
    <3>1. keys \in [Creds -> 0..MaxMail] /\ 0 \in 0..MaxMail
      BY <1>2 DEF Tables
    <3> QED
      BY ONLY <2>2, <3>1
  <2>4. list_passkeys' \subseteq list_passkeys
    <3>1. \A c \in Creds : keys'[c] = keys[c] \/ keys'[c] = 0
      BY <1>2, <2>2 DEF Tables
    <3> QED
      BY <3>1 DEF list_passkeys
  <2> QED
    BY <1>2, <2>1, <2>3, <2>4 DEF Tables
<1>10. CASE SetMode(r)
  <2>1. home
    BY <1>10 DEF SetMode, LoginInv, HomeFirst, Writes
  <2> QED
    BY <1>1, <1>2, <1>10, <2>1 DEF SetMode, set_passkey_only, Tables
<1> QED
  BY <1>3, <1>4, <1>5, <1>6, <1>7, <1>8, <1>9, <1>10

LEMMA WorldTyped ==
    ASSUME Bounded, TypeOK,
           \/ Tick \/ ChangePassword \/ RegisterBegin \/ SigninBegin
           \/ \E r \in Requests : Session(r) \/ RegisterComplete(r) \/ SigninComplete(r)
    PROVE  Tables'
<1> USE DEF Bounded, world, db
<1>1. Tables
  BY TypesSplit
<1>2. CASE Tick
  BY <1>1, <1>2 DEF Tick, Tables, list_passkeys
<1>3. CASE ChangePassword
  <2>1. UNCHANGED <<now, home, totp, used, lockout, keys, only, pending>>
    BY <1>3 DEF ChangePassword
  <2>2. mail' \in 1..MaxMail
    BY <1>1, <1>3 DEF ChangePassword, Tables
  <2> QED
    BY <1>1, <2>1, <2>2 DEF Tables, list_passkeys
<1>4. CASE \E r \in Requests : Session(r)
  <2>1. UNCHANGED <<now, mail, totp, used, lockout, keys, only, pending>> /\ home' = TRUE
    BY <1>4 DEF Session
  <2> QED
    BY <1>1, <2>1 DEF Tables
<1>5. ASSUME UNCHANGED <<world, db>>, pending' \in [Nonces -> Ceremonies] PROVE Tables'
  BY <1>1, <1>5 DEF Tables, list_passkeys
<1>6. ASSUME NEW n \in Nonces, NEW c \in Ceremonies, pending' = [pending EXCEPT ![n] = c]
      PROVE  pending' \in [Nonces -> Ceremonies]
  BY <1>1, <1>6 DEF Tables
<1>7. list_passkeys \subseteq Creds /\ Creds \ list_passkeys \subseteq Creds
  BY DEF list_passkeys
<1>8. CASE RegisterBegin
  <2> DEFINE c == [kind |-> "reg", creds |-> Creds \ list_passkeys]
  <2>1. PICK n \in Nonces : pending' = [pending EXCEPT ![n] = c]
    BY <1>8 DEF RegisterBegin, Fresh
  <2>2. c \in Ceremonies
    BY <1>7 DEF Ceremonies
  <2>3. UNCHANGED <<world, db>>
    BY <1>8 DEF RegisterBegin
  <2> HIDE DEF c
  <2> QED
    BY <1>5, <1>6, <2>1, <2>2, <2>3
<1>9. CASE SigninBegin
  <2> DEFINE c == IF home /\ has_passkeys THEN [kind |-> "auth", creds |-> list_passkeys]
                                         ELSE [kind |-> "fake", creds |-> {}]
  <2>1. PICK n \in Nonces : pending' = [pending EXCEPT ![n] = c]
    BY <1>9 DEF SigninBegin, Fresh
  <2>2. c \in Ceremonies
    BY <1>7 DEF Ceremonies
  <2>3. UNCHANGED <<world, db>>
    BY <1>9 DEF SigninBegin
  <2> HIDE DEF c
  <2> QED
    BY <1>5, <1>6, <2>1, <2>2, <2>3
<1>10. CASE \E r \in Requests : RegisterComplete(r) \/ SigninComplete(r)
  <2> DEFINE c == [kind |-> "spent", creds |-> {}]
  <2>1. UNCHANGED <<world, db>> /\ \E n \in Nonces : pending' = [pending EXCEPT ![n] = c]
    BY <1>10 DEF RegisterComplete, SigninComplete, Finish
  <2>2. c \in Ceremonies
    BY DEF Ceremonies
  <2> HIDE DEF c
  <2> QED
    BY <1>5, <1>6, <2>1, <2>2
<1> QED
  BY <1>2, <1>3, <1>4, <1>8, <1>9, <1>10

-----------------------------------------------------------------------------
(* A key is registered by a user who has a directory                       *)

LEMMA RegisteringKept ==
    ASSUME TypeOK, Registering, Step PROVE Registering'
<1>1. home => home'
  <2>1. CASE Tick \/ ChangePassword \/ RegisterBegin \/ SigninBegin
    BY <2>1 DEF Tick, ChangePassword, RegisterBegin, SigninBegin, world
  <2>2. ASSUME NEW r \in Requests,
               \/ Login(r) \/ GateSettings(r) \/ GateEnrolled(r) \/ LoadSecret(r)
               \/ LockCheck(r) \/ GateError(r) \/ StatementFails(r) \/ ImapAnswer(r)
               \/ NoServer(r) \/ Session(r)
        PROVE  home => home'
    BY <2>2 DEF Login, GateSettings, GateEnrolled, LoadSecret, LockCheck, GateError,
       StatementFails, ImapAnswer, NoServer, Session, world
  <2>3. ASSUME NEW r \in Requests,
               \/ CheckStep(r) \/ RecordStep(r) \/ ResetLockout(r) \/ CountFailure(r) \/ SetLock(r)
               \/ TotpConfirm(r) \/ UpsertSecret(r) \/ TotpDelete(r) \/ EraseSecret(r)
               \/ ForgetSteps(r) \/ Unlock(r)
        PROVE  home => home'
    BY <2>3 DEF CheckStep, RecordStep, ResetLockout, CountFailure, SetLock, TotpConfirm,
       UpsertSecret, TotpDelete, EraseSecret, ForgetSteps, Unlock, world
  <2>4. ASSUME NEW r \in Requests,
               \/ RegisterComplete(r) \/ InsertPasskey(r) \/ SigninComplete(r) \/ FetchPasskey(r)
               \/ PasskeyDelete(r) \/ ReadMode(r) \/ CountKeys(r) \/ DeleteKey(r)
               \/ PasskeyOnly(r) \/ AnyKey(r) \/ SetMode(r)
        PROVE  home => home'
    BY <2>4 DEF RegisterComplete, InsertPasskey, SigninComplete, FetchPasskey, PasskeyDelete,
       ReadMode, CountKeys, DeleteKey, PasskeyOnly, AnyKey, SetMode, world
  <2> QED
    BY <2>1, <2>2, <2>3, <2>4 DEF Step
<1>2. ASSUME NEW n \in Nonces, pending'[n].kind = "reg" PROVE pending[n].kind = "reg" \/ home
  <2>1. CASE UNCHANGED pending
    BY <1>2, <2>1
  <2>2. CASE RegisterBegin
    BY <2>2 DEF RegisterBegin
  <2>3. ASSUME NEW m \in Nonces, NEW c, pending' = [pending EXCEPT ![m] = c], c.kind # "reg"
        PROVE  pending[n].kind = "reg"
    BY <1>2, <2>3 DEF TypeOK
  <2>4. CASE SigninBegin
    <3> DEFINE c == IF home /\ has_passkeys THEN [kind |-> "auth", creds |-> list_passkeys]
                                           ELSE [kind |-> "fake", creds |-> {}]
    <3>1. PICK m \in Nonces : pending' = [pending EXCEPT ![m] = c]
      BY <2>4 DEF SigninBegin, Fresh
    <3>2. c.kind # "reg"
      OBVIOUS
    <3> HIDE DEF c
    <3> QED
      BY <2>3, <3>1, <3>2
  <2>5. CASE \E r \in Requests : RegisterComplete(r) \/ SigninComplete(r)
    <3> DEFINE c == [kind |-> "spent", creds |-> {}]
    <3>1. PICK m \in Nonces : pending' = [pending EXCEPT ![m] = c]
      BY <2>5 DEF RegisterComplete, SigninComplete, Finish
    <3>2. c.kind # "reg"
      OBVIOUS
    <3> HIDE DEF c
    <3> QED
      BY <2>3, <3>1, <3>2
  <2> QED
    BY <2>1, <2>2, <2>4, <2>5 DEF Step, Tick, ChangePassword, Login, GateSettings, GateEnrolled,
     LoadSecret, LockCheck, GateError, StatementFails, ImapAnswer, NoServer, Session, CheckStep,
     RecordStep, ResetLockout, CountFailure, SetLock, TotpConfirm, UpsertSecret, TotpDelete,
     EraseSecret, ForgetSteps, Unlock, InsertPasskey, FetchPasskey, PasskeyDelete, ReadMode,
     CountKeys, DeleteKey, PasskeyOnly, AnyKey, SetMode
<1>3. ASSUME NEW r \in Requests, pc'[r] = "insert" PROVE pc[r] = "insert" \/ home
  <2>1. CASE UNCHANGED pc
    BY <1>3, <2>1
  <2>2. ASSUME NEW u \in Requests, NEW l, Goto(u, l), l # "insert" PROVE pc[r] = "insert"
    BY <1>3, <2>2 DEF TypeOK, Goto
  <2>3. ASSUME NEW u \in Requests, RegisterComplete(u) PROVE home
    BY <2>3 DEF RegisterComplete, Registering
  <2>4. ASSUME NEW u \in Requests, Answer(u) PROVE pc[r] = "insert"
    BY <1>3, <2>4 DEF TypeOK, Answer
  <2>5. ASSUME NEW u \in Requests,
               \/ Login(u) \/ GateSettings(u) \/ GateEnrolled(u) \/ LoadSecret(u)
               \/ LockCheck(u) \/ GateError(u) \/ StatementFails(u)
               \/ ImapAnswer(u) \/ NoServer(u) \/ Session(u)
        PROVE  Answer(u) \/ \E l \in Pcs \ {"insert"} : Goto(u, l)
    <3>1. \A l \in {"settings", "imap", "enrolled", "locked", "secret", "step", "delete", "session", "count"} :
             l \in Pcs \ {"insert"}
      BY DEF Pcs
    <3>2. CASE Login(u) \/ GateSettings(u) \/ GateEnrolled(u) \/ LoadSecret(u)
      BY <3>1, <3>2 DEF Login, Begin, GateSettings, GateEnrolled, LoadSecret
    <3>3. CASE LockCheck(u) \/ GateError(u) \/ StatementFails(u)
      BY <3>1, <3>3 DEF LockCheck, GateError, StatementFails
    <3>4. CASE ImapAnswer(u) \/ NoServer(u) \/ Session(u)
      BY <3>1, <3>4 DEF ImapAnswer, NoServer, Session
    <3> QED
      BY <2>5, <3>2, <3>3, <3>4
  <2>6. ASSUME NEW u \in Requests,
               \/ CheckStep(u) \/ RecordStep(u) \/ ResetLockout(u) \/ CountFailure(u) \/ SetLock(u)
               \/ TotpConfirm(u) \/ UpsertSecret(u) \/ TotpDelete(u) \/ EraseSecret(u)
               \/ ForgetSteps(u) \/ Unlock(u)
        PROVE  Answer(u) \/ \E l \in Pcs \ {"insert"} : Goto(u, l)
    <3>1. \A l \in {"count", "use", "reset", "session", "upsert", "erase", "lock", "locked", "secret",
                    "forget", "unlock"} : l \in Pcs \ {"insert"}
      BY DEF Pcs
    <3>2. CASE CheckStep(u) \/ RecordStep(u) \/ ResetLockout(u) \/ CountFailure(u) \/ SetLock(u)
      BY <3>1, <3>2 DEF CheckStep, RecordStep, ResetLockout, CountFailure, SetLock
    <3>3. CASE TotpConfirm(u) \/ UpsertSecret(u) \/ TotpDelete(u)
      BY <3>1, <3>3 DEF TotpConfirm, UpsertSecret, TotpDelete, Begin
    <3>4. CASE EraseSecret(u) \/ ForgetSteps(u) \/ Unlock(u)
      BY <3>1, <3>4 DEF EraseSecret, ForgetSteps, Unlock
    <3> QED
      BY <2>6, <3>2, <3>3, <3>4
  <2>7. ASSUME NEW u \in Requests,
               \/ InsertPasskey(u) \/ SigninComplete(u) \/ FetchPasskey(u) \/ PasskeyDelete(u)
               \/ ReadMode(u) \/ CountKeys(u) \/ DeleteKey(u) \/ PasskeyOnly(u) \/ AnyKey(u)
               \/ SetMode(u)
        PROVE  Answer(u) \/ UNCHANGED pc \/ \E l \in Pcs \ {"insert"} : Goto(u, l)
    <3>1. \A l \in {"fetch", "imap", "mode", "last", "delete", "any", "set"} : l \in Pcs \ {"insert"}
      BY DEF Pcs
    <3>2. CASE InsertPasskey(u) \/ SigninComplete(u) \/ FetchPasskey(u) \/ PasskeyDelete(u)
      BY <3>1, <3>2 DEF InsertPasskey, SigninComplete, FetchPasskey, PasskeyDelete, Begin
    <3>3. CASE \/ ReadMode(u) \/ CountKeys(u) \/ DeleteKey(u) \/ PasskeyOnly(u) \/ AnyKey(u) \/ SetMode(u)
      BY <3>1, <3>3 DEF ReadMode, CountKeys, DeleteKey, PasskeyOnly, Begin, AnyKey, SetMode
    <3> QED
      BY <2>7, <3>2, <3>3
  <2>8. CASE Tick \/ ChangePassword \/ RegisterBegin \/ SigninBegin
    BY <2>1, <2>8 DEF Tick, ChangePassword, RegisterBegin, SigninBegin
  <2> QED
    BY <2>1, <2>2, <2>3, <2>4, <2>5, <2>6, <2>7, <2>8 DEF Step
<1> QED
  BY <1>1, <1>2, <1>3 DEF Registering

-----------------------------------------------------------------------------

LEMMA LoginTypesInit ==
    ASSUME Bounded, Init PROVE LoginTypes
<1> USE DEF Bounded
<1>1. Tables
  <2>1. keys \in [Creds -> {0, 1}] /\ only \in BOOLEAN
    BY DEF Init
  <2>2. keys \in [Creds -> 0..MaxMail]
    BY <2>1
  <2>3. NoCeremony \in Ceremonies
    BY DEF NoCeremony, Ceremonies
  <2>4. pending \in [Nonces -> Ceremonies]
    BY <2>3 DEF Init
  <2>5. home \/ (totp = None /\ list_passkeys = {} /\ ~only)
    <3>1. ~home => \A c \in Creds : keys[c] = 0
      BY DEF Init
    <3> QED
      BY <3>1 DEF Init, list_passkeys
  <2>6. /\ now \in 0..MaxTime /\ mail \in 1..MaxMail /\ home \in BOOLEAN
        /\ totp \in Secrets \cup {None} /\ used \subseteq 0..(MaxTime + 1)
        /\ lockout \in [count : Nat, until : Nat]
    BY DEF Init
  <2> QED
    BY <2>1, <2>2, <2>4, <2>5, <2>6 DEF Tables
<1>2. Placing
  <2>1. "idle" \in Pcs /\ NoLocals \in Locals
    BY LocalsTyped DEF Pcs
  <2> QED
    BY <2>1 DEF Placing, Init
<1>3. Remembering
  BY DEF Remembering, Init, Nothing
<1>4. Registering
  <2>1. \A n \in Nonces : pending[n].kind = "none"
    BY DEF Init, NoCeremony
  <2> QED
    BY <2>1 DEF Registering, Init
<1> QED
  BY <1>1, <1>2, <1>3, <1>4, TypesSplit DEF LoginTypes

LEMMA LoginTypesStep ==
    ASSUME Bounded, LoginInv, LoginTypes, [Next]_vars PROVE LoginTypes'
<1> USE DEF Bounded
<1>1. TypeOK /\ Registering /\ Tables /\ Placing /\ Remembering
  BY TypesSplit DEF LoginTypes
<1>2. CASE Next
  <2>1. Step /\ Watch
    BY <1>2 DEF Next
  <2>2. Registering'
    BY <1>1, <2>1, RegisteringKept
  <2>3. Remembering'
    <3>1. \A r \in Requests : seen[r] \in [mode : BOOLEAN, plain : BOOLEAN, open : BOOLEAN, key : BOOLEAN]
      BY <1>1 DEF Remembering
    <3>2. \A r \in Requests :
             seen'[r] \in [mode : BOOLEAN, plain : BOOLEAN, open : BOOLEAN, key : BOOLEAN]
      BY <2>1, <3>1 DEF Watch, Nothing
    <3>3. seen' = [r \in Requests |-> seen'[r]]
      BY <2>1 DEF Watch
    <3> HIDE DEF Bounded
    <3> QED
      BY <3>2, <3>3 DEF Remembering
  <2>4. Tables' /\ Placing'
    <3>1. CASE Tick \/ ChangePassword \/ RegisterBegin \/ SigninBegin
      <4>1. UNCHANGED <<pc, loc>>
        BY <3>1 DEF Tick, ChangePassword, RegisterBegin, SigninBegin
      <4> QED
        BY <1>1, <3>1, <4>1, WorldTyped DEF Placing
    <3>2. ASSUME NEW r \in Requests,
                 \/ Login(r) \/ TotpConfirm(r) \/ TotpDelete(r) \/ RegisterComplete(r)
                 \/ SigninComplete(r) \/ PasskeyDelete(r) \/ PasskeyOnly(r)
          PROVE  Tables' /\ Placing'
      <4>1. UNCHANGED <<world, db, pending>> \/ RegisterComplete(r) \/ SigninComplete(r)
        BY <3>2 DEF Login, TotpConfirm, TotpDelete, PasskeyDelete, PasskeyOnly
      <4> QED
        BY <1>1, <3>2, <4>1, BeginningPlaces, SameTables, WorldTyped DEF PlaceTyped, Placing
    <3>3. ASSUME NEW r \in Requests,
                 \/ GateSettings(r) \/ GateEnrolled(r) \/ LoadSecret(r) \/ LockCheck(r)
                 \/ GateError(r) \/ StatementFails(r) \/ ImapAnswer(r) \/ NoServer(r) \/ Session(r)
          PROVE  Tables' /\ Placing'
      <4>1. UNCHANGED <<world, db, pending>> \/ Session(r)
        BY <3>3 DEF GateSettings, GateEnrolled, LoadSecret, LockCheck, GateError, StatementFails,
           ImapAnswer, NoServer
      <4> QED
        BY <1>1, <3>3, <4>1, GatePlaces, SameTables, WorldTyped DEF PlaceTyped, Placing
    <3>4. ASSUME NEW r \in Requests,
                 \/ CheckStep(r) \/ RecordStep(r) \/ ResetLockout(r) \/ CountFailure(r) \/ SetLock(r)
                 \/ UpsertSecret(r) \/ EraseSecret(r) \/ ForgetSteps(r) \/ Unlock(r)
                 \/ InsertPasskey(r) \/ FetchPasskey(r) \/ ReadMode(r) \/ CountKeys(r) \/ DeleteKey(r)
                 \/ AnyKey(r) \/ SetMode(r)
          PROVE  Tables' /\ Placing'
      <4>1. \/ UNCHANGED <<world, db, pending>>
            \/ RecordStep(r) \/ ResetLockout(r) \/ CountFailure(r) \/ SetLock(r)
            \/ UpsertSecret(r) \/ EraseSecret(r) \/ ForgetSteps(r) \/ Unlock(r)
            \/ InsertPasskey(r) \/ DeleteKey(r) \/ SetMode(r)
        BY <3>4 DEF CheckStep, FetchPasskey, ReadMode, CountKeys, AnyKey
      <4> QED
        BY <1>1, <3>4, <4>1, CodePlaces, SameTables, RowsTyped DEF PlaceTyped, Placing
    <3> QED
      BY <2>1, <3>1, <3>2, <3>3, <3>4 DEF Step
  <2> QED
    BY <2>2, <2>3, <2>4, TypesSplit DEF LoginTypes, TypeOK, Tables, Placing, Remembering, Ceremonies
<1>3. CASE UNCHANGED vars
  BY <1>3 DEF vars, world, db, LoginTypes, TypeOK, Registering, list_passkeys
<1> QED
  BY <1>2, <1>3

\* The types hold for any number of requests, keys, secrets and ceremonies; in
\* particular nothing is stored for a user without a directory (routes/mfa.rs,
\* with_user_db).
THEOREM LoginTypeCorrect ==
    ASSUME None \notin Creds, MaxTime \in Nat \ {0}, MaxMail \in Nat \ {0}, LockTime \in Nat
    PROVE  Spec => []TypeOK
<1>1. Bounded
  BY DEF Bounded
<1>2. Init => LoginInv /\ LoginTypes
  BY <1>1, LoginInit, LoginTypesInit
<1>3. LoginInv /\ LoginTypes /\ [Next]_vars => (LoginInv /\ LoginTypes)'
  BY <1>1, LoginStep, LoginTypesStep
<1>4. LoginTypes => TypeOK
  BY DEF LoginTypes
<1> QED
  BY <1>2, <1>3, <1>4, PTL DEF Spec

=============================================================================
