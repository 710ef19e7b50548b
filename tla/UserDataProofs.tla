---------------------------- MODULE UserDataProofs ----------------------------
(***************************************************************************)
(* What is proved of each part holds of UserData: a behaviour of UserData  *)
(* that is one part's is a behaviour of that part's specification.  The    *)
(* proofs about signing in and folders are in modules of their own.        *)
(***************************************************************************)
EXTENDS UserData, FiniteSetTheorems, WellFoundedInduction, TLAPS

-----------------------------------------------------------------------------
(* A set of numbers has a least one, and if it is bounded a greatest one:  *)
(* what is proved by a least counterexample.                               *)

LEMMA NatOrder ==
    \E R : IsWellFoundedOn(R, Nat) /\ \A x, y \in Nat : y < x => <<y, x>> \in R
<1>1. \A x, y \in Nat : y < x => <<y, x>> \in OpToRel(<, Nat)
  BY DEF OpToRel
<1> QED BY <1>1, NatLessThanWellFounded

LEMMA LeastExists ==
    ASSUME NEW T, T \subseteq Nat, T # {}
    PROVE  \E x \in T : \A y \in T : x <= y
<1>1. PICK R : IsWellFoundedOn(R, Nat) /\ \A x, y \in Nat : y < x => <<y, x>> \in R
  BY NatOrder
<1> DEFINE Below(y, x) == <<y, x>> \in R
<1>2. \E x \in T : \A y \in T : ~ Below(y, x)
  BY <1>1, WFMin
<1>3. \A x, y \in Nat : y < x => Below(y, x)
  BY <1>1
<1> HIDE DEF Below
<1> QED BY <1>2, <1>3

LEMMA MostExists ==
    ASSUME NEW T, T \subseteq Nat, T # {}, NEW n \in Nat, \A x \in T : x <= n
    PROVE  \E x \in T : \A y \in T : y <= x
<1> DEFINE Bounds == {m \in Nat : \A x \in T : x <= m}
<1>1. PICK m \in Bounds : \A k \in Bounds : m <= k
  <2>1. Bounds \subseteq Nat /\ n \in Bounds
    OBVIOUS
  <2> HIDE DEF Bounds
  <2> QED BY <2>1, LeastExists
<1>2. m \in T
  <2> SUFFICES ASSUME m \notin T PROVE FALSE
    OBVIOUS
  <2>1. \A x \in T : x < m
    BY <1>1
  <2>2. m # 0
    <3>1. PICK z \in T : z \in Nat
      OBVIOUS
    <3>2. z < m /\ m \in Nat
      BY <2>1, <3>1
    <3> QED BY <3>1, <3>2
  <2>3. m - 1 \in Bounds
    BY <1>1, <2>1, <2>2
  <2> QED BY <1>1, <2>3
<1> QED BY <1>1, <1>2

-----------------------------------------------------------------------------
(* What is assumed of the constants, by part                               *)

LEMMA MailAssumed ==
    /\ From \in Seq(Senders) /\ Never \notin Nat
    /\ \A b \in MailBudgets : \A what \in DOMAIN b : b[what] \in Nat
BY UserDataAssumption

LEMMA SearchAssumed ==
    /\ Limit \in Nat /\ None \notin Tasks
    /\ None \notin [do : {"commit"}, key : Keys,
                   doc : {None} \cup [head : Contents, body : {None} \cup Contents],
                   next : {None} \cup [do : {"deep"}, todo : SUBSET Keys]]
BY UserDataAssumption

LEMMA BookAssumed ==
    None \notin Tasks /\ Card \in Seq(Emails) /\ MaxRequests \in Nat /\ IsFiniteSet(Emails)
BY UserDataAssumption

LEMMA TimesAssumed ==
    /\ LET Times == [at : Int, form : {"date", "local", "millis", "zulu"}] IN
          DateTexts \subseteq Times /\ Windows \subseteq Times \X Times
    /\ Rules \subseteq [every : Nat \ {0}, count : Nat]
    /\ None \notin Int
BY UserDataAssumption

LEMMA CalendarAssumed ==
    /\ Files \subseteq Seq([start : DateTexts, end : DateTexts \cup {None},
                           rule : Rules \cup {None}, uid : SourceUids \cup {None}])
    /\ MaxListed \in Nat /\ IsFiniteSet(Nonces) /\ CalRequests \in Nat
BY UserDataAssumption

LEMMA PoolAssumed ==
    /\ IsFiniteSet(Tasks) /\ IsFiniteSet(Emails) /\ None \notin Emails /\ None \notin Tasks
    /\ max_idle \in Nat /\ max_age \in Nat /\ Logout \in Nat
    /\ MAX_CONCURRENT_CONNECTS_PER_ACCOUNT \in Nat
    /\ max_age <= Logout /\ 0 < Logout
    /\ Cardinality(Emails) >= Cardinality(Tasks) + max_idle
BY UserDataAssumption

-----------------------------------------------------------------------------
(* A behaviour stays with the part it begins in.                           *)

LEMMA PartFixed == [Next]_vars => part' = part
  BY DEF Next, vars, SigningIn, MailArrives, Notifying, Addressing, Planning, Labelling,
         Filing, Searching, Calling

-----------------------------------------------------------------------------
(* Push                                                                    *)

\* A stored password that was rejected carries the mark, or the loop is about to
\* write it; the loop unseals no marked password, and none while the task of the
\* user runs; it neither probes a rejected one nor starts a task with it.
PushMarked ==
    /\ cred.pw \in rejected => (cred.bad \/ at = "mark")
    /\ at = "decrypt" => ~cred.bad
    /\ at \in {"probe", "start"} => using \notin rejected
    /\ at \in {"decrypt", "probe", "start"} => running = 0
    /\ running \notin rejected

PushInv == P!TypeOK /\ (unmarked \/ PushMarked)

LEMMA PushStarts == ASSUME MaxEvents \in Nat PROVE P!Init => P!TypeOK /\ PushMarked
<1> SUFFICES ASSUME P!Init PROVE P!TypeOK /\ PushMarked
  OBVIOUS
<1> USE DEF P!Init
<1>1. stored \in Nat /\ cred \in [pw : 0..stored, bad : BOOLEAN]
  OBVIOUS
<1>2. subs \subseteq Endpoints /\ alive \subseteq Endpoints /\ todo \subseteq Endpoints /\ gone \subseteq Endpoints
  OBVIOUS
<1>3. at \in P!Places /\ at # "probe" /\ using \in 0..stored /\ running \in 0..stored /\ events \in 0..MaxEvents
  BY DEF P!Places
<1>4. deleting \in BOOLEAN /\ unmarked \in BOOLEAN /\ {idling, pooled} \subseteq BOOLEAN
  OBVIOUS
<1>5. valid \subseteq 1..stored /\ sealed \subseteq 1..stored /\ rejected \subseteq 1..stored
  OBVIOUS
<1>6. PushMarked
  BY DEF PushMarked
<1> QED BY <1>1, <1>2, <1>3, <1>4, <1>5, <1>6 DEF P!TypeOK

\* The passwords, the database and the P!loop keep their types (P!db/push.rs).
LEMMA PushTypeKept ==
    ASSUME P!TypeOK, [P!Next]_(P!vars), MaxEvents \in Nat
    PROVE  P!TypeOK'
<1> USE DEF P!TypeOK, P!Places, P!vars, P!db, P!loop, P!idle, P!outside, P!history, P!Woken, P!Spend
<1>1. CASE P!store_credential
  BY <1>1 DEF P!store_credential
<1>2. CASE P!delete_credential
  BY <1>2 DEF P!delete_credential
<1>3. CASE P!delete_subscriptions
  BY <1>3 DEF P!delete_subscriptions
<1>4. CASE P!subscribe \/ P!unsubscribe
  BY <1>4 DEF P!subscribe, P!unsubscribe
<1>5. CASE P!Scan
  BY <1>5 DEF P!Scan
<1>6. CASE P!decrypt_credentials
  BY <1>6 DEF P!decrypt_credentials
<1>7. CASE P!credential_still_works
  <2>1. using \in 1..stored
    BY <1>7 DEF P!credential_still_works
  <2>2. rejected' \subseteq 1..stored /\ at' \in P!Places /\ at' # "probe"
    BY <1>7, <2>1 DEF P!credential_still_works
  <2>3. UNCHANGED <<P!db, using, P!idle, valid, sealed, alive, unmarked>> /\ pooled' \in BOOLEAN
    BY <1>7 DEF P!credential_still_works
  <2> QED BY <2>2, <2>3
<1>8. CASE P!Mark
  BY <1>8 DEF P!Mark, P!mark_invalid
<1>9. CASE P!start_for_user \/ P!Rescan
  BY <1>9 DEF P!start_for_user, P!Rescan
<1>10. CASE P!NewMail \/ P!TakeEvent
  <2>1. events' \in 0..MaxEvents
    BY <1>10 DEF P!NewMail, P!TakeEvent
  <2>2. todo' \subseteq Endpoints
    BY <1>10 DEF P!NewMail, P!TakeEvent
  <2> QED BY <1>10, <2>1, <2>2 DEF P!NewMail, P!TakeEvent
<1>11. CASE P!send \/ P!DropGone
  BY <1>11 DEF P!send, P!DropGone
<1>12. CASE P!Revoke \/ P!Expire
  BY <1>12 DEF P!Revoke, P!Expire
<1>13. CASE P!Restart
  <2>1. sealed' \subseteq 1..stored' /\ valid' \subseteq 1..stored' /\ rejected' \subseteq 1..stored'
    BY <1>13 DEF P!Restart
  <2>2. unmarked' \in BOOLEAN
    BY <1>13, Zenon DEF P!Restart
  <2>3. events' \in 0..MaxEvents /\ running' \in 0..stored' /\ using' \in 0..stored'
    BY <1>13 DEF P!Restart
  <2> QED BY <1>13, <2>1, <2>2, <2>3 DEF P!Restart
<1>14. CASE UNCHANGED P!vars
  BY <1>14
<1>15. CASE P!run_idle_session \/ P!IdleBreaks \/ P!Pooled
  <2>1. idling' \in BOOLEAN /\ pooled' \in BOOLEAN
    BY <1>15, Zenon DEF P!run_idle_session, P!IdleBreaks, P!Pooled
  <2> QED BY <1>15, <2>1 DEF P!run_idle_session, P!IdleBreaks, P!Pooled
<1> QED BY <1>1, <1>2, <1>3, <1>4, <1>5, <1>6, <1>7, <1>8, <1>9, <1>10, <1>11, <1>12, <1>13, <1>14, <1>15 DEF P!Next

\* No step brings a rejected password back before the mail server.
LEMMA PushMarkedKept ==
    ASSUME P!TypeOK, PushMarked, [P!Next]_(P!vars), ~unmarked'
    PROVE  PushMarked'
<1> USE DEF P!TypeOK, PushMarked, P!Places, P!vars, P!db, P!loop, P!idle, P!outside, P!history, P!Woken
<1>1. CASE P!store_credential
  <2>1. stored' \notin rejected /\ cred'.pw = stored'
    BY <1>1 DEF P!store_credential
  <2> QED BY <1>1, <2>1 DEF P!store_credential
<1>2. CASE P!delete_credential
  BY <1>2 DEF P!delete_credential
<1>3. CASE P!delete_subscriptions \/ P!subscribe \/ P!unsubscribe
  BY <1>3 DEF P!delete_subscriptions, P!subscribe, P!unsubscribe
<1>4. CASE P!Scan
  BY <1>4 DEF P!Scan, P!users_with_push
<1>5. CASE P!decrypt_credentials
  BY <1>5 DEF P!decrypt_credentials
<1>6. CASE P!credential_still_works
  BY <1>6 DEF P!credential_still_works
<1>7. CASE P!Mark
  BY <1>7 DEF P!Mark, P!mark_invalid
<1>8. CASE P!start_for_user \/ P!Rescan
  BY <1>8 DEF P!start_for_user, P!Rescan
<1>9. CASE \/ P!NewMail \/ P!TakeEvent \/ P!send \/ P!DropGone \/ P!Revoke \/ P!Expire
           \/ P!run_idle_session \/ P!IdleBreaks \/ P!Pooled
  BY <1>9 DEF P!NewMail, P!TakeEvent, P!send, P!DropGone, P!Revoke, P!Expire,
     P!run_idle_session, P!IdleBreaks, P!Pooled
<1>10. CASE P!Restart
  <2>1. cred' = cred /\ rejected' = rejected /\ at' = "scan" /\ running' = 0 /\ at # "mark"
    BY <1>10 DEF P!Restart
  <2>2. 0 \notin rejected
    OBVIOUS
  <2> QED BY <2>1, <2>2
<1>11. CASE UNCHANGED P!vars
  BY <1>11
<1> QED BY <1>1, <1>2, <1>3, <1>4, <1>5, <1>6, <1>7, <1>8, <1>9, <1>10, <1>11 DEF P!Next

\* A mark that could not be written is remembered as such.
LEMMA PushUnmarkedStays == ASSUME unmarked, [P!Next]_(P!vars) PROVE unmarked'
BY DEF P!Next, P!vars, P!db, P!loop, P!idle, P!outside, P!history, P!store_credential, P!delete_credential,
       P!delete_subscriptions, P!subscribe, P!unsubscribe, P!Scan, P!decrypt_credentials,
       P!credential_still_works, P!Mark, P!start_for_user, P!Rescan, P!NewMail, P!TakeEvent, P!send,
       P!DropGone, P!Revoke, P!Expire, P!Restart, P!run_idle_session, P!IdleBreaks, P!Pooled

\* The inductive invariant holds for every set of registrations, every bound and
\* every budget.
THEOREM PushInvariant == ASSUME MaxEvents \in Nat PROVE P!Spec => []PushInv
<1>1. P!Init => PushInv
  BY PushStarts DEF PushInv
<1>2. PushInv /\ [P!Next]_(P!vars) => PushInv'
  <2> SUFFICES ASSUME PushInv, [P!Next]_(P!vars) PROVE PushInv'
    OBVIOUS
  <2>1. P!TypeOK'
    BY PushTypeKept DEF PushInv
  <2>2. CASE unmarked
    BY <2>1, <2>2, PushUnmarkedStays DEF PushInv
  <2>3. CASE ~unmarked
    BY <2>1, <2>3, PushMarkedKept DEF PushInv
  <2> QED BY <2>2, <2>3
<1> QED BY <1>1, <1>2, PTL DEF P!Spec

\* A password that was rejected to the loop is neither probed nor given to IDLE
\* again (push/worker.rs:171), over rescans, requests, pooled sessions and
\* restarts.
THEOREM PushNeverRetried == ASSUME MaxEvents \in Nat PROVE P!Spec => []P!NeverRetried
<1>1. PushInv => P!NeverRetried
  BY DEF PushInv, PushMarked, P!NeverRetried
<1> QED BY <1>1, PushInvariant, PTL

LEMMA PushVars == UNCHANGED pushVars => UNCHANGED P!vars
  BY DEF pushVars, P!vars, P!db, P!loop, P!idle, P!outside, P!history

LEMMA PushBehaviour == Spec /\ part = "push" => P!Spec
<1>1. Init /\ part = "push" => P!Init
  BY DEF Init
<1>2. part = "push" /\ [Next]_vars => [P!Next]_(P!vars)
  <2> SUFFICES ASSUME part = "push", [Next]_vars PROVE P!Next \/ UNCHANGED P!vars
    OBVIOUS
  <2>1. CASE Notifying
    BY <2>1 DEF Notifying
  <2>2. CASE UNCHANGED vars
    BY <2>2, PushVars DEF vars
  <2> QED
    BY <2>1, <2>2 DEF Next, SigningIn, MailArrives, Notifying, Addressing, Planning,
       Labelling, Filing, Searching, Calling
<1>3. part = "push" /\ [Next]_vars => (part = "push")'
  BY PartFixed
<1> QED
  BY <1>1, <1>2, <1>3, PTL DEF Spec, P!Spec

-----------------------------------------------------------------------------
(* The connections to the mail server                                      *)

CallFields == {"call", "uids", "conn", "at"}

CallsOK == /\ DOMAIN calls = Tasks
          /\ \A t \in Tasks : calls[t] # None => DOMAIN calls[t] = CallFields

\* What somebody asked to delete, or has been copied already.
MailIsSafe == target \cup wanted

StoreSafe == \A t \in Tasks : I!At(t, "store") => calls[t].uids \cap folder \subseteq MailIsSafe

ExpungeAsked ==
    \A t \in Tasks : calls[t] # None /\ calls[t].call = "expunge" => calls[t].uids \subseteq wanted

CallInv == CallsOK /\ StoreSafe /\ ExpungeAsked /\ marked \subseteq MailIsSafe /\ I!NothingLost

\* What every command but I!acquire does to the calls under way: none becomes
\* another one.
CallsKept ==
    \A u \in Tasks : calls'[u] # None =>
        calls[u] # None /\ calls'[u].uids = calls[u].uids /\ calls'[u].call = calls[u].call

\* The calls that come to flag messages with this step.
NoneToStore == \A u \in Tasks : I!At(u, "store")' => I!At(u, "store")

LEMMA GotoKeeps ==
    ASSUME CallsOK, NEW t \in Tasks, calls[t] # None, NEW s, I!Goto(t, s)
    PROVE  /\ CallsOK' /\ CallsKept
           /\ \A u \in Tasks : u # t => calls'[u] = calls[u]
           /\ calls'[t] # None => calls'[t].at = s
<1>1. DOMAIN calls[t] = CallFields
  BY DEF CallsOK
<1>2. calls' = [calls EXCEPT ![t] = [calls[t] EXCEPT !.at = s]]
  BY DEF I!Goto
<1>3. calls'[t] = [calls[t] EXCEPT !.at = s] /\ \A u \in Tasks : u # t => calls'[u] = calls[u]
  BY <1>2 DEF CallsOK
<1>4. DOMAIN calls'[t] = CallFields /\ calls'[t].at = s /\ calls'[t].uids = calls[t].uids /\ calls'[t].call = calls[t].call
  BY <1>1, <1>3 DEF CallFields
<1>5. CallsOK'
  BY <1>2, <1>3, <1>4 DEF CallsOK
<1>6. CallsKept
  BY <1>3, <1>4 DEF CallsKept
<1> QED BY <1>3, <1>4, <1>5, <1>6

LEMMA EndedKeeps ==
    ASSUME CallsOK, NEW t \in Tasks, I!Ended(t)
    PROVE  CallsOK' /\ CallsKept /\ NoneToStore
<1>1. DOMAIN calls' = Tasks /\ calls'[t] = None /\ \A u \in Tasks : u # t => calls'[u] = calls[u]
  BY DEF I!Ended, CallsOK
<1> QED BY <1>1 DEF CallsOK, CallsKept, NoneToStore, I!At

LEMMA SameCalls ==
    ASSUME CallsOK, calls' = calls PROVE CallsOK' /\ CallsKept /\ NoneToStore
BY DEF CallsOK, CallsKept, NoneToStore, I!At

\* Mail is only taken out of the folder when it is safe.
MailStaysSafe ==
    /\ folder' \subseteq folder /\ target \subseteq target' /\ wanted \subseteq wanted'
    /\ folder \ folder' \subseteq MailIsSafe'
    /\ marked' \subseteq MailIsSafe'

\* The step that keeps all calls and lets none come to the flagging.
LEMMA QuietStep ==
    ASSUME CallInv, CallsOK', CallsKept, NoneToStore, MailStaysSafe
    PROVE  CallInv'
<1>1. StoreSafe'
  <2> SUFFICES ASSUME NEW u \in Tasks, I!At(u, "store")' PROVE (calls[u].uids \cap folder)' \subseteq MailIsSafe'
    BY DEF StoreSafe
  <2>1. I!At(u, "store") /\ calls'[u] # None
    BY DEF NoneToStore, I!At
  <2>2. calls'[u].uids = calls[u].uids
    BY <2>1 DEF CallsKept
  <2> QED BY <2>1, <2>2 DEF CallInv, StoreSafe, MailIsSafe, MailStaysSafe
<1>2. ExpungeAsked'
  BY DEF CallInv, ExpungeAsked, CallsKept, MailStaysSafe
<1>3. I!NothingLost'
  BY DEF CallInv, I!NothingLost, MailStaysSafe, MailIsSafe
<1> QED BY <1>1, <1>2, <1>3 DEF CallInv, MailStaysSafe

\* A step towards the flagging of what is safe.
LEMMA ToStore ==
    ASSUME CallInv, NEW t \in Tasks, calls[t] # None, I!Goto(t, "store"), MailStaysSafe,
           calls[t].uids \cap folder' \subseteq MailIsSafe'
    PROVE  CallInv'
<1>1. CallsOK' /\ CallsKept /\ \A u \in Tasks : u # t => calls'[u] = calls[u]
  BY GotoKeeps DEF CallInv
<1>2. StoreSafe'
  <2> SUFFICES ASSUME NEW u \in Tasks, I!At(u, "store")' PROVE (calls[u].uids \cap folder)' \subseteq MailIsSafe'
    BY DEF StoreSafe
  <2>1. CASE u = t
    <3>1. calls'[t].uids = calls[t].uids
      BY <1>1, <2>1 DEF CallsKept, I!At
    <3> QED BY <3>1, <2>1
  <2>2. CASE u # t
    <3>1. I!At(u, "store") /\ calls'[u] = calls[u]
      BY <1>1, <2>2 DEF I!At
    <3> QED BY <3>1 DEF CallInv, StoreSafe, MailIsSafe, MailStaysSafe
  <2> QED BY <2>1, <2>2
<1>3. ExpungeAsked'
  BY <1>1 DEF CallInv, ExpungeAsked, CallsKept, MailStaysSafe
<1>4. I!NothingLost'
  BY DEF CallInv, I!NothingLost, MailStaysSafe, MailIsSafe
<1> QED BY <1>1, <1>2, <1>3, <1>4 DEF CallInv, MailStaysSafe

\* A step to any other command.
LEMMA GotoQuiet ==
    ASSUME CallInv, NEW t \in Tasks, calls[t] # None, NEW s, I!Goto(t, s), s # "store", MailStaysSafe
    PROVE  CallInv'
<1>1. /\ CallsOK' /\ CallsKept
      /\ \A u \in Tasks : u # t => calls'[u] = calls[u]
      /\ calls'[t] # None => calls'[t].at = s
  BY GotoKeeps DEF CallInv
<1>2. NoneToStore
  BY <1>1 DEF NoneToStore, I!At
<1> QED BY <1>1, <1>2, QuietStep

LEMMA SameMail == ASSUME CallInv, UNCHANGED <<I!mail, wanted>> PROVE MailStaysSafe
BY DEF CallInv, MailStaysSafe, MailIsSafe, I!mail

LEMMA AcquireKeeps ==
    ASSUME CallInv, NEW t \in Tasks, NEW call, NEW U, I!acquire(t, call, U)
    PROVE  CallInv'
<1> DEFINE new == [call |-> call, uids |-> U, conn |-> I!take.conn,
                   at |-> IF I!take.conn = None THEN "permit" ELSE I!First(call)]
<1>1. calls' = [calls EXCEPT ![t] = new] /\ DOMAIN calls = Tasks /\ calls[t] = None
  BY DEF I!acquire, CallInv, CallsOK
<1>2. calls'[t] = new /\ \A u \in Tasks : u # t => calls'[u] = calls[u]
  BY <1>1
<1>3. DOMAIN new = CallFields /\ new.call = call /\ new.uids = U
  BY DEF CallFields
<1>4. new.at # "store"
  <2>1. I!First(call) # "store"
    BY DEF I!First
  <2> QED BY <2>1
<1> HIDE DEF new
<1>5. /\ UNCHANGED I!mail
      /\ wanted \subseteq wanted' /\ (call = "expunge" => U \subseteq wanted')
  BY DEF I!acquire
<1>6. CallsOK'
  BY <1>1, <1>2, <1>3 DEF CallInv, CallsOK
<1>7. StoreSafe'
  <2> SUFFICES ASSUME NEW u \in Tasks, I!At(u, "store")' PROVE (calls[u].uids \cap folder)' \subseteq MailIsSafe'
    BY DEF StoreSafe
  <2>1. u # t
    BY <1>2, <1>4 DEF I!At
  <2>2. I!At(u, "store") /\ calls'[u] = calls[u]
    BY <1>2, <2>1 DEF I!At
  <2> QED BY <1>5, <2>2 DEF CallInv, StoreSafe, MailIsSafe, I!mail
<1>8. ExpungeAsked'
  <2> SUFFICES ASSUME NEW u \in Tasks, calls'[u] # None, calls'[u].call = "expunge"
               PROVE calls'[u].uids \subseteq wanted'
    BY DEF ExpungeAsked
  <2> QED BY <1>2, <1>3, <1>5 DEF CallInv, ExpungeAsked
<1>9. (marked \subseteq MailIsSafe)' /\ I!NothingLost'
  BY <1>5 DEF CallInv, I!NothingLost, MailIsSafe, I!mail
<1> QED BY <1>6, <1>7, <1>8, <1>9 DEF CallInv

\* The connections change, the I!mail does not.
LEMMA ConnectionSteps ==
    ASSUME CallInv, NEW t \in Tasks,
           \/ I!connect_limit(t) \/ I!connect(t) \/ I!classify_login_error(t) \/ I!release(t) \/ I!Dropped(t)
    PROVE  CallInv'
<1>1. MailStaysSafe
  BY SameMail DEF I!connect_limit, I!connect, I!classify_login_error, I!release, I!Dropped
<1>2. CASE I!connect_limit(t)
  BY <1>1, <1>2, GotoQuiet DEF I!connect_limit, I!At
<1>3. CASE I!connect(t)
  <2>1. calls[t] # None /\ DOMAIN calls = Tasks /\ DOMAIN calls[t] = CallFields
    BY <1>3 DEF I!connect, I!At, CallInv, CallsOK
  <2> PICK c : calls' = [calls EXCEPT ![t].conn = c, ![t].at = I!First(calls[t].call)]
    BY <1>3 DEF I!connect
  <2>2. /\ \A u \in Tasks : u # t => calls'[u] = calls[u]
        /\ DOMAIN calls' = Tasks /\ DOMAIN calls'[t] = CallFields
        /\ calls'[t].uids = calls[t].uids /\ calls'[t].call = calls[t].call
        /\ calls'[t].at = I!First(calls[t].call)
    BY <2>1 DEF CallFields
  <2>3. I!First(calls[t].call) # "store"
    BY DEF I!First
  <2>4. CallsOK'
    BY <2>1, <2>2 DEF CallInv, CallsOK
  <2>5. CallsKept
    BY <2>1, <2>2 DEF CallsKept
  <2>6. NoneToStore
    BY <2>2, <2>3 DEF NoneToStore, I!At
  <2> QED BY <1>1, <2>4, <2>5, <2>6, QuietStep
<1>4. CASE I!classify_login_error(t) \/ I!release(t) \/ I!Dropped(t)
  <2>1. I!Ended(t)
    BY <1>4 DEF I!classify_login_error, I!release, I!Dropped
  <2> QED BY <1>1, <2>1, EndedKeeps, QuietStep DEF CallInv
<1> QED BY <1>2, <1>3, <1>4

\* The commands that leave I!mail alone, and the calls that go on without it.
LEMMA ReadingSteps ==
    ASSUME CallInv, NEW t \in Tasks,
           \/ I!list_folders(t) \/ I!StreamEnds(t) \/ I!fetch_folder_size(t) \/ I!get_quota(t) \/ I!select(t)
    PROVE  CallInv'
<1>1. MailStaysSafe
  BY SameMail DEF I!list_folders, I!StreamEnds, I!fetch_folder_size, I!get_quota, I!select, I!Talk, I!Unread
<1>2. CASE I!list_folders(t) \/ I!fetch_folder_size(t) \/ I!get_quota(t)
  <2>1. calls[t] # None /\ I!Goto(t, "release")
    BY <1>2 DEF I!list_folders, I!fetch_folder_size, I!get_quota, I!At, I!Talk, I!Unread
  <2> QED BY <1>1, <2>1, GotoQuiet
<1>3. CASE I!StreamEnds(t)
  <2>1. calls[t] # None /\ (I!Goto(t, "expunge") \/ I!Goto(t, "uid_expunge") \/ I!Goto(t, "release"))
    BY <1>3 DEF I!StreamEnds
  <2> QED BY <1>1, <2>1, GotoQuiet
<1>4. CASE I!select(t)
  <2>1. calls[t] # None
    BY <1>4 DEF I!select, I!At
  <2>2. CASE calls[t].call = "expunge"
    <3>1. I!Goto(t, "store") /\ UNCHANGED I!mail
      BY <1>4, <2>2 DEF I!select, I!Talk
    <3>2. calls[t].uids \cap folder' \subseteq MailIsSafe'
      BY <1>1, <2>1, <2>2 DEF CallInv, ExpungeAsked, MailIsSafe, MailStaysSafe
    <3> QED BY <1>1, <2>1, <3>1, <3>2, ToStore
  <2>3. CASE calls[t].call # "expunge"
    <3>1. I!Goto(t, "mv") \/ I!Goto(t, "size") \/ I!Goto(t, "release")
      BY <1>4, <2>3 DEF I!select, I!Talk
    <3> QED BY <1>1, <2>1, <3>1, GotoQuiet
  <2> QED BY <2>2, <2>3
<1> QED BY <1>2, <1>3, <1>4

\* The commands that copy, flag and remove.
LEMMA RemovingSteps ==
    ASSUME CallInv, NEW t \in Tasks,
           \/ I!move_message_bulk(t) \/ I!uid_copy(t) \/ I!uid_store(t) \/ I!expunge_message_bulk(t) \/ I!Expunge(t)
    PROVE  CallInv'
<1> USE DEF I!Chosen
<1>1. CASE I!move_message_bulk(t)
  <2>1. calls[t] # None /\ (I!Goto(t, "release") \/ I!Goto(t, "copy")) /\ wanted' = wanted
    BY <1>1 DEF I!move_message_bulk, I!At, I!Talk
  <2>2. MailStaysSafe
    BY <1>1 DEF I!move_message_bulk, I!Talk, CallInv, MailStaysSafe, MailIsSafe, I!mail
  <2> QED BY <2>1, <2>2, GotoQuiet
<1>2. CASE I!uid_copy(t)
  <2>1. calls[t] # None /\ I!Goto(t, "store") /\ wanted' = wanted
    BY <1>2 DEF I!uid_copy, I!At, I!Talk
  <2>2. MailStaysSafe
    BY <1>2 DEF I!uid_copy, I!Talk, CallInv, MailStaysSafe, MailIsSafe
  <2>3. calls[t].uids \cap folder' \subseteq MailIsSafe'
    BY <1>2 DEF I!uid_copy, MailIsSafe
  <2> QED BY <2>1, <2>2, <2>3, ToStore
<1>3. CASE I!uid_store(t)
  <2>1. calls[t] # None /\ (I!Goto(t, "expunge") \/ I!Goto(t, "uid_expunge")) /\ wanted' = wanted
    BY <1>3 DEF I!uid_store, I!At, I!Talk
  <2>2. MailStaysSafe
    BY <1>3, <2>1 DEF I!uid_store, CallInv, StoreSafe, MailStaysSafe, MailIsSafe
  <2> QED BY <2>1, <2>2, GotoQuiet
<1>4. CASE I!expunge_message_bulk(t) \/ I!Expunge(t)
  <2>1. calls[t] # None /\ (I!Goto(t, "release") \/ I!Goto(t, "expunge")) /\ wanted' = wanted
    BY <1>4 DEF I!expunge_message_bulk, I!Expunge, I!At, I!Talk
  <2>2. MailStaysSafe
    BY <1>4, <2>1 DEF I!expunge_message_bulk, I!Expunge, I!Erase, CallInv, MailStaysSafe, MailIsSafe, I!mail
  <2> QED BY <2>1, <2>2, GotoQuiet
<1> QED BY <1>1, <1>2, <1>3, <1>4

\* The network, the server, other clients, the clock.
LEMMA OutsideSteps ==
    ASSUME CallInv,
           \/ \E c \in Emails : I!Cut(c) \/ I!LogOut(c)
           \/ \E u \in MailUids : I!Mark(u)
           \/ I!Tick
           \/ UNCHANGED I!vars
    PROVE  CallInv'
<1>1. calls' = calls
  BY DEF I!Cut, I!LogOut, I!Mark, I!Tick, I!vars
<1>2. MailStaysSafe
  BY DEF I!Cut, I!LogOut, I!Mark, I!Tick, I!vars, CallInv, MailStaysSafe, MailIsSafe, I!mail
<1> QED BY <1>1, <1>2, SameCalls, QuietStep DEF CallInv

\* The inductive invariant, for any number of connections, calls and messages.
THEOREM ImapInvariant == I!Spec => []CallInv
<1>1. I!Init => CallInv
  BY DEF I!Init, CallInv, CallsOK, StoreSafe, ExpungeAsked, I!NothingLost, MailIsSafe, I!At
<1>2. CallInv /\ [I!Next]_(I!vars) => CallInv'
  <2> SUFFICES ASSUME CallInv, [I!Next]_(I!vars) PROVE CallInv'
    OBVIOUS
  <2>1. CASE \E t \in Tasks : I!Step(t)
    <3> PICK t \in Tasks : I!Step(t)
      BY <2>1
    <3>1. CASE \E call, U : I!acquire(t, call, U)
      BY <3>1, AcquireKeeps
    <3> QED BY <3>1, ConnectionSteps, ReadingSteps, RemovingSteps DEF I!Step
  <2>2. CASE ~ \E t \in Tasks : I!Step(t)
    BY <2>2, OutsideSteps DEF I!Next
  <2> QED BY <2>1, <2>2
<1> QED BY <1>1, <1>2, PTL DEF I!Spec

\* However a move is cut short and whatever is expunged meanwhile, a message
\* nobody asked to delete is in one of the two folders (imap/client.rs:1040).
THEOREM ImapNothingLost == I!Spec => []I!NothingLost
<1>1. CallInv => I!NothingLost
  BY DEF CallInv
<1> QED BY <1>1, ImapInvariant, PTL

-----------------------------------------------------------------------------
(* The pool: a connection is in one place, and an idle one stands          *)

Waiting == {"permit", "connect"}

\* A call that waits for a connection has none, any other has one.
CallShape ==
    \A t \in Tasks : calls[t] # None =>
        /\ calls[t].uids \subseteq MailUids
        /\ calls[t].conn \in Emails \cup {None}
        /\ calls[t].at \in Waiting <=> calls[t].conn = None

PoolShape ==
    /\ clock \in Nat /\ sock \in [Emails -> {"open", "behind", "closed"}]
    /\ heard = [c \in Emails |-> heard[c]]
    /\ slots \in Seq([conn : Emails, since : Nat]) /\ Len(slots) <= max_idle

\* A connection is in one place.
OnePlace ==
    /\ \A i, j \in DOMAIN slots : slots[i].conn = slots[j].conn => i = j
    /\ \A t \in Tasks : calls[t] # None =>
          /\ \A i \in DOMAIN slots : calls[t].conn # slots[i].conn
          /\ \A u \in Tasks : calls[u] # None /\ calls[u].conn = calls[t].conn =>
                u = t \/ calls[t].conn = None

\* An idle connection that nothing happened to was heard of when it was put back, and
\* stands until the server logs it out.
Rested(i) ==
    \/ slots[i].conn \in spoilt
    \/ /\ heard[slots[i].conn] = slots[i].since
       /\ sock[slots[i].conn] = "open" \/ clock - slots[i].since >= Logout

\* One that is in use was heard of too short a time ago to be logged out, and just
\* now when the call is over.
Working(t) ==
    calls[t] # None /\ calls[t].conn # None =>
        \/ calls[t].conn \in spoilt
        \/ /\ sock[calls[t].conn] = "open" /\ heard[calls[t].conn] \in Nat
           /\ clock - heard[calls[t].conn] < Logout
           /\ calls[t].at = "release" => heard[calls[t].conn] = clock

PoolInv ==
    /\ CallsOK /\ CallShape /\ PoolShape /\ OnePlace
    /\ \A i \in DOMAIN slots : Rested(i)
    /\ \A t \in Tasks : Working(t)

\* What happens to one connection is nothing to the others.
Untouched(c) ==
    /\ clock' = clock
    /\ \A d \in Emails : d # c => /\ sock'[d] = sock[d] /\ heard'[d] = heard[d]
                                  /\ d \in spoilt' <=> d \in spoilt

LEMMA ElementOf ==
    ASSUME NEW T, NEW q \in Seq(T), NEW i \in DOMAIN q
    PROVE  q[i] \in T /\ i \in 1..Len(q) /\ Len(q) \in Nat
OBVIOUS

LEMMA SlotType ==
    ASSUME PoolShape, NEW i \in DOMAIN slots
    PROVE  slots[i].conn \in Emails /\ slots[i].since \in Nat /\ i \in 1..Len(slots)
<1>1. slots \in Seq([conn : Emails, since : Nat])
  BY DEF PoolShape
<1>2. i \in 1..Len(slots) /\ slots[i] \in [conn : Emails, since : Nat]
  BY <1>1, ElementOf
<1> QED BY <1>2

\* A step of one call, on its connection.
LEMMA OneCall ==
    ASSUME PoolInv, NEW t \in Tasks, calls[t] # None, slots' = slots,
           \A u \in Tasks : u # t => calls'[u] = calls[u],
           CallsOK', CallShape', PoolShape', Untouched(calls[t].conn),
           calls'[t] # None => calls'[t].conn = calls[t].conn /\ Working(t)'
    PROVE  PoolInv'
<1>1. OnePlace'
  <2>1. \A u \in Tasks : calls'[u] # None => calls[u] # None /\ calls'[u].conn = calls[u].conn
    OBVIOUS
  <2> QED BY <2>1 DEF PoolInv, OnePlace
<1>2. ASSUME NEW i \in DOMAIN slots' PROVE Rested(i)'
  <2>1. slots[i].conn \in Emails /\ slots[i].conn # calls[t].conn /\ Rested(i)
    BY SlotType DEF PoolInv, OnePlace
  <2> QED BY <2>1 DEF Rested, Untouched
<1>3. ASSUME NEW u \in Tasks PROVE Working(u)'
  <2>1. CASE u = t
    BY <2>1 DEF Working
  <2>2. CASE u # t
    <3>1. CASE calls[u] # None /\ calls[u].conn # None
      <4>1. calls[u].conn \in Emails /\ calls[u].conn # calls[t].conn /\ Working(u)
        BY <2>2, <3>1 DEF PoolInv, OnePlace, CallShape
      <4> QED BY <2>2, <4>1 DEF Working, Untouched
    <3> QED BY <2>2, <3>1 DEF Working
  <2> QED BY <2>1, <2>2
<1> QED BY <1>1, <1>2, <1>3 DEF PoolInv

LEMMA GotoShape ==
    ASSUME CallsOK, CallShape, NEW t \in Tasks, calls[t] # None, NEW s, I!Goto(t, s),
           s \in Waiting <=> calls[t].at \in Waiting
    PROVE  /\ CallsOK' /\ CallShape'
           /\ \A u \in Tasks : u # t => calls'[u] = calls[u]
           /\ calls'[t].conn = calls[t].conn /\ calls'[t].at = s
<1>1. DOMAIN calls[t] = CallFields
  BY DEF CallsOK
<1>2. calls' = [calls EXCEPT ![t] = [calls[t] EXCEPT !.at = s]]
  BY DEF I!Goto
<1>3. calls'[t] = [calls[t] EXCEPT !.at = s] /\ \A u \in Tasks : u # t => calls'[u] = calls[u]
  BY <1>2 DEF CallsOK
<1>4. /\ DOMAIN calls'[t] = CallFields /\ calls'[t].at = s
      /\ calls'[t].uids = calls[t].uids /\ calls'[t].conn = calls[t].conn
  BY <1>1, <1>3 DEF CallFields
<1>5. CallsOK'
  BY <1>2, <1>3, <1>4 DEF CallsOK
<1>6. CallShape'
  BY <1>3, <1>4 DEF CallShape
<1> QED BY <1>3, <1>4, <1>5, <1>6

LEMMA EndedShape ==
    ASSUME CallsOK, CallShape, NEW t \in Tasks, I!Ended(t)
    PROVE  CallsOK' /\ CallShape' /\ calls'[t] = None /\ \A u \in Tasks : u # t => calls'[u] = calls[u]
<1>1. DOMAIN calls' = Tasks /\ calls'[t] = None /\ \A u \in Tasks : u # t => calls'[u] = calls[u]
  BY DEF I!Ended, CallsOK
<1> QED BY <1>1 DEF CallsOK, CallShape

\* The server answers.
LEMMA TalkKeepsPool ==
    ASSUME PoolInv, NEW t \in Tasks, calls[t] # None, calls[t].at \notin Waiting,
           NEW s, I!Talk(t, s), s \notin Waiting
    PROVE  PoolInv'
<1>1. calls[t].conn \in Emails
  BY DEF PoolInv, CallShape
<1>2. /\ sock' = [sock EXCEPT ![calls[t].conn] = "open"]
      /\ heard' = [heard EXCEPT ![calls[t].conn] = clock]
      /\ spoilt' = spoilt \ {calls[t].conn} /\ I!Goto(t, s) /\ clock' = clock /\ slots' = slots
  BY DEF I!Talk, I!Conn
<1>3. PoolShape' /\ Untouched(calls[t].conn) /\ sock'[calls[t].conn] = "open" /\ heard'[calls[t].conn] = clock
  BY <1>1, <1>2 DEF PoolInv, PoolShape, Untouched
<1>4. /\ CallsOK' /\ CallShape' /\ calls'[t].conn = calls[t].conn
      /\ \A u \in Tasks : u # t => calls'[u] = calls[u]
  BY <1>2, GotoShape DEF PoolInv
<1>5. Working(t)'
  <2>1. clock \in Nat /\ clock - clock < Logout
    BY PoolAssumed DEF PoolInv, PoolShape
  <2> QED BY <1>2, <1>3, <1>4, <2>1 DEF Working
<1> QED BY <1>2, <1>3, <1>4, <1>5, OneCall

\* The answer is left unread.
LEMMA UnreadKeepsPool ==
    ASSUME PoolInv, NEW t \in Tasks, calls[t] # None, calls[t].at \notin Waiting, I!Unread(t)
    PROVE  PoolInv'
<1>1. calls[t].conn \in Emails
  BY DEF PoolInv, CallShape
<1>2. /\ sock' = [sock EXCEPT ![calls[t].conn] = IF @ = "closed" THEN @ ELSE "behind"]
      /\ heard' = heard
      /\ spoilt' = spoilt \cup {calls[t].conn} /\ I!Goto(t, "release") /\ clock' = clock /\ slots' = slots
  BY DEF I!Unread, I!Conn
<1>3. PoolShape' /\ Untouched(calls[t].conn)
  BY <1>1, <1>2 DEF PoolInv, PoolShape, Untouched
<1>4. /\ CallsOK' /\ CallShape' /\ calls'[t].conn = calls[t].conn
      /\ \A u \in Tasks : u # t => calls'[u] = calls[u]
  BY <1>2, GotoShape DEF PoolInv, Waiting
<1>5. Working(t)'
  BY <1>2, <1>4 DEF Working
<1> QED BY <1>2, <1>3, <1>4, <1>5, OneCall

\* A call goes on although its connection is closed: nothing but the network closed it.
LEMMA StreamKeepsPool ==
    ASSUME PoolInv, NEW t \in Tasks, I!StreamEnds(t)
    PROVE  PoolInv'
<1>1. /\ calls[t] # None /\ calls[t].conn # None /\ sock[calls[t].conn] = "closed"
      /\ UNCHANGED <<clock, slots, sock, heard, spoilt>>
      /\ I!Goto(t, "expunge") \/ I!Goto(t, "uid_expunge") \/ I!Goto(t, "release")
  BY DEF I!StreamEnds, I!Conn
<1>2. calls[t].at \notin Waiting /\ calls[t].conn \in spoilt
  BY <1>1 DEF PoolInv, CallShape, Working
<1>3. /\ CallsOK' /\ CallShape' /\ calls'[t].conn = calls[t].conn
      /\ \A u \in Tasks : u # t => calls'[u] = calls[u]
  BY <1>1, <1>2, GotoShape DEF PoolInv, Waiting
<1>4. PoolShape' /\ Untouched(calls[t].conn) /\ Working(t)'
  BY <1>1, <1>2, <1>3 DEF PoolInv, PoolShape, Untouched, Working
<1> QED BY <1>1, <1>3, <1>4, OneCall

LEMMA CloseShape ==
    ASSUME PoolShape, NEW D, I!Close(D)
    PROVE  /\ sock' \in [Emails -> {"open", "behind", "closed"}]
           /\ \A d \in Emails : d \notin D => sock'[d] = sock[d]
BY DEF PoolShape, I!Close

\* A call that fails drops its connection, and so does one that is over when there is
\* no room.
LEMMA DropKeepsPool ==
    ASSUME PoolInv, NEW t \in Tasks, calls[t] # None, I!Ended(t),
           I!Close({calls[t].conn}) \/ sock' = sock,
           UNCHANGED <<clock, slots, heard, spoilt>>
    PROVE  PoolInv'
<1>1. /\ sock' \in [Emails -> {"open", "behind", "closed"}]
      /\ \A d \in Emails : d # calls[t].conn => sock'[d] = sock[d]
  BY CloseShape DEF PoolInv, PoolShape
<1>2. PoolShape' /\ Untouched(calls[t].conn)
  BY <1>1 DEF PoolInv, PoolShape, Untouched
<1>3. CallsOK' /\ CallShape' /\ calls'[t] = None /\ \A u \in Tasks : u # t => calls'[u] = calls[u]
  BY EndedShape DEF PoolInv
<1> QED BY <1>2, <1>3, OneCall

\* The connection of a call that is over is put on top of the others.
LEMMA PutKeepsPool ==
    ASSUME PoolInv, NEW t \in Tasks, calls[t] # None, calls[t].at = "release", I!Ended(t),
           Len(slots) < max_idle, slots' = Append(slots, [conn |-> calls[t].conn, since |-> clock]),
           UNCHANGED <<clock, sock, heard, spoilt>>
    PROVE  PoolInv'
<1> DEFINE new == [conn |-> calls[t].conn, since |-> clock]
<1>1. CallsOK' /\ CallShape' /\ calls'[t] = None /\ \A u \in Tasks : u # t => calls'[u] = calls[u]
  BY EndedShape DEF PoolInv
<1>2. calls[t].conn \in Emails
  BY DEF PoolInv, CallShape, Waiting
<1>3. slots \in Seq([conn : Emails, since : Nat]) /\ new \in [conn : Emails, since : Nat]
  BY <1>2 DEF PoolInv, PoolShape
<1>4. new.conn = calls[t].conn /\ new.since = clock
  OBVIOUS
<1> HIDE DEF new
<1>5. /\ DOMAIN slots' = 1..(Len(slots) + 1) /\ DOMAIN slots = 1..Len(slots) /\ Len(slots) \in Nat
      /\ Len(slots') = Len(slots) + 1 /\ slots' \in Seq([conn : Emails, since : Nat])
      /\ slots'[Len(slots) + 1] = new /\ \A i \in 1..Len(slots) : slots'[i] = slots[i]
  BY <1>3 DEF new
<1>6. PoolShape'
  BY <1>5, PoolAssumed DEF PoolInv, PoolShape
<1>7. OnePlace'
  <2>1. ASSUME NEW i \in DOMAIN slots', NEW j \in DOMAIN slots', slots'[i].conn = slots'[j].conn PROVE i = j
    <3>1. CASE i = Len(slots) + 1 /\ j # Len(slots) + 1
      <4>1. j \in DOMAIN slots /\ slots[j].conn = calls[t].conn
        BY <1>4, <1>5, <2>1, <3>1
      <4> QED BY <4>1 DEF PoolInv, OnePlace
    <3>2. CASE j = Len(slots) + 1 /\ i # Len(slots) + 1
      <4>1. i \in DOMAIN slots /\ slots[i].conn = calls[t].conn
        BY <1>4, <1>5, <2>1, <3>2
      <4> QED BY <4>1 DEF PoolInv, OnePlace
    <3>3. CASE i # Len(slots) + 1 /\ j # Len(slots) + 1
      <4>1. i \in DOMAIN slots /\ j \in DOMAIN slots /\ slots[i].conn = slots[j].conn
        BY <1>5, <2>1, <3>3
      <4> QED BY <4>1 DEF PoolInv, OnePlace
    <3> QED BY <3>1, <3>2, <3>3
  <2>2. ASSUME NEW u \in Tasks, calls'[u] # None, NEW i \in DOMAIN slots' PROVE calls'[u].conn # slots'[i].conn
    <3>1. u # t /\ calls[u] # None /\ calls'[u] = calls[u]
      BY <1>1, <2>2
    <3>2. CASE i = Len(slots) + 1
      BY <1>2, <1>4, <1>5, <3>1, <3>2, PoolAssumed DEF PoolInv, OnePlace
    <3>3. CASE i # Len(slots) + 1
      <4>1. i \in DOMAIN slots /\ slots'[i] = slots[i]
        BY <1>5, <3>3
      <4> QED BY <3>1, <4>1 DEF PoolInv, OnePlace
    <3> QED BY <3>2, <3>3
  <2>3. \A u \in Tasks : calls'[u] # None => u # t /\ calls[u] # None /\ calls'[u] = calls[u]
    BY <1>1
  <2>4. \A u, v \in Tasks : calls'[u] # None /\ calls'[v] # None /\ calls'[u].conn = calls'[v].conn =>
           u = v \/ calls'[v].conn = None
    BY <2>3 DEF PoolInv, OnePlace
  <2> QED BY <2>1, <2>2, <2>4 DEF OnePlace
<1>8. ASSUME NEW i \in DOMAIN slots' PROVE Rested(i)'
  <2>1. CASE i = Len(slots) + 1
    <3>1. Working(t) /\ calls[t].conn # None
      BY <1>2, PoolAssumed DEF PoolInv
    <3>2. calls[t].conn \in spoilt \/ (heard[calls[t].conn] = clock /\ sock[calls[t].conn] = "open")
      BY <3>1 DEF Working
    <3> QED BY <1>4, <1>5, <2>1, <3>2 DEF Rested
  <2>2. CASE i # Len(slots) + 1
    <3>1. i \in DOMAIN slots /\ slots'[i] = slots[i]
      BY <1>5, <2>2
    <3>2. Rested(i)
      BY <3>1 DEF PoolInv
    <3> QED BY <3>1, <3>2 DEF Rested
  <2> QED BY <2>1, <2>2
<1>9. ASSUME NEW u \in Tasks PROVE Working(u)'
  BY <1>1 DEF PoolInv, Working
<1> QED BY <1>1, <1>6, <1>7, <1>8, <1>9 DEF PoolInv

\* What comes out of the pool: nothing, and nothing is left in it, or a connection that
\* is not too old, and what was below it is left.
LEMMA TakenFrom ==
    ASSUME PoolInv
    PROVE  \/ I!take.conn = None /\ I!take.rest = <<>>
           \/ \E m \in DOMAIN slots : /\ clock - slots[m].since < max_age
                                      /\ I!take.conn = slots[m].conn
                                      /\ I!take.rest = SubSeq(slots, 1, m - 1)
<1> DEFINE young == {i \in DOMAIN slots : clock - slots[i].since < max_age}
<1>1. CASE young = {}
  BY <1>1 DEF I!take
<1>2. CASE young # {}
  <2>1. young \subseteq Nat /\ Len(slots) \in Nat /\ \A x \in young : x <= Len(slots)
    <3>1. \A x \in young : x \in 1..Len(slots)
      BY SlotType DEF PoolInv
    <3>2. Len(slots) \in Nat
      BY DEF PoolInv, PoolShape
    <3> QED BY <3>1, <3>2
  <2>2. \E x \in young : \A y \in young : y <= x
    <3> HIDE DEF young
    <3> QED BY <1>2, <2>1, MostExists
  <2>3. \E x \in young : \A y \in young : x >= y
    <3> HIDE DEF young
    <3> QED BY <2>1, <2>2
  <2>4. I!Max(young) \in young
    <3> HIDE DEF young
    <3> QED BY <2>3 DEF I!Max
  <2>5. I!take = [conn |-> slots[I!Max(young)].conn, rest |-> SubSeq(slots, 1, I!Max(young) - 1)]
    BY <1>2 DEF I!take
  <2> QED BY <2>4, <2>5
<1> QED BY <1>1, <1>2

LEMMA BelowSeq ==
    ASSUME NEW T, NEW q \in Seq(T), NEW m \in 1..Len(q)
    PROVE  /\ SubSeq(q, 1, m - 1) \in Seq(T)
           /\ DOMAIN SubSeq(q, 1, m - 1) = 1..(m - 1) /\ Len(SubSeq(q, 1, m - 1)) = m - 1
           /\ \A i \in 1..(m - 1) : SubSeq(q, 1, m - 1)[i] = q[i]
OBVIOUS

\* What is left below m in the pool.
LEMMA Below ==
    ASSUME PoolShape, NEW m \in DOMAIN slots
    PROVE  /\ SubSeq(slots, 1, m - 1) \in Seq([conn : Emails, since : Nat])
           /\ DOMAIN SubSeq(slots, 1, m - 1) = 1..(m - 1) /\ Len(SubSeq(slots, 1, m - 1)) = m - 1
           /\ m \in 1..Len(slots)
           /\ \A i \in 1..(m - 1) : SubSeq(slots, 1, m - 1)[i] = slots[i]
<1>1. slots \in Seq([conn : Emails, since : Nat])
  BY DEF PoolShape
<1>2. m \in 1..Len(slots) /\ Len(slots) \in Nat
  BY <1>1, ElementOf
<1> QED BY <1>1, <1>2, BelowSeq

\* The pool after something is taken: entries that were in it, without the one that
\* is taken.
LEMMA LeftInPool ==
    ASSUME PoolInv, slots' = I!take.rest
    PROVE  /\ slots' \in Seq([conn : Emails, since : Nat]) /\ Len(slots') <= max_idle
           /\ \A i \in DOMAIN slots' : i \in DOMAIN slots /\ slots'[i] = slots[i]
                                       /\ slots'[i].conn # I!take.conn
           /\ \/ I!take.conn = None
              \/ \E m \in DOMAIN slots : /\ clock - slots[m].since < max_age
                                         /\ I!take.conn = slots[m].conn
<1>1. CASE I!take.conn = None /\ I!take.rest = <<>>
  <2>1. slots' = <<>> /\ Len(slots') = 0 /\ DOMAIN slots' = {}
    BY <1>1
  <2>2. slots' \in Seq([conn : Emails, since : Nat])
    BY <2>1
  <2> QED BY <1>1, <2>1, <2>2, PoolAssumed
<1>2. CASE \E m \in DOMAIN slots : /\ clock - slots[m].since < max_age
                                   /\ I!take.conn = slots[m].conn
                                   /\ I!take.rest = SubSeq(slots, 1, m - 1)
  <2> PICK m \in DOMAIN slots : /\ clock - slots[m].since < max_age
                                /\ I!take.conn = slots[m].conn
                                /\ slots' = SubSeq(slots, 1, m - 1)
    BY <1>2
  <2>1. /\ slots' \in Seq([conn : Emails, since : Nat])
        /\ DOMAIN slots' = 1..(m - 1) /\ Len(slots') = m - 1 /\ m \in 1..Len(slots)
        /\ \A i \in 1..(m - 1) : slots'[i] = slots[i]
    BY Below DEF PoolInv
  <2>2. Len(slots) \in Nat /\ Len(slots) <= max_idle /\ DOMAIN slots = 1..Len(slots)
    BY DEF PoolInv, PoolShape
  <2>3. ASSUME NEW i \in DOMAIN slots' PROVE /\ i \in DOMAIN slots /\ slots'[i] = slots[i]
                                             /\ slots'[i].conn # I!take.conn
    <3>1. i \in DOMAIN slots /\ slots'[i] = slots[i] /\ i # m
      BY <2>1, <2>2
    <3> QED BY <3>1 DEF PoolInv, OnePlace
  <2>4. Len(slots') <= max_idle
    BY <2>1, <2>2, PoolAssumed
  <2> QED BY <2>1, <2>3, <2>4
<1> QED BY <1>1, <1>2, TakenFrom

\* The connection that is taken is nobody else's, and stands unless it is spoilt.
LEMMA TakenStands ==
    ASSUME PoolInv, I!take.conn # None
    PROVE  /\ I!take.conn \in Emails
           /\ \A u \in Tasks : calls[u] # None => calls[u].conn # I!take.conn
           /\ \/ I!take.conn \in spoilt
              \/ /\ sock[I!take.conn] = "open" /\ heard[I!take.conn] \in Nat
                 /\ clock - heard[I!take.conn] < max_age
<1>1. PICK m \in DOMAIN slots : /\ clock - slots[m].since < max_age
                                /\ I!take.conn = slots[m].conn
  BY TakenFrom
<1>2. slots[m].conn \in Emails /\ slots[m].since \in Nat
  BY SlotType DEF PoolInv
<1>3. \A u \in Tasks : calls[u] # None => calls[u].conn # slots[m].conn
  BY DEF PoolInv, OnePlace
<1>4. slots[m].conn \notin spoilt =>
         sock[slots[m].conn] = "open" /\ heard[slots[m].conn] = slots[m].since
  <2>1. Rested(m) /\ clock \in Nat
    BY DEF PoolInv, PoolShape
  <2>2. ~(clock - slots[m].since >= Logout)
    BY <1>1, <1>2, <2>1, PoolAssumed
  <2> QED BY <2>1, <2>2 DEF Rested
<1> QED BY <1>1, <1>2, <1>3, <1>4

LEMMA AcquireKeepsPool ==
    ASSUME PoolInv, NEW t \in Tasks, NEW call, NEW U \in SUBSET MailUids, I!acquire(t, call, U)
    PROVE  PoolInv'
<1> DEFINE new == [call |-> call, uids |-> U, conn |-> I!take.conn,
                   at |-> IF I!take.conn = None THEN "permit" ELSE I!First(call)]
<1> DEFINE Out == I!Kept \ ({slots'[i].conn : i \in DOMAIN slots'} \cup {I!take.conn})
<1>1. calls' = [calls EXCEPT ![t] = new] /\ DOMAIN calls = Tasks /\ calls[t] = None
  BY DEF I!acquire, PoolInv, CallsOK
<1>2. slots' = I!take.rest /\ I!Close(Out) /\ clock' = clock /\ heard' = heard /\ spoilt' = spoilt
  BY DEF I!acquire
<1>3. DOMAIN calls' = Tasks /\ calls'[t] = new /\ \A u \in Tasks : u # t => calls'[u] = calls[u]
  BY <1>1
<1>4. /\ DOMAIN new = CallFields /\ new.uids = U /\ new.conn = I!take.conn
      /\ new.at = IF I!take.conn = None THEN "permit" ELSE I!First(call)
  BY DEF CallFields
<1>5. I!First(call) \notin Waiting /\ I!First(call) # "release"
  BY DEF I!First, Waiting
<1>6. I!take.conn # None => /\ I!take.conn \in Emails
                            /\ \A u \in Tasks : calls[u] # None => calls[u].conn # I!take.conn
                            /\ \/ I!take.conn \in spoilt
                               \/ /\ sock[I!take.conn] = "open" /\ heard[I!take.conn] \in Nat
                                  /\ clock - heard[I!take.conn] < max_age
  BY TakenStands
<1>7. /\ slots' \in Seq([conn : Emails, since : Nat]) /\ Len(slots') <= max_idle
      /\ \A i \in DOMAIN slots' : i \in DOMAIN slots /\ slots'[i] = slots[i]
                                  /\ slots'[i].conn # I!take.conn
  BY <1>2, LeftInPool
<1>8. /\ sock' \in [Emails -> {"open", "behind", "closed"}]
      /\ \A d \in Emails : d \notin Out => sock'[d] = sock[d]
  <2> HIDE DEF Out
  <2> QED BY <1>2, CloseShape DEF PoolInv
<1>9. /\ \A i \in DOMAIN slots' : slots'[i].conn \notin Out
      /\ I!take.conn \notin Out
      /\ \A u \in Tasks : calls[u] # None => calls[u].conn \notin Out
  <2>1. \A u \in Tasks : calls[u] # None => calls[u].conn \notin I!Kept
    BY DEF I!Kept, PoolInv, OnePlace
  <2> QED BY <2>1
<1> HIDE DEF new, Out
<1>10. CallsOK'
  BY <1>3, <1>4 DEF PoolInv, CallsOK
<1>11. CallShape'
  <2>1. U \subseteq MailUids /\ new.conn \in Emails \cup {None} /\ (new.at \in Waiting <=> new.conn = None)
    BY <1>4, <1>5, <1>6 DEF Waiting
  <2> QED BY <1>3, <1>4, <2>1 DEF PoolInv, CallShape
<1>12. PoolShape'
  BY <1>2, <1>7, <1>8 DEF PoolInv, PoolShape
<1>13. OnePlace'
  <2>1. \A i, j \in DOMAIN slots' : slots'[i].conn = slots'[j].conn => i = j
    BY <1>7 DEF PoolInv, OnePlace
  <2>2. ASSUME NEW u \in Tasks, calls'[u] # None, NEW i \in DOMAIN slots' PROVE calls'[u].conn # slots'[i].conn
    <3>1. CASE u = t
      BY <1>3, <1>4, <1>7, <3>1
    <3>2. CASE u # t
      BY <1>3, <1>7, <2>2, <3>2 DEF PoolInv, OnePlace
    <3> QED BY <3>1, <3>2
  <2>3. ASSUME NEW u \in Tasks, NEW v \in Tasks, calls'[u] # None, calls'[v] # None,
               calls'[u].conn = calls'[v].conn, u # v
        PROVE  calls'[v].conn = None
    <3>1. CASE u = t
      <4>1. calls'[v] = calls[v] /\ calls'[u].conn = I!take.conn
        BY <1>3, <1>4, <2>3, <3>1
      <4> QED BY <1>6, <2>3, <4>1
    <3>2. CASE v = t
      <4>1. calls'[u] = calls[u] /\ calls'[v].conn = I!take.conn
        BY <1>3, <1>4, <2>3, <3>2
      <4> QED BY <1>6, <2>3, <4>1
    <3>3. CASE u # t /\ v # t
      <4>1. calls'[u] = calls[u] /\ calls'[v] = calls[v]
        BY <1>3, <3>3
      <4> QED BY <2>3, <4>1 DEF PoolInv, OnePlace
    <3> QED BY <3>1, <3>2, <3>3
  <2> QED BY <2>1, <2>2, <2>3 DEF OnePlace
<1>14. ASSUME NEW i \in DOMAIN slots' PROVE Rested(i)'
  <2>1. Rested(i) /\ slots'[i] = slots[i] /\ slots[i].conn \in Emails
    BY <1>7, SlotType DEF PoolInv
  <2>2. sock'[slots[i].conn] = sock[slots[i].conn]
    BY <1>8, <1>9, <2>1
  <2> QED BY <1>2, <2>1, <2>2 DEF Rested
<1>15. ASSUME NEW u \in Tasks PROVE Working(u)'
  <2>1. CASE u = t
    <3>1. CASE I!take.conn = None
      BY <1>3, <1>4, <2>1, <3>1 DEF Working
    <3>2. CASE I!take.conn # None
      <4>1. sock'[I!take.conn] = sock[I!take.conn]
        BY <1>6, <1>8, <1>9, <3>2
      <4>2. clock \in Nat
        BY DEF PoolInv, PoolShape
      <4>3. I!take.conn \notin spoilt => /\ sock[I!take.conn] = "open" /\ heard[I!take.conn] \in Nat
                                         /\ clock - heard[I!take.conn] < Logout
        BY <1>6, <3>2, <4>2, PoolAssumed
      <4>4. calls'[u].conn = I!take.conn /\ calls'[u].at # "release"
        BY <1>3, <1>4, <1>5, <2>1, <3>2
      <4> QED BY <1>2, <4>1, <4>3, <4>4 DEF Working
    <3> QED BY <3>1, <3>2
  <2>2. CASE u # t
    <3>1. CASE calls[u] # None /\ calls[u].conn # None
      <4>1. calls[u].conn \in Emails /\ Working(u)
        BY <3>1 DEF PoolInv, CallShape
      <4>2. sock'[calls[u].conn] = sock[calls[u].conn]
        BY <1>8, <1>9, <3>1, <4>1
      <4> QED BY <1>2, <1>3, <2>2, <4>1, <4>2 DEF Working
    <3> QED BY <1>3, <2>2, <3>1 DEF Working
  <2> QED BY <2>1, <2>2
<1> QED BY <1>10, <1>11, <1>12, <1>13, <1>14, <1>15 DEF PoolInv

LEMMA ConnCount == \A x : I!Cardinality(x) = Cardinality(x)
BY DEF I!Cardinality, Cardinality

\* The idle connections are as many as the entries of the pool.
LEMMA KeptCount ==
    ASSUME PoolInv
    PROVE  IsFiniteSet(I!Kept) /\ Cardinality(I!Kept) = Len(slots)
<1>1. Len(slots) \in Nat /\ DOMAIN slots = 1..Len(slots)
  BY DEF PoolInv, PoolShape
<1> DEFINE f == [i \in 1..Len(slots) |-> slots[i].conn]
<1>2. f \in Bijection(1..Len(slots), I!Kept)
  <2>1. \A i, j \in 1..Len(slots) : f[i] = f[j] => i = j
    BY <1>1 DEF PoolInv, OnePlace
  <2>2. f \in [1..Len(slots) -> I!Kept] /\ \A y \in I!Kept : \E i \in 1..Len(slots) : f[i] = y
    BY <1>1 DEF I!Kept
  <2> HIDE DEF f
  <2> QED BY <2>1, <2>2 DEF Bijection, Injection, Surjection, IsInjective
<1>3. ExistsBijection(1..Len(slots), I!Kept)
  BY <1>2 DEF ExistsBijection
<1>4. IsFiniteSet(1..Len(slots)) /\ Cardinality(1..Len(slots)) = Len(slots)
  <2>1. \A n \in Nat : IsFiniteSet(1..n) /\ Cardinality(1..n) = n
    <3> TAKE n \in Nat
    <3>1. IsFiniteSet(1..n) /\ Cardinality(1..n) = IF 1 > n THEN 0 ELSE n - 1 + 1
      BY FS_Interval
    <3> QED BY <3>1
  <2> QED BY <1>1, <2>1
<1> QED BY <1>3, <1>4, FS_Bijection

\* There are sockets enough.
LEMMA FreeConn ==
    ASSUME PoolInv, NEW t \in Tasks, calls[t] # None => calls[t].conn = None
    PROVE  \E c \in Emails : c \notin I!Held \cup I!Kept
<1> DEFINE Users == {u \in Tasks : calls[u] # None /\ calls[u].conn # None}
<1> DEFINE f == [u \in Users |-> calls[u].conn]
<1>1. IsFiniteSet(Users) /\ Cardinality(Users) < Cardinality(Tasks)
  <2>1. Users \in SUBSET (Tasks \ {t}) /\ IsFiniteSet(Tasks)
    BY PoolAssumed
  <2>2. IsFiniteSet(Tasks \ {t}) /\ Cardinality(Tasks \ {t}) = Cardinality(Tasks) - 1 /\ Cardinality(Tasks) \in Nat
    BY <2>1, FS_RemoveElement, FS_CardinalityType
  <2> HIDE DEF Users
  <2>3. IsFiniteSet(Users) /\ Cardinality(Users) <= Cardinality(Tasks \ {t}) /\ Cardinality(Users) \in Nat
    BY <2>1, <2>2, FS_Subset, FS_CardinalityType
  <2> QED BY <2>2, <2>3
<1>2. f \in Surjection(Users, I!Held)
  <2>1. f \in [Users -> I!Held] /\ \A y \in I!Held : \E u \in Users : f[u] = y
    BY DEF I!Held
  <2> HIDE DEF f, Users
  <2> QED BY <2>1 DEF Surjection
<1>3. IsFiniteSet(I!Held) /\ Cardinality(I!Held) <= Cardinality(Users)
  <2> HIDE DEF f, Users
  <2> QED BY <1>1, <1>2, FS_Surjection
<1>4. IsFiniteSet(I!Kept) /\ Cardinality(I!Kept) <= max_idle
  BY KeptCount DEF PoolInv, PoolShape
<1> HIDE DEF f, Users
<1>5. /\ Cardinality(I!Held) \in Nat /\ Cardinality(I!Kept) \in Nat /\ Cardinality(Users) \in Nat
      /\ Cardinality(Tasks) \in Nat /\ Cardinality(Emails) \in Nat /\ max_idle \in Nat
      /\ Cardinality(Emails) >= Cardinality(Tasks) + max_idle
  BY <1>1, <1>3, <1>4, PoolAssumed, FS_CardinalityType
<1>6. /\ IsFiniteSet(I!Held \cup I!Kept)
      /\ Cardinality(I!Held \cup I!Kept) = Cardinality(I!Held) + Cardinality(I!Kept) - Cardinality(I!Held \cap I!Kept)
      /\ Cardinality(I!Held \cap I!Kept) \in Nat
  BY <1>3, <1>4, FS_Union, FS_Intersection, FS_CardinalityType
<1>7. Cardinality(I!Held \cup I!Kept) < Cardinality(Emails)
  BY <1>1, <1>3, <1>4, <1>5, <1>6
<1>8. SUFFICES ASSUME Emails \subseteq I!Held \cup I!Kept PROVE FALSE
  OBVIOUS
<1>9. Cardinality(Emails) <= Cardinality(I!Held \cup I!Kept)
  BY <1>6, <1>8, FS_Subset
<1>10. Cardinality(I!Held \cup I!Kept) \in Nat
  BY <1>6, FS_CardinalityType
<1> QED BY <1>5, <1>7, <1>9, <1>10

LEMMA ConnectKeepsPool ==
    ASSUME PoolInv, NEW t \in Tasks, I!connect(t)
    PROVE  PoolInv'
<1>1. calls[t] # None /\ calls[t].conn = None
  BY DEF I!connect, I!At, PoolInv, CallShape, Waiting
<1>2. PICK c \in Emails : /\ c \notin I!Held \cup I!Kept
                          /\ sock' = [sock EXCEPT ![c] = "open"] /\ heard' = [heard EXCEPT ![c] = clock]
                          /\ calls' = [calls EXCEPT ![t].conn = c, ![t].at = I!First(calls[t].call)]
                          /\ spoilt' = spoilt \ {c}
  <2>1. \E c \in Emails : c \notin I!Held \cup I!Kept
    BY <1>1, FreeConn
  <2> QED BY <2>1 DEF I!connect
<1>3. slots' = slots /\ clock' = clock
  BY DEF I!connect
<1>4. /\ DOMAIN calls' = Tasks /\ DOMAIN calls'[t] = CallFields /\ calls'[t].conn = c
      /\ calls'[t].at = I!First(calls[t].call) /\ calls'[t].uids = calls[t].uids
      /\ \A u \in Tasks : u # t => calls'[u] = calls[u]
  <2>1. DOMAIN calls = Tasks /\ DOMAIN calls[t] = CallFields
    BY <1>1 DEF PoolInv, CallsOK
  <2> QED BY <1>2, <2>1 DEF CallFields
<1>5. /\ \A i \in DOMAIN slots : slots[i].conn # c
      /\ \A u \in Tasks : calls[u] # None => calls[u].conn # c
  BY <1>2, PoolAssumed DEF I!Held, I!Kept
<1>6. I!First(calls[t].call) \notin Waiting /\ I!First(calls[t].call) # "release"
  BY DEF I!First, Waiting
<1>7. CallsOK'
  BY <1>4 DEF PoolInv, CallsOK
<1>8. CallShape'
  <2>1. calls'[t].uids \subseteq MailUids /\ calls'[t].conn # None
    BY <1>1, <1>2, <1>4, PoolAssumed DEF PoolInv, CallShape
  <2> QED BY <1>4, <1>6, <2>1 DEF PoolInv, CallShape
<1>9. PoolShape' /\ Untouched(c) /\ sock'[c] = "open" /\ heard'[c] = clock
  BY <1>2, <1>3 DEF PoolInv, PoolShape, Untouched
<1>10. OnePlace'
  BY <1>3, <1>4, <1>5 DEF PoolInv, OnePlace
<1>11. ASSUME NEW i \in DOMAIN slots' PROVE Rested(i)'
  <2>1. slots[i].conn \in Emails /\ slots[i].conn # c /\ Rested(i)
    BY <1>3, <1>5, SlotType DEF PoolInv
  <2> QED BY <1>3, <1>9, <2>1 DEF Rested, Untouched
<1>12. ASSUME NEW u \in Tasks PROVE Working(u)'
  <2>1. CASE u = t
    <3>1. clock \in Nat /\ clock - clock < Logout
      BY PoolAssumed DEF PoolInv, PoolShape
    <3> QED BY <1>2, <1>3, <1>4, <1>9, <2>1, <3>1 DEF Working
  <2>2. CASE u # t
    <3>1. CASE calls[u] # None /\ calls[u].conn # None
      <4>1. calls[u].conn \in Emails /\ calls[u].conn # c /\ Working(u)
        BY <1>5, <3>1 DEF PoolInv, CallShape
      <4> QED BY <1>4, <1>9, <2>2, <4>1 DEF Working, Untouched
    <3> QED BY <1>4, <2>2, <3>1 DEF Working
  <2> QED BY <2>1, <2>2
<1> QED BY <1>7, <1>8, <1>9, <1>10, <1>11, <1>12 DEF PoolInv

\* The commands, each an answer, an answer left unread or a connection dropped.
LEMMA CommandsKeepPool ==
    ASSUME PoolInv, NEW t \in Tasks,
           \/ I!select(t) \/ I!move_message_bulk(t) \/ I!uid_copy(t) \/ I!uid_store(t)
           \/ I!expunge_message_bulk(t) \/ I!Expunge(t) \/ I!list_folders(t)
           \/ I!fetch_folder_size(t) \/ I!get_quota(t)
    PROVE  PoolInv'
<1>1. calls[t] # None /\ calls[t].at \notin Waiting
  BY DEF I!select, I!move_message_bulk, I!uid_copy, I!uid_store, I!expunge_message_bulk,
     I!Expunge, I!list_folders, I!fetch_folder_size, I!get_quota, I!At, Waiting
<1>2. CASE I!Unread(t)
  BY <1>1, <1>2, UnreadKeepsPool
<1>3. CASE \E s : s \notin Waiting /\ I!Talk(t, s)
  BY <1>1, <1>3, TalkKeepsPool
<1>4. CASE I!select(t)
  <2>1. I!Talk(t, "mv") \/ I!Talk(t, "store") \/ I!Talk(t, "release") \/ I!Talk(t, "size")
    BY <1>4 DEF I!select
  <2> QED BY <1>3, <2>1 DEF Waiting
<1>5. CASE I!move_message_bulk(t)
  <2>1. I!Talk(t, "copy") \/ I!Talk(t, "release")
    BY <1>5 DEF I!move_message_bulk
  <2> QED BY <1>3, <2>1 DEF Waiting
<1>6. CASE I!uid_store(t)
  <2>1. I!Talk(t, "expunge") \/ I!Talk(t, "uid_expunge")
    BY <1>6 DEF I!uid_store
  <2> QED BY <1>3, <2>1 DEF Waiting
<1>7. CASE I!expunge_message_bulk(t)
  <2>1. I!Talk(t, "expunge") \/ I!Talk(t, "release")
    BY <1>7 DEF I!expunge_message_bulk
  <2> QED BY <1>3, <2>1 DEF Waiting
<1>8. CASE I!uid_copy(t)
  <2>1. I!Talk(t, "store")
    BY <1>8 DEF I!uid_copy
  <2> QED BY <1>3, <2>1 DEF Waiting
<1>9. CASE I!Expunge(t) \/ I!list_folders(t)
  <2>1. I!Talk(t, "release")
    BY <1>9 DEF I!Expunge, I!list_folders
  <2> QED BY <1>3, <2>1 DEF Waiting
<1>10. CASE I!fetch_folder_size(t) \/ I!get_quota(t)
  <2>1. I!Talk(t, "release") \/ I!Unread(t)
    BY <1>10 DEF I!fetch_folder_size, I!get_quota
  <2> QED BY <1>2, <1>3, <2>1 DEF Waiting
<1> QED BY <1>4, <1>5, <1>6, <1>7, <1>8, <1>9, <1>10

LEMMA EndingsKeepPool ==
    ASSUME PoolInv, NEW t \in Tasks,
           I!release(t) \/ I!Dropped(t) \/ I!classify_login_error(t)
    PROVE  PoolInv'
<1>1. calls[t] # None /\ I!Ended(t) /\ UNCHANGED <<clock, heard, spoilt>>
  BY DEF I!release, I!Dropped, I!classify_login_error, I!At
<1>2. CASE I!release(t)
  <2>1. CASE Len(slots) < max_idle
    BY <1>1, <1>2, <2>1, PutKeepsPool DEF I!release, I!At, I!put, I!Conn
  <2>2. CASE ~(Len(slots) < max_idle)
    BY <1>1, <1>2, <2>2, DropKeepsPool DEF I!release, I!put, I!Conn
  <2> QED BY <2>1, <2>2
<1>3. CASE I!Dropped(t)
  BY <1>1, <1>3, DropKeepsPool DEF I!Dropped, I!Conn
<1>4. CASE I!classify_login_error(t)
  BY <1>1, <1>4, DropKeepsPool DEF I!classify_login_error
<1> QED BY <1>2, <1>3, <1>4

LEMMA PermitKeepsPool ==
    ASSUME PoolInv, NEW t \in Tasks, I!connect_limit(t)
    PROVE  PoolInv'
<1>1. /\ calls[t] # None /\ calls[t].at = "permit" /\ I!Goto(t, "connect")
      /\ UNCHANGED <<clock, slots, sock, heard, spoilt>>
  BY DEF I!connect_limit, I!At
<1>2. calls[t].conn = None
  BY <1>1 DEF PoolInv, CallShape, Waiting
<1>3. /\ CallsOK' /\ CallShape' /\ calls'[t].conn = calls[t].conn
      /\ \A u \in Tasks : u # t => calls'[u] = calls[u]
  BY <1>1, GotoShape DEF PoolInv, Waiting
<1>4. PoolShape' /\ Untouched(calls[t].conn) /\ Working(t)'
  BY <1>1, <1>2, <1>3 DEF PoolInv, PoolShape, Untouched, Working
<1> QED BY <1>1, <1>3, <1>4, OneCall

\* What the network and the server do to a connection: cut it, which is noted, or log
\* it out when it was not heard of for so long.
LEMMA ClosedFromOutside ==
    ASSUME PoolInv, NEW c \in Emails, I!Cut(c) \/ I!LogOut(c)
    PROVE  PoolInv'
<1>1. I!Close({c}) /\ UNCHANGED <<clock, slots, heard, calls>>
  BY DEF I!Cut, I!LogOut
<1>2. /\ sock' \in [Emails -> {"open", "behind", "closed"}]
      /\ \A d \in Emails : d # c => sock'[d] = sock[d]
  BY <1>1, CloseShape DEF PoolInv
<1>3. /\ c \in spoilt' \/ clock - heard[c] >= Logout
      /\ \A d \in Emails : d # c => (d \in spoilt' <=> d \in spoilt)
      /\ c \in spoilt => c \in spoilt'
  BY DEF I!Cut, I!LogOut
<1>4. CallsOK' /\ CallShape' /\ PoolShape' /\ OnePlace'
  BY <1>1, <1>2 DEF PoolInv, CallsOK, CallShape, PoolShape, OnePlace
<1>5. ASSUME NEW i \in DOMAIN slots' PROVE Rested(i)'
  <2>1. Rested(i) /\ slots[i].conn \in Emails
    BY <1>1, SlotType DEF PoolInv
  <2>2. CASE slots[i].conn = c
    BY <1>1, <1>3, <2>1, <2>2 DEF Rested
  <2>3. CASE slots[i].conn # c
    BY <1>1, <1>2, <1>3, <2>1, <2>3 DEF Rested
  <2> QED BY <2>2, <2>3
<1>6. ASSUME NEW u \in Tasks PROVE Working(u)'
  <2> SUFFICES ASSUME calls[u] # None, calls[u].conn # None PROVE Working(u)'
    BY <1>1 DEF Working
  <2>1. Working(u) /\ calls[u].conn \in Emails /\ clock \in Nat /\ Logout \in Nat
    BY PoolAssumed DEF PoolInv, CallShape, PoolShape
  <2>2. CASE calls[u].conn = c
    <3>1. c \in spoilt'
      <4> SUFFICES ASSUME c \notin spoilt', c \notin spoilt PROVE FALSE
        BY <1>3
      <4>1. heard[c] \in Nat /\ clock - heard[c] < Logout /\ clock - heard[c] >= Logout
        BY <1>3, <2>1, <2>2 DEF Working
      <4> QED BY <2>1, <4>1
    <3> QED BY <1>1, <2>2, <3>1 DEF Working
  <2>3. CASE calls[u].conn # c
    BY <1>1, <1>2, <1>3, <2>1, <2>3 DEF Working
  <2> QED BY <2>2, <2>3
<1> QED BY <1>4, <1>5, <1>6 DEF PoolInv

\* Time passes only while no connection is in use.
LEMMA ClockKeepsPool ==
    ASSUME PoolInv, I!Tick
    PROVE  PoolInv'
<1>1. I!Held = {} /\ clock' = clock + 1 /\ UNCHANGED <<slots, sock, heard, calls, spoilt>>
  BY DEF I!Tick
<1>2. \A u \in Tasks : calls[u] # None => calls[u].conn = None
  BY <1>1 DEF I!Held
<1>3. CallsOK' /\ CallShape' /\ PoolShape' /\ OnePlace'
  BY <1>1 DEF PoolInv, CallsOK, CallShape, PoolShape, OnePlace
<1>4. ASSUME NEW i \in DOMAIN slots' PROVE Rested(i)'
  <2>1. Rested(i) /\ slots[i].since \in Nat /\ clock \in Nat /\ Logout \in Nat
    BY <1>1, SlotType, PoolAssumed DEF PoolInv, PoolShape
  <2>2. clock - slots[i].since >= Logout => clock + 1 - slots[i].since >= Logout
    BY <2>1
  <2> QED BY <1>1, <2>1, <2>2 DEF Rested
<1>5. \A u \in Tasks : Working(u)'
  BY <1>1, <1>2 DEF Working
<1> QED BY <1>3, <1>4, <1>5 DEF PoolInv

LEMMA SamePool ==
    ASSUME PoolInv, UNCHANGED <<clock, slots, sock, heard, calls, spoilt>>
    PROVE  PoolInv'
BY DEF PoolInv, CallsOK, CallShape, PoolShape, OnePlace, Rested, Working

LEMMA PoolStart == I!Init => PoolInv
<1> SUFFICES ASSUME I!Init PROVE PoolInv
  OBVIOUS
<1>1. /\ clock = 0 /\ slots = <<>> /\ sock = [c \in Emails |-> "closed"]
      /\ heard = [c \in Emails |-> 0] /\ calls = [t \in Tasks |-> None]
  BY DEF I!Init
<1>2. DOMAIN slots = {} /\ Len(slots) = 0 /\ slots \in Seq([conn : Emails, since : Nat])
  <2>1. \A T : <<>> \in Seq(T)
    OBVIOUS
  <2> QED BY <1>1, <2>1
<1>3. PoolShape
  BY <1>1, <1>2, PoolAssumed DEF PoolShape
<1> QED BY <1>1, <1>2, <1>3 DEF PoolInv, CallsOK, CallShape, OnePlace, Working

LEMMA PoolNext == PoolInv /\ [I!Next]_(I!vars) => PoolInv'
<1> SUFFICES ASSUME PoolInv, [I!Next]_(I!vars) PROVE PoolInv'
  OBVIOUS
<1>1. CASE \E t \in Tasks : I!Step(t)
  <2> PICK t \in Tasks : I!Step(t)
    BY <1>1
  <2>1. CASE \E call, U : U \in SUBSET MailUids /\ I!acquire(t, call, U)
    BY <2>1, AcquireKeepsPool
  <2> QED
    BY <2>1, PermitKeepsPool, ConnectKeepsPool, EndingsKeepPool, CommandsKeepPool,
       StreamKeepsPool DEF I!Step
<1>2. CASE \E c \in Emails : I!Cut(c) \/ I!LogOut(c)
  BY <1>2, ClosedFromOutside
<1>3. CASE \E u \in MailUids : I!Mark(u)
  BY <1>3, SamePool DEF I!Mark
<1>4. CASE I!Tick
  BY <1>4, ClockKeepsPool
<1>5. CASE UNCHANGED I!vars
  BY <1>5, SamePool DEF I!vars
<1> QED BY <1>1, <1>2, <1>3, <1>4, <1>5 DEF I!Next

\* Only the acquisition of a connection begins a call.
LEMMA StepOfCall ==
    ASSUME CallsOK, NEW t \in Tasks, NEW u \in Tasks, u # t,
           \/ \E s : I!Goto(u, s)
           \/ I!Ended(u)
           \/ \E c : calls' = [calls EXCEPT ![u].conn = c, ![u].at = I!First(calls[u].call)]
    PROVE  calls'[t] = calls[t]
BY DEF CallsOK, I!Goto, I!Ended

LEMMA CallsBegin ==
    ASSUME CallsOK, NEW t \in Tasks, calls[t] = None, calls'[t] # None, [I!Next]_(I!vars)
    PROVE  \E call, U : I!acquire(t, call, U)
<1>1. PICK u \in Tasks : I!Step(u)
  BY DEF I!Next, I!Cut, I!LogOut, I!Mark, I!Tick, I!vars
<1>2. CASE \E call, U : I!acquire(u, call, U)
  <2>1. u = t
    BY <1>2 DEF I!acquire, CallsOK
  <2> QED BY <1>2, <2>1
<1>3. CASE I!connect(u) \/ I!connect_limit(u) \/ I!classify_login_error(u)
  BY <1>3, StepOfCall DEF I!connect, I!connect_limit, I!classify_login_error, I!At
<1>4. CASE I!release(u) \/ I!Dropped(u)
  BY <1>4, StepOfCall DEF I!release, I!Dropped, I!At
<1>5. CASE I!select(u) \/ I!move_message_bulk(u) \/ I!uid_copy(u) \/ I!uid_store(u)
  BY <1>5, StepOfCall DEF I!select, I!move_message_bulk, I!uid_copy, I!uid_store, I!Talk, I!At
<1>6. CASE I!expunge_message_bulk(u) \/ I!Expunge(u) \/ I!list_folders(u) \/ I!StreamEnds(u)
  BY <1>6, StepOfCall DEF I!expunge_message_bulk, I!Expunge, I!list_folders, I!StreamEnds,
     I!Talk, I!At
<1>7. CASE I!fetch_folder_size(u) \/ I!get_quota(u)
  BY <1>7, StepOfCall DEF I!fetch_folder_size, I!get_quota, I!Talk, I!Unread, I!At
<1> QED BY <1>1, <1>2, <1>3, <1>4, <1>5, <1>6, <1>7 DEF I!Step

LEMMA HandsOutAlive ==
    ASSUME PoolInv, [I!Next]_(I!vars), NEW t \in Tasks,
           calls[t] = None, calls'[t] # None, calls'[t].conn # None
    PROVE  sock[calls'[t].conn] = "open" \/ calls'[t].conn \in spoilt
<1>1. PICK call, U : I!acquire(t, call, U)
  BY CallsBegin DEF PoolInv
<1>2. calls'[t].conn = I!take.conn
  BY <1>1 DEF I!acquire, PoolInv, CallsOK
<1> QED BY <1>2, TakenStands

\* What comes out of the pool stands, unless the network cut it or a call put it back
\* with an answer unread (imap/session_cache.rs:22).
THEOREM ImapHandedOutAlive == I!Spec => I!HandedOutAlive
<1> DEFINE Alive == \A t \in Tasks : calls[t] = None /\ calls'[t] # None /\ calls'[t].conn # None =>
                       sock[calls'[t].conn] = "open" \/ calls'[t].conn \in spoilt
<1>1. PoolInv /\ [I!Next]_(I!vars) => [Alive]_(I!vars)
  BY HandsOutAlive
<1> QED BY <1>1, PoolStart, PoolNext, PTL DEF I!Spec, I!HandedOutAlive

-----------------------------------------------------------------------------

\* The mail, and how many connect at once.
MailShape == folder \cup target \cup wanted \subseteq MailUids /\ marked \subseteq folder
Connecting == {u \in Tasks : I!At(u, "connect")}
Limited == Cardinality(Connecting) <= MAX_CONCURRENT_CONNECTS_PER_ACCOUNT

LEMMA FewerConnect ==
    ASSUME Limited, \A u \in Tasks : I!At(u, "connect")' => I!At(u, "connect")
    PROVE  Limited'
<1>1. Connecting' \in SUBSET Connecting /\ Connecting \in SUBSET Tasks /\ IsFiniteSet(Tasks)
  BY PoolAssumed DEF Connecting
<1>2. IsFiniteSet(Connecting)
  BY <1>1, FS_Subset
<1>3. /\ IsFiniteSet(Connecting') /\ Cardinality(Connecting') <= Cardinality(Connecting)
      /\ Cardinality(Connecting') \in Nat /\ Cardinality(Connecting) \in Nat
  BY <1>1, <1>2, FS_Subset, FS_CardinalityType
<1> QED BY <1>3, PoolAssumed DEF Limited

LEMMA GotoFewer ==
    ASSUME Limited, CallsOK, NEW u \in Tasks, calls[u] # None,
           NEW s, I!Goto(u, s), s # "connect"
    PROVE  Limited'
<1>1. /\ \A v \in Tasks : v # u => calls'[v] = calls[v]
      /\ calls'[u] # None => calls'[u].at = s
  BY DEF CallsOK, CallFields, I!Goto
<1> QED BY <1>1, FewerConnect DEF I!At

LEMMA EndedFewer ==
    ASSUME Limited, CallsOK, NEW u \in Tasks, I!Ended(u) PROVE Limited'
<1>1. \A v \in Tasks : calls'[v] = None \/ calls'[v] = calls[v]
  BY DEF CallsOK, I!Ended
<1> QED BY <1>1, FewerConnect DEF I!At

LEMMA LimitKept == ASSUME PoolInv, Limited, [I!Next]_(I!vars) PROVE Limited'
<1>1. CASE calls' = calls
  BY <1>1, FewerConnect DEF I!At
<1>2. ASSUME NEW t \in Tasks, I!Step(t) PROVE Limited'
  <2>1. CASE \E call, U : I!acquire(t, call, U)
    <3> PICK call, U : I!acquire(t, call, U)
      BY <2>1
    <3>1. I!First(call) # "connect"
      BY DEF I!First
    <3>2. \E r : calls' = [calls EXCEPT ![t] = r] /\ r.at # "connect"
      <4> DEFINE r == [call |-> call, uids |-> U, conn |-> I!take.conn,
                       at |-> IF I!take.conn = None THEN "permit" ELSE I!First(call)]
      <4>1. calls' = [calls EXCEPT ![t] = r] /\ r.at # "connect"
        BY <3>1 DEF I!acquire
      <4> HIDE DEF r
      <4> QED BY <4>1
    <3>3. \A u \in Tasks : I!At(u, "connect")' => I!At(u, "connect")
      BY <3>2 DEF I!At, PoolInv, CallsOK
    <3> QED BY <3>3, FewerConnect
  <2>2. CASE I!connect_limit(t)
    <3>1. /\ calls[t] # None /\ I!Goto(t, "connect")
          /\ Cardinality(Connecting) < MAX_CONCURRENT_CONNECTS_PER_ACCOUNT
      BY <2>2, ConnCount DEF I!connect_limit, I!At, Connecting
    <3>2. Connecting' \in SUBSET (Connecting \cup {t})
      BY <3>1 DEF PoolInv, CallsOK, I!Goto, Connecting, I!At
    <3>3. IsFiniteSet(Connecting)
      BY FS_Subset, PoolAssumed DEF Connecting
    <3>4. /\ IsFiniteSet(Connecting \cup {t}) /\ Cardinality(Connecting) \in Nat
          /\ \/ Cardinality(Connecting \cup {t}) = Cardinality(Connecting) + 1
             \/ Cardinality(Connecting \cup {t}) = Cardinality(Connecting)
      BY <3>3, FS_AddElement, FS_CardinalityType
    <3>5. /\ IsFiniteSet(Connecting') /\ Cardinality(Connecting') <= Cardinality(Connecting \cup {t})
          /\ Cardinality(Connecting') \in Nat
      BY <3>2, <3>4, FS_Subset, FS_CardinalityType
    <3> QED BY <3>1, <3>4, <3>5, PoolAssumed DEF Limited
  <2>3. CASE I!connect(t)
    <3>1. I!First(calls[t].call) # "connect"
      BY DEF I!First
    <3>2. DOMAIN calls = Tasks /\ DOMAIN calls[t] = CallFields
      BY <2>3 DEF I!connect, I!At, PoolInv, CallsOK
    <3> PICK c : calls' = [calls EXCEPT ![t].conn = c, ![t].at = I!First(calls[t].call)]
      BY <2>3 DEF I!connect
    <3>3. calls'[t].at = I!First(calls[t].call) /\ \A u \in Tasks : u # t => calls'[u] = calls[u]
      BY <3>2 DEF CallFields
    <3> QED BY <3>1, <3>3, FewerConnect DEF I!At
  <2>4. CASE I!classify_login_error(t) \/ I!release(t) \/ I!Dropped(t)
    BY <2>4, EndedFewer DEF I!classify_login_error, I!release, I!Dropped, PoolInv
  <2>5. CASE \E s : s # "connect" /\ I!Goto(t, s) /\ calls[t] # None
    BY <2>5, GotoFewer DEF PoolInv
  <2>6. CASE I!select(t)
    <3>1. calls[t] # None /\ (I!Goto(t, "mv") \/ I!Goto(t, "store") \/ I!Goto(t, "release") \/ I!Goto(t, "size"))
      BY <2>6 DEF I!select, I!Talk, I!At
    <3> QED BY <2>5, <3>1
  <2>7. CASE \/ I!move_message_bulk(t) \/ I!uid_copy(t) \/ I!uid_store(t)
             \/ I!expunge_message_bulk(t) \/ I!Expunge(t)
    <3>1. calls[t] # None /\ (I!Goto(t, "copy") \/ I!Goto(t, "store") \/ I!Goto(t, "release")
                              \/ I!Goto(t, "expunge") \/ I!Goto(t, "uid_expunge"))
      BY <2>7 DEF I!move_message_bulk, I!uid_copy, I!uid_store, I!expunge_message_bulk,
         I!Expunge, I!Talk, I!At
    <3> QED BY <2>5, <3>1
  <2>8. CASE I!list_folders(t) \/ I!StreamEnds(t) \/ I!fetch_folder_size(t) \/ I!get_quota(t)
    <3>1. calls[t] # None /\ (I!Goto(t, "release") \/ I!Goto(t, "expunge") \/ I!Goto(t, "uid_expunge"))
      BY <2>8 DEF I!list_folders, I!StreamEnds, I!fetch_folder_size, I!get_quota, I!Talk,
         I!Unread, I!At
    <3> QED BY <2>5, <3>1
  <2> QED BY <1>2, <2>1, <2>2, <2>3, <2>4, <2>6, <2>7, <2>8 DEF I!Step
<1> QED BY <1>1, <1>2 DEF I!Next, I!Cut, I!LogOut, I!Mark, I!Tick, I!vars

LEMMA MailShapeKept == ASSUME PoolInv, MailShape, [I!Next]_(I!vars) PROVE MailShape'
<1>1. CASE UNCHANGED <<I!mail, wanted>>
  BY <1>1 DEF MailShape, I!mail
<1>2. ASSUME NEW t \in Tasks, I!Step(t) PROVE MailShape'
  <2>1. CASE \E call, U : U \in SUBSET MailUids /\ I!acquire(t, call, U)
    BY <2>1 DEF MailShape, I!acquire, I!mail
  <2>2. CASE \/ I!connect_limit(t) \/ I!connect(t) \/ I!classify_login_error(t)
             \/ I!release(t) \/ I!Dropped(t) \/ I!StreamEnds(t)
    BY <1>1, <2>2 DEF I!connect_limit, I!connect, I!classify_login_error, I!release,
       I!Dropped, I!StreamEnds
  <2>3. CASE I!select(t) \/ I!list_folders(t) \/ I!fetch_folder_size(t) \/ I!get_quota(t)
    BY <1>1, <2>3 DEF I!select, I!list_folders, I!fetch_folder_size, I!get_quota, I!Talk, I!Unread
  <2>4. CASE \/ I!move_message_bulk(t) \/ I!uid_copy(t) \/ I!uid_store(t)
             \/ I!expunge_message_bulk(t) \/ I!Expunge(t)
    BY <2>4 DEF I!move_message_bulk, I!uid_copy, I!uid_store, I!expunge_message_bulk,
       I!Expunge, I!Erase, I!Talk, I!Chosen, MailShape, I!mail
  <2> QED BY <1>2, <2>1, <2>2, <2>3, <2>4 DEF I!Step
<1>3. CASE \E u \in MailUids : I!Mark(u)
  BY <1>3 DEF I!Mark, MailShape
<1> QED BY <1>1, <1>2, <1>3 DEF I!Next, I!Cut, I!LogOut, I!Tick, I!vars

\* A connection is in one place, and no more of them are idle or being opened than
\* configured (imap/pool.rs:56).
THEOREM ImapTypeCorrect == I!Spec => []I!TypeOK
<1>1. I!Init => MailShape
  BY DEF I!Init, MailShape
<1>2. I!Init => Limited
  <2> SUFFICES ASSUME I!Init PROVE Limited
    OBVIOUS
  <2>1. Connecting = {}
    BY DEF I!Init, Connecting, I!At
  <2> QED BY <2>1, FS_EmptySet, PoolAssumed DEF Limited
<1>3. PoolInv /\ MailShape /\ Limited => I!TypeOK
  <2> SUFFICES ASSUME PoolInv, MailShape, Limited PROVE I!TypeOK
    OBVIOUS
  <2>1. Len(slots) <= max_idle /\ I!Cardinality(I!Kept) = Len(slots)
    BY KeptCount, ConnCount DEF PoolInv, PoolShape
  <2>2. I!Kept \cap I!Held = {}
    <3> SUFFICES ASSUME NEW i \in DOMAIN slots, NEW t \in Tasks, calls[t] # None,
                        slots[i].conn = calls[t].conn
                 PROVE  FALSE
      BY DEF I!Kept, I!Held
    <3> QED BY DEF PoolInv, OnePlace
  <2>3. \A t, u \in Tasks : calls[t] # None /\ calls[u] # None /\ I!Conn(t) # None =>
           (I!Conn(t) = I!Conn(u) => t = u)
    BY DEF I!Conn, PoolInv, OnePlace
  <2>4. I!Cardinality({t \in Tasks : I!At(t, "connect")}) <= MAX_CONCURRENT_CONNECTS_PER_ACCOUNT
    BY ConnCount DEF Limited, Connecting
  <2> QED BY <2>1, <2>2, <2>3, <2>4 DEF I!TypeOK, PoolInv, PoolShape, MailShape
<1>4. PoolInv /\ MailShape /\ Limited /\ [I!Next]_(I!vars) => MailShape' /\ Limited'
  BY MailShapeKept, LimitKept
<1> QED BY <1>1, <1>2, <1>3, <1>4, PoolStart, PoolNext, PTL DEF I!Spec

LEMMA ImapVars == UNCHANGED imapVars => UNCHANGED I!vars
  BY DEF imapVars, I!vars, I!mail

LEMMA ImapBehaviour == Spec /\ part = "imap" => I!Spec
<1>1. Init /\ part = "imap" => I!Init
  BY DEF Init
<1>2. part = "imap" /\ [Next]_vars => [I!Next]_(I!vars)
  <2> SUFFICES ASSUME part = "imap", [Next]_vars PROVE I!Next \/ UNCHANGED I!vars
    OBVIOUS
  <2>1. CASE Calling
    BY <2>1 DEF Calling
  <2>2. CASE UNCHANGED vars
    BY <2>2, ImapVars DEF vars
  <2> QED
    BY <2>1, <2>2 DEF Next, SigningIn, MailArrives, Notifying, Addressing, Planning,
       Labelling, Filing, Searching, Calling
<1>3. part = "imap" /\ [Next]_vars => (part = "imap")'
  BY PartFixed
<1> QED
  BY <1>1, <1>2, <1>3, PTL DEF Spec, I!Spec

-----------------------------------------------------------------------------
(* NewMail                                                                 *)

JobFields == {"at", "before", "msgs", "left", "todo", "vac", "filter", "app"}
IsJob(r) == DOMAIN r = JobFields /\ r.before \in Nat /\ r.vac.every \in 1..2
JobShape == task = [t \in Tasks |-> task[t]] /\ \A t \in Tasks : IsJob(task[t])

\* What is anywhere has arrived.
BoxShape ==
    /\ arrived \in Nat /\ cached \subseteq 1..arrived /\ inbox \subseteq 1..arrived
    /\ late \subseteq 1..arrived

\* Who will yet be told of the messages above its mark, or tell a task of them
Watches(t) == task[t].at \in {"sync", "after", "load"}

NoticeInv == JobShape /\ vac.every \in 1..2 /\ BoxShape /\ N!Noticed

LEMMA HighestUid ==
    ASSUME NEW M, NEW n \in Nat, M \subseteq 1..n
    PROVE  N!MaxUid(M) \in Nat /\ \A u \in M : u <= N!MaxUid(M)
                 /\ (M # {} => N!MaxUid(M) \in M)
<1>1. CASE M = {}
  BY <1>1 DEF N!MaxUid
<1>2. CASE M # {}
  <2> M \subseteq Nat /\ \A u \in M : u <= n
    OBVIOUS
  <2>1. \E u \in M : \A v \in M : v <= u
    BY <1>2, MostExists
  <2>2. \E u \in M : \A v \in M : u >= v
    BY <2>1
  <2>3. N!MaxUid(M) = CHOOSE u \in M : \A v \in M : u >= v
    BY <1>2 DEF N!MaxUid
  <2>4. N!MaxUid(M) \in M /\ \A v \in M : N!MaxUid(M) >= v
    BY <2>2, <2>3
  <2> QED BY <1>2, <2>4
<1> QED BY <1>1, <1>2

LEMMA IdleIsJob == IsJob(N!Idle) /\ N!Idle.at = "idle"
  BY DEF IsJob, N!Idle, JobFields

LEMMA GoKeeps ==
    ASSUME JobShape, NEW t \in Tasks, NEW r, N!Go(t, r), IsJob(r)
    PROVE  JobShape' /\ task'[t] = r /\ \A x \in Tasks : x # t => task'[x] = task[x]
  BY DEF JobShape, N!Go

LEMMA SameJobs == ASSUME JobShape, task' = task PROVE JobShape'
  BY DEF JobShape, IsJob

\* A job that goes on from one place to another, or ends.
LEMMA EditIsJob ==
    ASSUME NEW r, IsJob(r), NEW l
    PROVE  /\ IsJob([r EXCEPT !.at = l]) /\ [r EXCEPT !.at = l].at = l
           /\ [r EXCEPT !.at = l].left = r.left /\ [r EXCEPT !.at = l].vac = r.vac
           /\ [r EXCEPT !.at = l].before = r.before
  BY DEF IsJob, JobFields

LEMMA RestIsJob ==
    ASSUME NEW r, IsJob(r)
    PROVE  IsJob(N!Rest(r)) /\ N!Rest(r).at = r.at
  BY DEF IsJob, JobFields, N!Rest

\* A step keeps the invariant if every message it stores is watched for, or counted,
\* and every message that was watched for still is, or is counted by now.
LEMMA WatchKept ==
    ASSUME NoticeInv, JobShape', BoxShape', vac'.every \in 1..2,
           handed \cup lost \subseteq handed' \cup lost',
           \A u \in cached' \ cached :
              \/ u \in handed' \cup lost'
              \/ \E x \in Tasks : Watches(x)' /\ u > task'[x].before,
           \A x \in Tasks : Watches(x) =>
              \/ Watches(x)' /\ task'[x].before = task[x].before
              \/ \A u \in cached' \cap cached : u > task[x].before => u \in handed' \cup lost'
    PROVE  NoticeInv'
<1> SUFFICES ASSUME NEW u \in cached', u \notin handed' \cup lost'
             PROVE  \E x \in Tasks : Watches(x)' /\ u > task'[x].before
  BY DEF NoticeInv, N!Noticed, Watches
<1>1. CASE u \notin cached
  BY <1>1
<1>2. CASE u \in cached
  <2>1. PICK x \in Tasks : Watches(x) /\ u > task[x].before
    BY <1>2 DEF NoticeInv, N!Noticed, Watches
  <2> QED BY <1>2, <2>1
<1> QED BY <1>1, <1>2

LEMMA QuietJob ==
    ASSUME NoticeInv, UNCHANGED <<arrived, inbox, cached, late, handed, lost>>,
           vac'.every \in 1..2, NEW t \in Tasks, NEW r, N!Go(t, r), IsJob(r),
           Watches(t) => r.at \in {"sync", "after", "load"} /\ r.before = task[t].before
    PROVE  NoticeInv'
<1>1. JobShape' /\ task'[t] = r /\ \A x \in Tasks : x # t => task'[x] = task[x]
  BY GoKeeps DEF NoticeInv
<1>2. BoxShape'
  BY DEF NoticeInv, BoxShape
<1>3. \A x \in Tasks : Watches(x) => Watches(x)' /\ task'[x].before = task[x].before
  BY <1>1 DEF Watches
<1> QED BY <1>1, <1>2, <1>3, WatchKept

LEMMA QuietBox ==
    ASSUME NoticeInv, UNCHANGED <<arrived, inbox, cached, late, handed, lost, task>>,
           vac'.every \in 1..2
    PROVE  NoticeInv'
  BY SameJobs DEF NoticeInv, BoxShape, N!Noticed

LEMMA DeliverKeeps == ASSUME NoticeInv, N!Deliver PROVE NoticeInv'
<1>1. /\ arrived' = arrived + 1 /\ inbox' \subseteq inbox \cup {arrived + 1}
      /\ UNCHANGED <<cached, late, task, vac, handed, lost>>
  BY DEF N!Deliver, N!settings, N!history
<1>2. BoxShape'
  BY <1>1 DEF NoticeInv, BoxShape
<1> QED BY <1>1, <1>2, SameJobs DEF NoticeInv, N!Noticed

\* What lands late, and what a restart finds, is counted.
LEMMA LandKeeps == ASSUME NoticeInv, N!Land PROVE NoticeInv'
<1>1. /\ cached' = cached \cup late /\ late' = {} /\ lost' = lost \cup (late \ cached)
      /\ UNCHANGED <<arrived, inbox, task, vac, handed>>
  BY DEF N!Land, N!settings
<1>2. BoxShape' /\ JobShape'
  BY <1>1, SameJobs DEF NoticeInv, BoxShape
<1>3. \A x \in Tasks : Watches(x) => Watches(x)' /\ task'[x].before = task[x].before
  BY <1>1 DEF Watches
<1>4. \A u \in cached' \ cached : u \in handed' \cup lost'
  BY <1>1
<1>5. vac'.every \in 1..2 /\ handed \cup lost \subseteq handed' \cup lost'
  BY <1>1 DEF NoticeInv
<1> QED BY <1>2, <1>3, <1>4, <1>5, WatchKept

LEMMA RestartKeeps == ASSUME NoticeInv, N!Restart PROVE NoticeInv'
<1>1. /\ task' = [t \in Tasks |-> N!Idle] /\ late' = {} /\ lost' = lost \cup (cached \ handed)
      /\ UNCHANGED <<arrived, inbox, cached, vac, handed>>
  BY DEF N!Restart, N!settings
<1>2. BoxShape' /\ JobShape'
  BY <1>1, IdleIsJob DEF NoticeInv, BoxShape, JobShape
<1>3. N!Noticed'
  BY <1>1 DEF N!Noticed
<1> QED BY <1>1, <1>2, <1>3 DEF NoticeInv

\* The record of a task that a cycle, a first page or a task goes on with.
LEMMA SyncSteps ==
    ASSUME NoticeInv, NEW t \in Tasks,
           \/ N!inbox_max_uid(t) \/ N!RunSync(t) \/ N!SyncEnds(t) \/ N!SpawnTask(t)
           \/ N!ListCold(t) \/ N!Paint(t) \/ N!Load(t)
    PROVE  \/ UNCHANGED task
           \/ \E r : /\ N!Go(t, r) /\ IsJob(r) /\ r.at # "update"
                     /\ r.vac \in {task[t].vac, N!Idle.vac, vac}
<1>1. IsJob(task[t]) /\ vac.every \in 1..2
  BY DEF NoticeInv, JobShape
<1>2. CASE N!inbox_max_uid(t)
  <2>1. PICK before \in {0, N!MaxUid(cached)} :
          N!Go(t, [N!Idle EXCEPT !.at = "sync", !.before = before, !.app = TRUE])
    BY <1>2 DEF N!inbox_max_uid
  <2>2. N!MaxUid(cached) \in Nat
    BY HighestUid DEF NoticeInv, BoxShape
  <2> DEFINE r == [N!Idle EXCEPT !.at = "sync", !.before = before, !.app = TRUE]
  <2>3. IsJob(r) /\ r.at = "sync" /\ r.vac = N!Idle.vac /\ N!Go(t, r)
    BY <2>1, <2>2, IdleIsJob DEF IsJob, JobFields
  <2> HIDE DEF r
  <2> QED BY <2>3
<1>3. CASE N!RunSync(t)
  BY <1>3 DEF N!RunSync
<1>4. CASE N!SyncEnds(t) \/ N!SpawnTask(t)
  <2>1. PICK l \in {"after", "load"} : N!Go(t, [task[t] EXCEPT !.at = l]) \/ N!Go(t, N!Idle)
    BY <1>4 DEF N!SyncEnds, N!SpawnTask
  <2> DEFINE r == [task[t] EXCEPT !.at = l]
  <2>2. IsJob(r) /\ r.at = l /\ r.vac = task[t].vac
    BY <1>1, EditIsJob
  <2> HIDE DEF r
  <2> QED BY <2>1, <2>2, IdleIsJob DEF r
<1>5. CASE N!ListCold(t) \/ N!Paint(t)
  <2> DEFINE r == [N!Idle EXCEPT !.at = "paint"]
  <2>1. N!Go(t, r) \/ N!Go(t, N!Idle) \/ UNCHANGED task
    BY <1>5 DEF N!ListCold, N!Paint
  <2>2. IsJob(r) /\ r.at = "paint" /\ r.vac = N!Idle.vac
    BY IdleIsJob, EditIsJob
  <2> HIDE DEF r
  <2> QED BY <2>1, <2>2, IdleIsJob
<1>6. CASE N!Load(t)
  <2> DEFINE above == N!Above(task[t].before)
             r == [task[t] EXCEPT !.at = "reply", !.msgs = above, !.vac = vac,
                     !.left = IF vac.on THEN above ELSE {}, !.filter = rules # <<>>]
  <2>1. N!Go(t, N!Idle) \/ N!Go(t, r)
    BY <1>6 DEF N!Load
  <2>2. IsJob(r) /\ r.at = "reply" /\ r.vac = vac
    BY <1>1 DEF IsJob, JobFields
  <2> HIDE DEF r
  <2> QED BY <2>1, <2>2, IdleIsJob
<1> QED BY <1>2, <1>3, <1>4, <1>5, <1>6

\* A cycle begins, at a mark.
LEMMA BeginKeeps == ASSUME NoticeInv, NEW t \in Tasks, N!inbox_max_uid(t) \/ N!ListCold(t) PROVE NoticeInv'
<1>1. /\ UNCHANGED <<arrived, inbox, cached, late, handed, lost, vac>> /\ task[t].at = "idle"
      /\ task' # task \/ task' = task
  BY DEF N!inbox_max_uid, N!ListCold, N!mail, N!settings, N!At
<1>2. vac'.every \in 1..2
  BY <1>1 DEF NoticeInv
<1>3. \/ UNCHANGED task
      \/ \E r : N!Go(t, r) /\ IsJob(r)
  BY SyncSteps
<1>4. ~Watches(t)
  BY <1>1 DEF Watches
<1>5. CASE UNCHANGED task
  BY <1>1, <1>2, <1>5, QuietBox
<1>6. CASE \E r : N!Go(t, r) /\ IsJob(r)
  BY <1>1, <1>2, <1>4, <1>6, QuietJob
<1> QED BY <1>3, <1>5, <1>6

\* What a cycle stores above its mark it watches for itself.
LEMMA RunSyncKeeps == ASSUME NoticeInv, NEW t \in Tasks, N!RunSync(t) PROVE NoticeInv'
<1>1. PICK new \in SUBSET (inbox \ cached), old \in SUBSET (cached \ inbox) :
        /\ cached' = (cached \cup new) \ old
        /\ lost' = lost \cup {u \in new : u <= task[t].before}
  BY DEF N!RunSync
<1>2. task[t].at = "sync" /\ UNCHANGED <<arrived, inbox, late, task, vac, handed>>
  BY DEF N!RunSync, N!settings, N!At
<1>3. BoxShape' /\ JobShape'
  BY <1>1, <1>2, SameJobs DEF NoticeInv, BoxShape
<1>4. \A x \in Tasks : Watches(x) => Watches(x)' /\ task'[x].before = task[x].before
  BY <1>2 DEF Watches
<1>5. ASSUME NEW u \in cached' \ cached
      PROVE  u \in handed' \cup lost' \/ \E x \in Tasks : Watches(x)' /\ u > task'[x].before
  <2>1. u \in new /\ u \in Nat /\ task[t].before \in Nat
    BY <1>1, <1>5 DEF NoticeInv, BoxShape, JobShape, IsJob
  <2>2. CASE u <= task[t].before
    BY <1>1, <2>1, <2>2
  <2>3. CASE u > task[t].before
    BY <1>2, <2>3 DEF Watches
  <2> QED BY <2>1, <2>2, <2>3
<1>6. vac'.every \in 1..2 /\ handed \cup lost \subseteq handed' \cup lost'
  BY <1>1, <1>2 DEF NoticeInv
<1> QED BY <1>3, <1>4, <1>5, <1>6, WatchKept

LEMMA SyncEndsKeeps == ASSUME NoticeInv, NEW t \in Tasks, N!SyncEnds(t) PROVE NoticeInv'
<1> DEFINE r == [task[t] EXCEPT !.at = "after"]
<1>1. /\ N!Go(t, r) /\ UNCHANGED <<arrived, inbox, cached, vac, handed, lost>>
      /\ late' \subseteq late \cup inbox
  BY DEF N!SyncEnds, N!settings
<1>2. IsJob(r) /\ r.at = "after" /\ r.before = task[t].before
  BY EditIsJob DEF NoticeInv, JobShape
<1> HIDE DEF r
<1>3. JobShape' /\ task'[t] = r /\ \A x \in Tasks : x # t => task'[x] = task[x]
  BY <1>1, <1>2, GoKeeps DEF NoticeInv
<1>4. BoxShape'
  BY <1>1 DEF NoticeInv, BoxShape
<1>5. \A x \in Tasks : Watches(x) => Watches(x)' /\ task'[x].before = task[x].before
  BY <1>2, <1>3 DEF Watches
<1>6. vac'.every \in 1..2
  BY <1>1 DEF NoticeInv
<1> QED BY <1>1, <1>3, <1>4, <1>5, <1>6, WatchKept

\* Whoever goes on without telling a task has none above its mark, or counts them.
LEMMA GivesUp ==
    ASSUME NoticeInv, NEW t \in Tasks, NEW r, N!Go(t, r), IsJob(r),
           UNCHANGED <<arrived, inbox, cached, late, vac>>,
           handed \cup lost \subseteq handed' \cup lost',
           \A u \in cached : u > task[t].before => u \in handed' \cup lost'
    PROVE  NoticeInv'
<1>1. JobShape' /\ task'[t] = r /\ \A x \in Tasks : x # t => task'[x] = task[x]
  BY GoKeeps DEF NoticeInv
<1>2. BoxShape' /\ vac'.every \in 1..2
  BY DEF NoticeInv, BoxShape
<1>3. \A x \in Tasks : Watches(x) =>
         \/ Watches(x)' /\ task'[x].before = task[x].before
         \/ \A u \in cached' \cap cached : u > task[x].before => u \in handed' \cup lost'
  BY <1>1 DEF Watches
<1> QED BY <1>1, <1>2, <1>3, WatchKept

LEMMA SpawnKeeps == ASSUME NoticeInv, NEW t \in Tasks, N!SpawnTask(t) PROVE NoticeInv'
<1>1. UNCHANGED <<arrived, inbox, cached, late, vac, handed>> /\ IsJob(task[t]) /\ vac'.every \in 1..2
  BY DEF N!SpawnTask, N!mail, N!settings, NoticeInv, JobShape
<1>2. CASE N!MaxUid(cached) > task[t].before /\ N!Go(t, [task[t] EXCEPT !.at = "load"]) /\ UNCHANGED lost
  <2> DEFINE r == [task[t] EXCEPT !.at = "load"]
  <2>1. IsJob(r) /\ r.at = "load" /\ r.before = task[t].before /\ N!Go(t, r)
    BY <1>1, <1>2, EditIsJob
  <2> HIDE DEF r
  <2> QED BY <1>1, <1>2, <2>1, QuietJob
<1>3. CASE ~(N!MaxUid(cached) > task[t].before) /\ N!Go(t, N!Idle) /\ UNCHANGED lost
  <2>1. N!MaxUid(cached) \in Nat /\ \A u \in cached : u \in Nat /\ u <= N!MaxUid(cached)
    BY HighestUid DEF NoticeInv, BoxShape
  <2>2. \A u \in cached : ~(u > task[t].before)
    BY <1>1, <1>3, <2>1 DEF IsJob
  <2> QED BY <1>1, <1>3, <2>2, IdleIsJob, GivesUp
<1>4. CASE N!Go(t, N!Idle) /\ lost' = lost \cup N!Above(task[t].before)
  <2>1. \A u \in cached : u > task[t].before => u \in lost'
    BY <1>4 DEF N!Above
  <2> QED BY <1>1, <1>4, <2>1, IdleIsJob, GivesUp
<1> QED BY <1>2, <1>3, <1>4 DEF N!SpawnTask

\* What a first page stores is counted.
LEMMA PaintKeeps == ASSUME NoticeInv, NEW t \in Tasks, N!Paint(t) PROVE NoticeInv'
<1>1. PICK page \in SUBSET inbox : cached' = cached \cup page /\ lost' = lost \cup (page \ cached)
  BY DEF N!Paint
<1>2. /\ task[t].at = "paint" /\ (N!Go(t, N!Idle) \/ UNCHANGED task)
      /\ UNCHANGED <<arrived, inbox, late, vac, handed>>
  BY DEF N!Paint, N!settings, N!At
<1>3. JobShape' /\ \A x \in Tasks : x # t => task'[x] = task[x]
  BY <1>2, IdleIsJob, GoKeeps, SameJobs DEF NoticeInv
<1>4. BoxShape'
  BY <1>1, <1>2 DEF NoticeInv, BoxShape
<1>5. \A x \in Tasks : Watches(x) => Watches(x)' /\ task'[x].before = task[x].before
  BY <1>2, <1>3 DEF Watches
<1>6. vac'.every \in 1..2 /\ handed \cup lost \subseteq handed' \cup lost'
  BY <1>1, <1>2 DEF NoticeInv
<1>7. \A u \in cached' \ cached : u \in handed' \cup lost'
  BY <1>1
<1> QED BY <1>3, <1>4, <1>5, <1>6, <1>7, WatchKept

LEMMA LoadKeeps == ASSUME NoticeInv, NEW t \in Tasks, N!Load(t) PROVE NoticeInv'
<1> DEFINE above == {u \in cached : u > task[t].before}
<1>1. UNCHANGED <<arrived, inbox, cached, late, vac>>
  BY DEF N!Load, N!mail, N!settings
<1>2. PICK r : N!Go(t, r) /\ IsJob(r)
               /\ above \subseteq handed' \cup lost' /\ handed \cup lost \subseteq handed' \cup lost'
  <2>1. CASE N!Go(t, N!Idle) /\ above \subseteq handed' \cup lost'
             /\ handed \cup lost \subseteq handed' \cup lost'
    BY <2>1, IdleIsJob
  <2>2. CASE /\ N!Go(t, [task[t] EXCEPT !.at = "reply", !.msgs = above, !.vac = vac,
                          !.left = IF vac.on THEN above ELSE {}, !.filter = rules # <<>>])
             /\ handed' = handed \cup above /\ UNCHANGED lost
    <3> DEFINE r == [task[t] EXCEPT !.at = "reply", !.msgs = above, !.vac = vac,
                          !.left = IF vac.on THEN above ELSE {}, !.filter = rules # <<>>]
    <3>1. IsJob(r)
      BY DEF NoticeInv, JobShape, IsJob, JobFields
    <3> QED BY <2>2, <3>1
  <2> QED BY <2>1, <2>2 DEF N!Load, N!Above
<1>3. \A u \in cached : u > task[t].before => u \in handed' \cup lost'
  BY <1>2
<1> HIDE DEF above
<1> QED BY <1>1, <1>2, <1>3, GivesUp

LEMMA ActKeeps == ASSUME NoticeInv, NEW t \in Tasks, N!Act(t) PROVE NoticeInv'
<1>1. /\ task[t].at = "act" /\ IsJob(task[t])
      /\ UNCHANGED <<arrived, cached, late, vac, handed, lost>> /\ inbox' \subseteq inbox
      /\ vac'.every \in 1..2
  BY DEF N!Act, N!At, N!settings, NoticeInv, JobShape
<1>2. PICK r : N!Go(t, r) /\ IsJob(r)
  <2> DEFINE away == [task[t] EXCEPT !.at = "forget"]
             next == N!NextMessage(task[t])
             more == [task[t] EXCEPT !.todo = Tail(task[t].todo)]
  <2>1. N!Go(t, away) \/ N!Go(t, next) \/ N!Go(t, more)
    BY DEF N!Act
  <2>2. IsJob(away) /\ IsJob(more)
    BY <1>1, EditIsJob DEF IsJob, JobFields
  <2>3. IsJob(next)
    <3>1. IsJob([task[t] EXCEPT !.at = "match", !.todo = <<>>])
      BY <1>1 DEF IsJob, JobFields
    <3> QED BY <3>1, RestIsJob DEF N!NextMessage
  <2> HIDE DEF away, next, more
  <2> QED BY <2>1, <2>2, <2>3
<1>3. JobShape' /\ \A x \in Tasks : x # t => task'[x] = task[x]
  BY <1>2, GoKeeps DEF NoticeInv
<1>4. BoxShape'
  BY <1>1 DEF NoticeInv, BoxShape
<1>5. \A x \in Tasks : Watches(x) => Watches(x)' /\ task'[x].before = task[x].before
  BY <1>1, <1>3 DEF Watches
<1> QED BY <1>1, <1>3, <1>4, <1>5, WatchKept

LEMMA ForgetKeeps == ASSUME NoticeInv, NEW t \in Tasks, N!Forget(t) PROVE NoticeInv'
<1>1. /\ task[t].at = "forget" /\ IsJob(task[t]) /\ cached' \subseteq cached
      /\ UNCHANGED <<arrived, inbox, late, vac, handed, lost>> /\ vac'.every \in 1..2
      /\ N!Go(t, N!NextMessage(task[t]))
  BY DEF N!Forget, N!At, N!settings, N!history, NoticeInv, JobShape
<1>2. IsJob(N!NextMessage(task[t]))
  <2>1. IsJob([task[t] EXCEPT !.at = "match", !.todo = <<>>])
    BY <1>1 DEF IsJob, JobFields
  <2> QED BY <2>1, RestIsJob DEF N!NextMessage
<1>3. JobShape' /\ \A x \in Tasks : x # t => task'[x] = task[x]
  BY <1>1, <1>2, GoKeeps DEF NoticeInv
<1>4. BoxShape'
  BY <1>1 DEF NoticeInv, BoxShape
<1>5. \A x \in Tasks : Watches(x) => Watches(x)' /\ task'[x].before = task[x].before
  BY <1>1, <1>3 DEF Watches
<1> QED BY <1>1, <1>3, <1>4, <1>5, WatchKept

\* What the other steps of a task do to the task.
LEMMA ReplySteps ==
    ASSUME JobShape, NEW t \in Tasks,
           \/ N!apply_filters(t) \/ N!CheckReply(t) \/ N!Skip(t) \/ N!RecordReply(t)
           \/ N!SendReply(t) \/ N!Purge(t) \/ N!Match(t)
    PROVE  \E r : /\ N!Go(t, r) /\ IsJob(r) /\ ~Watches(t)
                  /\ r.at = "update" => /\ N!CheckReply(t) /\ r.left = task[t].left
<1>1. IsJob(task[t])
  BY DEF JobShape
<1>2. CASE N!apply_filters(t)
  <2> DEFINE r == [N!Idle EXCEPT !.at = "match", !.msgs = cached, !.left = cached,
                                 !.filter = TRUE]
  <2>1. IsJob(r) /\ r.at = "match"
    BY IdleIsJob DEF IsJob, JobFields
  <2>2. N!Go(t, r) /\ ~Watches(t)
    BY <1>2 DEF N!apply_filters, N!At, Watches
  <2> HIDE DEF r
  <2> QED BY <2>1, <2>2
<1>3. CASE N!CheckReply(t)
  <2>1. PICK l \in {"skip", "insert", "update"} : N!Go(t, [task[t] EXCEPT !.at = l])
    BY <1>3 DEF N!CheckReply
  <2> DEFINE r == [task[t] EXCEPT !.at = l]
  <2>2. IsJob(r) /\ r.at = l /\ r.left = task[t].left
    BY <1>1, EditIsJob
  <2>3. N!Go(t, r) /\ ~Watches(t)
    BY <1>3, <2>1 DEF N!CheckReply, N!At, Watches
  <2> HIDE DEF r
  <2> QED BY <1>3, <2>2, <2>3
<1>4. CASE N!Skip(t) \/ N!SendReply(t)
  <2> DEFINE e == [task[t] EXCEPT !.at = "reply"]
  <2>1. IsJob(e) /\ e.at = "reply"
    BY <1>1, EditIsJob
  <2>2. N!Go(t, N!Rest(e)) /\ ~Watches(t)
    BY <1>4 DEF N!Skip, N!SendReply, N!At, Watches
  <2> HIDE DEF e
  <2>3. IsJob(N!Rest(e)) /\ N!Rest(e).at = "reply"
    BY <2>1, RestIsJob
  <2> QED BY <2>2, <2>3
<1>5. CASE N!RecordReply(t)
  <2>1. PICK l \in {"skip", "send"} : N!Go(t, [task[t] EXCEPT !.at = l])
    BY <1>5 DEF N!RecordReply
  <2> DEFINE r == [task[t] EXCEPT !.at = l]
  <2>2. IsJob(r) /\ r.at = l
    BY <1>1, EditIsJob
  <2>3. N!Go(t, r) /\ ~Watches(t)
    BY <1>5, <2>1 DEF N!RecordReply, N!At, Watches
  <2> HIDE DEF r
  <2> QED BY <2>2, <2>3
<1>6. CASE N!Purge(t)
  <2>1. \/ N!Go(t, N!Idle)
        \/ N!Go(t, [task[t] EXCEPT !.at = "match", !.left = task[t].msgs])
    BY <1>6 DEF N!Purge
  <2> DEFINE r == [task[t] EXCEPT !.at = "match", !.left = task[t].msgs]
  <2>2. IsJob(r) /\ r.at = "match"
    BY <1>1 DEF IsJob, JobFields
  <2>3. (N!Go(t, N!Idle) \/ N!Go(t, r)) /\ ~Watches(t)
    BY <1>6, <2>1 DEF N!Purge, N!At, Watches
  <2> HIDE DEF r
  <2> QED BY <2>2, <2>3, IdleIsJob
<1>7. CASE N!Match(t)
  <2> DEFINE r == [task[t] EXCEPT !.at = "act",
                                  !.todo = N!Steps(t, N!matching_rules(N!This(t)))]
  <2>1. IsJob(r) /\ r.at = "act"
    BY <1>1 DEF IsJob, JobFields
  <2>2. (N!Go(t, N!Idle) \/ N!Go(t, r)) /\ ~Watches(t)
    BY <1>7 DEF N!Match, N!At, Watches
  <2> HIDE DEF r
  <2> QED BY <2>1, <2>2, IdleIsJob
<1> QED BY <1>2, <1>3, <1>4, <1>5, <1>6, <1>7

LEMMA NoticeStart == N!Init => NoticeInv
<1> SUFFICES ASSUME N!Init PROVE NoticeInv
  OBVIOUS
<1>1. JobShape /\ vac.every \in 1..2
  BY IdleIsJob DEF N!Init, JobShape
<1>2. \A t \in Tasks : task[t].at = "idle"
  BY IdleIsJob DEF N!Init
<1> QED BY <1>1, <1>2 DEF N!Init, NoticeInv, BoxShape, N!Noticed

LEMMA NoticeNext == NoticeInv /\ [N!Next]_(N!vars) => NoticeInv'
<1> SUFFICES ASSUME NoticeInv, [N!Next]_(N!vars) PROVE NoticeInv'
  OBVIOUS
<1>1. vac.every \in 1..2
  BY DEF NoticeInv
<1>2. CASE \/ N!push_sieve_async \/ N!push_script \/ N!FilterEdit \/ N!Tick
           \/ UNCHANGED N!vars
  <2>1. UNCHANGED <<arrived, inbox, cached, late, handed, lost, task, vac>>
    BY <1>2 DEF N!push_sieve_async, N!push_script, N!FilterEdit, N!Tick, N!vars, N!mail,
       N!settings, N!history
  <2> QED BY <1>1, <2>1, QuietBox
<1>3. CASE N!update_vacation
  <2>1. UNCHANGED <<arrived, inbox, cached, late, handed, lost, task>> /\ vac'.every \in 1..2
    BY <1>3 DEF N!update_vacation, N!mail, N!Intervals
  <2> QED BY <2>1, QuietBox
<1>4. CASE \E t \in Tasks : \/ N!apply_filters(t) \/ N!CheckReply(t) \/ N!Skip(t)
                            \/ N!RecordReply(t) \/ N!SendReply(t) \/ N!Purge(t) \/ N!Match(t)
  <2> PICK t \in Tasks : \/ N!apply_filters(t) \/ N!CheckReply(t) \/ N!Skip(t)
                         \/ N!RecordReply(t) \/ N!SendReply(t) \/ N!Purge(t) \/ N!Match(t)
    BY <1>4
  <2>1. PICK r : N!Go(t, r) /\ IsJob(r) /\ ~Watches(t)
    BY ReplySteps DEF NoticeInv
  <2>2. UNCHANGED <<arrived, inbox, cached, late, handed, lost, vac>>
    BY DEF N!apply_filters, N!CheckReply, N!Skip, N!RecordReply, N!SendReply, N!Purge,
       N!Match, N!mail, N!settings, N!history
  <2> QED BY <1>1, <2>1, <2>2, QuietJob
<1> QED
  BY <1>2, <1>3, <1>4, DeliverKeeps, LandKeeps, RestartKeeps, BeginKeeps, RunSyncKeeps,
     SyncEndsKeeps, SpawnKeeps, PaintKeeps, LoadKeeps, ActKeeps, ForgetKeeps DEF N!Next

\* Whatever cycles overlap, and whatever a task deletes from the cache meanwhile
\* (realtime/worker.rs:187).
THEOREM NewMailNoticed == N!Spec => []N!Noticed
<1>1. NoticeInv => N!Noticed
  BY DEF NoticeInv
<1> QED BY <1>1, NoticeStart, NoticeNext, PTL DEF N!Spec

-----------------------------------------------------------------------------

ReplyShape ==
    /\ JobShape /\ vac.every \in 1..2 /\ hour \in Nat
    /\ replied \in [Senders -> {Never} \cup Nat] /\ answers \in [Senders -> Seq(Nat)]

\* A record is at least as recent as the first answer; without one, and for a task
\* that has found it out of date, the first answer is an hour old.
Recorded(s) ==
    /\ replied[s] # Never => /\ answers[s] # <<>> /\ answers[s][1] <= replied[s]
                             /\ replied[s] <= hour
    /\ replied[s] = Never /\ answers[s] # <<>> => answers[s][1] < hour
    /\ Len(answers[s]) > 1 => answers[s][2] > answers[s][1]
OutOfDate(t) ==
    N!At(t, "update") =>
        \A s \in Senders : s = From[N!This(t)] => answers[s] # <<>> /\ answers[s][1] < hour

ReplyInv ==
    /\ ReplyShape
    /\ \A s \in Senders : Recorded(s)
    /\ \A t \in Tasks : OutOfDate(t)

LEMMA EmptyLength == ASSUME NEW q, q = <<>> PROVE Len(q) = 0
  OBVIOUS

LEMMA FirstAndSecond ==
    ASSUME NEW q \in Seq(Nat), NEW h \in Nat
    PROVE  /\ Append(q, h) \in Seq(Nat) /\ Append(q, h) # <<>>
           /\ q = <<>> => Append(q, h)[1] = h /\ Len(Append(q, h)) = 1
           /\ q # <<>> => Append(q, h)[1] = q[1]
           /\ Len(q) = 1 => Append(q, h)[2] = h
           /\ Len(q) > 1 => Append(q, h)[2] = q[2]
           /\ Len(Append(q, h)) = Len(q) + 1
           /\ Len(q) \in Nat /\ (q # <<>> => Len(q) > 0 /\ q[1] \in Nat)
           /\ Len(q) > 1 => q[2] \in Nat
<1>1. /\ Len(q) \in Nat /\ Append(q, h) \in Seq(Nat) /\ Len(Append(q, h)) = Len(q) + 1
      /\ \A i \in 1..Len(q) : q[i] \in Nat /\ Append(q, h)[i] = q[i]
      /\ Append(q, h)[Len(q) + 1] = h
  OBVIOUS
<1>2. q = <<>> <=> Len(q) = 0
  OBVIOUS
<1>3. Append(q, h) # <<>>
  <2> SUFFICES ASSUME Append(q, h) = <<>> PROVE FALSE
    OBVIOUS
  <2>1. Len(Append(q, h)) = 0
    BY EmptyLength
  <2> QED BY <1>1, <2>1
<1> DEFINE n == Append(q, h)
<1> HIDE DEF n
<1>4. Append(q, h) = n
  BY DEF n
<1> QED BY <1>1, <1>2, <1>3, <1>4

\* A reply that is recorded now.
LEMMA AnswerKeeps ==
    ASSUME ReplyInv, NEW s \in Senders,
           answers' = [answers EXCEPT ![s] = Append(@, hour)], UNCHANGED hour,
           \/ replied[s] = Never /\ replied' = [replied EXCEPT ![s] = hour]
           \/ /\ answers[s] # <<>> /\ answers[s][1] < hour
              /\ replied' = [replied EXCEPT ![s] = IF @ = Never THEN Never ELSE hour]
    PROVE  /\ \A x \in Senders : Recorded(x)'
           /\ replied' \in [Senders -> {Never} \cup Nat] /\ answers' \in [Senders -> Seq(Nat)]
           /\ \A x \in Senders : answers[x] # <<>> =>
                 answers'[x] # <<>> /\ answers'[x][1] = answers[x][1]
<1>1. hour \in Nat /\ replied \in [Senders -> {Never} \cup Nat] /\ answers \in [Senders -> Seq(Nat)]
  BY DEF ReplyInv, ReplyShape
<1> DEFINE q == answers[s]
           n == Append(q, hour)
<1>2. q \in Seq(Nat) /\ answers'[s] = n /\ \A x \in Senders : x # s => answers'[x] = answers[x]
  BY <1>1
<1>3. \A x \in Senders : x # s => replied'[x] = replied[x]
  BY <1>1
<1>4. Recorded(s)
  BY DEF ReplyInv
<1>5. /\ n \in Seq(Nat) /\ n # <<>>
      /\ q = <<>> => n[1] = hour /\ Len(n) = 1
      /\ q # <<>> => n[1] = q[1]
      /\ Len(q) = 1 => n[2] = hour
      /\ Len(q) > 1 => n[2] = q[2]
      /\ Len(n) = Len(q) + 1
      /\ Len(q) \in Nat /\ (q # <<>> => Len(q) > 0 /\ q[1] \in Nat)
      /\ Len(q) > 1 => q[2] \in Nat
  BY <1>1, <1>2, FirstAndSecond
<1>6. answers' \in [Senders -> Seq(Nat)]
  BY <1>1, <1>5
<1>7. replied' \in [Senders -> {Never} \cup Nat] /\ replied'[s] \in {Never, hour}
  BY <1>1
<1>8. q # <<>> => q[1] < hour
  BY <1>1, <1>4 DEF Recorded
<1>9. q = <<>> => replied'[s] = hour
  BY <1>1
<1> HIDE DEF n
<1>10. n[1] <= hour /\ (Len(n) > 1 => n[2] > n[1])
       /\ (replied'[s] = Never => n[1] < hour)
  <2>1. CASE q = <<>>
    BY <1>1, <1>5, <1>9, <2>1, MailAssumed
  <2>2. CASE q # <<>> /\ Len(q) = 1
    BY <1>1, <1>5, <1>8, <2>2
  <2>3. CASE q # <<>> /\ Len(q) > 1
    <3>1. q[2] > q[1]
      BY <1>4, <2>3 DEF Recorded
    <3> HIDE DEF q
    <3> QED BY <1>1, <1>5, <1>8, <2>3, <3>1
  <2>4. q = <<>> \/ (q # <<>> /\ Len(q) = 1) \/ (q # <<>> /\ Len(q) > 1)
    <3>1. Len(q) \in Nat /\ (q # <<>> => Len(q) > 0)
      BY <1>5
    <3>2. \A k \in Nat : k > 0 => k = 1 \/ k > 1
      OBVIOUS
    <3> QED BY <3>1, <3>2, Zenon
  <2> QED BY <2>1, <2>2, <2>3, <2>4
<1>11. Recorded(s)'
  BY <1>1, <1>2, <1>5, <1>7, <1>10 DEF Recorded
<1>12. \A x \in Senders : x # s => Recorded(x)'
  BY <1>2, <1>3 DEF ReplyInv, Recorded
<1> QED BY <1>2, <1>5, <1>6, <1>7, <1>11, <1>12

LEMMA QuietReply ==
    ASSUME ReplyInv, UNCHANGED <<hour, answers, replied>>, vac'.every \in 1..2,
           \/ UNCHANGED task
           \/ \E t \in Tasks : \E r : N!Go(t, r) /\ IsJob(r) /\ r.at # "update"
    PROVE  ReplyInv'
<1>1. JobShape' /\ \A t \in Tasks : task'[t].at = "update" => task'[t] = task[t]
  <2>1. CASE UNCHANGED task
    BY <2>1, SameJobs DEF ReplyInv, ReplyShape
  <2>2. CASE \E t \in Tasks : \E r : N!Go(t, r) /\ IsJob(r) /\ r.at # "update"
    <3>0. PICK t \in Tasks : \E r : N!Go(t, r) /\ IsJob(r) /\ r.at # "update"
      BY <2>2
    <3> PICK r : N!Go(t, r) /\ IsJob(r) /\ r.at # "update"
      BY <3>0
    <3>1. JobShape' /\ task'[t] = r /\ \A x \in Tasks : x # t => task'[x] = task[x]
      BY GoKeeps DEF ReplyInv, ReplyShape
    <3> QED BY <3>1
  <2> QED BY <2>1, <2>2
<1>2. \A s \in Senders : Recorded(s)'
  BY DEF ReplyInv, Recorded
<1>3. \A t \in Tasks : OutOfDate(t)'
  BY <1>1 DEF ReplyInv, OutOfDate, N!At, N!This
<1> QED BY <1>1, <1>2, <1>3 DEF ReplyInv, ReplyShape

LEMMA TickReply == ASSUME ReplyInv, N!Tick PROVE ReplyInv'
<1>1. hour' = hour + 1 /\ UNCHANGED <<answers, replied, vac, task>>
  BY DEF N!Tick, N!settings
<1>2. hour \in Nat /\ \A s \in Senders : /\ replied[s] \in {Never} \cup Nat
                                         /\ answers[s] # <<>> => answers[s][1] \in Nat
  BY FirstAndSecond DEF ReplyInv, ReplyShape
<1>3. \A s \in Senders : Recorded(s)'
  <2> SUFFICES ASSUME NEW s \in Senders PROVE Recorded(s)'
    OBVIOUS
  <2>1. Recorded(s)
    BY DEF ReplyInv
  <2> QED BY <1>1, <1>2, <2>1 DEF Recorded
<1>4. \A t \in Tasks : OutOfDate(t)'
  BY <1>1, <1>2 DEF ReplyInv, OutOfDate, N!At, N!This
<1> QED BY <1>1, <1>2, <1>3, <1>4, SameJobs DEF ReplyInv, ReplyShape

\* Found out of date: at least an hour has passed since the record was made.
LEMMA CheckKeeps == ASSUME ReplyInv, NEW t \in Tasks, N!CheckReply(t) PROVE ReplyInv'
<1>1. UNCHANGED <<hour, answers, replied, vac>> /\ vac'.every \in 1..2
  BY DEF N!CheckReply, N!settings, N!history, ReplyInv, ReplyShape
<1>2. PICK r : /\ N!Go(t, r) /\ IsJob(r)
               /\ r.at = "update" => N!CheckReply(t) /\ r.left = task[t].left
  BY ReplySteps DEF ReplyInv, ReplyShape
<1>3. CASE r.at # "update"
  BY <1>1, <1>2, <1>3, QuietReply
<1>4. CASE r.at = "update"
  <2>1. JobShape' /\ task'[t] = r /\ (\A x \in Tasks : x # t => task'[x] = task[x])
        /\ r.left = task[t].left /\ task[t].vac.every \in 1..2
    BY <1>2, <1>4, GoKeeps DEF ReplyInv, ReplyShape, JobShape, IsJob
  <2> DEFINE s == From[N!This(t)]
  <2>2. replied[s] # Never /\ ~(hour - replied[s] < task[t].vac.every)
    <3> DEFINE l == IF N!is_automated_sender(s) THEN "skip"
                    ELSE IF replied[s] = Never THEN "insert"
                    ELSE IF hour - replied[s] < task[t].vac.every THEN "skip" ELSE "update"
    <3>1. N!Go(t, [task[t] EXCEPT !.at = l])
      BY DEF N!CheckReply
    <3>2. task' = [task EXCEPT ![t] = [task[t] EXCEPT !.at = l]]
      BY <3>1 DEF N!Go
    <3>3. task'[t] = [task[t] EXCEPT !.at = l]
      BY <3>2 DEF ReplyInv, ReplyShape, JobShape
    <3>4. IsJob(task[t])
      BY DEF ReplyInv, ReplyShape, JobShape
    <3>5. [task[t] EXCEPT !.at = l].at = l
      BY <3>4, EditIsJob
    <3>6. l = "update"
      BY <1>4, <2>1, <3>3, <3>5
    <3> QED BY <3>6
  <2>3. s \in Senders => answers[s] # <<>> /\ answers[s][1] < hour
    <3> SUFFICES ASSUME s \in Senders PROVE answers[s] # <<>> /\ answers[s][1] < hour
      OBVIOUS
    <3>1. /\ hour \in Nat /\ replied[s] \in Nat /\ Recorded(s)
          /\ answers[s] # <<>> => answers[s][1] \in Nat
      BY <2>2, FirstAndSecond DEF ReplyInv, ReplyShape
    <3>2. answers[s] # <<>> /\ answers[s][1] <= replied[s]
      BY <2>2, <3>1 DEF Recorded
    <3> HIDE DEF s
    <3> QED BY <2>1, <2>2, <3>1, <3>2
  <2>4. N!This(t)' = N!This(t)
    BY <2>1 DEF N!This
  <2>5. OutOfDate(t)'
    BY <1>1, <2>3, <2>4 DEF OutOfDate
  <2>6. \A x \in Tasks : OutOfDate(x)'
    <3> SUFFICES ASSUME NEW x \in Tasks, x # t PROVE OutOfDate(x)'
      BY <2>5
    <3> QED BY <1>1, <2>1 DEF ReplyInv, OutOfDate, N!At, N!This
  <2>7. \A x \in Senders : Recorded(x)'
    BY <1>1 DEF ReplyInv, Recorded
  <2> QED BY <1>1, <2>1, <2>6, <2>7 DEF ReplyInv, ReplyShape
<1> QED BY <1>3, <1>4

LEMMA RecordKeeps == ASSUME ReplyInv, NEW t \in Tasks, N!RecordReply(t) PROVE ReplyInv'
<1>1. UNCHANGED <<hour, vac>> /\ vac'.every \in 1..2
  BY DEF N!RecordReply, N!settings, N!history, ReplyInv, ReplyShape
<1>2. PICK r : /\ N!Go(t, r) /\ IsJob(r) /\ (r.at = "update" => N!CheckReply(t))
  BY ReplySteps DEF ReplyInv, ReplyShape
<1>3. r.at # "update"
  BY <1>2 DEF N!RecordReply, N!CheckReply, N!At
<1>4. JobShape' /\ task'[t] = r /\ (\A x \in Tasks : x # t => task'[x] = task[x])
  BY <1>2, GoKeeps DEF ReplyInv, ReplyShape
<1> DEFINE s == From[N!This(t)]
<1>5. CASE UNCHANGED <<replied, answers>>
  BY <1>1, <1>2, <1>3, <1>5, QuietReply
<1>6. CASE /\ answers' = [answers EXCEPT ![s] = Append(@, hour)]
           /\ \/ replied[s] = Never /\ replied' = [replied EXCEPT ![s] = hour]
              \/ /\ N!At(t, "update")
                 /\ replied' = [replied EXCEPT ![s] = IF @ = Never THEN Never ELSE hour]
  <2>1. CASE s \notin Senders
    <3>1. UNCHANGED <<replied, answers>>
      BY <1>6, <2>1 DEF ReplyInv, ReplyShape
    <3> QED BY <1>1, <1>2, <1>3, <3>1, QuietReply
  <2>2. CASE s \in Senders
    <3>1. \/ replied[s] = Never /\ replied' = [replied EXCEPT ![s] = hour]
          \/ /\ answers[s] # <<>> /\ answers[s][1] < hour
             /\ replied' = [replied EXCEPT ![s] = IF @ = Never THEN Never ELSE hour]
      BY <1>6, <2>2 DEF ReplyInv, OutOfDate
    <3> HIDE DEF s
    <3>2. /\ \A x \in Senders : Recorded(x)'
          /\ replied' \in [Senders -> {Never} \cup Nat] /\ answers' \in [Senders -> Seq(Nat)]
          /\ \A x \in Senders : answers[x] # <<>> =>
                answers'[x] # <<>> /\ answers'[x][1] = answers[x][1]
      BY <1>1, <1>6, <2>2, <3>1, AnswerKeeps
    <3>3. \A x \in Tasks : OutOfDate(x)'
      BY <1>1, <1>3, <1>4, <3>2 DEF ReplyInv, OutOfDate, N!At, N!This
    <3> QED BY <1>1, <1>4, <3>2, <3>3 DEF ReplyInv, ReplyShape
  <2> QED BY <2>1, <2>2
<1>7. \/ UNCHANGED <<replied, answers>>
      \/ /\ answers' = [answers EXCEPT ![s] = Append(@, hour)]
         /\ \/ replied[s] = Never /\ replied' = [replied EXCEPT ![s] = hour]
            \/ /\ N!At(t, "update")
               /\ replied' = [replied EXCEPT ![s] = IF @ = Never THEN Never ELSE hour]
  BY DEF N!RecordReply, N!record_first
<1> QED BY <1>5, <1>6, <1>7

\* A record that is purged is older than an hour.
LEMMA PurgeKeeps == ASSUME ReplyInv, NEW t \in Tasks, N!Purge(t) PROVE ReplyInv'
<1>1. UNCHANGED <<hour, vac, answers>> /\ vac'.every \in 1..2
  BY DEF N!Purge, N!settings, N!history, ReplyInv, ReplyShape
<1>2. PICK r : /\ N!Go(t, r) /\ IsJob(r) /\ (r.at = "update" => N!CheckReply(t))
  BY ReplySteps DEF ReplyInv, ReplyShape
<1>3. r.at # "update"
  <2>1. ~N!CheckReply(t)
    BY DEF N!Purge, N!CheckReply
  <2> QED BY <1>2, <2>1
<1>4. JobShape' /\ task'[t] = r /\ (\A x \in Tasks : x # t => task'[x] = task[x])
      /\ task[t].vac.every \in 1..2
  BY <1>2, GoKeeps DEF ReplyInv, ReplyShape, JobShape, IsJob
<1>5. CASE replied' = replied
  BY <1>1, <1>2, <1>3, <1>5, QuietReply
<1>6. CASE replied' = [s \in Senders |->
                         IF replied[s] # Never /\ hour - replied[s] > 2 * task[t].vac.every
                         THEN Never ELSE replied[s]]
  <2>1. \A s \in Senders : Recorded(s)' /\ replied'[s] \in {Never} \cup Nat
    <3> SUFFICES ASSUME NEW s \in Senders PROVE Recorded(s)' /\ replied'[s] \in {Never} \cup Nat
      OBVIOUS
    <3>1. /\ hour \in Nat /\ replied[s] \in {Never} \cup Nat /\ Recorded(s)
          /\ answers[s] # <<>> => answers[s][1] \in Nat
      BY FirstAndSecond DEF ReplyInv, ReplyShape
    <3>2. CASE replied[s] # Never /\ hour - replied[s] > 2 * task[t].vac.every
      <4>1. replied'[s] = Never /\ replied[s] < hour /\ replied[s] \in Nat
        BY <1>4, <1>6, <3>1, <3>2
      <4>2. answers[s][1] < hour
        BY <3>1, <3>2, <4>1 DEF Recorded
      <4> QED BY <1>1, <3>1, <4>1, <4>2 DEF Recorded
    <3>3. CASE ~(replied[s] # Never /\ hour - replied[s] > 2 * task[t].vac.every)
      BY <1>1, <1>6, <3>1, <3>3 DEF Recorded
    <3> QED BY <3>2, <3>3
  <2>2. replied' \in [Senders -> {Never} \cup Nat]
    BY <1>6, <2>1
  <2>3. \A x \in Tasks : OutOfDate(x)'
    BY <1>1, <1>3, <1>4 DEF ReplyInv, OutOfDate, N!At, N!This
  <2> QED BY <1>1, <1>4, <2>1, <2>2, <2>3 DEF ReplyInv, ReplyShape
<1> QED BY <1>5, <1>6 DEF N!Purge

LEMMA MailSteps ==
    ASSUME NoticeInv, NEW t \in Tasks,
           \/ N!inbox_max_uid(t) \/ N!RunSync(t) \/ N!SyncEnds(t) \/ N!SpawnTask(t)
           \/ N!ListCold(t) \/ N!Paint(t) \/ N!Load(t) \/ N!Act(t) \/ N!Forget(t)
    PROVE  UNCHANGED task \/ \E r : N!Go(t, r) /\ IsJob(r) /\ r.at # "update"
<1>1. IsJob(task[t])
  BY DEF NoticeInv, JobShape
<1>2. CASE \/ N!inbox_max_uid(t) \/ N!RunSync(t) \/ N!SyncEnds(t) \/ N!SpawnTask(t)
           \/ N!ListCold(t) \/ N!Paint(t) \/ N!Load(t)
  BY <1>2, SyncSteps
<1>4. CASE N!Act(t) \/ N!Forget(t)
  <2> DEFINE away == [task[t] EXCEPT !.at = "forget"]
             next == N!NextMessage(task[t])
             more == [task[t] EXCEPT !.todo = Tail(task[t].todo)]
  <2>1. N!Go(t, away) \/ N!Go(t, next) \/ N!Go(t, more)
    BY <1>4 DEF N!Act, N!Forget
  <2>2. IsJob(away) /\ away.at = "forget"
    BY <1>1, EditIsJob
  <2>3. IsJob(next) /\ next.at = "match"
    <3>1. IsJob([task[t] EXCEPT !.at = "match", !.todo = <<>>])
          /\ [task[t] EXCEPT !.at = "match", !.todo = <<>>].at = "match"
      BY <1>1 DEF IsJob, JobFields
    <3> QED BY <3>1, RestIsJob DEF N!NextMessage
  <2>4. IsJob(more) /\ more.at = task[t].at
    BY <1>1 DEF IsJob, JobFields
  <2>5. task[t].at # "update"
    BY <1>4 DEF N!Act, N!Forget, N!At
  <2> HIDE DEF away, next, more
  <2> QED BY <2>1, <2>2, <2>3, <2>4, <2>5
<1> QED BY <1>2, <1>4

LEMMA ReplyStart == N!Init => ReplyInv
<1> SUFFICES ASSUME N!Init PROVE ReplyInv
  OBVIOUS
<1>1. JobShape /\ \A t \in Tasks : task[t].at = "idle"
  BY IdleIsJob DEF N!Init, JobShape
<1>2. answers \in [Senders -> Seq(Nat)] /\ \A s \in Senders : answers[s] = <<>> /\ Len(answers[s]) = 0
  BY DEF N!Init
<1> QED BY <1>1, <1>2 DEF N!Init, ReplyInv, ReplyShape, Recorded, OutOfDate, N!At

LEMMA ReplyNext == NoticeInv /\ ReplyInv /\ [N!Next]_(N!vars) => ReplyInv'
<1> SUFFICES ASSUME NoticeInv, ReplyInv, [N!Next]_(N!vars) PROVE ReplyInv'
  OBVIOUS
<1>1. vac.every \in 1..2 /\ JobShape
  BY DEF ReplyInv, ReplyShape
<1>2. CASE \/ N!push_sieve_async \/ N!push_script \/ N!FilterEdit \/ N!Deliver
           \/ N!Land \/ UNCHANGED N!vars
  <2>1. UNCHANGED <<hour, answers, replied, task, vac>>
    BY <1>2 DEF N!push_sieve_async, N!push_script, N!FilterEdit, N!Deliver, N!Land, N!vars,
       N!settings, N!history
  <2> QED BY <1>1, <2>1, QuietReply
<1>3. CASE N!update_vacation
  <2>1. UNCHANGED <<hour, answers, replied, task>> /\ vac'.every \in 1..2
    BY <1>3 DEF N!update_vacation, N!Intervals
  <2> QED BY <2>1, QuietReply
<1>4. ASSUME NEW t \in Tasks, N!apply_filters(t) \/ N!Skip(t) \/ N!SendReply(t) \/ N!Match(t)
      PROVE  ReplyInv'
  <2>1. PICK r : /\ N!Go(t, r) /\ IsJob(r) /\ (r.at = "update" => N!CheckReply(t))
    BY <1>1, <1>4, ReplySteps
  <2>2. ~N!CheckReply(t) /\ UNCHANGED <<hour, answers, replied, vac>>
    <3>1. CASE N!apply_filters(t)
      BY <3>1 DEF N!apply_filters, N!CheckReply, N!At, N!settings
    <3>2. CASE N!Skip(t) \/ N!SendReply(t) \/ N!Match(t)
      BY <3>2 DEF N!Skip, N!SendReply, N!Match, N!CheckReply, N!At, N!settings, N!history
    <3> QED BY <1>4, <3>1, <3>2
  <2> QED BY <1>1, <2>1, <2>2, QuietReply
<1>5. ASSUME NEW t \in Tasks,
             \/ N!inbox_max_uid(t) \/ N!RunSync(t) \/ N!SyncEnds(t) \/ N!SpawnTask(t)
             \/ N!ListCold(t) \/ N!Paint(t) \/ N!Load(t) \/ N!Act(t) \/ N!Forget(t)
      PROVE  ReplyInv'
  <2>1. UNCHANGED <<hour, answers, replied, vac>>
    BY <1>5 DEF N!inbox_max_uid, N!RunSync, N!SyncEnds, N!SpawnTask, N!ListCold, N!Paint,
       N!Load, N!Act, N!Forget, N!settings, N!history
  <2>2. \/ UNCHANGED task
        \/ \E r : N!Go(t, r) /\ IsJob(r) /\ r.at # "update"
    BY <1>5, MailSteps
  <2> QED BY <1>1, <2>1, <2>2, QuietReply
<1>6. CASE N!Restart
  <2>1. task' = [t \in Tasks |-> N!Idle] /\ UNCHANGED <<hour, answers, replied, vac>>
    BY <1>6 DEF N!Restart, N!settings
  <2>2. JobShape' /\ \A t \in Tasks : task'[t].at = "idle"
    BY <2>1, IdleIsJob DEF JobShape
  <2>3. (\A x \in Senders : Recorded(x)') /\ \A t \in Tasks : OutOfDate(t)'
    BY <2>1, <2>2 DEF ReplyInv, Recorded, OutOfDate, N!At
  <2> QED BY <1>1, <2>1, <2>2, <2>3 DEF ReplyInv, ReplyShape
<1> QED
  BY <1>2, <1>3, <1>4, <1>5, <1>6, TickReply, CheckKeeps, RecordKeeps, PurgeKeeps DEF N!Next

\* Whatever tasks look for the record at the same time, and whatever is purged
\* (db/vacation.rs, should_reply_and_record).
THEOREM NewMailFirstReply == N!Spec => []N!FirstReplyKept
<1>1. ReplyInv => N!FirstReplyKept
  BY DEF ReplyInv, Recorded, N!FirstReplyKept
<1> QED BY <1>1, NoticeStart, NoticeNext, ReplyStart, ReplyNext, PTL DEF N!Spec

-----------------------------------------------------------------------------
(* NewMail: the types of what is kept                                      *)

\* A table of what Among has kept of the first k of a list, for each k.
KeptUpto(g, list, R, n) ==
    g = [k \in 0..n |-> IF k = 0 THEN <<>>
                        ELSE IF list[k] \in R THEN Append(g[k - 1], list[k])
                        ELSE g[k - 1]]

LEMMA KeptExists == ASSUME NEW list, NEW R, NEW n \in Nat PROVE \E g : KeptUpto(g, list, R, n)
<1> DEFINE Without == {k \in Nat : ~ \E g : KeptUpto(g, list, R, k)}
<1> SUFFICES ASSUME Without # {} PROVE FALSE
  OBVIOUS
<1>1. PICK m \in Without : \A k \in Without : m <= k
  <2>1. Without \subseteq Nat
    OBVIOUS
  <2> HIDE DEF Without
  <2> QED BY <2>1, LeastExists
<1>2. m \in Nat /\ ~ \E g : KeptUpto(g, list, R, m)
  OBVIOUS
<1>3. m # 0
  <2> DEFINE g == [k \in 0..0 |-> <<>>]
  <2>1. KeptUpto(g, list, R, 0)
    BY DEF KeptUpto
  <2> HIDE DEF g
  <2> QED BY <1>2, <2>1
<1>4. m - 1 \in Nat /\ m - 1 \notin Without
  <2> HIDE DEF Without
  <2>1. m - 1 \in Nat /\ ~ (m <= m - 1)
    BY <1>2, <1>3
  <2> QED BY <1>1, <2>1
<1>5. PICK g : KeptUpto(g, list, R, m - 1)
  BY <1>4
<1> DEFINE last == IF list[m] \in R THEN Append(g[m - 1], list[m]) ELSE g[m - 1]
           h == [k \in 0..m |-> IF k = m THEN last ELSE g[k]]
<1>6. KeptUpto(h, list, R, m)
  <2>1. \A k \in 0..(m - 1) : h[k] = g[k]
    BY <1>2, <1>3
  <2>2. \A k \in 0..(m - 1) :
          g[k] = IF k = 0 THEN <<>> ELSE IF list[k] \in R THEN Append(g[k - 1], list[k]) ELSE g[k - 1]
    BY <1>4, <1>5 DEF KeptUpto
  <2>3. h[m] = last
    BY <1>2
  <2> HIDE DEF last
  <2>4. h = [k \in 0..m |-> h[k]]
    OBVIOUS
  <2> HIDE DEF h
  <2>5. \A k \in 0..m :
          h[k] = IF k = 0 THEN <<>> ELSE IF list[k] \in R THEN Append(h[k - 1], list[k]) ELSE h[k - 1]
    <3>1. ASSUME NEW k \in 0..m
          PROVE h[k] = IF k = 0 THEN <<>> ELSE IF list[k] \in R THEN Append(h[k - 1], list[k]) ELSE h[k - 1]
      <4>1. CASE k = m
        <5>1. h[m - 1] = g[m - 1]
          BY <1>2, <1>3, <2>1
        <5> QED BY <1>3, <2>3, <4>1, <5>1 DEF last
      <4>2. CASE k # m /\ k # 0
        <5>1. k \in 0..(m - 1) /\ k - 1 \in 0..(m - 1)
          BY <1>2, <4>2
        <5> QED BY <2>1, <2>2, <4>2, <5>1
      <4>3. CASE k = 0
        <5>1. k \in 0..(m - 1)
          BY <1>2, <1>3, <4>3
        <5> QED BY <2>1, <2>2, <4>3, <5>1
      <4> QED BY <4>1, <4>2, <4>3
    <3> QED BY <3>1
  <2> QED BY <2>4, <2>5 DEF KeptUpto
<1> HIDE DEF h
<1> QED BY <1>2, <1>6

\* What is kept of a list of T is one of T.
LEMMA KeptIn ==
    ASSUME NEW T, NEW list \in Seq(T), NEW R, NEW n \in Nat, n <= Len(list),
           NEW g, KeptUpto(g, list, R, n)
    PROVE  g[n] \in Seq(T)
<1> DEFINE Wrong == {k \in 0..n : g[k] \notin Seq(T)}
<1> SUFFICES ASSUME Wrong # {} PROVE FALSE
  BY DEF Wrong
<1>1. PICK m \in Wrong : \A k \in Wrong : m <= k
  <2>1. Wrong \subseteq Nat
    OBVIOUS
  <2> HIDE DEF Wrong
  <2> QED BY <2>1, LeastExists
<1>2. m \in 0..n /\ g[m] \notin Seq(T)
  OBVIOUS
<1>3. g[m] = IF m = 0 THEN <<>> ELSE IF list[m] \in R THEN Append(g[m - 1], list[m]) ELSE g[m - 1]
  BY <1>2 DEF KeptUpto
<1>4. m # 0
  BY <1>2, <1>3
<1>5. m - 1 \in 0..n /\ ~ (m <= m - 1)
  BY <1>2, <1>4
<1>6. g[m - 1] \in Seq(T)
  <2>1. m - 1 \notin Wrong
    <3> HIDE DEF Wrong
    <3> QED BY <1>1, <1>5
  <2> QED BY <1>5, <2>1
<1>7. list[m] \in T
  <2>1. m \in 1..Len(list)
    BY <1>2, <1>4
  <2> QED BY <2>1
<1> QED BY <1>2, <1>3, <1>4, <1>6, <1>7

LEMMA AmongIn == ASSUME NEW T, NEW list \in Seq(T), NEW R PROVE N!Among(list, R) \in Seq(T)
<1> DEFINE n == Len(list)
<1>1. n \in Nat
  OBVIOUS
<1>2. PICK g : KeptUpto(g, list, R, n)
  BY <1>1, KeptExists
<1> DEFINE table == CHOOSE f : f = [k \in 0..n |-> IF k = 0 THEN <<>>
                        ELSE IF list[k] \in R THEN Append(f[k - 1], list[k])
                        ELSE f[k - 1]]
<1>3. KeptUpto(table, list, R, n)
  BY <1>2 DEF KeptUpto
<1>4. N!Among(list, R) = table[n]
  BY DEF N!Among
<1> HIDE DEF table
<1>5. table[n] \in Seq(T)
  <2> HIDE DEF n
  <2>1. n <= Len(list)
    BY <1>1 DEF n
  <2> QED BY <1>1, <1>3, <2>1, KeptIn
<1> QED BY <1>4, <1>5

Rule == [id : RuleIds, on : BOOLEAN, prio : 0..1]
Responder == [on : BOOLEAN, every : N!Intervals]
Script(p) ==
    /\ DOMAIN p = {"rules", "reply"} /\ p.rules \in Seq(RuleIds)
    /\ p.reply \in {"on", "off", "unread"}
OneEach(list) == \A i, j \in DOMAIN list : list[i].id = list[j].id => i = j

MailTypes ==
    /\ \A b \in DOMAIN budget : budget[b] \in Nat
    /\ arrived <= Len(From) /\ handed \cup lost \subseteq 1..arrived
    /\ vac \in Responder /\ \A t \in Tasks : task[t].vac \in Responder
    /\ rules \in Seq(Rule) /\ OneEach(rules)
    /\ Script(script) /\ \A p \in pushes : Script(p)

LEMMA SeqFacts ==
    ASSUME NEW T, NEW list \in Seq(T)
    PROVE  /\ Len(list) \in Nat /\ DOMAIN list = 1..Len(list)
           /\ \A i \in 1..Len(list) : list[i] \in T
           /\ \A v \in T : Append(list, v) \in Seq(T)
           /\ \A v \in T, i \in 1..Len(list) : [list EXCEPT ![i] = v] \in Seq(T)
           /\ \A other \in Seq(T) : list \o other \in Seq(T)
  OBVIOUS

LEMMA Joined ==
    ASSUME NEW T, NEW a \in Seq(T), NEW b \in Seq(T), NEW c, c = a \o b
    PROVE  /\ c \in Seq(T) /\ Len(c) = Len(a) + Len(b) /\ DOMAIN c = 1..(Len(a) + Len(b))
           /\ \A k \in 1..(Len(a) + Len(b)) : c[k] = IF k <= Len(a) THEN a[k] ELSE b[k - Len(a)]
  OBVIOUS

LEMMA IdsOf == ASSUME NEW list \in Seq(Rule) PROVE N!Ids(list) \in Seq(RuleIds)
<1>1. Len(list) \in Nat /\ DOMAIN list = 1..Len(list) /\ \A i \in 1..Len(list) : list[i].id \in RuleIds
  <2>1. \A i \in 1..Len(list) : list[i] \in Rule
    BY SeqFacts
  <2> QED BY <2>1, SeqFacts DEF Rule
<1>2. N!Ids(list) = [i \in 1..Len(list) |-> list[i].id]
  BY <1>1 DEF N!Ids
<1> QED BY <1>1, <1>2

LEMMA GeneratedScript ==
    ASSUME NEW table \in Seq(Rule), NEW reply \in {"on", "off", "unread"}
    PROVE  Script(N!generate_script(table, reply))
<1>1. N!list_filters(table) \in Seq(Rule)
  <2>1. N!OfPriority(table, 0) \in Seq(Rule) /\ N!OfPriority(table, 1) \in Seq(Rule)
    BY AmongIn DEF N!OfPriority
  <2> QED BY <2>1, SeqFacts DEF N!list_filters
<1>2. N!generate_sieve_script(table) \in Seq(RuleIds)
  BY <1>1, AmongIn, IdsOf DEF N!generate_sieve_script
<1> QED BY <1>2 DEF N!generate_script, Script

\* The rules have an id each, whatever is done to the table.
LEMMA RulesKeep ==
    ASSUME rules \in Seq(Rule), OneEach(rules),
           \/ N!create_filter
           \/ \E i \in DOMAIN rules : N!update_filter(i) \/ N!delete_filter(i) \/ N!reorder_filters(i)
    PROVE  rules' \in Seq(Rule) /\ OneEach(rules')
<1>1. /\ Len(rules) \in Nat /\ DOMAIN rules = 1..Len(rules)
      /\ \A i \in 1..Len(rules) : rules[i] \in Rule
  BY SeqFacts
<1>2. CASE N!create_filter
  <2>1. PICK r \in RuleIds : /\ \A i \in DOMAIN rules : rules[i].id # r
                             /\ rules' = Append(rules, [id |-> r, on |-> TRUE, prio |-> 0])
    <3>1. PICK r \in RuleIds \ N!ToSet(N!Ids(rules)) :
            rules' = Append(rules, [id |-> r, on |-> TRUE, prio |-> 0])
      BY <1>2 DEF N!create_filter
    <3>2. \A i \in DOMAIN rules : rules[i].id \in N!ToSet(N!Ids(rules))
      BY DEF N!ToSet, N!Ids
    <3> QED BY <3>1, <3>2
  <2> DEFINE new == [id |-> r, on |-> TRUE, prio |-> 0]
  <2>2. new \in Rule /\ new.id = r
    BY DEF Rule
  <2> HIDE DEF new
  <2>3. rules' \in Seq(Rule)
    BY <2>1, <2>2, SeqFacts DEF new
  <2>4. /\ Len(rules') = Len(rules) + 1 /\ DOMAIN rules' = 1..(Len(rules) + 1)
        /\ \A i \in 1..Len(rules) : rules'[i] = rules[i]
        /\ rules'[Len(rules) + 1] = new
    BY <1>1, <2>1 DEF new
  <2>5. OneEach(rules')
    <3> SUFFICES ASSUME NEW i \in DOMAIN rules', NEW j \in DOMAIN rules', rules'[i].id = rules'[j].id
                 PROVE  i = j
      BY DEF OneEach
    <3>1. i \in 1..Len(rules) \/ i = Len(rules) + 1
      BY <1>1, <2>4
    <3>2. j \in 1..Len(rules) \/ j = Len(rules) + 1
      BY <1>1, <2>4
    <3> QED BY <1>1, <2>1, <2>2, <2>4, <3>1, <3>2 DEF OneEach
  <2> QED BY <2>3, <2>5
<1>3. ASSUME NEW i \in DOMAIN rules, N!update_filter(i) \/ N!reorder_filters(i)
      PROVE  rules' \in Seq(Rule) /\ OneEach(rules')
  <2>1. PICK v \in Rule : v.id = rules[i].id /\ rules' = [rules EXCEPT ![i] = v]
    <3>1. rules[i] \in Rule
      BY <1>1
    <3>2. CASE N!update_filter(i)
      <4> DEFINE v == [rules[i] EXCEPT !.on = ~ rules[i].on]
      <4>1. v \in Rule /\ v.id = rules[i].id
        BY <3>1 DEF Rule
      <4>2. rules' = [rules EXCEPT ![i] = v]
        BY <3>2 DEF N!update_filter
      <4> HIDE DEF v
      <4> QED BY <4>1, <4>2
    <3>3. CASE N!reorder_filters(i)
      <4>1. PICK prio \in 0..1 : rules' = [rules EXCEPT ![i].prio = prio]
        BY <3>3 DEF N!reorder_filters
      <4> DEFINE v == [rules[i] EXCEPT !.prio = prio]
      <4>2. v \in Rule /\ v.id = rules[i].id
        BY <3>1 DEF Rule
      <4>3. rules' = [rules EXCEPT ![i] = v]
        BY <4>1
      <4> HIDE DEF v
      <4> QED BY <4>2, <4>3
    <3> QED BY <1>3, <3>2, <3>3
  <2>2. rules' \in Seq(Rule)
    BY <1>1, <2>1, SeqFacts
  <2>3. DOMAIN rules' = DOMAIN rules /\ \A j \in DOMAIN rules : rules'[j].id = rules[j].id
    BY <2>1
  <2> QED BY <2>2, <2>3 DEF OneEach
<1>4. ASSUME NEW i \in DOMAIN rules, N!delete_filter(i)
      PROVE  rules' \in Seq(Rule) /\ OneEach(rules')
  <2>1. rules' = SubSeq(rules, 1, i - 1) \o SubSeq(rules, i + 1, Len(rules))
    BY <1>4 DEF N!delete_filter, N!RemoveAt
  <2>2. PICK n : n = Len(rules)
    OBVIOUS
  <2>3. i \in 1..n /\ n \in Nat
    BY <1>1, <2>2
  <2> DEFINE a == SubSeq(rules, 1, i - 1)
             b == SubSeq(rules, i + 1, n)
  <2>4. /\ a \in Seq(Rule) /\ b \in Seq(Rule) /\ Len(a) = i - 1 /\ Len(b) = n - i
        /\ \A k \in 1..(i - 1) : a[k] = rules[k]
        /\ \A k \in 1..(n - i) : b[k] = rules[k + i]
    BY <1>1, <2>2, <2>3
  <2> HIDE DEF a, b
  <2>5. rules' = a \o b
    BY <2>1, <2>2 DEF a, b
  <2>6. /\ rules' \in Seq(Rule) /\ Len(rules') = n - 1 /\ DOMAIN rules' = 1..(n - 1)
        /\ \A k \in 1..(n - 1) : rules'[k] = rules[IF k < i THEN k ELSE k + 1]
    <3>1. /\ rules' \in Seq(Rule) /\ Len(rules') = n - 1 /\ DOMAIN rules' = 1..(n - 1)
      <4>1. /\ rules' \in Seq(Rule) /\ Len(rules') = Len(a) + Len(b)
            /\ DOMAIN rules' = 1..(Len(a) + Len(b))
        <5>1. PICK q, T : q = rules' /\ T = Rule
          OBVIOUS
        <5>2. a \in Seq(T) /\ b \in Seq(T) /\ q = a \o b
          BY <2>4, <2>5, <5>1
        <5>3. q \in Seq(T) /\ Len(q) = Len(a) + Len(b) /\ DOMAIN q = 1..(Len(a) + Len(b))
          BY ONLY <5>2, Joined
        <5> QED BY <5>1, <5>3
      <4>2. Len(a) + Len(b) = n - 1
        BY <2>3, <2>4
      <4> QED BY <4>1, <4>2
    <3>2. ASSUME NEW k \in 1..(n - 1) PROVE rules'[k] = rules[IF k < i THEN k ELSE k + 1]
      <4>1. CASE k < i
        BY <2>3, <2>4, <2>5, <4>1
      <4>2. CASE ~ (k < i)
        <5>1. k - (i - 1) \in 1..(n - i) /\ k - (i - 1) + i = k + 1
          BY <2>3, <4>2
        <5>2. rules'[k] = b[k - (i - 1)]
          <6>1. k \in 1..(Len(a) + Len(b)) /\ ~ (k <= Len(a)) /\ Len(a) = i - 1
            BY <2>3, <2>4, <4>2
          <6>2. rules'[k] = IF k <= Len(a) THEN a[k] ELSE b[k - Len(a)]
            BY <2>4, <2>5, <6>1, Joined
          <6> QED BY <6>1, <6>2
        <5> QED BY <2>4, <4>2, <5>1, <5>2
      <4> QED BY <4>1, <4>2
    <3> QED BY <3>1, <3>2
  <2>7. OneEach(rules')
    <3> SUFFICES ASSUME NEW j \in 1..(n - 1), NEW k \in 1..(n - 1), rules'[j].id = rules'[k].id
                 PROVE  j = k
      BY <2>6 DEF OneEach
    <3> DEFINE old(x) == IF x < i THEN x ELSE x + 1
    <3>1. old(j) \in 1..n /\ old(k) \in 1..n /\ (old(j) = old(k) => j = k)
      BY <2>3
    <3>2. rules[old(j)].id = rules[old(k)].id
      BY <2>6
    <3> HIDE DEF old
    <3> QED BY <1>1, <2>2, <3>1, <3>2 DEF OneEach
  <2> QED BY <2>6, <2>7
<1> QED BY <1>2, <1>3, <1>4

LEMMA SettingsKeep ==
    ASSUME MailTypes, N!Next
    PROVE  /\ vac' \in Responder /\ rules' \in Seq(Rule) /\ OneEach(rules')
           /\ Script(script') /\ \A p \in pushes' : Script(p)
<1>1. CASE N!push_sieve_async
  <2>1. PICK p \in pushes : pushes' = (pushes \ {p}) \cup {[p EXCEPT !.reply = N!OnOff(vac)]}
    BY <1>1 DEF N!push_sieve_async
  <2>2. Script([p EXCEPT !.reply = N!OnOff(vac)])
    BY DEF MailTypes, Script, N!OnOff
  <2> QED BY <1>1, <2>1, <2>2 DEF N!push_sieve_async, N!settings, MailTypes
<1>2. CASE N!push_script
  <2>1. /\ script' = script \/ script' \in pushes
        /\ pushes' \subseteq pushes /\ UNCHANGED <<vac, rules>>
    BY <1>2 DEF N!push_script, N!set_active, N!settings
  <2> QED BY <2>1 DEF MailTypes
<1>3. CASE N!FilterEdit
  <2>1. rules' \in Seq(Rule) /\ OneEach(rules')
    BY <1>3, RulesKeep DEF N!FilterEdit, MailTypes
  <2>2. Script(N!generate_script(rules', "unread"))
    BY <2>1, GeneratedScript
  <2>3. /\ pushes' \subseteq pushes \cup {N!generate_script(rules', "unread")}
        /\ UNCHANGED <<vac, script>>
    BY <1>3 DEF N!FilterEdit, N!push_state
  <2> QED BY <2>1, <2>2, <2>3 DEF MailTypes
<1>4. CASE N!update_vacation
  <2>1. vac' \in Responder
    BY <1>4 DEF N!update_vacation, Responder
  <2>2. /\ pushes' \subseteq pushes \cup {N!generate_script(rules, N!OnOff(vac'))}
        /\ UNCHANGED <<rules, script>>
    BY <1>4 DEF N!update_vacation, N!push_state
  <2>3. N!OnOff(vac') \in {"on", "off", "unread"} /\ rules \in Seq(Rule)
    BY DEF N!OnOff, MailTypes
  <2>4. Script(N!generate_script(rules, N!OnOff(vac')))
    BY <2>3, GeneratedScript
  <2> QED BY <2>1, <2>2, <2>4 DEF MailTypes
<1>5. CASE UNCHANGED <<vac, rules, script>> /\ pushes' \subseteq pushes
  BY <1>5 DEF MailTypes
<1>7. CASE N!Restart
  BY <1>5, <1>7 DEF N!Restart, N!settings
<1>6. N!Deliver \/ N!Tick \/ N!Land
      \/ (\E t \in Tasks :
          \/ N!inbox_max_uid(t) \/ N!RunSync(t) \/ N!SyncEnds(t) \/ N!SpawnTask(t)
          \/ N!ListCold(t) \/ N!Paint(t) \/ N!Load(t) \/ N!apply_filters(t)
          \/ N!CheckReply(t) \/ N!Skip(t) \/ N!RecordReply(t) \/ N!SendReply(t) \/ N!Purge(t)
          \/ N!Match(t) \/ N!Act(t) \/ N!Forget(t))
      => UNCHANGED <<vac, rules, script, pushes>>
  BY DEF N!Deliver, N!Tick, N!Land, N!inbox_max_uid, N!RunSync, N!SyncEnds, N!SpawnTask,
     N!ListCold, N!Paint, N!Load, N!apply_filters, N!CheckReply, N!Skip,
     N!RecordReply, N!SendReply, N!Purge, N!Match, N!Act, N!Forget, N!settings, N!sieve
<1> QED BY <1>1, <1>2, <1>3, <1>4, <1>5, <1>6, <1>7 DEF N!Next

LEMMA BudgetKeeps ==
    ASSUME MailTypes, N!Next PROVE (\A b \in DOMAIN budget : budget[b] \in Nat)'
<1> DEFINE Spent == {"fail", "filter", "vac", "apply", "hour", "cycle", "crash"}
<1>1. budget' = budget \/ \E what \in Spent : N!Spend(what)
  <2>1. N!push_sieve_async \/ N!push_script \/ N!FilterEdit \/ N!update_vacation \/ N!Deliver
        \/ N!Tick \/ N!Land \/ N!Restart
        => budget' = budget \/ \E what \in Spent : N!Spend(what)
    BY DEF N!push_sieve_async, N!push_script, N!FilterEdit, N!update_vacation, N!Deliver, N!Tick,
       N!Land, N!Restart, N!Fail, N!history
  <2>2. ASSUME NEW t \in Tasks,
          \/ N!inbox_max_uid(t) \/ N!RunSync(t) \/ N!SyncEnds(t) \/ N!SpawnTask(t)
          \/ N!ListCold(t) \/ N!Paint(t) \/ N!Load(t) \/ N!apply_filters(t)
          \/ N!CheckReply(t) \/ N!Skip(t) \/ N!RecordReply(t) \/ N!SendReply(t) \/ N!Purge(t)
          \/ N!Match(t) \/ N!Act(t) \/ N!Forget(t)
        PROVE budget' = budget \/ \E what \in Spent : N!Spend(what)
    <3>1. N!Fail \/ N!Spend("apply") \/ N!Spend("cycle") \/ budget' = budget
      BY <2>2 DEF N!inbox_max_uid, N!RunSync, N!SyncEnds, N!SpawnTask, N!ListCold, N!Paint, N!Load, N!apply_filters, N!CheckReply, N!Skip, N!RecordReply,
         N!SendReply, N!Purge, N!Match, N!Act, N!Forget, N!history
    <3> QED BY <3>1 DEF N!Fail
  <2> QED BY <2>1, <2>2 DEF N!Next
<1>2. ASSUME NEW what, N!Spend(what) PROVE (\A b \in DOMAIN budget : budget[b] \in Nat)'
  <2>1. /\ DOMAIN budget' = DOMAIN budget
        /\ \A b \in DOMAIN budget : budget'[b] = budget[b] \/ (b = what /\ budget'[b] = budget[what] - 1)
        /\ budget[what] > 0
    BY <1>2 DEF N!Spend
  <2>2. \A n \in Nat : n > 0 => n - 1 \in Nat
    OBVIOUS
  <2> QED BY <2>1, <2>2 DEF MailTypes
<1> QED BY <1>1, <1>2 DEF MailTypes

\* What the step leaves of the mail, and the responder of the task it moves.
LEMMA MailMoves ==
    ASSUME MailTypes, NoticeInv, N!Next
    PROVE  /\ arrived' = arrived \/ (arrived < Len(From) /\ arrived' = arrived + 1)
           /\ handed' \cup lost' \subseteq handed \cup lost \cup cached \cup inbox \cup late
           /\ \A t \in Tasks : task'[t].vac \in Responder
<1>1. arrived' = arrived \/ (arrived < Len(From) /\ arrived' = arrived + 1)
  BY DEF N!Next, N!Deliver, N!Tick, N!Land, N!Restart, N!inbox_max_uid, N!RunSync, N!SyncEnds,
     N!SpawnTask, N!ListCold, N!Paint, N!Load, N!apply_filters, N!CheckReply,
     N!Skip, N!RecordReply, N!SendReply, N!Purge, N!Match, N!Act, N!Forget, N!push_sieve_async,
     N!push_script, N!FilterEdit, N!update_vacation, N!mail
<1>2. /\ N!Idle.vac \in Responder
      /\ [N!Idle EXCEPT !.at = "match", !.msgs = cached, !.left = cached, !.filter = TRUE].vac
           \in Responder
  BY DEF N!Idle, Responder, N!Intervals
<1>3. ASSUME NEW t \in Tasks, NEW r, N!Go(t, r), r.vac \in Responder
      PROVE  \A x \in Tasks : task'[x].vac \in Responder
  BY <1>3 DEF N!Go, NoticeInv, JobShape, MailTypes
<1>4. CASE \/ N!push_sieve_async \/ N!push_script \/ N!FilterEdit \/ N!update_vacation
           \/ N!Deliver \/ N!Tick \/ N!Land
  <2>1. task' = task /\ handed' \cup lost' \subseteq handed \cup lost \cup cached \cup inbox \cup late
    BY <1>4 DEF N!push_sieve_async, N!push_script, N!FilterEdit, N!update_vacation, N!Deliver, N!Tick,
       N!Land, N!history
  <2> QED BY <1>1, <2>1 DEF MailTypes
<1>5. CASE N!Restart
  <2>1. /\ task' = [t \in Tasks |-> N!Idle]
        /\ handed' \cup lost' \subseteq handed \cup lost \cup cached \cup inbox \cup late
    BY <1>5 DEF N!Restart
  <2> QED BY <1>1, <1>2, <2>1
<1>6. ASSUME NEW t \in Tasks,
             \/ N!inbox_max_uid(t) \/ N!RunSync(t) \/ N!SyncEnds(t) \/ N!SpawnTask(t)
             \/ N!ListCold(t) \/ N!Paint(t) \/ N!Load(t)
      PROVE  /\ handed' \cup lost' \subseteq handed \cup lost \cup cached \cup inbox \cup late
             /\ \A x \in Tasks : task'[x].vac \in Responder
  <2>1. handed' \cup lost' \subseteq handed \cup lost \cup cached \cup inbox \cup late
    BY <1>6 DEF N!inbox_max_uid, N!RunSync, N!SyncEnds, N!SpawnTask, N!ListCold, N!Paint, N!Load,
       N!Above, N!history
  <2>2. \/ UNCHANGED task
        \/ \E r : N!Go(t, r) /\ r.vac \in {task[t].vac, N!Idle.vac, vac}
    BY <1>6, SyncSteps
  <2>3. {task[t].vac, N!Idle.vac, vac} \subseteq Responder
    BY <1>2 DEF MailTypes
  <2>4. \A x \in Tasks : task'[x].vac \in Responder
    <3>1. CASE UNCHANGED task
      BY <3>1 DEF MailTypes
    <3>2. CASE \E r : N!Go(t, r) /\ r.vac \in {task[t].vac, N!Idle.vac, vac}
      BY <1>3, <2>3, <3>2
    <3> QED BY <2>2, <3>1, <3>2
  <2> QED BY <2>1, <2>4
<1>7. ASSUME NEW t \in Tasks,
             \/ N!apply_filters(t) \/ N!CheckReply(t) \/ N!Skip(t) \/ N!RecordReply(t)
             \/ N!SendReply(t) \/ N!Purge(t) \/ N!Match(t) \/ N!Act(t) \/ N!Forget(t)
      PROVE  /\ handed' \cup lost' \subseteq handed \cup lost \cup cached \cup inbox \cup late
             /\ \A x \in Tasks : task'[x].vac \in Responder
  <2>1. handed' \cup lost' \subseteq handed \cup lost \cup cached \cup inbox \cup late
    BY <1>7 DEF N!apply_filters, N!CheckReply, N!Skip, N!RecordReply, N!SendReply, N!Purge, N!Match,
       N!Act, N!Forget, N!history
  <2>2. \E r : N!Go(t, r) /\ r.vac \in {task[t].vac, N!Idle.vac}
    <3> DEFINE Moves == \E r : N!Go(t, r) /\ r.vac \in {task[t].vac, N!Idle.vac}
    <3>1. ASSUME NEW r, N!Go(t, r), r.vac \in {task[t].vac, N!Idle.vac} PROVE Moves
      BY <3>1
    <3>2. \A l : [task[t] EXCEPT !.at = l].vac = task[t].vac
      OBVIOUS
    <3>3. \A l : N!Rest([task[t] EXCEPT !.at = l]).vac = task[t].vac
      BY DEF N!Rest
    <3>4. N!NextMessage(task[t]).vac = task[t].vac
      BY DEF N!NextMessage, N!Rest
    <3>5. \A q : [task[t] EXCEPT !.todo = q].vac = task[t].vac
                 /\ [task[t] EXCEPT !.at = "act", !.todo = q].vac = task[t].vac
                 /\ [task[t] EXCEPT !.at = "match", !.left = q].vac = task[t].vac
      OBVIOUS
    <3> HIDE DEF Moves
    <3>6. CASE N!apply_filters(t)
      <4>1. N!Go(t, [N!Idle EXCEPT !.at = "match", !.msgs = cached, !.left = cached, !.filter = TRUE])
        BY <3>6 DEF N!apply_filters
      <4>2. [N!Idle EXCEPT !.at = "match", !.msgs = cached, !.left = cached, !.filter = TRUE].vac
              = N!Idle.vac
        OBVIOUS
      <4> QED BY <3>1, <4>1, <4>2
    <3>7. CASE N!CheckReply(t) \/ N!RecordReply(t)
      <4>1. \E l : N!Go(t, [task[t] EXCEPT !.at = l])
        BY <3>7 DEF N!CheckReply, N!RecordReply
      <4> QED BY <3>1, <3>2, <4>1
    <3>8. CASE N!Skip(t) \/ N!SendReply(t)
      <4>1. N!Go(t, N!Rest([task[t] EXCEPT !.at = "reply"]))
        BY <3>8 DEF N!Skip, N!SendReply
      <4> QED BY <3>1, <3>3, <4>1
    <3>9. CASE N!Purge(t)
      <4>1. \/ N!Go(t, N!Idle)
            \/ N!Go(t, [task[t] EXCEPT !.at = "match", !.left = task[t].msgs])
        BY <3>9 DEF N!Purge
      <4> QED BY <3>1, <3>5, <4>1
    <3>10. CASE N!Match(t)
      <4>1. N!Go(t, N!Idle) \/ \E q : N!Go(t, [task[t] EXCEPT !.at = "act", !.todo = q])
        BY <3>10 DEF N!Match
      <4> QED BY <3>1, <3>5, <4>1
    <3>11. CASE N!Act(t)
      <4>1. \/ N!Go(t, N!NextMessage(task[t])) \/ N!Go(t, [task[t] EXCEPT !.at = "forget"])
            \/ \E q : N!Go(t, [task[t] EXCEPT !.todo = q])
        BY <3>11 DEF N!Act
      <4> QED BY <3>1, <3>2, <3>4, <3>5, <4>1
    <3>12. CASE N!Forget(t)
      BY <3>1, <3>4, <3>12 DEF N!Forget
    <3> QED BY <1>7, <3>6, <3>7, <3>8, <3>9, <3>10, <3>11, <3>12
  <2> QED BY <1>2, <1>3, <2>1, <2>2 DEF MailTypes
<1> QED BY <1>1, <1>4, <1>5, <1>6, <1>7 DEF N!Next

LEMMA MailTypesStart == N!Init => MailTypes
<1> SUFFICES ASSUME N!Init PROVE MailTypes
  OBVIOUS
<1>1. rules \in Seq(Rule) /\ OneEach(rules)
  <2>1. CASE rules = <<>>
    BY <2>1 DEF OneEach
  <2>2. ASSUME NEW r \in RuleIds, rules = <<[id |-> r, on |-> TRUE, prio |-> 0]>>
        PROVE  rules \in Seq(Rule) /\ OneEach(rules)
    <3> DEFINE one == [id |-> r, on |-> TRUE, prio |-> 0]
    <3>1. one \in Rule
      BY DEF Rule
    <3> HIDE DEF one
    <3>2. rules = <<one>>
      BY <2>2 DEF one
    <3> QED BY <3>1, <3>2 DEF OneEach
  <2> QED BY <2>1, <2>2 DEF N!Init
<1>2. Script(script) /\ pushes = {}
  BY DEF N!Init, Script
<1>3. vac \in Responder /\ \A t \in Tasks : task[t].vac \in Responder
  <2>1. N!Idle.vac = [on |-> FALSE, every |-> 1]
    BY DEF N!Idle
  <2>2. \A b \in BOOLEAN : [on |-> b, every |-> 1] \in Responder
    BY DEF Responder, N!Intervals
  <2>3. vac = [on |-> TRUE, every |-> 1] /\ \A t \in Tasks : task[t] = N!Idle
    BY DEF N!Init
  <2> QED BY <2>1, <2>2, <2>3
<1>4. arrived <= Len(From) /\ handed \cup lost \subseteq 1..arrived
  <2>1. Len(From) \in Nat
    BY MailAssumed, SeqFacts
  <2> QED BY <2>1 DEF N!Init
<1>5. \A b \in DOMAIN budget : budget[b] \in Nat
  BY MailAssumed DEF N!Init
<1> QED BY <1>1, <1>2, <1>3, <1>4, <1>5 DEF MailTypes

LEMMA MailTypesNext == MailTypes /\ NoticeInv /\ [N!Next]_(N!vars) => MailTypes'
<1> SUFFICES ASSUME MailTypes, NoticeInv, [N!Next]_(N!vars) PROVE MailTypes'
  OBVIOUS
<1>1. CASE N!Next
  <2>1. arrived' <= Len(From) /\ handed' \cup lost' \subseteq 1..arrived'
    <3>1. Len(From) \in Nat
      BY MailAssumed, SeqFacts
    <3>2. cached \cup inbox \cup late \cup handed \cup lost \subseteq 1..arrived /\ arrived \in Nat
      BY DEF MailTypes, NoticeInv, BoxShape
    <3>3. 1..arrived \subseteq 1..arrived' /\ arrived' <= Len(From)
      BY <1>1, <3>1, <3>2, MailMoves DEF MailTypes
    <3> QED BY <1>1, <3>2, <3>3, MailMoves
  <2>2. (\A t \in Tasks : task[t].vac \in Responder)'
    BY <1>1, MailMoves DEF Responder, N!Intervals
  <2>3. (/\ vac \in Responder /\ rules \in Seq(Rule) /\ OneEach(rules)
         /\ Script(script) /\ \A p \in pushes : Script(p))'
    BY <1>1, SettingsKeep DEF Responder, N!Intervals, OneEach, Script, Rule
  <2> QED BY <1>1, <2>1, <2>2, <2>3, BudgetKeeps DEF MailTypes
<1>2. CASE UNCHANGED N!vars
  BY <1>2 DEF N!vars, N!mail, N!settings, N!sieve, N!history, MailTypes, Responder, Script, OneEach,
     N!Intervals, Rule
<1> QED BY <1>1, <1>2

LEMMA MailTypesHold == MailTypes /\ NoticeInv /\ ReplyInv => N!TypeOK
<1> SUFFICES ASSUME MailTypes, NoticeInv, ReplyInv PROVE N!TypeOK
  OBVIOUS
<1>1. Len(From) \in Nat /\ N!Uids = 1..Len(From)
  BY MailAssumed, SeqFacts DEF N!Uids
<1>2. /\ inbox \subseteq N!Uids /\ arrived \in 0..Len(From)
      /\ cached \cup late \subseteq N!Uids /\ handed \cup lost \subseteq N!Uids
  BY <1>1 DEF MailTypes, NoticeInv, BoxShape
<1>3. /\ \A i \in DOMAIN rules : rules[i] \in [id : RuleIds, on : BOOLEAN, prio : 0..1]
      /\ \A i, j \in DOMAIN rules : rules[i].id = rules[j].id => i = j
  <2>1. /\ DOMAIN rules = 1..Len(rules) /\ \A i \in 1..Len(rules) : rules[i] \in Rule
    BY SeqFacts DEF MailTypes
  <2> QED BY <2>1 DEF MailTypes, Rule, OneEach
<1>4. N!ToSet(script.rules) \subseteq RuleIds /\ \A p \in pushes : p.reply \in {"on", "off", "unread"}
  BY SeqFacts DEF MailTypes, Script, N!ToSet
<1>5. \A s \in Senders : N!ToSet(answers[s]) \subseteq Nat
  BY SeqFacts DEF ReplyInv, ReplyShape, N!ToSet
<1> QED BY <1>2, <1>3, <1>4, <1>5 DEF N!TypeOK, MailTypes, ReplyInv, ReplyShape, Responder

\* The rules have an id each and the script only rules there can be; what was told
\* of and what was missed has arrived (db/filters.rs:140, sieve/mod.rs).
THEOREM NewMailTypeCorrect == N!Spec => []N!TypeOK
  BY MailTypesStart, MailTypesNext, MailTypesHold, NoticeStart, NoticeNext, ReplyStart, ReplyNext,
     PTL DEF N!Spec

LEMMA NewMailVars == UNCHANGED newmailVars => UNCHANGED N!vars
  BY DEF newmailVars, N!vars, N!mail, N!settings, N!sieve, N!history

LEMMA NewMailBehaviour == Spec /\ part = "newmail" => N!Spec
<1>1. Init /\ part = "newmail" => N!Init
  BY DEF Init
<1>2. part = "newmail" /\ [Next]_vars => [N!Next]_(N!vars)
  <2> SUFFICES ASSUME part = "newmail", [Next]_vars PROVE N!Next \/ UNCHANGED N!vars
    OBVIOUS
  <2>1. CASE MailArrives
    BY <2>1 DEF MailArrives
  <2>2. CASE UNCHANGED vars
    BY <2>2, NewMailVars DEF vars
  <2> QED
    BY <2>1, <2>2 DEF Next, SigningIn, Notifying, Addressing, Planning, Labelling, Filing, Searching, Calling
<1>3. part = "newmail" /\ [Next]_vars => (part = "newmail")'
  BY PartFixed
<1> QED
  BY <1>1, <1>2, <1>3, PTL DEF Spec, N!Spec

-----------------------------------------------------------------------------
(* Search                                                                  *)

Looks == {"index", "resolve", "answer"}

\* What is done after a document is written: nothing, or the rest of a batch.
Later(n) == n = None \/ n.do = "deep"

\* A task that writes a document does so under a key of no excluded folder.
IndexJob(r) ==
    r # None =>
        /\ r.do \in {"writer", "commit"} => /\ DOMAIN r = {"do", "key", "doc", "next"}
                                            /\ r.doc = None \/ r.key \notin Excluded
                                            /\ Later(r.next)
        /\ r.do \in {"header", "cache"} => Later(r.next)

\* A search that has looked at the rows while `moved' have changed: it has found
\* every row whose header fits, or as many as it may show.
Looking(r, moved) ==
    /\ DOMAIN r = {"do", "query", "found", "more"}
    /\ IsFiniteSet(r.found) /\ Cardinality(r.found) <= Limit
    /\ r.found \cap TopLevel = {} /\ r.found \ moved \subseteq DOMAIN messages
    /\ Cardinality(r.found) < Limit =>
          S!search_messages_sqlite(r.query) \ moved \subseteq r.found
    /\ r.do \in {"resolve", "answer"} => IsFiniteSet(r.more) /\ r.more \cap Excluded = {}
    /\ r.do = "answer" => /\ r.found \cap r.more = {}
                          /\ Cardinality(r.found) + Cardinality(r.more) <= Limit
                          /\ r.more \ moved \subseteq DOMAIN messages

IndexShape ==
    /\ IsFiniteSet(DOMAIN messages)
    /\ IsFiniteSet(DOMAIN docs) /\ DOMAIN docs \cap Excluded = {}
SearchShape ==
    /\ searches = [t \in Tasks |-> searches[t]] /\ touched = [t \in Tasks |-> touched[t]]
    /\ \A t \in Tasks : IndexJob(searches[t])

Searched(t) ==
    searches[t] # None /\ searches[t].do \in Looks => Looking(searches[t], touched[t])

SearchInv == IndexShape /\ SearchShape /\ \A t \in Tasks : Searched(t)

LEMMA EmptyDomain == ASSUME NEW f, f = <<>> PROVE DOMAIN f = {}
  OBVIOUS

\* A step of one task: the rows and the index stay.
LEMMA TaskStep ==
    ASSUME SearchInv, UNCHANGED <<messages, docs>>, NEW t \in Tasks, NEW r, S!Become(t, r),
           touched' = [touched EXCEPT ![t] = {}] \/ UNCHANGED touched,
           IndexJob(r), r # None /\ r.do \in Looks => Looking(r, touched'[t])
    PROVE  SearchInv'
<1>1. /\ searches'[t] = r /\ \A x \in Tasks : x # t => searches'[x] = searches[x]
      /\ searches' = [x \in Tasks |-> searches'[x]]
  BY DEF SearchInv, SearchShape, S!Become
<1>2. /\ \A x \in Tasks : x # t => touched'[x] = touched[x]
      /\ touched' = [x \in Tasks |-> touched'[x]]
  BY DEF SearchInv, SearchShape
<1>3. SearchShape'
  BY <1>1, <1>2 DEF SearchInv, SearchShape
<1>4. \A x \in Tasks : Searched(x)'
  <2> SUFFICES ASSUME NEW x \in Tasks PROVE Searched(x)'
    OBVIOUS
  <2>1. \A q, m : Looking(q, m)' <=> Looking(q, m)
    BY DEF Looking, S!search_messages_sqlite
  <2>2. CASE x = t
    BY <1>1, <2>1, <2>2 DEF Searched
  <2>3. CASE x # t
    BY <1>1, <1>2, <2>1, <2>3 DEF SearchInv, Searched
  <2> QED BY <2>2, <2>3
<1> QED BY <1>3, <1>4 DEF SearchInv, IndexShape

\* Only what is known of k is another now.
OnlyRow(k) ==
    \A x : x # k => /\ x \in DOMAIN messages' <=> x \in DOMAIN messages
                    /\ x \in DOMAIN messages => messages'[x] = messages[x]

LEMMA LookingOn ==
    ASSUME NEW r, NEW moved, NEW k, Looking(r, moved), OnlyRow(k)
    PROVE  Looking(r, moved \cup {k})'
<1>1. S!search_messages_sqlite(r.query)' \ (moved \cup {k})
        \subseteq S!search_messages_sqlite(r.query) \ moved
  BY DEF OnlyRow, S!search_messages_sqlite
<1>2. r.found \ (moved \cup {k}) \subseteq DOMAIN messages'
  BY DEF Looking, OnlyRow
<1>3. r.do = "answer" => r.more \ (moved \cup {k}) \subseteq DOMAIN messages'
  BY DEF Looking, OnlyRow
<1> QED BY <1>1, <1>2, <1>3 DEF Looking

\* A step that touches k: the searches under way know it.
LEMMA TouchStep ==
    ASSUME SearchInv, NEW k, OnlyRow(k), S!Touch(k), IndexShape',
           \/ UNCHANGED searches
           \/ \E t \in Tasks : \E r : S!Become(t, r) /\ IndexJob(r)
                                      /\ (r # None => r.do \notin Looks)
    PROVE  SearchInv'
<1>1. /\ searches' = [x \in Tasks |-> searches'[x]]
      /\ \A x \in Tasks : IndexJob(searches'[x])
      /\ \A x \in Tasks : searches'[x] # None /\ searches'[x].do \in Looks
                              => searches'[x] = searches[x]
  <2>1. CASE UNCHANGED searches
    BY <2>1 DEF SearchInv, SearchShape
  <2>2. CASE \E t \in Tasks : \E r : S!Become(t, r) /\ IndexJob(r) /\ (r # None => r.do \notin Looks)
    <3>1. PICK t \in Tasks :
            \E r : S!Become(t, r) /\ IndexJob(r) /\ (r # None => r.do \notin Looks)
      BY <2>2
    <3>2. PICK r : S!Become(t, r) /\ IndexJob(r) /\ (r # None => r.do \notin Looks)
      BY <3>1
    <3>3. /\ searches'[t] = r /\ \A x \in Tasks : x # t => searches'[x] = searches[x]
          /\ searches' = [x \in Tasks |-> searches'[x]]
      BY <3>2 DEF SearchInv, SearchShape, S!Become
    <3> QED BY <3>2, <3>3 DEF SearchInv, SearchShape
  <2> QED BY <2>1, <2>2
<1>2. /\ touched' = [x \in Tasks |-> touched'[x]]
      /\ \A x \in Tasks : searches[x] # None => touched'[x] = touched[x] \cup {k}
  BY DEF S!Touch
<1>3. \A x \in Tasks : Searched(x)'
  <2> SUFFICES ASSUME NEW x \in Tasks, searches'[x] # None, searches'[x].do \in Looks
               PROVE  Searched(x)'
    BY DEF Searched
  <2>1. searches'[x] = searches[x] /\ touched'[x] = touched[x] \cup {k}
    BY <1>1, <1>2
  <2>2. Looking(searches[x], touched[x])
    BY <2>1 DEF SearchInv, Searched
  <2>3. PICK q : q = searches[x]
    OBVIOUS
  <2>4. PICK m : m = touched[x]
    OBVIOUS
  <2>5. Looking(q, m)
    BY <2>2, <2>3, <2>4
  <2>6. Looking(q, m \cup {k})'
    BY <2>5, LookingOn
  <2> QED BY <2>1, <2>3, <2>4, <2>6 DEF Searched, Looking
<1> QED BY <1>1, <1>2, <1>3 DEF SearchInv, SearchShape

LEMMA DropKeeps ==
    ASSUME NEW f, NEW k, IsFiniteSet(DOMAIN f)
    PROVE  /\ DOMAIN S!Drop(f, k) = DOMAIN f \ {k} /\ IsFiniteSet(DOMAIN S!Drop(f, k))
           /\ \A x : x # k /\ x \in DOMAIN f => S!Drop(f, k)[x] = f[x]
<1>1. S!Drop(f, k) = [x \in DOMAIN f \ {k} |-> f[x]]
  BY DEF S!Drop, S!Restrict
<1> QED BY <1>1, FS_Subset

LEMMA PutKeeps ==
    ASSUME NEW f, NEW k, NEW v, IsFiniteSet(DOMAIN f)
    PROVE  /\ DOMAIN S!Put(f, k, v) = DOMAIN f \cup {k} /\ IsFiniteSet(DOMAIN S!Put(f, k, v))
           /\ \A x : x # k /\ x \in DOMAIN f => S!Put(f, k, v)[x] = f[x]
  BY FS_AddElement DEF S!Put

-----------------------------------------------------------------------------

LEMMA WriterKeeps ==
    ASSUME SearchInv, NEW t \in Tasks, S!OpenWriter(t) \/ S!Commit(t)
    PROVE  SearchInv'
<1>1. /\ searches[t] # None /\ searches[t].do \in {"writer", "commit"}
      /\ DOMAIN searches[t] = {"do", "key", "doc", "next"}
      /\ searches[t].doc = None \/ searches[t].key \notin Excluded
      /\ Later(searches[t].next)
  BY DEF S!OpenWriter, S!Commit, S!Is, SearchInv, SearchShape, IndexJob
<1>2. IndexJob(searches[t].next)
      /\ (searches[t].next # None => searches[t].next.do \notin Looks)
  BY <1>1 DEF Later, IndexJob, Looks
<1>3. CASE S!OpenWriter(t)
  <2> DEFINE r == [searches[t] EXCEPT !.do = "commit"]
  <2>1. /\ S!Become(t, r) \/ S!Become(t, searches[t].next)
        /\ UNCHANGED <<messages, docs, touched>>
    BY <1>3 DEF S!OpenWriter, S!Quiet
  <2>2. IndexJob(r) /\ r.do = "commit"
    <3>1. /\ DOMAIN r = {"do", "key", "doc", "next"} /\ r.do = "commit"
          /\ r.doc = searches[t].doc /\ r.key = searches[t].key /\ r.next = searches[t].next
      BY <1>1
    <3> HIDE DEF r
    <3> QED BY <1>1, <3>1 DEF IndexJob
  <2> HIDE DEF r
  <2> QED BY <1>2, <2>1, <2>2, TaskStep DEF Looks
<1>4. CASE S!Commit(t)
  <2> DEFINE k == searches[t].key
  <2>1. /\ docs' = IF searches[t].doc = None THEN S!Drop(docs, k)
                   ELSE S!Put(docs, k, searches[t].doc)
        /\ S!Touch(k) /\ S!Become(t, searches[t].next) /\ UNCHANGED messages
    BY <1>4 DEF S!Commit
  <2>2. IsFiniteSet(DOMAIN docs) /\ DOMAIN docs \cap Excluded = {}
    BY DEF SearchInv, IndexShape
  <2> HIDE DEF k
  <2>3. IsFiniteSet(DOMAIN docs') /\ DOMAIN docs' \cap Excluded = {}
    <3>1. CASE searches[t].doc = None
      BY <2>1, <2>2, <3>1, DropKeeps
    <3>2. CASE searches[t].doc # None
      <4>1. PICK d : docs' = S!Put(docs, k, d)
        BY <2>1, <3>2
      <4>2. DOMAIN docs' = DOMAIN docs \cup {k} /\ IsFiniteSet(DOMAIN docs')
        BY <2>2, <4>1, PutKeeps
      <4> QED BY <1>1, <2>2, <3>2, <4>2 DEF k
    <3> QED BY <3>1, <3>2
  <2>4. IndexShape' /\ OnlyRow(k)
    BY <2>1, <2>3 DEF SearchInv, IndexShape, OnlyRow
  <2> QED BY <1>2, <2>1, <2>4, TouchStep
<1> QED BY <1>3, <1>4

\* What a row is replaced by, or its going, is a change of that row.
LEMMA RowSteps ==
    ASSUME SearchInv, NEW k,
           \/ \E c, s : S!upsert_message(k, c, s)
           \/ S!delete_message(k)
           \/ \E c : S!cache_message_body(k, c)
    PROVE  OnlyRow(k) /\ IsFiniteSet(DOMAIN messages')
<1>1. IsFiniteSet(DOMAIN messages)
  BY DEF SearchInv, IndexShape
<1>2. CASE \E c, s : S!upsert_message(k, c, s)
  <2>1. PICK d : messages' = S!Put(messages, k, d)
    BY <1>2 DEF S!upsert_message
  <2>2. DOMAIN messages' = DOMAIN messages \cup {k} /\ IsFiniteSet(DOMAIN messages')
    BY <1>1, <2>1, PutKeeps
  <2>3. \A x : x # k /\ x \in DOMAIN messages => messages'[x] = messages[x]
    BY <2>1 DEF S!Put
  <2> QED BY <2>2, <2>3 DEF OnlyRow
<1>3. CASE S!delete_message(k)
  <2>1. messages' = S!Drop(messages, k)
    BY <1>3 DEF S!delete_message
  <2>2. /\ DOMAIN messages' = DOMAIN messages \ {k} /\ IsFiniteSet(DOMAIN messages')
        /\ \A x : x # k /\ x \in DOMAIN messages => messages'[x] = messages[x]
    BY <1>1, <2>1, DropKeeps
  <2> QED BY <2>2 DEF OnlyRow
<1>4. CASE \E c : S!cache_message_body(k, c)
  BY <1>1, <1>4 DEF S!cache_message_body, OnlyRow
<1> QED BY <1>2, <1>3, <1>4

LEMMA ChangeKeeps ==
    ASSUME SearchInv, NEW t \in Tasks,
           S!upsert_and_index_headers(t) \/ S!FetchFails(t) \/ S!CacheBody(t)
    PROVE  SearchInv'
<1> DEFINE k == searches[t].key
<1>1. /\ S!Touch(k) /\ UNCHANGED docs
      /\ \/ \E c, s : S!upsert_message(k, c, s)
         \/ S!delete_message(k)
         \/ \E c : S!cache_message_body(k, c)
  BY DEF S!upsert_and_index_headers, S!FetchFails, S!CacheBody
<1>2. OnlyRow(k) /\ IsFiniteSet(DOMAIN messages')
  BY <1>1, RowSteps
<1>3. IndexShape'
  BY <1>1, <1>2 DEF SearchInv, IndexShape
<1>4. \E r : S!Become(t, r) /\ IndexJob(r) /\ (r # None => r.do \notin Looks)
  <2>1. CASE S!upsert_and_index_headers(t)
    <3> DEFINE w == S!Write(k, S!build_document(searches[t].msg, None), None)
    <3>1. S!Become(t, None) \/ (S!Become(t, w) /\ k \notin Excluded)
      BY <2>1 DEF S!upsert_and_index_headers, S!is_excluded_folder
    <3>2. /\ DOMAIN w = {"do", "key", "doc", "next"} /\ w.do = "writer" /\ w.key = k
          /\ w.next = None
      BY DEF S!Write
    <3> HIDE DEF w
    <3>3. k \notin Excluded => IndexJob(w) /\ w.do \notin Looks
      BY <3>2 DEF IndexJob, Later, Looks
    <3>4. IndexJob(None)
      BY DEF IndexJob
    <3> QED BY <3>1, <3>3, <3>4
  <2>2. CASE S!FetchFails(t)
    <3> DEFINE w == S!Write(k, None, None)
    <3>1. S!Become(t, w)
      BY <2>2 DEF S!FetchFails
    <3>2. /\ DOMAIN w = {"do", "key", "doc", "next"} /\ w.do = "writer" /\ w.doc = None
          /\ w.next = None
      BY DEF S!Write
    <3> HIDE DEF w
    <3> QED BY <3>1, <3>2 DEF IndexJob, Later, Looks
  <2>3. CASE S!CacheBody(t)
    <3> DEFINE w == S!Reindex(t, k, searches[t].body, searches[t].next)
    <3>1. S!Become(t, w) /\ Later(searches[t].next)
      BY <2>3 DEF S!CacheBody, S!Is, SearchInv, SearchShape, IndexJob
    <3>2. w.do = "header" /\ w.next = searches[t].next
      BY DEF S!Reindex
    <3> HIDE DEF w
    <3> QED BY <3>1, <3>2 DEF IndexJob, Looks
  <2> QED BY <2>1, <2>2, <2>3
<1> QED BY <1>1, <1>2, <1>3, <1>4, TouchStep

\* The steps before anything is written.
LEMMA ReadingKeeps ==
    ASSUME SearchInv, NEW t \in Tasks,
           \/ S!Fetch(t) \/ S!get_message(t) \/ S!fetch_body(t) \/ S!ReadHeader(t)
           \/ S!index_message_bodies(t) \/ S!DeepNext(t) \/ S!Answered(t)
    PROVE  SearchInv'
<1>1. /\ UNCHANGED <<messages, docs>>
      /\ touched' = [touched EXCEPT ![t] = {}] \/ UNCHANGED touched
  BY DEF S!Fetch, S!get_message, S!fetch_body, S!ReadHeader, S!index_message_bodies,
     S!DeepNext, S!Answered, S!Begin, S!Quiet
<1>2. IndexJob(None)
  BY DEF IndexJob
<1>3. \E r : S!Become(t, r) /\ IndexJob(r) /\ (r # None => r.do \notin Looks)
  <2>1. CASE S!Fetch(t)
    <3>1. PICK k \in Keys : S!Become(t, [do |-> "store", key |-> k, msg |-> mailbox[k]])
      BY <2>1 DEF S!Fetch
    <3> QED BY <3>1 DEF IndexJob, Looks
  <2>2. CASE S!get_message(t)
    <3>1. PICK k \in Keys :
            \/ S!Become(t, [do |-> "fetch", key |-> k])
            \/ S!Become(t, S!Reindex(t, k, S!get_cached_body(k), None))
      BY <2>2 DEF S!get_message
    <3> QED BY <3>1 DEF S!Reindex, IndexJob, Looks, Later
  <2>3. CASE S!fetch_body(t)
    BY <2>3 DEF S!fetch_body, IndexJob, Looks, Later
  <2>4. CASE S!ReadHeader(t)
    <3> DEFINE k == searches[t].key
               next == searches[t].next
    <3>1. Later(next)
      BY <2>4 DEF S!ReadHeader, S!Is, SearchInv, SearchShape, IndexJob
    <3>2. \/ S!Become(t, next)
          \/ k \notin Excluded /\ \E d : S!Become(t, S!Write(k, d, next))
      BY <2>4 DEF S!ReadHeader, S!is_excluded_folder
    <3>3. IndexJob(next) /\ (next # None => next.do \notin Looks)
      BY <3>1 DEF Later, IndexJob, Looks
    <3>4. ASSUME NEW d, k \notin Excluded
          PROVE  IndexJob(S!Write(k, d, next)) /\ S!Write(k, d, next).do \notin Looks
      BY <3>1, <3>4 DEF S!Write, IndexJob, Looks
    <3> HIDE DEF k, next
    <3> QED BY <3>2, <3>3, <3>4
  <2>5. CASE S!index_message_bodies(t)
    BY <2>5 DEF S!index_message_bodies, S!Deep, IndexJob, Looks
  <2>6. CASE S!DeepNext(t)
    <3>1. \/ S!Become(t, None)
          \/ \E k : LET rest == S!Deep(searches[t].todo \ {k}) IN
               \/ S!Become(t, rest)
               \/ S!Become(t, [do |-> "cache", key |-> k, body |-> mailbox[k], next |-> rest])
      BY <2>6 DEF S!DeepNext
    <3>2. ASSUME NEW k, NEW rest, rest = S!Deep(searches[t].todo \ {k})
          PROVE  LET c == [do |-> "cache", key |-> k, body |-> mailbox[k], next |-> rest]
                 IN  IndexJob(rest) /\ rest.do \notin Looks /\ IndexJob(c) /\ c.do \notin Looks
      BY <3>2 DEF S!Deep, IndexJob, Looks, Later
    <3> QED BY <1>2, <3>1, <3>2
  <2>7. CASE S!Answered(t)
    BY <1>2, <2>7 DEF S!Answered
  <2> QED BY <2>1, <2>2, <2>3, <2>4, <2>5, <2>6, <2>7
<1>4. PICK r : S!Become(t, r) /\ IndexJob(r) /\ (r # None => r.do \notin Looks)
  BY <1>3
<1> QED BY <1>1, <1>4, TaskStep

\* The newest of a finite set: all of it, or as many as may be.
LEMMA SearchCount == \A x : S!Cardinality(x) = Cardinality(x)
  BY DEF S!Cardinality, Cardinality

LEMMA NewestOf ==
    ASSUME NEW all, IsFiniteSet(all), NEW front \in S!Newest(all, Limit)
    PROVE  /\ front \subseteq all /\ IsFiniteSet(front) /\ Cardinality(front) <= Limit
           /\ Cardinality(front) < Limit => front = all
<1>1. /\ front \subseteq all
      /\ Cardinality(front) = IF Cardinality(all) < Limit THEN Cardinality(all) ELSE Limit
  BY SearchCount DEF S!Newest
<1>2. IsFiniteSet(front) /\ Cardinality(front) \in Nat /\ Cardinality(all) \in Nat
  BY <1>1, FS_Subset, FS_CardinalityType
<1>3. Cardinality(front) = Cardinality(all) => front = all
  BY <1>1, FS_Subset
<1> QED BY <1>1, <1>2, <1>3, SearchAssumed

\* The rows are looked at in one statement.
LEMMA LookKeeps == ASSUME SearchInv, NEW t \in Tasks, S!search_messages(t) PROVE SearchInv'
<1>1. PICK q \in S!Query : \E front \in S!Newest(S!search_messages_sqlite(q), Limit) :
        S!Become(t, [do |-> IF q.word = None \/ S!Cardinality(front) = Limit
                            THEN "answer" ELSE "index",
                     query |-> q, found |-> front, more |-> {}])
  BY DEF S!search_messages
<1>2. PICK front \in S!Newest(S!search_messages_sqlite(q), Limit) :
        S!Become(t, [do |-> IF q.word = None \/ S!Cardinality(front) = Limit
                            THEN "answer" ELSE "index",
                     query |-> q, found |-> front, more |-> {}])
  BY <1>1
<1>3. PICK step \in {"answer", "index"} :
        S!Become(t, [do |-> step, query |-> q, found |-> front, more |-> {}])
  BY <1>2
<1> DEFINE r == [do |-> step, query |-> q, found |-> front, more |-> {}]
<1>4. /\ S!search_messages_sqlite(q) \subseteq DOMAIN messages
      /\ S!search_messages_sqlite(q) \cap TopLevel = {}
  BY DEF S!search_messages_sqlite
<1>5. IsFiniteSet(S!search_messages_sqlite(q))
  BY <1>4, FS_Subset DEF SearchInv, IndexShape
<1>6. /\ front \subseteq S!search_messages_sqlite(q) /\ IsFiniteSet(front)
      /\ Cardinality(front) <= Limit /\ Cardinality(front) \in Nat
      /\ Cardinality(front) < Limit => front = S!search_messages_sqlite(q)
  BY <1>5, NewestOf, FS_CardinalityType
<1>7. /\ r.query = q /\ r.found = front /\ r.more = {} /\ r.do = step
      /\ DOMAIN r = {"do", "query", "found", "more"}
  OBVIOUS
<1> HIDE DEF r
<1>8. Looking(r, {})
  <2>1. IsFiniteSet({}) /\ Cardinality({}) = 0
    BY FS_EmptySet
  <2> QED BY <1>4, <1>6, <1>7, <2>1, SearchAssumed DEF Looking
<1>9. touched' = [touched EXCEPT ![t] = {}] /\ UNCHANGED <<messages, docs>>
  BY DEF S!search_messages, S!Begin
<1>10. touched'[t] = {}
  BY <1>9 DEF SearchInv, SearchShape
<1>11. IndexJob(r)
  BY <1>7 DEF IndexJob
<1> QED BY <1>3, <1>8, <1>9, <1>10, <1>11, TaskStep DEF r

\* The index holds nothing of an excluded folder.
LEMMA HitsKeep == ASSUME SearchInv, NEW t \in Tasks, S!SearchIndex(t) PROVE SearchInv'
<1>1. searches[t] # None /\ searches[t].do = "index" /\ Looking(searches[t], touched[t])
      /\ UNCHANGED <<messages, docs, touched>>
  BY DEF S!SearchIndex, S!Is, S!Quiet, SearchInv, Searched, Looks
<1>2. PICK hits \in SUBSET S!search(searches[t].query) :
        S!Become(t, [searches[t] EXCEPT !.do = "resolve", !.more = hits])
  BY DEF S!SearchIndex
<1> DEFINE r == [searches[t] EXCEPT !.do = "resolve", !.more = hits]
<1>3. /\ r.query = searches[t].query /\ r.found = searches[t].found /\ r.more = hits
      /\ r.do = "resolve" /\ DOMAIN r = {"do", "query", "found", "more"}
  BY <1>1 DEF Looking
<1>4. IsFiniteSet(hits) /\ hits \cap Excluded = {}
  <2>1. hits \subseteq DOMAIN docs
    BY DEF S!search
  <2> QED BY <2>1, FS_Subset DEF SearchInv, IndexShape
<1> HIDE DEF r
<1>5. Looking(r, touched[t])
  BY <1>1, <1>3, <1>4 DEF Looking
<1>6. IndexJob(r)
  BY <1>3 DEF IndexJob
<1> QED BY <1>1, <1>2, <1>5, <1>6, TaskStep DEF r

\* Of the hits as many as there is room for, and only those that have a row.
LEMMA ResolveKeeps == ASSUME SearchInv, NEW t \in Tasks, S!Resolve(t) PROVE SearchInv'
<1>1. searches[t] # None /\ searches[t].do = "resolve" /\ Looking(searches[t], touched[t])
      /\ UNCHANGED <<messages, docs, touched>>
  BY DEF S!Resolve, S!Is, S!Quiet, SearchInv, Searched, Looks
<1> DEFINE there == {k \in searches[t].more : S!get_single_message(k) # None}
           room == Limit - Cardinality(searches[t].found)
<1>2. PICK some \in SUBSET there :
        /\ Cardinality(some) = IF Cardinality(there) < room THEN Cardinality(there) ELSE room
        /\ S!Become(t, [searches[t] EXCEPT !.do = "answer",
                                           !.more = S!Unseen(searches[t].found, some)])
  BY SearchCount DEF S!Resolve
<1> DEFINE rest == some \ searches[t].found
           r == [searches[t] EXCEPT !.do = "answer", !.more = rest]
<1>3. S!Become(t, r)
  BY <1>2 DEF S!Unseen
<1>4. /\ r.query = searches[t].query /\ r.found = searches[t].found /\ r.more = rest
      /\ r.do = "answer" /\ DOMAIN r = {"do", "query", "found", "more"}
  BY <1>1 DEF Looking
<1>5. some \subseteq searches[t].more /\ some \subseteq DOMAIN messages
  BY DEF S!get_single_message
<1>6. /\ IsFiniteSet(searches[t].more) /\ searches[t].more \cap Excluded = {}
      /\ IsFiniteSet(searches[t].found) /\ Cardinality(searches[t].found) <= Limit
  BY <1>1 DEF Looking
<1>7. IsFiniteSet(some) /\ IsFiniteSet(rest) /\ IsFiniteSet(there)
      /\ Cardinality(rest) <= Cardinality(some)
  <2>1. IsFiniteSet(some)
    BY <1>5, <1>6, FS_Subset
  <2>2. rest \in SUBSET some
    OBVIOUS
  <2>3. there \in SUBSET searches[t].more
    OBVIOUS
  <2> HIDE DEF rest, there
  <2> QED BY <1>6, <2>1, <2>2, <2>3, FS_Subset
<1>8. Cardinality(searches[t].found) + Cardinality(rest) <= Limit
  <2>1. /\ Cardinality(rest) \in Nat /\ Cardinality(there) \in Nat /\ Cardinality(some) \in Nat
        /\ Cardinality(searches[t].found) \in Nat
    BY <1>6, <1>7, FS_CardinalityType
  <2>2. Cardinality(some) <= room
    <3>1. Cardinality(some) = IF Cardinality(there) < room THEN Cardinality(there) ELSE room
      BY <1>2
    <3> HIDE DEF there
    <3> QED BY <1>6, <2>1, <3>1, SearchAssumed
  <2> HIDE DEF rest, there
  <2> QED BY <1>6, <1>7, <2>1, <2>2, SearchAssumed
<1>9. rest \subseteq some /\ searches[t].found \cap rest = {}
  OBVIOUS
<1> HIDE DEF r, rest, there
<1>10. Looking(r, touched[t])
  BY <1>1, <1>4, <1>5, <1>6, <1>7, <1>8, <1>9 DEF Looking
<1>11. IndexJob(r)
  BY <1>4 DEF IndexJob
<1> QED BY <1>1, <1>3, <1>10, <1>11, TaskStep

LEMMA SearchStart == S!Init => SearchInv
<1> SUFFICES ASSUME S!Init PROVE SearchInv
  OBVIOUS
<1>1. DOMAIN messages = {} /\ DOMAIN docs = {}
  BY EmptyDomain DEF S!Init
<1>2. IndexShape
  BY <1>1, FS_EmptySet DEF IndexShape
<1>3. SearchShape /\ \A t \in Tasks : searches[t] = None
  BY DEF S!Init, SearchShape, IndexJob
<1> QED BY <1>2, <1>3 DEF SearchInv, Searched

LEMMA SearchNext == SearchInv /\ [S!Next]_(S!vars) => SearchInv'
<1> SUFFICES ASSUME SearchInv, [S!Next]_(S!vars) PROVE SearchInv'
  OBVIOUS
<1>1. CASE S!RowGone
  <2>1. PICK k \in DOMAIN messages : S!delete_message(k) /\ S!Touch(k)
    BY <1>1 DEF S!RowGone
  <2>2. OnlyRow(k) /\ IsFiniteSet(DOMAIN messages') /\ UNCHANGED <<docs, searches>>
    BY <1>1, <2>1, RowSteps DEF S!RowGone
  <2>3. IndexShape'
    BY <2>2 DEF SearchInv, IndexShape
  <2> QED BY <2>1, <2>2, <2>3, TouchStep
<1>2. CASE S!Elsewhere \/ UNCHANGED S!vars
  <2>1. UNCHANGED <<messages, docs, searches, touched>>
    BY <1>2 DEF S!Elsewhere, S!Quiet, S!vars
  <2> QED BY <2>1 DEF SearchInv, IndexShape, SearchShape, Searched, Looking,
             S!search_messages_sqlite
<1> QED BY <1>1, <1>2, WriterKeeps, ChangeKeeps, ReadingKeeps, LookKeeps, HitsKeep,
        ResolveKeeps DEF S!Next

\* What an answer names and what it leaves out, whatever the index and the rows
\* do while a search is under way (routes/search.rs:424).
THEOREM SearchStaysSound == S!Spec => []S!SearchSound
<1>1. SearchInv => S!SearchSound
  <2> SUFFICES ASSUME SearchInv, NEW t \in Tasks, S!Is(t, "answer")
               PROVE  LET q == searches[t].query front == searches[t].found
                          more == searches[t].more IN
                        /\ front \cap more = {} /\ S!Cardinality(front \cup more) <= Limit
                        /\ more \cap Excluded = {} /\ front \cap TopLevel = {}
                        /\ (front \cup more) \ touched[t] \subseteq DOMAIN messages
                        /\ S!Cardinality(front \cup more) < Limit =>
                              S!search_messages_sqlite(q) \ touched[t] \subseteq front
    BY DEF S!SearchSound
  <2>1. Looking(searches[t], touched[t]) /\ searches[t].do = "answer"
    BY DEF SearchInv, Searched, S!Is, Looks
  <2> DEFINE front == searches[t].found
             more == searches[t].more
  <2>2. /\ IsFiniteSet(front) /\ IsFiniteSet(more) /\ front \cap more = {}
        /\ Cardinality(front) + Cardinality(more) <= Limit
    BY <2>1 DEF Looking
  <2>3. Cardinality(front \cup more) = Cardinality(front) + Cardinality(more)
        /\ Cardinality(front) \in Nat /\ Cardinality(more) \in Nat
    <3> HIDE DEF front, more
    <3>1. /\ Cardinality(front \cup more) =
                Cardinality(front) + Cardinality(more) - Cardinality(front \cap more)
          /\ Cardinality(front) \in Nat /\ Cardinality(more) \in Nat
      BY <2>2, FS_Union, FS_CardinalityType
    <3>2. Cardinality(front \cap more) = 0
      BY <2>2, FS_EmptySet
    <3> QED BY <3>1, <3>2
  <2>4. /\ S!Cardinality(front \cup more) <= Limit
        /\ S!Cardinality(front \cup more) < Limit => Cardinality(front) < Limit
    <3>1. S!Cardinality(front \cup more) = Cardinality(front \cup more)
      BY SearchCount
    <3> HIDE DEF front, more
    <3> QED BY <2>2, <2>3, <3>1, SearchAssumed
  <2> QED BY <2>1, <2>2, <2>4 DEF Looking
<1> QED BY <1>1, SearchStart, SearchNext, PTL DEF S!Spec

-----------------------------------------------------------------------------
(* Search: the types of what a task is about to do                         *)

Batch(n) == n = None \/ n \in [do : {"deep"}, todo : SUBSET Keys]

WorkOK(r) ==
    r # None =>
        /\ r.do \in {"writer", "commit"} => r.key \in Keys /\ r.doc \in S!Docs \cup {None} /\ Batch(r.next)
        /\ r.do \in {"store", "fetch", "cache", "header"} => r.key \in Keys
        /\ r.do = "store" => r.msg \in Contents
        /\ r.do \in {"cache", "header"} => r.body \in Contents /\ Batch(r.next)
        /\ r.do = "deep" => r.todo \subseteq Keys

WorkInv == S!TypeOK /\ \A t \in Tasks : WorkOK(searches[t])

\* The rows, the index and the server's mailbox.
Stored ==
    /\ mailbox \in [Keys -> S!MaybeContents]
    /\ DOMAIN messages \subseteq Keys /\ \A k \in DOMAIN messages : messages[k] \in S!Rows
    /\ DOMAIN docs \subseteq Keys \ Excluded /\ \A k \in DOMAIN docs : docs[k] \in S!Docs
    /\ touched \in [Tasks -> SUBSET Keys]

LEMMA BatchIsWork ==
    ASSUME NEW n, Batch(n) PROVE WorkOK(n) /\ (n # None => n.do = "deep" /\ n.do \notin Looks)
<1>1. n \in [do : {"deep"}, todo : SUBSET Keys] => n.do = "deep" /\ n.todo \in SUBSET Keys
  OBVIOUS
<1> QED BY <1>1 DEF Batch, WorkOK, Looks

\* A step of one task that does not take or let go of the lock of the index.
LEMMA WorkStep ==
    ASSUME SearchInv, WorkInv, Stored', NEW t \in Tasks, NEW r, S!Become(t, r),
           WorkOK(r), r # None => r.do # "commit", ~ S!Is(t, "commit"), writer' = writer
    PROVE  WorkInv'
<1>1. searches'[t] = r /\ \A x \in Tasks : x # t => searches'[x] = searches[x]
  BY DEF SearchInv, SearchShape, S!Become
<1>2. \A x \in Tasks : S!Is(x, "commit")' <=> S!Is(x, "commit")
  BY <1>1 DEF S!Is
<1>3. \A x \in Tasks : WorkOK(searches'[x])
  BY <1>1 DEF WorkInv
<1>4. \A x \in Tasks : WorkOK(searches[x])'
  BY <1>3 DEF WorkOK, S!Docs, S!MaybeContents, Batch
<1>5. \A x \in Tasks : writer' = x <=> S!Is(x, "commit")'
  BY <1>2 DEF WorkInv, S!TypeOK
<1> QED BY <1>4, <1>5 DEF WorkInv, S!TypeOK, Stored

LEMMA StoredSame ==
    ASSUME WorkInv, UNCHANGED <<mailbox, messages, docs>>,
           UNCHANGED touched \/ \E t \in Tasks : S!Begin(t)
    PROVE  Stored'
BY DEF WorkInv, S!TypeOK, Stored, S!Begin

LEMMA TouchedKeys ==
    ASSUME WorkInv, NEW k \in Keys, S!Touch(k) PROVE touched' \in [Tasks -> SUBSET Keys]
BY DEF WorkInv, S!TypeOK, S!Touch

LEMMA PutRow ==
    ASSUME NEW f, NEW T, NEW K, NEW k \in K, NEW v \in T,
           DOMAIN f \subseteq K, \A x \in DOMAIN f : f[x] \in T
    PROVE  DOMAIN S!Put(f, k, v) \subseteq K /\ \A x \in DOMAIN S!Put(f, k, v) : S!Put(f, k, v)[x] \in T
BY DEF S!Put

LEMMA DropRow ==
    ASSUME NEW f, NEW T, NEW K, NEW k,
           DOMAIN f \subseteq K, \A x \in DOMAIN f : f[x] \in T
    PROVE  DOMAIN S!Drop(f, k) \subseteq K /\ \A x \in DOMAIN S!Drop(f, k) : S!Drop(f, k)[x] \in T
BY DEF S!Drop, S!Restrict

\* The lock of the index is taken, and let go of.
LEMMA LockSteps ==
    ASSUME SearchInv, WorkInv, NEW t \in Tasks, S!OpenWriter(t) \/ S!Commit(t)
    PROVE  WorkInv'
<1>1. /\ searches[t] # None /\ searches[t].do \in {"writer", "commit"}
      /\ DOMAIN searches[t] = {"do", "key", "doc", "next"}
      /\ searches[t].doc = None \/ searches[t].key \notin Excluded
  BY DEF S!OpenWriter, S!Commit, S!Is, SearchInv, SearchShape, IndexJob
<1>2. searches[t].key \in Keys /\ searches[t].doc \in S!Docs \cup {None} /\ Batch(searches[t].next)
  BY <1>1 DEF WorkInv, WorkOK
<1>3. /\ WorkOK(searches[t].next)
      /\ searches[t].next # None => searches[t].next.do # "commit"
  BY <1>2, BatchIsWork
<1>4. CASE S!OpenWriter(t) /\ writer # None
  <2>1. S!Become(t, searches[t].next) /\ UNCHANGED <<writer, mailbox, messages, docs, touched>>
    BY <1>4 DEF S!OpenWriter, S!Quiet
  <2>2. ~ S!Is(t, "commit")
    BY <1>4 DEF S!OpenWriter, S!Is
  <2> QED BY <1>3, <2>1, <2>2, StoredSame, WorkStep
<1>5. CASE S!OpenWriter(t) /\ writer = None
  <2> DEFINE r == [searches[t] EXCEPT !.do = "commit"]
  <2>1. S!Become(t, r) /\ writer' = t /\ UNCHANGED <<mailbox, messages, docs, touched>>
    BY <1>5 DEF S!OpenWriter, S!Quiet
  <2>2. /\ r.do = "commit" /\ r.key = searches[t].key /\ r.doc = searches[t].doc
        /\ r.next = searches[t].next
        /\ r = [do |-> "commit", key |-> searches[t].key, doc |-> searches[t].doc,
                next |-> searches[t].next]
    BY <1>1
  <2>3. r # None
    BY <1>2, <2>2, SearchAssumed DEF S!Docs, S!MaybeContents, Batch
  <2> HIDE DEF r
  <2>4. searches'[t] = r /\ \A x \in Tasks : x # t => searches'[x] = searches[x]
    BY <2>1 DEF SearchInv, SearchShape, S!Become
  <2>5. \A x \in Tasks : WorkOK(searches[x])'
    <3>1. WorkOK(r)
      BY <1>2, <2>2 DEF WorkOK
    <3>2. \A x \in Tasks : WorkOK(searches'[x])
      BY <2>4, <3>1 DEF WorkInv
    <3> QED BY <3>2 DEF WorkOK, S!Docs, S!MaybeContents, Batch
  <2>6. \A x \in Tasks : ~ S!Is(x, "commit")
    BY <1>5, SearchAssumed DEF WorkInv, S!TypeOK
  <2>7. \A x \in Tasks : writer' = x <=> S!Is(x, "commit")'
    BY <2>1, <2>2, <2>3, <2>4, <2>6 DEF S!Is
  <2> QED BY <2>1, <2>5, <2>7, StoredSame DEF Stored, WorkInv, S!TypeOK
<1>6. CASE S!Commit(t)
  <2>1. /\ S!Become(t, searches[t].next) /\ writer' = None /\ UNCHANGED <<mailbox, messages>>
        /\ S!Touch(searches[t].key) /\ S!Is(t, "commit")
        /\ docs' = IF searches[t].doc = None THEN S!Drop(docs, searches[t].key)
                   ELSE S!Put(docs, searches[t].key, searches[t].doc)
    BY <1>6 DEF S!Commit
  <2>2. DOMAIN docs \subseteq Keys \ Excluded /\ \A k \in DOMAIN docs : docs[k] \in S!Docs
    BY DEF WorkInv, S!TypeOK
  <2>3. DOMAIN docs' \subseteq Keys \ Excluded /\ \A k \in DOMAIN docs' : docs'[k] \in S!Docs
    <3>1. CASE searches[t].doc = None
      BY <2>1, <2>2, <3>1, DropRow
    <3>2. CASE searches[t].doc # None
      <4>1. searches[t].key \in Keys \ Excluded /\ searches[t].doc \in S!Docs
        BY <1>1, <1>2, <3>2
      <4>2. docs' = S!Put(docs, searches[t].key, searches[t].doc)
        BY <2>1, <3>2
      <4>3. PICK K, T, k, d : K = Keys \ Excluded /\ T = S!Docs /\ k = searches[t].key /\ d = searches[t].doc
        OBVIOUS
      <4>4. k \in K /\ d \in T /\ DOMAIN docs \subseteq K /\ \A x \in DOMAIN docs : docs[x] \in T
        BY <2>2, <4>1, <4>3
      <4>5. DOMAIN S!Put(docs, k, d) \subseteq K /\ \A x \in DOMAIN S!Put(docs, k, d) : S!Put(docs, k, d)[x] \in T
        BY ONLY <4>4, PutRow
      <4>6. docs' = S!Put(docs, k, d)
        BY <4>2, <4>3
      <4>7. DOMAIN docs' \subseteq K /\ \A x \in DOMAIN docs' : docs'[x] \in T
        BY ONLY <4>5, <4>6
      <4> QED BY <4>3, <4>7
    <3> QED BY <3>1, <3>2
  <2>4. Stored'
    <3>1. touched' \in [Tasks -> SUBSET Keys]
      BY <1>2, <2>1, TouchedKeys
    <3>2. S!Docs' = S!Docs
      BY DEF S!Docs, S!MaybeContents
    <3> QED BY <2>1, <2>3, <3>1, <3>2 DEF Stored, WorkInv, S!TypeOK
  <2>5. searches'[t] = searches[t].next /\ \A x \in Tasks : x # t => searches'[x] = searches[x]
    BY <2>1 DEF SearchInv, SearchShape, S!Become
  <2>6. \A x \in Tasks : WorkOK(searches[x])'
    <3>1. \A x \in Tasks : WorkOK(searches'[x])
      BY <1>3, <2>5 DEF WorkInv
    <3> QED BY <3>1 DEF WorkOK, S!Docs, S!MaybeContents, Batch
  <2>7. \A x \in Tasks : ~ S!Is(x, "commit")'
    <3>1. \A x \in Tasks : S!Is(x, "commit") => x = t
      BY <2>1 DEF WorkInv, S!TypeOK
    <3> QED BY <1>3, <2>5, <3>1 DEF S!Is
  <2> QED BY <2>1, <2>4, <2>6, <2>7, SearchAssumed DEF Stored, WorkInv, S!TypeOK
<1> QED BY <1>4, <1>5, <1>6

LEMMA RowsOf ==
    ASSUME WorkInv, NEW k
    PROVE  /\ S!get_single_message(k) # None => S!get_single_message(k) \in Contents
           /\ S!get_cached_body(k) # None => S!get_cached_body(k) \in Contents
           /\ k \in Keys /\ mailbox[k] # None => mailbox[k] \in Contents
BY DEF WorkInv, S!TypeOK, S!get_single_message, S!get_cached_body, S!Rows, S!MaybeContents

LEMMA RowGoes ==
    ASSUME WorkInv, NEW k \in Keys, S!delete_message(k), S!Touch(k), UNCHANGED <<mailbox, docs>>
    PROVE  Stored'
<1>1. messages' = S!Drop(messages, k)
  BY DEF S!delete_message
<1>2. DOMAIN messages \subseteq Keys /\ \A x \in DOMAIN messages : messages[x] \in S!Rows
  BY DEF WorkInv, S!TypeOK
<1>3. DOMAIN messages' \subseteq Keys /\ \A x \in DOMAIN messages' : messages'[x] \in S!Rows
  BY <1>1, <1>2, DropRow
<1>4. touched' \in [Tasks -> SUBSET Keys]
  BY TouchedKeys
<1> QED BY <1>3, <1>4 DEF Stored, WorkInv, S!TypeOK, S!Rows, S!Docs, S!MaybeContents

\* Headers arrive, and messages are opened.
LEMMA MailWork ==
    ASSUME SearchInv, WorkInv, NEW t \in Tasks,
           \/ S!Fetch(t) \/ S!upsert_and_index_headers(t) \/ S!get_message(t)
           \/ S!fetch_body(t) \/ S!FetchFails(t) \/ S!CacheBody(t)
    PROVE  WorkInv'
<1>1. CASE S!Fetch(t)
  <2>1. PICK k \in Keys : mailbox[k] # None /\ S!Become(t, [do |-> "store", key |-> k, msg |-> mailbox[k]])
    BY <1>1 DEF S!Fetch
  <2>2. WorkOK([do |-> "store", key |-> k, msg |-> mailbox[k]])
    BY <2>1, RowsOf DEF WorkOK
  <2>3. ~ S!Is(t, "commit") /\ writer' = writer /\ Stored'
    BY <1>1, StoredSame DEF S!Fetch, S!Is
  <2> QED BY <2>1, <2>2, <2>3, WorkStep
<1>2. CASE S!upsert_and_index_headers(t)
  <2> DEFINE k == searches[t].key
  <2> DEFINE c == searches[t].msg
  <2>1. /\ searches[t] # None /\ searches[t].do = "store"
        /\ \E s \in BOOLEAN : S!upsert_message(k, c, s)
        /\ S!Become(t, IF S!is_excluded_folder(k) THEN None
                       ELSE S!Write(k, S!build_document(c, None), None))
        /\ S!Touch(k) /\ UNCHANGED <<mailbox, docs, writer>>
    BY <1>2 DEF S!upsert_and_index_headers, S!Is
  <2>2. k \in Keys /\ c \in Contents
    BY <2>1 DEF WorkInv, WorkOK
  <2> HIDE DEF k, c
  <2>3. PICK s \in BOOLEAN : messages' = S!Put(messages, k, [msg |-> c, body |-> None, seen |-> s])
    BY <2>1 DEF S!upsert_message
  <2>4. Stored'
    <3>1. [msg |-> c, body |-> None, seen |-> s] \in S!Rows
      BY <2>2 DEF S!Rows, S!MaybeContents
    <3>2. DOMAIN messages \subseteq Keys /\ \A x \in DOMAIN messages : messages[x] \in S!Rows
      BY DEF WorkInv, S!TypeOK
    <3>3. DOMAIN messages' \subseteq Keys /\ \A x \in DOMAIN messages' : messages'[x] \in S!Rows
      BY <2>2, <2>3, <3>1, <3>2, PutRow
    <3>4. touched' \in [Tasks -> SUBSET Keys]
      BY <2>1, <2>2, TouchedKeys
    <3> QED BY <2>1, <3>3, <3>4 DEF Stored, WorkInv, S!TypeOK, S!Rows, S!Docs, S!MaybeContents
  <2>5. S!build_document(c, None) \in S!Docs
    BY <2>2 DEF S!build_document, S!Docs, S!MaybeContents
  <2>6. S!Become(t, None) \/ S!Become(t, S!Write(k, S!build_document(c, None), None))
    BY <2>1
  <2>7. /\ WorkOK(S!Write(k, S!build_document(c, None), None))
        /\ S!Write(k, S!build_document(c, None), None).do # "commit" /\ WorkOK(None)
    BY <2>2, <2>5 DEF S!Write, WorkOK, Batch
  <2>8. ~ S!Is(t, "commit")
    BY <2>1 DEF S!Is
  <2> QED BY <2>1, <2>4, <2>6, <2>7, <2>8, WorkStep
<1>3. CASE S!get_message(t)
  <2>1. PICK k \in Keys :
          S!Become(t, IF S!get_cached_body(k) = None THEN [do |-> "fetch", key |-> k]
                      ELSE S!Reindex(t, k, S!get_cached_body(k), None))
    BY <1>3 DEF S!get_message
  <2>2. CASE S!get_cached_body(k) = None
    <3>1. WorkOK([do |-> "fetch", key |-> k])
      BY DEF WorkOK
    <3>2. ~ S!Is(t, "commit") /\ writer' = writer /\ Stored'
      BY <1>3, StoredSame DEF S!get_message, S!Is
    <3> QED BY <2>1, <2>2, <3>1, <3>2, WorkStep
  <2>3. CASE S!get_cached_body(k) # None
    <3>1. S!Become(t, S!Reindex(t, k, S!get_cached_body(k), None))
      BY <2>1, <2>3
    <3>2. WorkOK(S!Reindex(t, k, S!get_cached_body(k), None)) /\ S!Reindex(t, k, S!get_cached_body(k), None).do # "commit"
      BY <2>3, RowsOf DEF WorkOK, S!Reindex, Batch
    <3>3. ~ S!Is(t, "commit") /\ writer' = writer /\ Stored'
      BY <1>3, StoredSame DEF S!get_message, S!Is
    <3> QED BY <3>1, <3>2, <3>3, WorkStep
  <2> QED BY <2>2, <2>3
<1>4. CASE S!fetch_body(t)
  <2> DEFINE r == [do |-> "cache", key |-> searches[t].key, body |-> mailbox[searches[t].key],
                   next |-> None]
  <2>1. /\ searches[t] # None /\ searches[t].do = "fetch" /\ mailbox[searches[t].key] # None
        /\ S!Become(t, r) /\ UNCHANGED <<mailbox, messages, docs, writer, touched>>
    BY <1>4 DEF S!fetch_body, S!Is, S!Quiet
  <2>2. searches[t].key \in Keys
    BY <2>1 DEF WorkInv, WorkOK
  <2>3. WorkOK(r) /\ r.do # "commit"
    BY <2>1, <2>2, RowsOf DEF WorkOK, Batch
  <2>4. ~ S!Is(t, "commit") /\ Stored'
    BY <2>1, StoredSame DEF S!Is
  <2> HIDE DEF r
  <2> QED BY <2>1, <2>3, <2>4, WorkStep
<1>5. CASE S!FetchFails(t)
  <2>1. /\ searches[t] # None /\ searches[t].do = "fetch"
        /\ S!delete_message(searches[t].key) /\ S!Touch(searches[t].key)
        /\ S!Become(t, S!Write(searches[t].key, None, None)) /\ UNCHANGED <<mailbox, docs, writer>>
    BY <1>5 DEF S!FetchFails, S!Is
  <2>2. searches[t].key \in Keys
    BY <2>1 DEF WorkInv, WorkOK
  <2>3. WorkOK(S!Write(searches[t].key, None, None)) /\ S!Write(searches[t].key, None, None).do # "commit"
    BY <2>2 DEF WorkOK, S!Write, Batch
  <2>4. ~ S!Is(t, "commit") /\ Stored'
    BY <2>1, <2>2, RowGoes DEF S!Is
  <2> QED BY <2>1, <2>3, <2>4, WorkStep
<1>6. CASE S!CacheBody(t)
  <2> DEFINE k == searches[t].key
  <2>1. /\ searches[t] # None /\ searches[t].do = "cache"
        /\ messages' = IF k \in DOMAIN messages THEN [messages EXCEPT ![k].body = searches[t].body] ELSE messages
        /\ S!Touch(k) /\ S!Become(t, S!Reindex(t, k, searches[t].body, searches[t].next))
        /\ UNCHANGED <<mailbox, docs, writer>>
    BY <1>6 DEF S!CacheBody, S!cache_message_body, S!Is
  <2>2. k \in Keys /\ searches[t].body \in Contents /\ Batch(searches[t].next)
    BY <2>1 DEF WorkInv, WorkOK
  <2> HIDE DEF k
  <2>3. Stored'
    <3>1. DOMAIN messages \subseteq Keys /\ \A x \in DOMAIN messages : messages[x] \in S!Rows
      BY DEF WorkInv, S!TypeOK
    <3>2. ASSUME NEW m \in S!Rows PROVE [m EXCEPT !.body = searches[t].body] \in S!Rows
      BY <2>2 DEF S!Rows, S!MaybeContents
    <3>3. DOMAIN messages' \subseteq Keys /\ \A x \in DOMAIN messages' : messages'[x] \in S!Rows
      <4>1. CASE k \in DOMAIN messages
        <5>1. messages' = [messages EXCEPT ![k] = [messages[k] EXCEPT !.body = searches[t].body]]
          BY <2>1, <4>1
        <5> QED BY <3>1, <3>2, <4>1, <5>1
      <4>2. CASE k \notin DOMAIN messages
        BY <2>1, <3>1, <4>2
      <4> QED BY <4>1, <4>2
    <3>4. touched' \in [Tasks -> SUBSET Keys]
      BY <2>1, <2>2, TouchedKeys
    <3> QED BY <2>1, <3>3, <3>4 DEF Stored, WorkInv, S!TypeOK, S!Rows, S!Docs, S!MaybeContents
  <2>4. /\ WorkOK(S!Reindex(t, k, searches[t].body, searches[t].next))
        /\ S!Reindex(t, k, searches[t].body, searches[t].next).do # "commit"
    BY <2>2 DEF WorkOK, S!Reindex
  <2>5. ~ S!Is(t, "commit")
    BY <2>1 DEF S!Is
  <2> QED BY <2>1, <2>3, <2>4, <2>5, WorkStep
<1> QED BY <1>1, <1>2, <1>3, <1>4, <1>5, <1>6

\* Bodies are indexed, and searches go on.
LEMMA LookWork ==
    ASSUME SearchInv, WorkInv, NEW t \in Tasks,
           \/ S!ReadHeader(t) \/ S!index_message_bodies(t) \/ S!DeepNext(t)
           \/ S!search_messages(t) \/ S!SearchIndex(t) \/ S!Resolve(t) \/ S!Answered(t)
    PROVE  WorkInv'
<1>1. Stored' /\ writer' = writer /\ ~ S!Is(t, "commit")
  <2>1. Stored'
    BY StoredSame DEF S!ReadHeader, S!index_message_bodies, S!DeepNext, S!search_messages,
       S!SearchIndex, S!Resolve, S!Answered, S!Quiet
  <2> QED BY <2>1 DEF S!ReadHeader, S!index_message_bodies, S!DeepNext, S!search_messages,
       S!SearchIndex, S!Resolve, S!Answered, S!Is
<1>2. CASE \E r : S!Become(t, r) /\ WorkOK(r) /\ (r # None => r.do # "commit")
  BY <1>1, <1>2, WorkStep
<1>3. WorkOK(None)
  BY DEF WorkOK
<1>4. CASE S!Answered(t)
  BY <1>2, <1>3, <1>4 DEF S!Answered
<1>5. CASE S!ReadHeader(t)
  <2> DEFINE msg == IF S!get_single_message(searches[t].key) = None /\ searches[t].next = None
                    THEN searches[t].body ELSE S!get_single_message(searches[t].key)
  <2> DEFINE r == S!Write(searches[t].key, S!build_document(msg, S!Text(searches[t].body)), searches[t].next)
  <2>1. /\ searches[t] # None /\ searches[t].do = "header"
        /\ S!Become(t, searches[t].next) \/ (msg # None /\ S!Become(t, r))
    BY <1>5 DEF S!ReadHeader, S!Is, S!build_synthetic_message
  <2>2. searches[t].key \in Keys /\ searches[t].body \in Contents /\ Batch(searches[t].next)
    BY <2>1 DEF WorkInv, WorkOK
  <2>3. CASE S!Become(t, searches[t].next)
    BY <1>2, <2>2, <2>3, BatchIsWork
  <2>4. CASE msg # None /\ S!Become(t, r)
    <3>1. msg \in Contents
      BY <2>2, <2>4, RowsOf
    <3> HIDE DEF msg
    <3>2. S!build_document(msg, S!Text(searches[t].body)) \in S!Docs
      BY <2>2, <3>1 DEF S!build_document, S!Docs, S!MaybeContents, S!Text
    <3>3. WorkOK(r) /\ r.do # "commit"
      BY <2>2, <3>2 DEF WorkOK, S!Write
    <3> HIDE DEF r
    <3> QED BY <1>2, <2>4, <3>3
  <2> QED BY <2>1, <2>3, <2>4
<1>6. CASE S!index_message_bodies(t)
  <2>1. PICK T \in S!get_unindexed_messages(DEEP_INDEX_BATCH) : S!Become(t, S!Deep(T))
    BY <1>6 DEF S!index_message_bodies
  <2>2. T \subseteq Keys
    BY DEF S!get_unindexed_messages, S!Newest, WorkInv, S!TypeOK
  <2>3. WorkOK(S!Deep(T)) /\ S!Deep(T).do # "commit"
    BY <2>2 DEF WorkOK, S!Deep
  <2> QED BY <1>2, <2>1, <2>3
<1>7. CASE S!DeepNext(t)
  <2>1. /\ searches[t] # None /\ searches[t].do = "deep"
        /\ \/ S!Become(t, None)
           \/ \E k \in searches[t].todo :
                \/ S!Become(t, S!Deep(searches[t].todo \ {k}))
                \/ /\ mailbox[k] # None
                   /\ S!Become(t, [do |-> "cache", key |-> k, body |-> mailbox[k],
                                   next |-> S!Deep(searches[t].todo \ {k})])
    BY <1>7 DEF S!DeepNext, S!Is
  <2>2. searches[t].todo \subseteq Keys
    BY <2>1 DEF WorkInv, WorkOK
  <2>3. CASE S!Become(t, None)
    BY <1>2, <1>3, <2>3
  <2>4. ASSUME NEW k \in searches[t].todo,
               \/ S!Become(t, S!Deep(searches[t].todo \ {k}))
               \/ /\ mailbox[k] # None
                  /\ S!Become(t, [do |-> "cache", key |-> k, body |-> mailbox[k],
                                  next |-> S!Deep(searches[t].todo \ {k})])
        PROVE  WorkInv'
    <3> DEFINE rest == S!Deep(searches[t].todo \ {k})
    <3>1. WorkOK(rest) /\ rest.do # "commit" /\ Batch(rest)
      BY <2>2 DEF WorkOK, S!Deep, Batch
    <3> HIDE DEF rest
    <3>2. CASE S!Become(t, rest)
      BY <1>2, <3>1, <3>2
    <3>3. CASE mailbox[k] # None /\ S!Become(t, [do |-> "cache", key |-> k, body |-> mailbox[k], next |-> rest])
      <4>1. k \in Keys /\ mailbox[k] \in Contents
        BY <2>2, <3>3, RowsOf
      <4> DEFINE r == [do |-> "cache", key |-> k, body |-> mailbox[k], next |-> rest]
      <4>2. WorkOK(r) /\ r.do # "commit"
        BY <3>1, <4>1 DEF WorkOK
      <4>3. S!Become(t, r)
        BY <3>3
      <4> HIDE DEF r
      <4> QED BY <1>2, <4>2, <4>3
    <3> QED BY <2>4, <3>2, <3>3 DEF rest
  <2> QED BY <2>1, <2>3, <2>4
<1>8. CASE S!search_messages(t)
  <2>1. PICK q \in S!Query, G \in SUBSET DOMAIN messages :
          S!Become(t, [do |-> IF q.word = None \/ S!Cardinality(G) = Limit THEN "answer" ELSE "index",
                       query |-> q, found |-> G, more |-> {}])
    BY <1>8 DEF S!search_messages, S!Newest, S!search_messages_sqlite
  <2> DEFINE r == [do |-> IF q.word = None \/ S!Cardinality(G) = Limit THEN "answer" ELSE "index",
                   query |-> q, found |-> G, more |-> {}]
  <2>2. WorkOK(r) /\ r.do # "commit"
    <3>1. r.do \in {"answer", "index"}
      OBVIOUS
    <3> HIDE DEF r
    <3> QED BY <3>1 DEF WorkOK
  <2>3. S!Become(t, r)
    BY <2>1
  <2> HIDE DEF r
  <2> QED BY <1>2, <2>2, <2>3
<1>9. CASE S!SearchIndex(t) \/ S!Resolve(t)
  <2>1. searches[t] # None /\ searches[t].do \in Looks
    BY <1>9 DEF S!SearchIndex, S!Resolve, S!Is, Looks
  <2>2. DOMAIN searches[t] = {"do", "query", "found", "more"}
    BY <2>1 DEF SearchInv, Searched, Looking
  <2>3. PICK d \in {"resolve", "answer"}, H \in SUBSET (DOMAIN docs \cup searches[t].more) :
          S!Become(t, [searches[t] EXCEPT !.do = d, !.more = H])
    BY <1>9 DEF S!SearchIndex, S!Resolve, S!search, S!Unseen
  <2> DEFINE r == [searches[t] EXCEPT !.do = d, !.more = H]
  <2>4. r.do = d
    BY <2>2
  <2>5. S!Become(t, r)
    BY <2>3
  <2> HIDE DEF r
  <2>6. WorkOK(r) /\ r.do # "commit"
    BY <2>4 DEF WorkOK
  <2> QED BY <1>2, <2>5, <2>6
<1> QED BY <1>4, <1>5, <1>6, <1>7, <1>8, <1>9

LEMMA OutsideWork ==
    ASSUME SearchInv, WorkInv, S!Elsewhere \/ S!RowGone
    PROVE  WorkInv'
<1>1. UNCHANGED <<docs, writer, searches>>
  BY DEF S!Elsewhere, S!RowGone
<1>2. Stored'
  <2>1. CASE S!Elsewhere
    <3>1. mailbox' \in [Keys -> S!MaybeContents]
      BY <2>1 DEF S!Elsewhere, WorkInv, S!TypeOK, S!MaybeContents
    <3> QED BY <2>1, <3>1 DEF S!Elsewhere, S!Quiet, Stored, WorkInv, S!TypeOK, S!Rows, S!Docs, S!MaybeContents
  <2>2. CASE S!RowGone
    <3>1. PICK k \in DOMAIN messages : S!delete_message(k) /\ S!Touch(k)
      BY <2>2 DEF S!RowGone
    <3>2. k \in Keys /\ UNCHANGED <<mailbox, docs>>
      BY <2>2 DEF S!RowGone, WorkInv, S!TypeOK
    <3> QED BY <3>1, <3>2, RowGoes
  <2> QED BY <2>1, <2>2
<1>3. \A x \in Tasks : WorkOK(searches[x])'
  BY <1>1 DEF WorkInv, WorkOK, S!Docs, S!MaybeContents, Batch
<1>4. \A x \in Tasks : writer' = x <=> S!Is(x, "commit")'
  BY <1>1 DEF WorkInv, S!TypeOK, S!Is
<1> QED BY <1>2, <1>3, <1>4 DEF Stored, WorkInv, S!TypeOK

LEMMA WorkStart == S!Init => WorkInv
<1> SUFFICES ASSUME S!Init PROVE WorkInv
  OBVIOUS
<1>1. /\ messages = <<>> /\ docs = <<>> /\ writer = None /\ mailbox = [k \in Keys |-> None]
      /\ searches = [t \in Tasks |-> None] /\ touched = [t \in Tasks |-> {}]
  BY DEF S!Init
<1>2. DOMAIN messages = {} /\ DOMAIN docs = {}
  BY <1>1, EmptyDomain
<1> QED BY <1>1, <1>2, SearchAssumed DEF WorkInv, WorkOK, S!TypeOK, S!Is, S!MaybeContents

LEMMA WorkNext == SearchInv /\ WorkInv /\ [S!Next]_(S!vars) => WorkInv'
<1> SUFFICES ASSUME SearchInv, WorkInv, [S!Next]_(S!vars) PROVE WorkInv'
  OBVIOUS
<1>1. CASE UNCHANGED S!vars
  BY <1>1 DEF S!vars, WorkInv, WorkOK, Batch, S!TypeOK, S!Is, S!Docs, S!Rows, S!MaybeContents
<1> QED BY <1>1, LockSteps, MailWork, LookWork, OutsideWork DEF S!Next

\* The one task that holds the lock of the index is about to commit, and nothing of an
\* excluded folder is in the index (search/mod.rs).
THEOREM SearchTypeCorrect == S!Spec => []S!TypeOK
<1>1. WorkInv => S!TypeOK
  BY DEF WorkInv
<1> QED BY <1>1, SearchStart, SearchNext, WorkStart, WorkNext, PTL DEF S!Spec

LEMMA SearchVars == UNCHANGED searchVars => UNCHANGED S!vars
  BY DEF searchVars, S!vars

LEMMA SearchBehaviour == Spec /\ part = "search" => S!Spec
<1>1. Init /\ part = "search" => S!Init
  BY DEF Init
<1>2. part = "search" /\ [Next]_vars => [S!Next]_(S!vars)
  <2> SUFFICES ASSUME part = "search", [Next]_vars PROVE S!Next \/ UNCHANGED S!vars
    OBVIOUS
  <2>1. CASE Searching
    BY <2>1 DEF Searching
  <2>2. CASE UNCHANGED vars
    BY <2>2, SearchVars DEF vars
  <2> QED
    BY <2>1, <2>2 DEF Next, SigningIn, MailArrives, Notifying, Addressing, Planning, Labelling, Filing, Calling
<1>3. part = "search" /\ [Next]_vars => (part = "search")'
  BY PartFixed
<1> QED
  BY <1>1, <1>2, <1>3, PTL DEF Spec, S!Spec

-----------------------------------------------------------------------------
(* AddressBook                                                             *)

\* What the first query of a request for suggestions leaves: nobody is shown twice,
\* with what is asked for it stays within the limit, and a contact the list of all
\* does not show was stored since.
AskedInv ==
    \A a \in asked :
        /\ DOMAIN a = {"query", "shown", "rest", "limit", "all", "since"}
        /\ \A d, e \in a.shown : Lower[d] = Lower[e] => d = e
        /\ Cardinality(a.shown) + a.rest <= a.limit
        /\ a.all => /\ a.rest = MaxListed /\ a.query = {Lower[e] : e \in Emails}
                    /\ \A x \in contacts :
                          x.email \in a.since \/ \E d \in a.shown : Lower[d] = Lower[x.email]

\* The cards of an import that are still to come, and what it has read, are such as
\* may be stored.
BookInv ==
    /\ A!TypeOK /\ cards \in Seq(Emails)
    /\ found # <<>> => found[1] \subseteq A!Rows
    /\ AskedInv

LEMMA AddressCount == \A x : A!Cardinality(x) = Cardinality(x)
BY DEF A!Cardinality, Cardinality

LEMMA EmptyBook == ASSUME NEW f, f = <<>> PROVE DOMAIN f = {}
OBVIOUS

LEMMA HeadAndTail ==
    ASSUME NEW T, NEW q \in Seq(T), q # <<>>
    PROVE  Head(q) \in T /\ Tail(q) \in Seq(T)
OBVIOUS

LEMMA UpsertKeeps ==
    ASSUME A!TypeOK, NEW c \in A!Rows, A!upsert_contact(c)
    PROVE  /\ contacts' \subseteq A!Rows
           /\ \A x, y \in contacts' : x.id = y.id \/ x.email = y.email => x = y
           /\ \A m \in members' : m \in members /\ \E x \in contacts' : x.id = m[2]
           /\ AskedInv => AskedInv'
           /\ AskedInv => \A a \in asked' : \E b \in asked :
                 a.shown = b.shown /\ a.rest = b.rest /\ a.limit = b.limit
<1> DEFINE replaced == {x \in contacts : x.id = c.id \/ x.email = c.email}
<1>1. /\ contacts' = (contacts \ replaced) \cup {c}
      /\ members' = {m \in members : \A x \in replaced : m[2] # x.id}
  BY DEF A!upsert_contact
<1>2. \A x, y \in contacts' : x.id = y.id \/ x.email = y.email => x = y
  BY <1>1 DEF A!TypeOK
<1>3. ASSUME NEW m \in members' PROVE m \in members /\ \E x \in contacts' : x.id = m[2]
  <2>1. m \in members /\ \A x \in replaced : m[2] # x.id
    BY <1>1
  <2>2. PICK x \in contacts : x.id = m[2]
    BY <2>1 DEF A!TypeOK
  <2>3. x \in contacts'
    BY <1>1, <2>1, <2>2
  <2> QED BY <2>1, <2>2, <2>3
<1>4. ASSUME AskedInv, NEW a \in asked'
      PROVE  \E b \in asked :
                /\ DOMAIN a = DOMAIN b /\ a.query = b.query /\ a.shown = b.shown
                /\ a.rest = b.rest /\ a.limit = b.limit /\ a.all = b.all
                /\ a.since = b.since \cup {c.email}
  <2>1. PICK b \in asked : a = [b EXCEPT !.since = @ \cup {c.email}]
    BY DEF A!upsert_contact
  <2>2. DOMAIN b = {"query", "shown", "rest", "limit", "all", "since"}
    BY <1>4 DEF AskedInv
  <2> QED BY <2>1, <2>2
<1>5. AskedInv => AskedInv'
  <2> SUFFICES ASSUME AskedInv, NEW a \in asked'
               PROVE  /\ DOMAIN a = {"query", "shown", "rest", "limit", "all", "since"}
                      /\ \A d, e \in a.shown : Lower[d] = Lower[e] => d = e
                      /\ Cardinality(a.shown) + a.rest <= a.limit
                      /\ a.all =>
                            /\ a.rest = MaxListed /\ a.query = {Lower[e] : e \in Emails}
                            /\ \A x \in contacts' :
                                  x.email \in a.since \/ \E d \in a.shown : Lower[d] = Lower[x.email]
    BY DEF AskedInv
  <2>1. PICK b \in asked :
           /\ DOMAIN a = DOMAIN b /\ a.query = b.query /\ a.shown = b.shown
           /\ a.rest = b.rest /\ a.limit = b.limit /\ a.all = b.all
           /\ a.since = b.since \cup {c.email}
    BY <1>4
  <2>2. \A x \in contacts' : x \in contacts \/ x = c
    BY <1>1
  <2> QED BY <2>1, <2>2 DEF AskedInv
<1>6. contacts' \subseteq A!Rows
  BY <1>1 DEF A!TypeOK
<1> QED BY <1>2, <1>3, <1>4, <1>5, <1>6

\* A step that stores no contact.
LEMMA AskedStays ==
    ASSUME AskedInv, asked' = asked, contacts' \subseteq contacts
    PROVE  AskedInv'
BY DEF AskedInv

LEMMA SpendBook == ASSUME A!TypeOK, A!Spend PROVE bookLeft' \in 0..MaxRequests
BY BookAssumed DEF A!TypeOK, A!Spend

LEMMA ContactSteps ==
    ASSUME BookInv, A!create_contact_handler \/ A!delete_contact_handler \/ A!MessageStored
    PROVE  BookInv'
<1>1. CASE A!create_contact_handler
  <2>1. PICK c \in A!Rows : A!upsert_contact(c)
    BY <1>1 DEF A!create_contact_handler
  <2>2. bookLeft' \in 0..MaxRequests /\ UNCHANGED <<known, groups, cards, found>>
    BY <1>1, SpendBook DEF A!create_contact_handler, BookInv
  <2>3. AskedInv /\ AskedInv'
    BY <2>1, UpsertKeeps DEF BookInv
  <2>4. \A a \in asked' : a.shown \subseteq Emails /\ {a.rest, a.limit} \subseteq Nat
    BY <2>1, <2>3, UpsertKeeps DEF BookInv, A!TypeOK
  <2> QED BY <2>1, <2>2, <2>3, <2>4, UpsertKeeps DEF BookInv, A!TypeOK
<1>2. CASE A!delete_contact_handler
  <2>1. bookLeft' \in 0..MaxRequests /\ UNCHANGED <<known, groups, cards, found, asked>>
    BY <1>2, SpendBook DEF A!delete_contact_handler, BookInv
  <2>2. PICK z \in contacts : /\ contacts' = {x \in contacts : x.id # z.id}
                              /\ members' = {m \in members : m[2] # z.id}
    BY <1>2 DEF A!delete_contact_handler, A!delete_contact
  <2>3. ASSUME NEW m \in members' PROVE m \in members /\ \E x \in contacts' : x.id = m[2]
    BY <2>2, <2>3 DEF BookInv, A!TypeOK
  <2>4. contacts' \subseteq contacts
    BY <2>2
  <2>5. AskedInv'
    BY <2>1, <2>4, AskedStays DEF BookInv
  <2> QED BY <2>1, <2>3, <2>4, <2>5 DEF BookInv, A!TypeOK
<1>3. CASE A!MessageStored
  <2>1. bookLeft' \in 0..MaxRequests
    BY <1>3, SpendBook DEF A!MessageStored, BookInv
  <2>2. known' \subseteq Emails
    BY <1>3 DEF A!MessageStored, A!populate_known_addresses, BookInv, A!TypeOK
  <2>3. AskedInv'
    BY <1>3, AskedStays DEF A!MessageStored, BookInv
  <2> QED BY <1>3, <2>1, <2>2, <2>3 DEF A!MessageStored, BookInv, A!TypeOK
<1> QED BY <1>1, <1>2, <1>3

LEMMA GroupSteps ==
    ASSUME BookInv,
           \/ A!create_group_handler \/ A!update_group_handler \/ A!delete_group_handler
           \/ A!add_member_handler \/ A!remove_member_handler
    PROVE  BookInv'
<1>1. /\ bookLeft' \in 0..MaxRequests /\ UNCHANGED <<contacts, known, cards, found, asked>>
  BY SpendBook DEF A!create_group_handler, A!update_group_handler, A!delete_group_handler,
     A!add_member_handler, A!remove_member_handler, BookInv
<1>2. /\ DOMAIN groups' \subseteq Groups
      /\ \A m \in members' : m[1] \in DOMAIN groups' /\ \E x \in contacts : x.id = m[2]
  <2>1. CASE A!create_group_handler
    <3>1. PICK g \in Groups : DOMAIN groups' = DOMAIN groups \cup {g}
      BY <2>1 DEF A!create_group_handler, A!create_group
    <3> QED BY <2>1, <3>1 DEF A!create_group_handler, BookInv, A!TypeOK
  <2>2. CASE A!update_group_handler
    <3>1. DOMAIN groups' = DOMAIN groups
      BY <2>2 DEF A!update_group_handler, A!update_group
    <3> QED BY <2>2, <3>1 DEF A!update_group_handler, BookInv, A!TypeOK
  <2>3. CASE A!delete_group_handler
    <3>1. PICK g \in DOMAIN groups : /\ DOMAIN groups' = DOMAIN groups \ {g}
                                     /\ members' = {m \in members : m[1] # g}
      BY <2>3 DEF A!delete_group_handler, A!delete_group
    <3> QED BY <3>1 DEF BookInv, A!TypeOK
  <2>4. CASE A!add_member_handler
    <3>1. PICK g \in DOMAIN groups, i \in Tasks : /\ \E x \in contacts : x.id = i
                                        /\ members' = members \cup {<<g, i>>}
      BY <2>4 DEF A!add_member_handler, A!add_member
    <3>2. groups' = groups /\ <<g, i>>[1] = g /\ <<g, i>>[2] = i
      BY <2>4 DEF A!add_member_handler
    <3> QED BY <3>1, <3>2 DEF BookInv, A!TypeOK
  <2>5. CASE A!remove_member_handler
    <3>1. members' \subseteq members /\ groups' = groups
      BY <2>5 DEF A!remove_member_handler, A!remove_member
    <3> QED BY <3>1 DEF BookInv, A!TypeOK
  <2> QED BY <2>1, <2>2, <2>3, <2>4, <2>5
<1>3. AskedInv'
  BY <1>1, AskedStays DEF BookInv
<1> QED BY <1>1, <1>2, <1>3 DEF BookInv, A!TypeOK

LEMMA ImportSteps ==
    ASSUME BookInv, A!import_contacts_handler \/ A!ImportRead \/ A!ImportWrite
    PROVE  BookInv'
<1>1. CASE A!import_contacts_handler
  <2>1. bookLeft' \in 0..MaxRequests /\ cards' \in Seq(Emails)
    BY <1>1, SpendBook, BookAssumed DEF A!import_contacts_handler, A!parse_vcards, BookInv
  <2>2. AskedInv'
    BY <1>1, AskedStays DEF A!import_contacts_handler, BookInv
  <2> QED BY <1>1, <2>1, <2>2 DEF A!import_contacts_handler, BookInv, A!TypeOK
<1>2. CASE A!ImportRead
  <2>1. found' = <<A!get_contact_by_email(Head(cards))>>
    BY <1>2 DEF A!ImportRead
  <2>2. found'[1] \subseteq A!Rows
    BY <2>1 DEF A!get_contact_by_email, BookInv, A!TypeOK
  <2>3. AskedInv'
    BY <1>2, AskedStays DEF A!ImportRead, BookInv
  <2> QED BY <1>2, <2>2, <2>3 DEF A!ImportRead, BookInv, A!TypeOK
<1>3. CASE A!ImportWrite
  <2>1. /\ Head(cards) \in Emails /\ cards' \in Seq(Emails) /\ found' = <<>>
        /\ found[1] \subseteq A!Rows /\ UNCHANGED <<known, groups, bookLeft>>
    BY <1>3, HeadAndTail DEF A!ImportWrite, BookInv
  <2>2. CASE \E c \in A!Rows : A!upsert_contact(c)
    <3>1. PICK c \in A!Rows : A!upsert_contact(c)
      BY <2>2
    <3>2. AskedInv /\ AskedInv'
      BY <3>1, UpsertKeeps DEF BookInv
    <3>3. \A a \in asked' : a.shown \subseteq Emails /\ {a.rest, a.limit} \subseteq Nat
      BY <3>1, <3>2, UpsertKeeps DEF BookInv, A!TypeOK
    <3> QED BY <2>1, <3>1, <3>2, <3>3, UpsertKeeps DEF BookInv, A!TypeOK
  <2>3. CASE UNCHANGED <<contacts, members, asked>>
    <3>1. AskedInv'
      BY <2>3, AskedStays DEF BookInv
    <3> QED BY <2>1, <2>3, <3>1 DEF BookInv, A!TypeOK
  <2>4. ASSUME NEW i \in Tasks PROVE [id |-> i, email |-> Head(cards), name |-> "file"] \in A!Rows
    BY <2>1 DEF A!Rows, A!Texts
  <2>5. ASSUME NEW x \in found[1] PROVE [x EXCEPT !.name = "file"] \in A!Rows
    BY <2>1 DEF A!Rows, A!Texts
  <2> QED BY <1>3, <2>2, <2>3, <2>4, <2>5 DEF A!ImportWrite
<1> QED BY <1>1, <1>2, <1>3

\* Of the addresses that are the same in lower case one is fresh, unless it has been
\* seen.
LEMMA FreshOnce ==
    ASSUME NEW shown, NEW T
    PROVE  /\ A!Fresh(shown, T) \subseteq T
           /\ \A d, e \in A!Fresh(shown, T) : Lower[d] = Lower[e] => d = e
           /\ \A e \in A!Fresh(shown, T), s \in shown : Lower[s] # Lower[e]
           /\ \A e \in T : \/ \E s \in shown : Lower[s] = Lower[e]
                           \/ \E d \in A!Fresh(shown, T) : Lower[d] = Lower[e]
<1>1. ASSUME NEW d \in A!Fresh(shown, T), NEW e \in A!Fresh(shown, T), Lower[d] = Lower[e] PROVE d = e
  BY <1>1 DEF A!Fresh
<1>2. ASSUME NEW e \in T, \A s \in shown : Lower[s] # Lower[e]
      PROVE  \E d \in A!Fresh(shown, T) : Lower[d] = Lower[e]
  <2> DEFINE d == CHOOSE f \in T : Lower[f] = Lower[e]
  <2>1. d \in T /\ Lower[d] = Lower[e]
    OBVIOUS
  <2>2. \A x \in T : Lower[x] = Lower[d] => d = CHOOSE f \in T : Lower[f] = Lower[d]
    BY <2>1
  <2>3. d \in A!Fresh(shown, T)
    <3> HIDE DEF d
    <3> QED BY <1>2, <2>1, <2>2 DEF A!Fresh
  <2> QED BY <2>1, <2>3
<1> QED BY <1>1, <1>2 DEF A!Fresh

\* What is shown first and what is added to it: nobody twice.
LEMMA AddedOnce ==
    ASSUME NEW p, NEW q
    PROVE  \A d, e \in A!Fresh({}, p) \cup A!Fresh(A!Fresh({}, p), q) : Lower[d] = Lower[e] => d = e
<1> DEFINE shown == A!Fresh({}, p)
<1>1. \A d, e \in shown : Lower[d] = Lower[e] => d = e
  BY FreshOnce
<1>2. /\ \A d, e \in A!Fresh(shown, q) : Lower[d] = Lower[e] => d = e
      /\ \A e \in A!Fresh(shown, q), s \in shown : Lower[s] # Lower[e]
  <2> HIDE DEF shown
  <2> QED BY FreshOnce
<1> HIDE DEF shown
<1>3. \A d, e \in shown \cup A!Fresh(shown, q) : Lower[d] = Lower[e] => d = e
  BY <1>1, <1>2
<1> QED BY <1>3 DEF shown

\* No more are suggested than were asked for.
LEMMA CutBound ==
    ASSUME NEW limit \in Nat, NEW T, IsFiniteSet(T), NEW p \in A!Cut(limit, T)
    PROVE  p \subseteq T /\ IsFiniteSet(p) /\ Cardinality(p) \in Nat /\ Cardinality(p) <= limit
<1>1. Cardinality(T) \in Nat
  BY FS_CardinalityType
<1>2. p \in SUBSET T /\ Cardinality(p) = IF limit < Cardinality(T) THEN limit ELSE Cardinality(T)
  BY AddressCount DEF A!Cut, A!kSubset
<1>3. IsFiniteSet(p)
  BY <1>2, FS_Subset
<1> QED BY <1>1, <1>2, <1>3

LEMMA SmallUnion ==
    ASSUME NEW p, NEW q, IsFiniteSet(p), IsFiniteSet(q)
    PROVE  IsFiniteSet(p \cup q) /\ Cardinality(p \cup q) <= Cardinality(p) + Cardinality(q)
<1>1. /\ IsFiniteSet(p \cup q)
      /\ Cardinality(p \cup q) = Cardinality(p) + Cardinality(q) - Cardinality(p \cap q)
  BY FS_Union
<1>2. IsFiniteSet(p \cap q)
  BY FS_Intersection
<1>3. Cardinality(p \cap q) \in Nat /\ Cardinality(p) \in Nat /\ Cardinality(q) \in Nat
  BY <1>2, FS_CardinalityType
<1> QED BY <1>1, <1>3

\* The first query of a request.
LEMMA AskSteps ==
    ASSUME BookInv, A!autocomplete_handler \/ A!autocomplete_all_handler \/ A!Suggest
    PROVE  BookInv'
<1> DEFINE emails == {x.email : x \in contacts}
<1>1. emails \in SUBSET Emails /\ IsFiniteSet(emails)
  <2>1. emails \in SUBSET Emails
    BY DEF BookInv, A!TypeOK, A!Rows
  <2> HIDE DEF emails
  <2> QED BY <2>1, BookAssumed, FS_Subset
<1>2. UNCHANGED <<contacts, known, groups, members, cards, found>>
  BY DEF A!autocomplete_handler, A!autocomplete_all_handler, A!Suggest
<1>3. bookLeft' \in 0..MaxRequests
  <2>1. CASE A!Suggest
    BY <2>1 DEF A!Suggest, BookInv, A!TypeOK
  <2> QED BY <2>1, SpendBook DEF A!autocomplete_handler, A!autocomplete_all_handler, BookInv
<1>4. /\ AskedInv'
      /\ \A a \in asked' : a.shown \subseteq Emails /\ {a.rest, a.limit} \subseteq Nat
  <2>1. CASE A!autocomplete_handler
    <3>0. PICK query \in SUBSET {Lower[e] : e \in Emails}, limit \in 1..Cardinality(Emails) :
            \E p \in A!search_contacts(query, limit) :
              A!AskMore(query, A!Fresh({}, p), limit - Cardinality(A!Fresh({}, p)), limit, FALSE)
      BY <2>1, AddressCount DEF A!autocomplete_handler
    <3>1. PICK p \in A!search_contacts(query, limit) :
            A!AskMore(query, A!Fresh({}, p), limit - Cardinality(A!Fresh({}, p)), limit, FALSE)
      BY <3>0
    <3> DEFINE shown == A!Fresh({}, p)
    <3> DEFINE have == {e \in emails : Lower[e] \in query}
    <3>2. have \in SUBSET Emails /\ IsFiniteSet(have) /\ limit \in Nat
      <4>1. have \in SUBSET Emails
        BY <1>1
      <4> HIDE DEF have
      <4> QED BY <4>1, BookAssumed, FS_Subset
    <3>3. p \in A!Cut(limit, have)
      BY <3>1 DEF A!search_contacts
    <3> HIDE DEF have
    <3>4. p \subseteq have /\ IsFiniteSet(p) /\ Cardinality(p) \in Nat /\ Cardinality(p) <= limit
      BY <3>2, <3>3, CutBound
    <3>5. shown \in SUBSET p /\ \A d, e \in shown : Lower[d] = Lower[e] => d = e
      BY FreshOnce
    <3>6. asked' = {[query |-> query, shown |-> shown, rest |-> limit - Cardinality(shown),
                     limit |-> limit, all |-> FALSE, since |-> {}]}
      BY <3>1 DEF A!AskMore
    <3> HIDE DEF shown
    <3>7. Cardinality(shown) \in Nat /\ Cardinality(shown) <= limit
      BY <3>2, <3>4, <3>5, FS_Subset, FS_CardinalityType
    <3>8. shown \subseteq Emails /\ limit - Cardinality(shown) \in Nat
          /\ Cardinality(shown) + (limit - Cardinality(shown)) <= limit
      BY <3>2, <3>4, <3>5, <3>7
    <3> QED BY <3>2, <3>5, <3>6, <3>8 DEF AskedInv
  <2>2. CASE A!autocomplete_all_handler
    <3> DEFINE all == {Lower[e] : e \in Emails}
    <3>1. PICK p \in A!Cut(MaxListed, emails) :
            A!AskMore(all, A!Fresh({}, p), MaxListed, 2 * MaxListed, p = emails)
      BY <2>2 DEF A!autocomplete_all_handler
    <3> DEFINE shown == A!Fresh({}, p)
    <3> DEFINE full == (p = emails)
    <3>2. MaxListed \in Nat /\ 2 * MaxListed \in Nat
      BY CalendarAssumed
    <3>3. /\ shown \in SUBSET p /\ \A d, e \in shown : Lower[d] = Lower[e] => d = e
          /\ \A e \in p : \E d \in shown : Lower[d] = Lower[e]
      BY FreshOnce
    <3> DEFINE a == [query |-> all, shown |-> shown, rest |-> MaxListed,
                     limit |-> 2 * MaxListed, all |-> full, since |-> {}]
    <3>4. asked' = {a}
      BY <3>1 DEF A!AskMore
    <3> HIDE DEF shown, all, full
    <3>5. p = emails => \A x \in contacts : \E d \in shown : Lower[d] = Lower[x.email]
      BY <3>3
    <3> HIDE DEF emails
    <3>6. p \subseteq emails /\ IsFiniteSet(p) /\ Cardinality(p) \in Nat /\ Cardinality(p) <= MaxListed
      BY <1>1, <3>1, <3>2, CutBound
    <3>7. Cardinality(shown) \in Nat /\ Cardinality(shown) <= MaxListed
      BY <3>2, <3>3, <3>6, FS_Subset, FS_CardinalityType
    <3>8. shown \subseteq Emails /\ Cardinality(shown) + MaxListed <= 2 * MaxListed
      BY <1>1, <3>2, <3>3, <3>6, <3>7
    <3>9. /\ asked' = {a} /\ a.query = all /\ a.shown = shown /\ a.rest = MaxListed
          /\ a.limit = 2 * MaxListed /\ a.all = full
          /\ DOMAIN a = {"query", "shown", "rest", "limit", "all", "since"}
      BY <3>4
    <3> HIDE DEF a
    <3>10. a.all => /\ a.rest = MaxListed /\ a.query = {Lower[e] : e \in Emails}
                    /\ \A x \in contacts' :
                          x.email \in a.since \/ \E d \in a.shown : Lower[d] = Lower[x.email]
      <4>1. full => p = emails
        BY DEF full
      <4> QED BY <1>2, <3>5, <3>9, <4>1 DEF all
    <3>11. AskedInv'
      <4>1. Cardinality(a.shown) + a.rest <= a.limit
        BY <3>8, <3>9
      <4>2. \A d, e \in a.shown : Lower[d] = Lower[e] => d = e
        BY <3>3, <3>9
      <4> HIDE DEF shown
      <4> QED BY <3>9, <3>10, <4>1, <4>2 DEF AskedInv
    <3> QED BY <3>2, <3>8, <3>9, <3>11
  <2>3. CASE A!Suggest
    BY <2>3 DEF A!Suggest, AskedInv
  <2> QED BY <2>1, <2>2, <2>3
<1> QED BY <1>2, <1>3, <1>4 DEF BookInv, A!TypeOK

LEMMA BookStart == A!Init => BookInv
<1> SUFFICES ASSUME A!Init PROVE BookInv
  OBVIOUS
<1>1. groups = <<>> /\ cards = <<>> /\ found = <<>> /\ contacts = {} /\ members = {} /\ known = {}
      /\ bookLeft = MaxRequests /\ asked = {}
  BY DEF A!Init
<1>2. DOMAIN groups = {} /\ cards \in Seq(Emails)
  BY <1>1, EmptyBook
<1> QED BY <1>1, <1>2, BookAssumed DEF BookInv, AskedInv, A!TypeOK

LEMMA BookNext == BookInv /\ [A!Next]_(A!vars) => BookInv'
<1> SUFFICES ASSUME BookInv, [A!Next]_(A!vars) PROVE BookInv'
  OBVIOUS
<1>1. CASE UNCHANGED A!vars
  BY <1>1 DEF A!vars, BookInv, AskedInv, A!TypeOK
<1> QED BY <1>1, ContactSteps, GroupSteps, ImportSteps, AskSteps DEF A!Next

\* A member of a group is a contact that is there, and the group too; no two contacts
\* have the same email (db/contacts.rs).
THEOREM ContactsTypeCorrect == A!Spec => []A!TypeOK
<1>1. BookInv => A!TypeOK
  BY DEF BookInv
<1> QED BY <1>1, BookStart, BookNext, PTL DEF A!Spec

-----------------------------------------------------------------------------

\* The second query keeps what the first has left.
LEMMA BookSuggests == ASSUME BookInv PROVE A!SuggestedOnce
<1> SUFFICES ASSUME NEW a \in asked, NEW given \in A!Suggestions(a)
             PROVE  /\ A!Cardinality(given) <= a.limit
                    /\ \A d, e \in given : Lower[d] = Lower[e] => d = e
                    /\ LET emails == {x.email : x \in contacts}
                       IN  (a.all /\ A!Cardinality(known \ emails) <= MaxListed) =>
                              \A e \in (known \cup emails) \ a.since :
                                 \E d \in given : Lower[d] = Lower[e]
  BY DEF A!SuggestedOnce
<1> DEFINE emails == {x.email : x \in contacts}
<1> DEFINE rest == {e \in known : Lower[e] \in a.query} \ emails
<1>1. PICK q \in A!Cut(a.rest, rest) : given = a.shown \cup A!Fresh(a.shown, q)
  BY DEF A!Suggestions, A!search_known_addresses
<1>2. /\ a.shown \in SUBSET Emails /\ a.rest \in Nat /\ a.limit \in Nat
      /\ known \in SUBSET Emails /\ rest \in SUBSET Emails
  BY DEF BookInv, A!TypeOK
<1>3. /\ \A d, e \in a.shown : Lower[d] = Lower[e] => d = e
      /\ Cardinality(a.shown) + a.rest <= a.limit
      /\ a.all => /\ a.rest = MaxListed /\ a.query = {Lower[e] : e \in Emails}
                  /\ \A x \in contacts :
                        x.email \in a.since \/ \E d \in a.shown : Lower[d] = Lower[x.email]
  BY DEF BookInv, AskedInv
<1> HIDE DEF rest
<1>4. IsFiniteSet(a.shown) /\ IsFiniteSet(rest) /\ Cardinality(a.shown) \in Nat /\ Cardinality(rest) \in Nat
  BY <1>2, BookAssumed, FS_Subset, FS_CardinalityType
<1>5. q \in SUBSET rest /\ IsFiniteSet(q) /\ Cardinality(q) \in Nat /\ Cardinality(q) <= a.rest
  BY <1>1, <1>2, <1>4, CutBound
<1>6. /\ A!Fresh(a.shown, q) \in SUBSET q
      /\ \A d, e \in A!Fresh(a.shown, q) : Lower[d] = Lower[e] => d = e
      /\ \A e \in A!Fresh(a.shown, q), s \in a.shown : Lower[s] # Lower[e]
      /\ \A e \in q : \/ \E s \in a.shown : Lower[s] = Lower[e]
                      \/ \E d \in A!Fresh(a.shown, q) : Lower[d] = Lower[e]
  BY FreshOnce
<1>7. Cardinality(given) <= a.limit
  <2>1. /\ IsFiniteSet(A!Fresh(a.shown, q)) /\ Cardinality(A!Fresh(a.shown, q)) <= Cardinality(q)
        /\ Cardinality(A!Fresh(a.shown, q)) \in Nat
    BY <1>5, <1>6, FS_Subset, FS_CardinalityType
  <2>2. /\ IsFiniteSet(given)
        /\ Cardinality(given) <= Cardinality(a.shown) + Cardinality(A!Fresh(a.shown, q))
    BY <1>1, <1>4, <2>1, SmallUnion
  <2>3. Cardinality(given) \in Nat
    BY <2>2, FS_CardinalityType
  <2> QED BY <1>2, <1>3, <1>4, <1>5, <2>1, <2>2, <2>3
<1>8. \A d, e \in given : Lower[d] = Lower[e] => d = e
  BY <1>1, <1>3, <1>6
<1>9. ASSUME a.all, Cardinality(known \ emails) <= MaxListed, NEW e \in (known \cup emails) \ a.since
      PROVE  \E d \in given : Lower[d] = Lower[e]
  <2>1. CASE e \in emails
    BY <1>1, <1>3, <1>9, <2>1
  <2>2. CASE e \notin emails
    <3>1. rest = known \ emails
      BY <1>2, <1>3, <1>9 DEF rest
    <3>2. q = rest
      <4>1. Cardinality(q) = IF a.rest < Cardinality(rest) THEN a.rest ELSE Cardinality(rest)
        BY <1>1, AddressCount DEF A!Cut, A!kSubset
      <4>2. ~(a.rest < Cardinality(rest))
        BY <1>3, <1>4, <1>9, <3>1, CalendarAssumed
      <4> QED BY <1>4, <1>5, <4>1, <4>2, FS_Subset
    <3>3. e \in q
      BY <1>9, <2>2, <3>1, <3>2
    <3> QED BY <1>1, <1>6, <3>3
  <2> QED BY <2>1, <2>2
<1> QED BY <1>7, <1>8, <1>9, AddressCount

\* Nobody is suggested twice, no more are suggested than were asked for, and the list
\* of all leaves out nobody but who became a contact between the two queries
\* (routes/contacts.rs:192).
THEOREM ContactsSuggestedOnce == A!Spec => []A!SuggestedOnce
BY BookSuggests, BookStart, BookNext, PTL DEF A!Spec

LEMMA ContactsVars == UNCHANGED contactsVars => UNCHANGED A!vars
  BY DEF contactsVars, A!vars

LEMMA ContactsBehaviour == Spec /\ part = "contacts" => A!Spec
<1>1. Init /\ part = "contacts" => A!Init
  BY DEF Init
<1>2. part = "contacts" /\ [Next]_vars => [A!Next]_(A!vars)
  <2> SUFFICES ASSUME part = "contacts", [Next]_vars PROVE A!Next \/ UNCHANGED A!vars
    OBVIOUS
  <2>1. CASE Addressing
    BY <2>1 DEF Addressing
  <2>2. CASE UNCHANGED vars
    BY <2>2, ContactsVars DEF vars
  <2> QED
    BY <2>1, <2>2 DEF Next, SigningIn, MailArrives, Notifying, Addressing, Planning,
       Labelling, Filing, Searching, Calling
<1>3. part = "contacts" /\ [Next]_vars => (part = "contacts")'
  BY PartFixed
<1> QED
  BY <1>1, <1>2, <1>3, PTL DEF Spec, A!Spec

-----------------------------------------------------------------------------
(* Calendar                                                                *)

Instants == [at : Int, form : {"date", "local", "millis", "zulu"}]

IsEvent(e) ==
    /\ DOMAIN e = {"id", "start", "end", "rule", "uid"}
    /\ e.id \in Nonces /\ e.start \in DateTexts /\ e.end \in DateTexts
    /\ e.rule \in Rules \cup {None} /\ e.uid \in SourceUids \cup {None}

\* The events and those of the files that are being imported.
EventsInv ==
    /\ \A e \in rows : IsEvent(e)
    /\ \A x, y \in rows : x.id = y.id => x = y
    /\ settings \in {None, "default", "set"} /\ templates \subseteq Templates
    /\ calLeft \in 0..CalRequests
    /\ imports = [i \in Tasks |-> imports[i]] /\ matched = [i \in Tasks |-> matched[i]]
    /\ \A i \in Tasks : imports[i] \in Seq(C!Datas) /\ matched[i] \in BOOLEAN \cup {None}

LEMMA RowIsEvent == ASSUME NEW i \in Nonces, NEW d \in C!Datas PROVE IsEvent(C!Row(i, d)) /\ C!Row(i, d).id = i
BY DEF IsEvent, C!Row, C!Datas

LEMMA HeadTail ==
    ASSUME NEW T, NEW q \in Seq(T), q # <<>>
    PROVE  Head(q) \in T /\ Tail(q) \in Seq(T)
OBVIOUS

LEMMA InsertKeeps ==
    ASSUME EventsInv, NEW d \in C!Datas, C!Insert(d)
    PROVE  /\ \A e \in rows' : IsEvent(e)
           /\ \A x, y \in rows' : x.id = y.id => x = y
<1>1. PICK i \in Nonces : /\ \A e \in rows : e.id # i
                          /\ rows' = rows \cup {C!Row(i, d)}
  BY DEF C!Insert
<1>2. IsEvent(C!Row(i, d)) /\ C!Row(i, d).id = i
  BY RowIsEvent
<1> QED BY <1>1, <1>2 DEF EventsInv

LEMMA SpendDay == ASSUME EventsInv, C!Spend PROVE calLeft' \in 0..CalRequests
BY CalendarAssumed DEF EventsInv, C!Spend

\* What the parser makes of a file are events.
LEMMA ParsedFile == ASSUME NEW f \in Files PROVE C!parse_ics(f) \in Seq(C!Datas)
<1> DEFINE Raw == [start : DateTexts, end : DateTexts \cup {None},
                   rule : Rules \cup {None}, uid : SourceUids \cup {None}]
<1>1. f \in Seq(Raw)
  BY CalendarAssumed
<1>2. ASSUME NEW r \in Raw PROVE [r EXCEPT !.end = IF @ = None THEN r.start ELSE @] \in C!Datas
  BY DEF C!Datas
<1>3. ASSUME NEW k \in 1..Len(f)
      PROVE  [f[k] EXCEPT !.end = IF @ = None THEN f[k].start ELSE @] \in C!Datas
  <2>1. f[k] \in Raw
    <3> HIDE DEF Raw
    <3> QED BY <1>1
  <2> QED BY <1>2, <2>1
<1>4. DOMAIN f = 1..Len(f) /\ Len(f) \in Nat
  <2> HIDE DEF Raw
  <2> QED BY <1>1
<1>5. C!parse_ics(f) \in [1..Len(f) -> C!Datas]
  BY <1>3, <1>4 DEF C!parse_ics
<1>6. \A T, n : n \in Nat => [1..n -> T] \subseteq Seq(T)
  OBVIOUS
<1> QED BY <1>4, <1>5, <1>6

LEMMA EventSteps ==
    ASSUME EventsInv, C!create_event \/ C!update_event \/ C!delete_event
    PROVE  EventsInv'
<1>1. calLeft' \in 0..CalRequests /\ UNCHANGED <<settings, templates, imports, matched>>
  BY SpendDay DEF C!create_event, C!update_event, C!delete_event
<1>2. /\ \A e \in rows' : IsEvent(e)
      /\ \A x, y \in rows' : x.id = y.id => x = y
  <2>1. CASE C!create_event
    BY <2>1, InsertKeeps DEF C!create_event
  <2>2. CASE C!update_event
    <3>1. PICK e \in rows, s \in DateTexts, u \in DateTexts, r \in Rules \cup {None} :
            rows' = (rows \ {e}) \cup
              {[e EXCEPT !.start = s, !.end = u, !.rule = IF r = None THEN e.rule ELSE r]}
      BY <2>2 DEF C!update_event
    <3> DEFINE new == [e EXCEPT !.start = s, !.end = u, !.rule = IF r = None THEN e.rule ELSE r]
    <3>2. IsEvent(new) /\ new.id = e.id
      BY DEF EventsInv, IsEvent
    <3> HIDE DEF new
    <3>3. rows' = (rows \ {e}) \cup {new}
      BY <3>1 DEF new
    <3> QED BY <3>2, <3>3 DEF EventsInv
  <2>3. CASE C!delete_event
    BY <2>3 DEF C!delete_event, EventsInv
  <2> QED BY <2>1, <2>2, <2>3
<1> QED BY <1>1, <1>2 DEF EventsInv

LEMMA IcsSteps ==
    ASSUME EventsInv, NEW i \in Tasks,
           C!import_ics(i) \/ C!find_event_by_source_uid(i) \/ C!ImportEvent(i)
    PROVE  EventsInv'
<1>1. CASE C!import_ics(i)
  <2>1. /\ calLeft' \in 0..CalRequests /\ UNCHANGED <<rows, settings, templates, matched>>
    BY <1>1, SpendDay DEF C!import_ics
  <2>2. PICK q \in Seq(C!Datas) : imports' = [imports EXCEPT ![i] = q]
    BY <1>1, ParsedFile DEF C!import_ics
  <2> QED BY <2>1, <2>2 DEF EventsInv
<1>2. CASE C!find_event_by_source_uid(i)
  <2>1. UNCHANGED <<rows, settings, templates, imports, calLeft>>
    BY <1>2 DEF C!find_event_by_source_uid
  <2>2. PICK b \in BOOLEAN : matched' = [matched EXCEPT ![i] = b]
    BY <1>2 DEF C!find_event_by_source_uid
  <2> QED BY <2>1, <2>2 DEF EventsInv
<1>3. CASE C!ImportEvent(i)
  <2>1. /\ imports[i] # <<>> /\ UNCHANGED <<settings, templates, calLeft>>
        /\ imports' = [imports EXCEPT ![i] = Tail(imports[i])]
        /\ matched' = [matched EXCEPT ![i] = None]
        /\ rows' = rows \/ C!Insert(Head(imports[i]))
    BY <1>3 DEF C!ImportEvent
  <2>2. Head(imports[i]) \in C!Datas /\ Tail(imports[i]) \in Seq(C!Datas)
    BY <2>1, HeadTail DEF EventsInv
  <2>3. /\ \A e \in rows' : IsEvent(e)
        /\ \A x, y \in rows' : x.id = y.id => x = y
    BY <2>1, <2>2, InsertKeeps DEF EventsInv
  <2> QED BY <2>1, <2>2, <2>3 DEF EventsInv
<1> QED BY <1>1, <1>2, <1>3

LEMMA SettingSteps ==
    ASSUME EventsInv,
           \/ C!get_calendar_settings \/ C!update_calendar_settings
           \/ C!create_meeting_template \/ C!delete_meeting_template
    PROVE  EventsInv'
<1>1. calLeft' \in 0..CalRequests
  BY SpendDay DEF C!get_calendar_settings, C!update_calendar_settings,
     C!create_meeting_template, C!delete_meeting_template
<1> QED BY <1>1 DEF C!get_calendar_settings, C!update_calendar_settings,
     C!create_meeting_template, C!delete_meeting_template, EventsInv

LEMMA EventsStart == C!Init => EventsInv
<1>1. \A T : <<>> \in Seq(T)
  OBVIOUS
<1> QED BY <1>1, CalendarAssumed DEF C!Init, EventsInv

LEMMA EventsNext == EventsInv /\ [C!Next]_(C!vars) => EventsInv'
<1> SUFFICES ASSUME EventsInv, [C!Next]_(C!vars) PROVE EventsInv'
  OBVIOUS
<1>1. CASE UNCHANGED C!vars
  BY <1>1 DEF C!vars, EventsInv
<1> QED BY <1>1, EventSteps, IcsSteps, SettingSteps DEF C!Next

\* No two events have the same id, whatever imports and requests come between each
\* other's statements (db/calendar.rs).
THEOREM CalendarTypeCorrect == C!Spec => []C!TypeOK
<1>1. EventsInv => C!TypeOK
  <2> SUFFICES ASSUME EventsInv PROVE C!TypeOK
    OBVIOUS
  <2>1. ASSUME NEW e \in rows PROVE e.id \in Nonces /\ [x \in DOMAIN e \ {"id"} |-> e[x]] \in C!Datas
    <3>1. IsEvent(e)
      BY DEF EventsInv
    <3>2. DOMAIN e \ {"id"} = {"start", "end", "rule", "uid"}
      BY <3>1 DEF IsEvent
    <3>3. [x \in DOMAIN e \ {"id"} |-> e[x]] =
             [start |-> e.start, end |-> e.end, rule |-> e.rule, uid |-> e.uid]
      BY <3>2
    <3> QED BY <3>1, <3>3 DEF IsEvent, C!Datas
  <2>2. \A i \in Tasks : Len(imports[i]) \in Nat
    <3>1. \A T : \A q \in Seq(T) : Len(q) \in Nat
      OBVIOUS
    <3> QED BY <3>1 DEF EventsInv
  <2> QED BY <2>1, <2>2 DEF EventsInv, C!TypeOK
<1> QED BY <1>1, EventsStart, EventsNext, PTL DEF C!Spec

-----------------------------------------------------------------------------
(* What is listed                                                          *)

LEMMA DayCount == \A x : C!Cardinality(x) = Cardinality(x)
BY DEF C!Cardinality, Cardinality

LEMMA EventTimes ==
    ASSUME NEW e, IsEvent(e)
    PROVE  /\ e.start.at \in Int /\ e.end.at \in Int
           /\ e.start.form \in {"date", "local", "millis", "zulu"}
           /\ e.end.form \in {"date", "local", "millis", "zulu"}
           /\ e.rule # None => /\ e.rule.every \in Nat /\ 2 * e.rule.every \in Nat
                                /\ e.rule.count \in Nat
           /\ e.rule # None => \A k \in Nat : C!Nth(e, k) = e.start.at + k * (2 * e.rule.every)
<1>1. \A d \in DateTexts : d.at \in Int /\ d.form \in {"date", "local", "millis", "zulu"}
  BY TimesAssumed
<1>2. \A r \in Rules : r.every \in Nat /\ r.count \in Nat
  BY TimesAssumed
<1>3. \A k \in Nat, x \in Nat : k * 2 * x = k * (2 * x) /\ 2 * x \in Nat
  OBVIOUS
<1> QED BY <1>1, <1>2, <1>3 DEF IsEvent, C!Nth

LEMMA WindowTimes ==
    ASSUME NEW w \in Windows PROVE w[1].at \in Int /\ w[2].at \in Int
<1>1. w[1] \in Instants /\ w[2] \in Instants
  BY TimesAssumed DEF Instants
<1> QED BY <1>1 DEF Instants

\* An event has one id.
LEMMA EventOf == ASSUME EventsInv, NEW e \in rows PROVE C!Event(e.id) = e
BY DEF EventsInv, C!Event

LEMMA OccurrenceOf ==
    ASSUME NEW e, IsEvent(e), NEW d \in Int
    PROVE  /\ C!Occurrence(e, d).id = e.id /\ C!Occurrence(e, d).start.at = d
           /\ C!Occurrence(e, d).end.at = d + (e.end.at - e.start.at)
BY DEF IsEvent, C!Occurrence, C!parse_iso_as_utc

LEMMA StartsBetween ==
    ASSUME NEW e, IsEvent(e), e.rule # None, NEW a \in Int, NEW b \in Int, NEW d \in C!Starts(e, a, b)
    PROVE  d \in Int /\ a <= d /\ d <= b
<1>1. PICK k \in 0..(e.rule.count - 1) : d = C!Nth(e, k)
  BY DEF C!Starts
<1>2. a <= d /\ d <= b
  BY DEF C!Starts
<1>3. k \in Nat /\ e.start.at \in Int /\ 2 * e.rule.every \in Nat
  BY EventTimes
<1>4. d = e.start.at + k * (2 * e.rule.every)
  BY <1>1, <1>3, EventTimes
<1>5. k * (2 * e.rule.every) \in Int
  <2>1. \A m, n \in Nat : m * n \in Int
    OBVIOUS
  <2> QED BY <1>3, <2>1
<1> QED BY <1>2, <1>3, <1>4, <1>5

\* What is listed of an event is the event, or takes place in the window.
LEMMA ListedOf ==
    ASSUME NEW e, IsEvent(e), NEW w \in Windows, NEW o \in C!try_expand(e, w)
    PROVE  \/ o = e
           \/ \E d \in Int : /\ w[1].at <= d /\ d <= w[2].at
                             /\ o = C!Occurrence(e, d)
<1>1. SUFFICES ASSUME o # e
               PROVE  \E d \in Int : /\ w[1].at <= d /\ d <= w[2].at
                                     /\ o = C!Occurrence(e, d)
  OBVIOUS
<1>2. e.rule # None /\ \E d \in C!Starts(e, w[1].at, w[2].at) : o = C!Occurrence(e, d)
  BY <1>1 DEF C!try_expand, C!CanExpand, C!parse_iso_as_utc
<1> QED BY <1>2, StartsBetween, WindowTimes

LEMMA InTheWindow ==
    ASSUME EventsInv, NEW w \in Windows, NEW o \in C!list_events(w), o.start.at <= o.end.at
    PROVE  /\ o.end.at >= w[1].at /\ o.start.at <= w[2].at
           /\ o.end.at - o.start.at = C!Event(o.id).end.at - C!Event(o.id).start.at
<1>1. PICK e \in rows : /\ C!TextLeq(w[1], e.end) /\ C!TextLeq(e.start, w[2])
                        /\ o \in C!try_expand(e, w)
  BY DEF C!list_events
<1>2. IsEvent(e) /\ C!Event(e.id) = e
  BY EventOf DEF EventsInv
<1>3. /\ e.start.at \in Int /\ e.end.at \in Int /\ w[1].at \in Int /\ w[2].at \in Int
  BY <1>2, EventTimes, WindowTimes
<1>4. CASE o = e
  <2>1. w[1].at <= e.end.at /\ e.start.at <= w[2].at
    BY <1>1, <1>3 DEF C!TextLeq
  <2> QED BY <1>2, <1>3, <1>4, <2>1
<1>5. CASE o # e
  <2>1. PICK d \in Int : w[1].at <= d /\ d <= w[2].at /\ o = C!Occurrence(e, d)
    BY <1>1, <1>2, <1>5, ListedOf
  <2>2. o.id = e.id /\ o.start.at = d /\ o.end.at = d + (e.end.at - e.start.at)
    BY <1>2, <2>1, OccurrenceOf
  <2> QED BY <1>2, <1>3, <2>1, <2>2
<1> QED BY <1>4, <1>5

\* An event of the window is listed, as it is or as an occurrence.
LEMMA NothingMissing ==
    ASSUME EventsInv, NEW w \in Windows, NEW e \in rows,
           e.start.at <= e.end.at, w[1].at < e.end.at, e.start.at < w[2].at
    PROVE  /\ C!try_expand(e, w) \subseteq C!list_events(w)
           /\ \E o \in C!list_events(w) : o.start.at <= o.end.at /\ o.id = e.id
<1>1. IsEvent(e) /\ C!TextLeq(w[1], e.end) /\ C!TextLeq(e.start, w[2])
  BY DEF EventsInv, C!TextLeq
<1>2. C!try_expand(e, w) \subseteq C!list_events(w)
  BY <1>1 DEF C!list_events
<1>3. CASE e \in C!try_expand(e, w)
  BY <1>2, <1>3
<1>4. CASE e \notin C!try_expand(e, w)
  <2>1. \E d \in C!Starts(e, w[1].at, w[2].at) : C!Occurrence(e, d) \in C!try_expand(e, w)
    BY <1>4 DEF C!try_expand, C!parse_iso_as_utc
  <2>2. e.rule # None
    BY <1>4 DEF C!try_expand, C!CanExpand
  <2>3. PICK d \in Int : C!Occurrence(e, d) \in C!try_expand(e, w)
    BY <1>1, <2>1, <2>2, StartsBetween, WindowTimes
  <2>4. /\ C!Occurrence(e, d).id = e.id
        /\ C!Occurrence(e, d).start.at <= C!Occurrence(e, d).end.at
    <3>1. e.start.at \in Int /\ e.end.at \in Int
      BY <1>1, EventTimes
    <3> QED BY <1>1, <3>1, OccurrenceOf
  <2> QED BY <1>2, <2>3, <2>4
<1> QED BY <1>2, <1>3, <1>4

LEMMA Multiples ==
    ASSUME NEW a \in Nat, NEW j \in Nat, NEW k \in Nat, k <= j
    PROVE  k * a <= j * a
<1>1. (j - k) * a \in Nat
  <2>1. \A m, n \in Nat : m * n \in Nat
    OBVIOUS
  <2>2. j - k \in Nat
    OBVIOUS
  <2> QED BY <2>1, <2>2
<1>2. j * a = k * a + (j - k) * a
  OBVIOUS
<1> QED BY <1>1, <1>2

\* At most k instants of a rule lie before the one that is k steps from the first.
LEMMA FewBefore ==
    ASSUME NEW x \in Int, NEW a \in Nat, NEW n \in Nat, NEW k \in Nat, NEW T,
           \A d \in T : /\ \E j \in 0..(n - 1) : d = x + j * a
                        /\ d < x + k * a
    PROVE  IsFiniteSet(T) /\ Cardinality(T) <= k
<1> DEFINE f == [j \in 0..(k - 1) |-> x + j * a]
<1> DEFINE U == {x + j * a : j \in 0..(k - 1)}
<1>1. T \in SUBSET U
  <2> SUFFICES ASSUME NEW d \in T PROVE d \in U
    OBVIOUS
  <2>1. PICK j \in 0..(n - 1) : d = x + j * a
    OBVIOUS
  <2>2. j \in Nat /\ d < x + k * a
    OBVIOUS
  <2>3. j * a \in Int /\ k * a \in Int
    BY <2>2
  <2>4. j * a < k * a
    BY <2>1, <2>2, <2>3
  <2>5. j < k
    <3> SUFFICES ASSUME k <= j PROVE FALSE
      BY <2>2
    <3>1. k * a <= j * a
      BY <2>2, Multiples
    <3> QED BY <2>3, <2>4, <3>1
  <2> QED BY <2>1, <2>2, <2>5
<1>2. f \in Surjection(0..(k - 1), U)
  <2>1. f \in [0..(k - 1) -> U] /\ \A y \in U : \E j \in 0..(k - 1) : f[j] = y
    OBVIOUS
  <2> HIDE DEF f, U
  <2> QED BY <2>1 DEF Surjection
<1>3. IsFiniteSet(0..(k - 1)) /\ Cardinality(0..(k - 1)) = k
  <2>1. \A b \in Int : IsFiniteSet(0..b) /\ Cardinality(0..b) = IF 0 > b THEN 0 ELSE b - 0 + 1
    BY FS_Interval
  <2>2. k - 1 \in Int
    OBVIOUS
  <2>3. IsFiniteSet(0..(k - 1)) /\ Cardinality(0..(k - 1)) = IF 0 > k - 1 THEN 0 ELSE (k - 1) - 0 + 1
    BY <2>1, <2>2
  <2> QED BY <2>3
<1> HIDE DEF f, U
<1>4. IsFiniteSet(U) /\ Cardinality(U) <= k
  BY <1>2, <1>3, FS_Surjection
<1>5. IsFiniteSet(T) /\ Cardinality(T) <= Cardinality(U)
  BY <1>1, <1>4, FS_Subset
<1>6. Cardinality(T) \in Nat /\ Cardinality(U) \in Nat
  BY <1>4, <1>5, FS_CardinalityType
<1> QED BY <1>4, <1>5, <1>6

\* An event whose first occurrence is in the window is listed with all that follow.
LEMMA OccurrencesListed ==
    ASSUME EventsInv, NEW w \in Windows, NEW e \in rows,
           e.start.at <= e.end.at, w[1].at < e.end.at, e.start.at < w[2].at,
           C!CanExpand(e), w[1].at <= e.start.at,
           NEW k \in 0..(e.rule.count - 1), k < MaxListed, C!Nth(e, k) <= w[2].at
    PROVE  \E o \in C!list_events(w) : /\ o.start.at <= o.end.at /\ o.id = e.id
                                       /\ o.start.at = C!Nth(e, k)
<1> DEFINE gap == 2 * e.rule.every
<1> DEFINE d == C!Nth(e, k)
<1>1. IsEvent(e) /\ e.rule # None
  BY DEF EventsInv, C!CanExpand
<1>2. /\ e.start.at \in Int /\ e.end.at \in Int /\ gap \in Nat /\ e.rule.count \in Nat
      /\ w[1].at \in Int /\ w[2].at \in Int /\ k \in Nat /\ MaxListed \in Nat
  BY <1>1, EventTimes, WindowTimes, TimesAssumed, CalendarAssumed
<1>3. /\ k * gap \in Nat /\ d = e.start.at + k * gap
      /\ \A j \in Nat : C!Nth(e, j) = e.start.at + j * gap
  <2>1. \A m, n \in Nat : m * n \in Nat
    OBVIOUS
  <2>2. \A j \in Nat : C!Nth(e, j) = e.start.at + j * gap
    BY <1>1, EventTimes
  <2> HIDE DEF gap
  <2> QED BY <1>2, <2>1, <2>2
<1> HIDE DEF gap
<1>4. d \in Int /\ w[1].at <= d /\ d <= w[2].at
  <2>1. d <= w[2].at
    OBVIOUS
  <2> HIDE DEF d
  <2> QED BY <1>2, <1>3, <2>1
<1>5. d \in C!Starts(e, w[1].at, w[2].at)
  <2> DEFINE all == {C!Nth(e, j) : j \in 0..(e.rule.count - 1)}
  <2> DEFINE inside == {x \in all : w[1].at <= x /\ x <= w[2].at}
  <2> DEFINE before == {x \in inside : x < d}
  <2>1. \A x \in before : /\ \E j \in 0..(e.rule.count - 1) : x = e.start.at + j * gap
                          /\ x < e.start.at + k * gap
    <3> SUFFICES ASSUME NEW x \in before
                 PROVE  /\ \E j \in 0..(e.rule.count - 1) : x = e.start.at + j * gap
                        /\ x < e.start.at + k * gap
      OBVIOUS
    <3>1. PICK j \in 0..(e.rule.count - 1) : x = C!Nth(e, j)
      OBVIOUS
    <3>2. j \in Nat
      OBVIOUS
    <3>3. x < d
      OBVIOUS
    <3> HIDE DEF before, d
    <3> QED BY <1>3, <3>1, <3>2, <3>3
  <2>2. IsFiniteSet(before) /\ Cardinality(before) <= k
    <3> HIDE DEF before, d
    <3> QED BY <1>2, <2>1, FewBefore
  <2>3. Cardinality(before) < MaxListed
    <3>1. Cardinality(before) \in Nat
      <4> HIDE DEF before
      <4> QED BY <2>2, FS_CardinalityType
    <3> HIDE DEF before
    <3> QED BY <1>2, <2>2, <3>1
  <2>4. d \in inside
    BY <1>4
  <2>5. C!Starts(e, w[1].at, w[2].at) = {x \in inside : C!Cardinality({s \in inside : s < x}) < MaxListed}
    BY DEF C!Starts
  <2> HIDE DEF d, inside
  <2> QED BY <2>3, <2>4, <2>5, DayCount
<1>6. C!Occurrence(e, d) \in C!try_expand(e, w)
  <2> HIDE DEF d
  <2> QED BY <1>5 DEF C!try_expand, C!parse_iso_as_utc
<1>7. /\ C!Occurrence(e, d).id = e.id /\ C!Occurrence(e, d).start.at = d
      /\ C!Occurrence(e, d).end.at = d + (e.end.at - e.start.at)
  <2> HIDE DEF d
  <2> QED BY <1>1, <1>4, OccurrenceOf
<1>8. C!Occurrence(e, d).start.at <= C!Occurrence(e, d).end.at
  <2> HIDE DEF d
  <2> QED BY <1>2, <1>4, <1>7
<1>9. C!try_expand(e, w) \subseteq C!list_events(w)
  BY NothingMissing
<1> QED BY <1>6, <1>7, <1>8, <1>9

LEMMA EventsListed == ASSUME EventsInv PROVE C!ListSound
<1> SUFFICES ASSUME NEW w \in Windows
             PROVE  LET listed == {o \in C!list_events(w) : o.start.at <= o.end.at}
                    IN  /\ \A o \in listed :
                              /\ o.end.at >= w[1].at /\ o.start.at <= w[2].at
                              /\ o.end.at - o.start.at = C!Event(o.id).end.at - C!Event(o.id).start.at
                        /\ \A e \in rows :
                              (e.start.at <= e.end.at /\ w[1].at < e.end.at /\ e.start.at < w[2].at) =>
                                 /\ \E o \in listed : o.id = e.id
                                 /\ (C!CanExpand(e) /\ w[1].at <= e.start.at) =>
                                       \A k \in 0..(e.rule.count - 1) :
                                          (k < MaxListed /\ C!Nth(e, k) <= w[2].at) =>
                                             \E o \in listed : o.id = e.id /\ o.start.at = C!Nth(e, k)
  BY DEF C!ListSound
<1> DEFINE listed == {o \in C!list_events(w) : o.start.at <= o.end.at}
<1>1. ASSUME NEW o \in listed
      PROVE  /\ o.end.at >= w[1].at /\ o.start.at <= w[2].at
             /\ o.end.at - o.start.at = C!Event(o.id).end.at - C!Event(o.id).start.at
  BY InTheWindow
<1>2. ASSUME NEW e \in rows, e.start.at <= e.end.at, w[1].at < e.end.at, e.start.at < w[2].at
      PROVE  \E o \in listed : o.id = e.id
  BY <1>2, NothingMissing
<1>3. ASSUME NEW e \in rows, e.start.at <= e.end.at, w[1].at < e.end.at, e.start.at < w[2].at,
             C!CanExpand(e), w[1].at <= e.start.at,
             NEW k \in 0..(e.rule.count - 1), k < MaxListed, C!Nth(e, k) <= w[2].at
      PROVE  \E o \in listed : o.id = e.id /\ o.start.at = C!Nth(e, k)
  BY <1>3, OccurrencesListed
<1> QED BY <1>1, <1>2, <1>3

\* Whatever window a page asks for, what is listed takes place in it; every event that
\* reaches into it is listed, and of one that can be expanded and began in it every
\* occurrence (db/calendar.rs:206).
THEOREM CalendarListSound == C!Spec => []C!ListSound
<1>1. EventsInv => C!ListSound
  BY EventsListed
<1> QED BY <1>1, EventsStart, EventsNext, PTL DEF C!Spec

LEMMA CalendarVars == UNCHANGED calendarVars => UNCHANGED C!vars
  BY DEF calendarVars, C!vars

LEMMA CalendarBehaviour == Spec /\ part = "calendar" => C!Spec
<1>1. Init /\ part = "calendar" => C!Init
  BY DEF Init
<1>2. part = "calendar" /\ [Next]_vars => [C!Next]_(C!vars)
  <2> SUFFICES ASSUME part = "calendar", [Next]_vars PROVE C!Next \/ UNCHANGED C!vars
    OBVIOUS
  <2>1. CASE Planning
    BY <2>1 DEF Planning
  <2>2. CASE UNCHANGED vars
    BY <2>2, CalendarVars DEF vars
  <2> QED
    BY <2>1, <2>2 DEF Next, SigningIn, MailArrives, Notifying, Addressing, Planning,
       Labelling, Filing, Searching, Calling
<1>3. part = "calendar" /\ [Next]_vars => (part = "calendar")'
  BY PartFixed
<1> QED
  BY <1>1, <1>2, <1>3, PTL DEF Spec, C!Spec

-----------------------------------------------------------------------------
(* Labels                                                                  *)

\* No link outlives its tag or its message.
LabelInv ==
    /\ store \subseteq Nonces /\ DOMAIN tags \subseteq Creds
    /\ \A i, j \in DOMAIN tags : tags[i] = tags[j] => i = j
    /\ tagged \subseteq (DOMAIN tags) \X store
    /\ DOMAIN idents \subseteq RuleIds
    /\ jobs = [t \in Tasks |-> jobs[t]] /\ \A t \in Tasks : jobs[t] \in B!Jobs \cup {None}
    /\ DOMAIN stickers \subseteq Dates /\ \A f \in Senders : prefs[f] \in Values \cup {None}
    /\ tagLeft \in 0..MaxRequests

LEMMA SpendLabel == ASSUME LabelInv, B!Spend PROVE tagLeft' \in 0..MaxRequests
BY BookAssumed DEF LabelInv, B!Spend

LEMMA MessageSteps ==
    ASSUME LabelInv, B!upsert_message \/ B!delete_message
    PROVE  LabelInv'
<1>1. /\ tagLeft' \in 0..MaxRequests /\ UNCHANGED <<tags, idents, jobs, stickers, prefs>>
  BY SpendLabel DEF B!upsert_message, B!delete_message, B!identVars
<1>2. store' \subseteq Nonces /\ tagged' \subseteq (DOMAIN tags) \X store'
  <2>1. CASE B!upsert_message
    <3>1. PICK m \in Nonces : store' = store \cup {m} /\ tagged' = {x \in tagged : x[2] # m}
      BY <2>1 DEF B!upsert_message, B!Untag
    <3> QED BY <3>1 DEF LabelInv
  <2>2. CASE B!delete_message
    <3>1. PICK m \in store : store' = store \ {m} /\ tagged' = {x \in tagged : x[2] # m}
      BY <2>2 DEF B!delete_message, B!Untag
    <3> QED BY <3>1 DEF LabelInv
  <2> QED BY <2>1, <2>2
<1> QED BY <1>1, <1>2 DEF LabelInv

LEMMA TagSteps ==
    ASSUME LabelInv, B!create_tag_handler \/ B!update_tag_handler \/ B!delete_tag_handler
    PROVE  LabelInv'
<1>1. /\ tagLeft' \in 0..MaxRequests /\ UNCHANGED <<store, idents, jobs, stickers, prefs>>
  BY SpendLabel DEF B!create_tag_handler, B!update_tag_handler, B!delete_tag_handler, B!identVars
<1>2. /\ DOMAIN tags' \subseteq Creds
      /\ \A i, j \in DOMAIN tags' : tags'[i] = tags'[j] => i = j
      /\ tagged' \subseteq (DOMAIN tags') \X store
  <2>1. CASE B!create_tag_handler
    <3>1. PICK i \in Creds \ DOMAIN tags, n \in Secrets :
             /\ \A j \in DOMAIN tags : tags[j] # n
             /\ tags' = [x \in DOMAIN tags \cup {i} |-> IF x = i THEN n ELSE tags[x]]
             /\ tagged' = tagged
      BY <2>1 DEF B!create_tag_handler, B!create_tag, B!Put
    <3>2. DOMAIN tags' = DOMAIN tags \cup {i}
      BY <3>1
    <3>3. \A x, y \in DOMAIN tags' : tags'[x] = tags'[y] => x = y
      BY <3>1 DEF LabelInv
    <3> QED BY <3>1, <3>2, <3>3 DEF LabelInv
  <2>2. CASE B!update_tag_handler
    <3>1. PICK i \in DOMAIN tags, n \in Secrets :
             /\ \A j \in DOMAIN tags \ {i} : tags[j] # n
             /\ tags' = [tags EXCEPT ![i] = n] /\ tagged' = tagged
      BY <2>2 DEF B!update_tag_handler, B!update_tag
    <3>2. \A x, y \in DOMAIN tags' : tags'[x] = tags'[y] => x = y
      BY <3>1 DEF LabelInv
    <3> QED BY <3>1, <3>2 DEF LabelInv
  <2>3. CASE B!delete_tag_handler
    <3>1. PICK i \in DOMAIN tags : /\ tags' = [x \in DOMAIN tags \ {i} |-> tags[x]]
                                   /\ tagged' = {x \in tagged : x[1] # i}
      BY <2>3 DEF B!delete_tag_handler, B!delete_tag, B!Drop
    <3> QED BY <3>1 DEF LabelInv
  <2> QED BY <2>1, <2>2, <2>3
<1> QED BY <1>1, <1>2 DEF LabelInv

LEMMA LinkSteps ==
    ASSUME LabelInv, B!tag_message_handler \/ B!bulk_tag_handler \/ B!untag_message_handler
    PROVE  LabelInv'
<1>1. /\ tagLeft' \in 0..MaxRequests /\ UNCHANGED <<store, tags, idents, jobs, stickers, prefs>>
  BY SpendLabel DEF B!tag_message_handler, B!bulk_tag_handler, B!untag_message_handler, B!identVars
<1>2. tagged' \subseteq (DOMAIN tags) \X store
  BY DEF B!tag_message_handler, B!bulk_tag_handler, B!untag_message_handler,
     B!add_tag_to_message, B!remove_tag_from_message, LabelInv
<1> QED BY <1>1, <1>2 DEF LabelInv

LEMMA IdentitySteps ==
    ASSUME LabelInv, NEW t \in Tasks,
           B!IdentityBegin(t) \/ B!create_identity(t) \/ B!update_identity(t)
    PROVE  LabelInv'
<1>1. UNCHANGED <<store, tags, tagged, stickers, prefs>>
  BY DEF B!IdentityBegin, B!create_identity, B!update_identity, B!tagVars
<1>2. tagLeft' \in 0..MaxRequests
  <2>1. CASE B!IdentityBegin(t)
    BY <2>1, SpendLabel DEF B!IdentityBegin
  <2>2. CASE B!create_identity(t) \/ B!update_identity(t)
    BY <2>2 DEF B!create_identity, B!update_identity, LabelInv
  <2> QED BY <2>1, <2>2
<1>3. PICK r \in B!Jobs \cup {None} : jobs' = [jobs EXCEPT ![t] = r]
  BY DEF B!IdentityBegin, B!create_identity, B!update_identity
<1>4. DOMAIN idents' \subseteq RuleIds
  <2>1. CASE B!IdentityBegin(t)
    <3>1. DOMAIN idents' = DOMAIN idents
      BY <2>1 DEF B!IdentityBegin, B!clear_default
    <3> QED BY <3>1 DEF LabelInv
  <2>2. CASE B!create_identity(t)
    <3>1. \E i \in RuleIds : DOMAIN idents' = DOMAIN idents \cup {i}
      BY <2>2 DEF B!create_identity, B!Put
    <3> QED BY <3>1 DEF LabelInv
  <2>3. CASE B!update_identity(t)
    <3>1. DOMAIN idents' = DOMAIN idents
      BY <2>3 DEF B!update_identity
    <3> QED BY <3>1 DEF LabelInv
  <2> QED BY <2>1, <2>2, <2>3
<1> QED BY <1>1, <1>2, <1>3, <1>4 DEF LabelInv

LEMMA OtherLabelSteps ==
    ASSUME LabelInv,
           B!delete_identity \/ B!put_sticker \/ B!delete_sticker \/ B!update_preferences
    PROVE  LabelInv'
<1>1. /\ tagLeft' \in 0..MaxRequests /\ UNCHANGED <<store, tags, tagged, jobs>>
  BY SpendLabel DEF B!delete_identity, B!put_sticker, B!delete_sticker, B!update_preferences,
     B!identVars, B!tagVars
<1>2. CASE B!delete_identity
  <2>1. /\ DOMAIN idents' \subseteq DOMAIN idents /\ UNCHANGED <<stickers, prefs>>
    BY <1>2 DEF B!delete_identity, B!Drop
  <2> QED BY <1>1, <2>1 DEF LabelInv
<1>3. CASE B!put_sticker
  <2>1. /\ \E d \in Dates : DOMAIN stickers' = DOMAIN stickers \cup {d}
        /\ UNCHANGED <<idents, prefs>>
    BY <1>3 DEF B!put_sticker, B!Put, B!identVars
  <2> QED BY <1>1, <2>1 DEF LabelInv
<1>4. CASE B!delete_sticker
  <2>1. DOMAIN stickers' \subseteq DOMAIN stickers /\ UNCHANGED <<idents, prefs>>
    BY <1>4 DEF B!delete_sticker, B!Drop, B!identVars
  <2> QED BY <1>1, <2>1 DEF LabelInv
<1>5. CASE B!update_preferences
  <2>1. /\ \E G \in SUBSET Senders, v \in Values :
              prefs' = [f \in Senders |-> IF f \in G THEN v ELSE prefs[f]]
        /\ UNCHANGED <<idents, stickers>>
    BY <1>5 DEF B!update_preferences, B!identVars
  <2>2. \A f \in Senders : prefs'[f] \in Values \cup {None}
    BY <2>1 DEF LabelInv
  <2> QED BY <1>1, <2>1, <2>2 DEF LabelInv
<1> QED BY <1>2, <1>3, <1>4, <1>5

LEMMA NoTags == ASSUME NEW f, f = <<>> PROVE DOMAIN f = {}
OBVIOUS

LEMMA LabelStart == B!Init => LabelInv
<1> SUFFICES ASSUME B!Init PROVE LabelInv
  OBVIOUS
<1>1. /\ tags = <<>> /\ idents = <<>> /\ stickers = <<>>
      /\ store = {} /\ tagged = {} /\ tagLeft = MaxRequests
      /\ jobs = [t \in Tasks |-> None] /\ prefs = [f \in Senders |-> None]
  BY DEF B!Init
<1>2. DOMAIN tags = {} /\ DOMAIN idents = {} /\ DOMAIN stickers = {}
  BY <1>1, NoTags
<1> QED BY <1>1, <1>2, BookAssumed DEF LabelInv

LEMMA LabelNext == LabelInv /\ [B!Next]_(B!vars) => LabelInv'
<1> SUFFICES ASSUME LabelInv, [B!Next]_(B!vars) PROVE LabelInv'
  OBVIOUS
<1>1. CASE UNCHANGED B!vars
  BY <1>1 DEF B!vars, LabelInv
<1> QED
  BY <1>1, MessageSteps, TagSteps, LinkSteps, IdentitySteps, OtherLabelSteps DEF B!Next

\* The count beside a tag, taken from the links, is that of the messages listed under it.
LEMMA CountsAgree ==
    ASSUME LabelInv, NEW i
    PROVE  B!count_messages_by_tag(i) = B!Cardinality(B!get_messages_by_tag(i))
<1> DEFINE links == {x \in tagged : x[1] = i}
<1> DEFINE under == {m \in store : <<i, m>> \in tagged}
<1> DEFINE f == [m \in under |-> <<i, m>>]
<1>1. IsFiniteSet(under)
  <2>1. under \in SUBSET Nonces
    BY DEF LabelInv
  <2> HIDE DEF under
  <2> QED BY <2>1, BookAssumed, CalendarAssumed, FS_Subset
<1>2. f \in Bijection(under, links)
  <2>1. /\ \A m \in under : f[m] = <<i, m>> /\ f[m] \in links
        /\ \A m, n \in under : f[m] = f[n] => m = n
    OBVIOUS
  <2>2. ASSUME NEW y \in links PROVE \E m \in under : f[m] = y
    <3>1. y = <<i, y[2]>> /\ y[2] \in store /\ y \in tagged
      BY DEF LabelInv
    <3>2. y[2] \in under
      BY <3>1
    <3> QED BY <2>1, <3>1, <3>2
  <2>3. f \in [under -> links]
    BY <2>1
  <2> HIDE DEF f, under, links
  <2> QED BY <2>1, <2>2, <2>3 DEF Bijection, Injection, Surjection, IsInjective
<1>3. Cardinality(links) = Cardinality(under)
  <2>1. ExistsBijection(under, links)
    <3> HIDE DEF f, under, links
    <3> QED BY <1>2 DEF ExistsBijection
  <2> HIDE DEF f, under, links
  <2> QED BY <1>1, <2>1, FS_Bijection
<1>4. \A x : B!Cardinality(x) = Cardinality(x)
  BY DEF B!Cardinality, Cardinality
<1> QED BY <1>3, <1>4 DEF B!count_messages_by_tag, B!get_messages_by_tag

\* No link outlives its tag or its message (db/tags.rs).
THEOREM LabelsTypeCorrect == B!Spec => []B!TypeOK
<1>1. LabelInv => B!TypeOK
  <2> SUFFICES ASSUME LabelInv PROVE B!TypeOK
    OBVIOUS
  <2>1. \A x \in tagged : x[1] \in DOMAIN tags
    BY DEF LabelInv
  <2> QED BY <2>1, CountsAgree DEF LabelInv, B!TypeOK
<1> QED BY <1>1, LabelStart, LabelNext, PTL DEF B!Spec

LEMMA LabelsVars == UNCHANGED labelsVars => UNCHANGED B!vars
  BY DEF labelsVars, B!vars

LEMMA LabelsBehaviour == Spec /\ part = "labels" => B!Spec
<1>1. Init /\ part = "labels" => B!Init
  BY DEF Init
<1>2. part = "labels" /\ [Next]_vars => [B!Next]_(B!vars)
  <2> SUFFICES ASSUME part = "labels", [Next]_vars PROVE B!Next \/ UNCHANGED B!vars
    OBVIOUS
  <2>1. CASE Labelling
    BY <2>1 DEF Labelling
  <2>2. CASE UNCHANGED vars
    BY <2>2, LabelsVars DEF vars
  <2> QED
    BY <2>1, <2>2 DEF Next, SigningIn, MailArrives, Notifying, Addressing, Planning,
       Labelling, Filing, Searching, Calling
<1>3. part = "labels" /\ [Next]_vars => (part = "labels")'
  BY PartFixed
<1> QED
  BY <1>1, <1>2, <1>3, PTL DEF Spec, B!Spec

-----------------------------------------------------------------------------
(* Login: what LoginProofs proves is of its own instance of Login, whose   *)
(* definitions are the same.                                               *)

LL == INSTANCE LoginProofs WITH Budgets <- LoginBudgets

LEMMA LoginInit == L!Init => LL!Init
  BY DEF L!NoCode, LL!NoCode, L!NoLocals, LL!NoLocals, L!NoCeremony, LL!NoCeremony,
       L!Nothing, LL!Nothing, L!Init, LL!Init

LEMMA SameGate ==
    ASSUME NEW r,
           \/ L!Login(r) \/ L!GateSettings(r) \/ L!GateEnrolled(r)
           \/ L!LoadSecret(r) \/ L!LockCheck(r) \/ L!GateError(r)
           \/ L!StatementFails(r) \/ L!ImapAnswer(r) \/ L!NoServer(r)
           \/ L!Session(r)
    PROVE  \/ LL!Login(r) \/ LL!GateSettings(r) \/ LL!GateEnrolled(r)
           \/ LL!LoadSecret(r) \/ LL!LockCheck(r) \/ LL!GateError(r)
           \/ LL!StatementFails(r) \/ LL!ImapAnswer(r) \/ LL!NoServer(r)
           \/ LL!Session(r)
  BY DEF L!db, LL!db, L!world, LL!world, L!NoCode, LL!NoCode, L!NoLocals, LL!NoLocals,
       L!Spend, LL!Spend, L!Goto, LL!Goto, L!Begin, LL!Begin, L!Answer,
       LL!Answer, L!is_totp_enrolled, LL!is_totp_enrolled, L!check_lockout,
       LL!check_lockout, L!Validate, LL!Validate, L!Shown, LL!Shown, L!Login,
       LL!Login, L!GateSettings, LL!GateSettings, L!GateEnrolled,
       LL!GateEnrolled, L!LoadSecret, LL!LoadSecret, L!LockCheck,
       LL!LockCheck, L!GateError, LL!GateError, L!StatementFails,
       LL!StatementFails, L!ImapAnswer, LL!ImapAnswer, L!NoServer,
       LL!NoServer, L!Session, LL!Session

LEMMA SameCode ==
    ASSUME NEW r,
           \/ L!CheckStep(r) \/ L!RecordStep(r) \/ L!ResetLockout(r)
           \/ L!CountFailure(r) \/ L!SetLock(r) \/ L!TotpConfirm(r)
           \/ L!UpsertSecret(r) \/ L!TotpDelete(r) \/ L!EraseSecret(r)
           \/ L!ForgetSteps(r) \/ L!Unlock(r)
    PROVE  \/ LL!CheckStep(r) \/ LL!RecordStep(r) \/ LL!ResetLockout(r)
           \/ LL!CountFailure(r) \/ LL!SetLock(r) \/ LL!TotpConfirm(r)
           \/ LL!UpsertSecret(r) \/ LL!TotpDelete(r) \/ LL!EraseSecret(r)
           \/ LL!ForgetSteps(r) \/ LL!Unlock(r)
  BY DEF L!db, LL!db, L!world, LL!world, L!NoCode, LL!NoCode, L!NoLocals, LL!NoLocals,
       L!Spend, LL!Spend, L!Goto, LL!Goto, L!Begin, LL!Begin, L!Answer,
       LL!Answer, L!upsert_totp_secret, LL!upsert_totp_secret, L!is_step_used,
       LL!is_step_used, L!record_used_step, LL!record_used_step,
       L!add_failure, LL!add_failure, L!set_lock, LL!set_lock,
       L!reset_lockout, LL!reset_lockout, L!Shown, LL!Shown, L!Matches,
       LL!Matches, L!CheckStep, LL!CheckStep, L!RecordStep, LL!RecordStep,
       L!ResetLockout, LL!ResetLockout, L!CountFailure, LL!CountFailure,
       L!SetLock, LL!SetLock, L!TotpConfirm, LL!TotpConfirm, L!UpsertSecret,
       LL!UpsertSecret, L!TotpDelete, LL!TotpDelete, L!EraseSecret,
       LL!EraseSecret, L!ForgetSteps, LL!ForgetSteps, L!Unlock, LL!Unlock

LEMMA SameKeys ==
    ASSUME NEW r,
           \/ L!RegisterComplete(r) \/ L!InsertPasskey(r) \/ L!SigninComplete(r)
           \/ L!FetchPasskey(r) \/ L!PasskeyDelete(r) \/ L!ReadMode(r)
           \/ L!DeleteKey(r) \/ L!PasskeyOnly(r) \/ L!AnyKey(r)
           \/ L!SetMode(r)
    PROVE  \/ LL!RegisterComplete(r) \/ LL!InsertPasskey(r) \/ LL!SigninComplete(r)
           \/ LL!FetchPasskey(r) \/ LL!PasskeyDelete(r) \/ LL!ReadMode(r)
           \/ LL!DeleteKey(r) \/ LL!PasskeyOnly(r) \/ LL!AnyKey(r)
           \/ LL!SetMode(r)
  BY DEF L!db, LL!db, L!world, LL!world, L!NoCode, LL!NoCode, L!NoLocals, LL!NoLocals,
       L!Spend, LL!Spend, L!Goto, LL!Goto, L!Begin, LL!Begin, L!Answer,
       LL!Answer, L!get_passkey, LL!get_passkey, L!list_passkeys,
       LL!list_passkeys, L!has_passkeys, LL!has_passkeys, L!put_passkey,
       LL!put_passkey, L!insert_passkey, LL!insert_passkey, L!delete_passkey,
       LL!delete_passkey, L!set_passkey_only, LL!set_passkey_only, L!Finish,
       LL!Finish, L!RegisterComplete, LL!RegisterComplete, L!InsertPasskey,
       LL!InsertPasskey, L!SigninComplete, LL!SigninComplete, L!FetchPasskey,
       LL!FetchPasskey, L!PasskeyDelete, LL!PasskeyDelete, L!ReadMode,
       LL!ReadMode, L!DeleteKey, LL!DeleteKey, L!PasskeyOnly, LL!PasskeyOnly,
       L!AnyKey, LL!AnyKey, L!SetMode, LL!SetMode

LEMMA SameCount ==
    ASSUME NEW r, L!CountKeys(r) PROVE LL!CountKeys(r)
<1> DEFINE Listed == L!list_passkeys
<1>1. L!Cardinality(Listed) = LL!Cardinality(Listed)
  BY DEF L!Cardinality, LL!Cardinality
<1>2. Listed = LL!list_passkeys
  BY DEF L!list_passkeys, LL!list_passkeys
<1>3. /\ pc[r] = "last"
      /\ IF L!Cardinality(Listed) <= 1 THEN L!Answer(r)
         ELSE L!Goto(r, "delete") /\ UNCHANGED loc
      /\ UNCHANGED <<L!world, L!db, pending, left>>
  BY DEF L!CountKeys
<1> HIDE DEF Listed
<1>4. IF LL!Cardinality(LL!list_passkeys) <= 1 THEN LL!Answer(r)
      ELSE LL!Goto(r, "delete") /\ UNCHANGED loc
  BY <1>1, <1>2, <1>3 DEF L!db, LL!db, L!NoCode, LL!NoCode, L!NoLocals, LL!NoLocals, L!Goto,
       LL!Goto,
       L!Answer, LL!Answer
<1>5. UNCHANGED <<LL!world, LL!db, pending, left>>
  BY <1>3 DEF L!db, LL!db, L!world, LL!world
<1> QED
  BY <1>3, <1>4, <1>5 DEF LL!CountKeys

LEMMA LoginNext == L!Next => LL!Next
<1>1. L!Watch => LL!Watch
  BY DEF L!Nothing, LL!Nothing, L!Watch, LL!Watch
<1>2. L!Tick \/ L!ChangePassword \/ L!RegisterBegin \/ L!SigninBegin
      => LL!Tick \/ LL!ChangePassword \/ LL!RegisterBegin \/ LL!SigninBegin
  BY DEF L!db, LL!db, L!world, LL!world, L!NoCeremony, LL!NoCeremony, L!Spend,
       LL!Spend, L!list_passkeys, LL!list_passkeys, L!has_passkeys,
       LL!has_passkeys, L!Fresh, LL!Fresh, L!RegisterBegin, LL!RegisterBegin,
       L!SigninBegin, LL!SigninBegin, L!Tick, LL!Tick, L!ChangePassword,
       LL!ChangePassword
<1>3. L!Step => LL!Step
  BY <1>2, SameGate, SameCode, SameKeys, SameCount DEF L!Step, LL!Step
<1> QED
  BY <1>1, <1>3 DEF L!Next, LL!Next

LEMMA LoginVars == UNCHANGED loginVars => UNCHANGED LL!vars
  BY DEF loginVars, LL!vars, LL!world, LL!db

LEMMA LoginBehaviour == Spec /\ part = "login" => LL!Spec
<1>1. Init /\ part = "login" => LL!Init
  BY LoginInit DEF Init
<1>2. part = "login" /\ [Next]_vars => [LL!Next]_(LL!vars)
  <2> SUFFICES ASSUME part = "login", [Next]_vars PROVE LL!Next \/ UNCHANGED LL!vars
    OBVIOUS
  <2>1. CASE SigningIn
    BY <2>1, LoginNext DEF SigningIn
  <2>2. CASE UNCHANGED vars
    BY <2>2, LoginVars DEF vars
  <2> QED
    BY <2>1, <2>2 DEF Next, SigningIn, MailArrives, Notifying, Addressing, Planning,
       Labelling, Filing, Searching, Calling
<1>3. part = "login" /\ [Next]_vars => (part = "login")'
  BY PartFixed
<1> QED
  BY <1>1, <1>2, <1>3, PTL DEF Spec, LL!Spec

-----------------------------------------------------------------------------
(* Folders: likewise                                                       *)

FF == INSTANCE FoldersProofs WITH
        Names <- FolderNames, Uids <- FiledUids, Requests <- MaxRequests, rows <- filed,
        task <- requests, left <- foldLeft

LEMMA FoldersInit == F!Init => FF!Init
  BY DEF F!Init, FF!Init

LEMMA FoldersNext == F!Next => FF!Next
  BY DEF F!Spend, FF!Spend, F!Become, FF!Become, F!Older, FF!Older, F!Changed,
       FF!Changed, F!Wrote, FF!Wrote, F!Settled, FF!Settled, F!Failed,
       FF!Failed, F!Of, FF!Of, F!insert_folder_if_new,
       FF!insert_folder_if_new, F!upsert_folder, FF!upsert_folder,
       F!remove_stale_folders, FF!remove_stale_folders, F!touch_all_folders,
       FF!touch_all_folders, F!is_folder_cache_fresh,
       FF!is_folder_cache_fresh, F!MessagesMove, FF!MessagesMove,
       F!MoveAllowed, FF!MoveAllowed, F!RenameAllowed, FF!RenameAllowed,
       F!Renamed, FF!Renamed, F!is_system_folder, FF!is_system_folder,
       F!validate_folder_name, FF!validate_folder_name, F!list_folders,
       FF!list_folders, F!imap_create, FF!imap_create, F!imap_rename,
       FF!imap_rename, F!imap_delete, FF!imap_delete, F!List, FF!List,
       F!ListInsert, FF!ListInsert, F!ListPrune, FF!ListPrune, F!ListTouch,
       FF!ListTouch, F!create_folder, FF!create_folder, F!CreateCached,
       FF!CreateCached, F!rename_folder, FF!rename_folder, F!RenameRows,
       FF!RenameRows, F!rename_folder_in_cache, FF!rename_folder_in_cache,
       F!delete_folder, FF!delete_folder, F!DeleteRows, FF!DeleteRows,
       F!delete_folder_and_messages, FF!delete_folder_and_messages,
       F!list_messages, FF!list_messages, F!EnsureFolder, FF!EnsureFolder,
       F!StoreMessage, FF!StoreMessage, F!Elsewhere, FF!Elsewhere, F!Expire,
       FF!Expire, F!Drop, FF!Drop, F!Step, FF!Step, F!Next, FF!Next

LEMMA FoldersVars == UNCHANGED foldersVars => UNCHANGED FF!vars
  BY DEF foldersVars, FF!vars

LEMMA FoldersBehaviour == Spec /\ part = "folders" => FF!Spec
<1>1. Init /\ part = "folders" => FF!Init
  BY FoldersInit DEF Init
<1>2. part = "folders" /\ [Next]_vars => [FF!Next]_(FF!vars)
  <2> SUFFICES ASSUME part = "folders", [Next]_vars PROVE FF!Next \/ UNCHANGED FF!vars
    OBVIOUS
  <2>1. CASE Filing
    BY <2>1, FoldersNext DEF Filing
  <2>2. CASE UNCHANGED vars
    BY <2>2, FoldersVars DEF vars
  <2> QED
    BY <2>1, <2>2 DEF Next, SigningIn, MailArrives, Notifying, Addressing, Planning,
       Labelling, Filing, Searching, Calling
<1>3. part = "folders" /\ [Next]_vars => (part = "folders")'
  BY PartFixed
<1> QED
  BY <1>1, <1>2, <1>3, PTL DEF Spec, FF!Spec

-----------------------------------------------------------------------------
(* The theorems                                                            *)

\* A password opens a session only if it was enough at some time while the
\* request ran, alone or with the code that was taken (routes/auth.rs:257).
THEOREM UserPasswordLogin == Spec => []PasswordLoginAllowed
<1>1. LL!Spec => []LL!PasswordLoginAllowed
  BY UserDataAssumption, LL!PasswordNeedsGate
<1>2. /\ LL!PasswordLoginAllowed => PasswordLoginAllowed
      /\ ~(part = "login") /\ [Next]_vars => (~(part = "login"))'
      /\ ~(part = "login") => PasswordLoginAllowed
  BY PartFixed DEF PasswordLoginAllowed, L!PasswordLoginAllowed, LL!PasswordLoginAllowed
<1> QED
  BY <1>1, <1>2, LoginBehaviour, PTL DEF Spec

\* A key deleted after its challenge was handed out opens no session
\* (routes/mfa.rs:589).
THEOREM UserKeyRefused == Spec => []DeletedKeyRefused
<1>1. LL!Spec => []LL!DeletedKeyRefused
  BY UserDataAssumption, LL!KeyStillThere
<1>2. /\ LL!DeletedKeyRefused => DeletedKeyRefused
      /\ ~(part = "login") /\ [Next]_vars => (~(part = "login"))'
      /\ ~(part = "login") => DeletedKeyRefused
  BY PartFixed DEF DeletedKeyRefused, L!DeletedKeyRefused, LL!DeletedKeyRefused
<1> QED
  BY <1>1, <1>2, LoginBehaviour, PTL DEF Spec

\* A password rejected to the loop is neither probed nor given to IDLE again
\* (push/worker.rs:171).
THEOREM UserNeverRetried == Spec => []NeverRetried
<1>1. P!Spec => []P!NeverRetried
  BY UserDataAssumption, PushNeverRetried
<1>2. /\ P!NeverRetried => NeverRetried
      /\ ~(part = "push") /\ [Next]_vars => (~(part = "push"))'
      /\ ~(part = "push") => NeverRetried
  BY PartFixed DEF NeverRetried
<1> QED
  BY <1>1, <1>2, PushBehaviour, PTL DEF Spec

\* The cached folders are the server's, but for the names whose last change no
\* request has cached (routes/folders.rs:105).
THEOREM UserFoldersAccounted == Spec => []FoldersAccounted
<1>1. FF!Spec => []FF!FoldersAccounted
  BY UserDataAssumption, FF!FoldersStayAccounted
<1>2. /\ FF!FoldersAccounted => FoldersAccounted
      /\ ~(part = "folders") /\ [Next]_vars => (~(part = "folders"))'
      /\ ~(part = "folders") => FoldersAccounted
  BY PartFixed DEF FoldersAccounted, F!FoldersAccounted, FF!FoldersAccounted
<1> QED
  BY <1>1, <1>2, FoldersBehaviour, PTL DEF Spec

\* A cached message stays as long as its folder, but for names of which somebody
\* wrote the wrong thing and the second of two first pages (db/folders.rs:54).
THEOREM UserMailKept == Spec => MailKept
<1>1. FF!Spec => FF!MailKept
  BY UserDataAssumption, FF!MailStays
<1> DEFINE Kept == \A r \in filed \ filed' :
             \/ r[1] \notin server \/ r[1] \in unsettled'
             \/ \E t \in Tasks : F!EnsureFolder(t) /\ requests[t].name = r[1]
<1>4. FF!MailKept => [][Kept]_(FF!vars)
  <2>1. ASSUME NEW t \in Tasks PROVE FF!EnsureFolder(t) = F!EnsureFolder(t)
    BY DEF F!EnsureFolder, FF!EnsureFolder, F!Become, FF!Become, F!upsert_folder,
       FF!upsert_folder, F!Of, FF!Of, F!Failed, FF!Failed, F!Changed, FF!Changed,
       F!Older, FF!Older
  <2>2. [\A r \in filed \ filed' :
             \/ r[1] \notin server \/ r[1] \in unsettled'
             \/ \E t \in Tasks : FF!EnsureFolder(t) /\ requests[t].name = r[1]]_(FF!vars)
        => [Kept]_(FF!vars)
    BY <2>1
  <2> QED BY <2>2, PTL DEF FF!MailKept
<1>2. [Kept]_(FF!vars) => [part = "folders" => Kept]_vars
  BY DEF FF!vars, vars, foldersVars
<1>3. /\ ~(part = "folders") /\ [Next]_vars => (~(part = "folders"))'
      /\ ~(part = "folders") => [part = "folders" => Kept]_vars
  BY PartFixed
<1> QED
  BY <1>1, <1>2, <1>3, <1>4, FoldersBehaviour, PTL DEF Spec, MailKept

\* A message nobody asked to delete is in one of the two folders, however a move
\* is cut short (imap/client.rs:1040).
THEOREM UserNothingLost == Spec => []NothingLost
<1>1. I!Spec => []I!NothingLost
  BY ImapNothingLost
<1>2. /\ I!NothingLost => NothingLost
      /\ ~(part = "imap") /\ [Next]_vars => (~(part = "imap"))'
      /\ ~(part = "imap") => NothingLost
  BY PartFixed DEF NothingLost
<1> QED
  BY <1>1, <1>2, ImapBehaviour, PTL DEF Spec

\* No message falls between two cycles: what a cycle stored has been read by a task,
\* or lies above the mark of one that will read it (realtime/worker.rs:187).
THEOREM UserNoticed == Spec => []Noticed
<1>1. N!Spec => []N!Noticed
  BY NewMailNoticed
<1>2. /\ N!Noticed => Noticed
      /\ ~(part = "newmail") /\ [Next]_vars => (~(part = "newmail"))'
      /\ ~(part = "newmail") => Noticed
  BY PartFixed DEF Noticed
<1> QED
  BY <1>1, <1>2, NewMailBehaviour, PTL DEF Spec

\* The second answer to a sender is decided later than the first, whatever two tasks
\* look up at the same time and whatever is purged (db/vacation.rs,
\* should_reply_and_record).
THEOREM UserFirstReplyKept == Spec => []FirstReplyKept
<1>1. N!Spec => []N!FirstReplyKept
  BY NewMailFirstReply
<1>2. /\ N!FirstReplyKept => FirstReplyKept
      /\ ~(part = "newmail") /\ [Next]_vars => (~(part = "newmail"))'
      /\ ~(part = "newmail") => FirstReplyKept
  BY PartFixed DEF FirstReplyKept
<1> QED
  BY <1>1, <1>2, NewMailBehaviour, PTL DEF Spec

\* An answer names no message twice and none of an excluded folder, and when it is
\* not full it leaves out no row whose header fits, but for the rows that changed
\* while the search was under way (routes/search.rs:424).
THEOREM UserSearchSound == Spec => []SearchSound
<1>1. S!Spec => []S!SearchSound
  BY SearchStaysSound
<1>2. /\ S!SearchSound => SearchSound
      /\ ~(part = "search") /\ [Next]_vars => (~(part = "search"))'
      /\ ~(part = "search") => SearchSound
  BY PartFixed DEF SearchSound
<1> QED
  BY <1>1, <1>2, SearchBehaviour, PTL DEF Spec

\* A connection that comes out of the pool still stands, unless the network cut it
\* or a call put it back with an answer unread (imap/session_cache.rs:22).
THEOREM UserHandedOutAlive == Spec => HandedOutAlive
<1>1. I!Spec => I!HandedOutAlive
  BY ImapHandedOutAlive
<1> DEFINE Alive == \A t \in Tasks : calls[t] = None /\ calls'[t] # None /\ calls'[t].conn # None =>
                       sock[calls'[t].conn] = "open" \/ calls'[t].conn \in spoilt
<1>2. [Alive]_(I!vars) => [part = "imap" => Alive]_vars
  BY DEF I!vars, I!mail, vars, imapVars
<1>3. /\ ~(part = "imap") /\ [Next]_vars => (~(part = "imap"))'
      /\ ~(part = "imap") => [part = "imap" => Alive]_vars
  BY PartFixed
<1> QED
  BY <1>1, <1>2, <1>3, ImapBehaviour, PTL DEF Spec, HandedOutAlive, I!HandedOutAlive

\* Nobody is suggested twice, whatever the case the addresses are written in, and the
\* list of all leaves no one out (routes/contacts.rs:192).
THEOREM UserSuggestedOnce == Spec => []SuggestedOnce
<1>1. A!Spec => []A!SuggestedOnce
  BY ContactsSuggestedOnce
<1>2. /\ A!SuggestedOnce => SuggestedOnce
      /\ ~(part = "contacts") /\ [Next]_vars => (~(part = "contacts"))'
      /\ ~(part = "contacts") => SuggestedOnce
  BY PartFixed DEF SuggestedOnce
<1> QED
  BY <1>1, <1>2, ContactsBehaviour, PTL DEF Spec

\* What a window shows takes place in it, and neither an event nor an occurrence that
\* does is left out (db/calendar.rs:206).
THEOREM UserListSound == Spec => []ListSound
<1>1. C!Spec => []C!ListSound
  BY CalendarListSound
<1>2. /\ C!ListSound => ListSound
      /\ ~(part = "calendar") /\ [Next]_vars => (~(part = "calendar"))'
      /\ ~(part = "calendar") => ListSound
  BY PartFixed DEF ListSound
<1> QED
  BY <1>1, <1>2, CalendarBehaviour, PTL DEF Spec

\* The definitions of the types are the same in the instances that are proved about.
LEMMA SameLoginTypes == LL!TypeOK => L!TypeOK
  BY DEF LL!TypeOK, L!TypeOK, LL!Pcs, L!Pcs, LL!Locals, L!Locals, LL!Kinds, L!Kinds, LL!Codes, L!Codes,
     LL!NoCode, L!NoCode, LL!list_passkeys, L!list_passkeys

LEMMA SameFolderTypes == FF!TypeOK => F!TypeOK
  BY DEF FF!TypeOK, F!TypeOK, FF!Jobs, F!Jobs

LEMMA PushTypes == P!Spec => []P!TypeOK
<1>1. PushInv => P!TypeOK
  BY DEF PushInv
<1>2. P!Spec => []PushInv
  BY PushInvariant, UserDataAssumption
<1> QED
  BY <1>1, <1>2, PTL

Parts == {"login", "newmail", "push", "contacts", "calendar", "labels", "folders", "search", "imap"}

\* Whichever part it is, its variables keep their types: in particular no link outlives
\* its tag or its message, no address is two contacts', nothing is kept for a user without
\* a directory, and a row that is cached is of a folder that is (db/*.rs).
THEOREM UserTypeCorrect == Spec => []TypeOK
<1>1. Spec => [](part = "login" => L!TypeOK)
  <2>1. LL!Spec => []LL!TypeOK
    BY LL!LoginTypeCorrect, UserDataAssumption
  <2>2. /\ LL!TypeOK => (part = "login" => L!TypeOK)
        /\ ~(part = "login") /\ [Next]_vars => (~(part = "login"))'
        /\ ~(part = "login") => (part = "login" => L!TypeOK)
    BY PartFixed, SameLoginTypes
  <2> QED
    BY <2>1, <2>2, LoginBehaviour, PTL DEF Spec
<1>2. Spec => [](part = "newmail" => N!TypeOK)
  <2>1. N!Spec => []N!TypeOK
    BY NewMailTypeCorrect
  <2>2. /\ N!TypeOK => (part = "newmail" => N!TypeOK)
        /\ ~(part = "newmail") /\ [Next]_vars => (~(part = "newmail"))'
        /\ ~(part = "newmail") => (part = "newmail" => N!TypeOK)
    BY PartFixed
  <2> QED
    BY <2>1, <2>2, NewMailBehaviour, PTL DEF Spec
<1>3. Spec => [](part = "push" => P!TypeOK)
  <2>1. P!Spec => []P!TypeOK
    BY PushTypes
  <2>2. /\ P!TypeOK => (part = "push" => P!TypeOK)
        /\ ~(part = "push") /\ [Next]_vars => (~(part = "push"))'
        /\ ~(part = "push") => (part = "push" => P!TypeOK)
    BY PartFixed
  <2> QED
    BY <2>1, <2>2, PushBehaviour, PTL DEF Spec
<1>4. Spec => [](part = "contacts" => A!TypeOK)
  <2>1. A!Spec => []A!TypeOK
    BY ContactsTypeCorrect
  <2>2. /\ A!TypeOK => (part = "contacts" => A!TypeOK)
        /\ ~(part = "contacts") /\ [Next]_vars => (~(part = "contacts"))'
        /\ ~(part = "contacts") => (part = "contacts" => A!TypeOK)
    BY PartFixed
  <2> QED
    BY <2>1, <2>2, ContactsBehaviour, PTL DEF Spec
<1>5. Spec => [](part = "calendar" => C!TypeOK)
  <2>1. C!Spec => []C!TypeOK
    BY CalendarTypeCorrect
  <2>2. /\ C!TypeOK => (part = "calendar" => C!TypeOK)
        /\ ~(part = "calendar") /\ [Next]_vars => (~(part = "calendar"))'
        /\ ~(part = "calendar") => (part = "calendar" => C!TypeOK)
    BY PartFixed
  <2> QED
    BY <2>1, <2>2, CalendarBehaviour, PTL DEF Spec
<1>6. Spec => [](part = "labels" => B!TypeOK)
  <2>1. B!Spec => []B!TypeOK
    BY LabelsTypeCorrect
  <2>2. /\ B!TypeOK => (part = "labels" => B!TypeOK)
        /\ ~(part = "labels") /\ [Next]_vars => (~(part = "labels"))'
        /\ ~(part = "labels") => (part = "labels" => B!TypeOK)
    BY PartFixed
  <2> QED
    BY <2>1, <2>2, LabelsBehaviour, PTL DEF Spec
<1>7. Spec => [](part = "folders" => F!TypeOK)
  <2>1. FF!Spec => []FF!TypeOK
    BY FF!FoldersTypeCorrect, UserDataAssumption
  <2>2. /\ FF!TypeOK => (part = "folders" => F!TypeOK)
        /\ ~(part = "folders") /\ [Next]_vars => (~(part = "folders"))'
        /\ ~(part = "folders") => (part = "folders" => F!TypeOK)
    BY PartFixed, SameFolderTypes
  <2> QED
    BY <2>1, <2>2, FoldersBehaviour, PTL DEF Spec
<1>8. Spec => [](part = "search" => S!TypeOK)
  <2>1. S!Spec => []S!TypeOK
    BY SearchTypeCorrect
  <2>2. /\ S!TypeOK => (part = "search" => S!TypeOK)
        /\ ~(part = "search") /\ [Next]_vars => (~(part = "search"))'
        /\ ~(part = "search") => (part = "search" => S!TypeOK)
    BY PartFixed
  <2> QED
    BY <2>1, <2>2, SearchBehaviour, PTL DEF Spec
<1>9. Spec => [](part = "imap" => I!TypeOK)
  <2>1. I!Spec => []I!TypeOK
    BY ImapTypeCorrect
  <2>2. /\ I!TypeOK => (part = "imap" => I!TypeOK)
        /\ ~(part = "imap") /\ [Next]_vars => (~(part = "imap"))'
        /\ ~(part = "imap") => (part = "imap" => I!TypeOK)
    BY PartFixed
  <2> QED
    BY <2>1, <2>2, ImapBehaviour, PTL DEF Spec
<1>10. /\ Init => part \in Parts
       /\ part \in Parts /\ [Next]_vars => (part \in Parts)'
  BY PartFixed DEF Init, Parts
<1>11. /\ part \in Parts
       /\ part = "login" => L!TypeOK
       /\ part = "newmail" => N!TypeOK
       /\ part = "push" => P!TypeOK
       /\ part = "contacts" => A!TypeOK
       /\ part = "calendar" => C!TypeOK
       /\ part = "labels" => B!TypeOK
       /\ part = "folders" => F!TypeOK
       /\ part = "search" => S!TypeOK
       /\ part = "imap" => I!TypeOK
       => TypeOK
  BY DEF TypeOK, Parts
<1> QED
  BY <1>1, <1>2, <1>3, <1>4, <1>5, <1>6, <1>7, <1>8, <1>9, <1>10, <1>11, PTL DEF Spec

=============================================================================
