------------------------------- MODULE Outbox -------------------------------
(***************************************************************************)
(* The send queue of one user: the `outbox' table, the worker task that    *)
(* drains it, and the handlers that enqueue, undo, retry and resume.       *)
(* Users share nothing here: the table, the worker and its bell are per    *)
(* user_hash.                                                              *)
(*                                                                         *)
(*   backend/src/db/outbox.rs              the table (variable row)        *)
(*   backend/src/realtime/outbox_worker.rs the worker (pc .. bell)         *)
(*   backend/src/routes/outbox.rs          the handlers (pend, del)        *)
(*   backend/src/routes/send.rs            perform_send                    *)
(*                                                                         *)
(* Time.  A timestamp is held as the ticks still to go until it: a row is  *)
(* due when delay = 0.  Tick lets one unit of time pass for every running  *)
(* timer at once, so deadlines keep their order and no clock grows.        *)
(* list_due sorts by send_after; the model takes the due rows in any order.*)
(*                                                                         *)
(* Publishing on the event bus makes every connected client refetch the    *)
(* list, so the bus is represented by `unseen': the entries whose row has  *)
(* changed since the last publication.                                     *)
(***************************************************************************)
EXTENDS Integers, FiniteSets

CONSTANTS
    Ids,          \* outbox ids; each is one Uuid::new_v4(), used once
    None,         \* no entry
    MaxAttempts,  \* MAX_ATTEMPTS
    BaseBackoff,  \* 30 s, in ticks
    MaxBackoff,   \* 1800 s, in ticks
    IdleTimeout,  \* WORKER_IDLE_TIMEOUT_SECS, in ticks
    UndoDelays,   \* the values of undo_send_delay, in ticks
    MaxFaults     \* bound: crashes, database errors, dropped requests and
                  \* password changes in one behaviour

ASSUME OutboxAssumption ==
    /\ None \notin Ids
    /\ MaxAttempts \in Nat \ {0}
    /\ BaseBackoff \in Nat
    /\ MaxBackoff \in Nat
    /\ IdleTimeout \in Nat
    /\ UndoDelays \subseteq Nat
    /\ MaxFaults \in Nat

VARIABLES
    row,        \* the table: Ids -> [state, delay, attempts]
    pend,       \* POST handlers between their write and their wake-up
    del,        \* DELETE handlers between their read, their write and the reply
    session,    \* the login this user has: "none", "valid", "stale" password
    pc,         \* where the worker task is
    due,        \* entries of the last list_due not yet processed
    cur,        \* the entry being processed
    wait,       \* ticks left of the worker's sleep
    creds,      \* the password the worker was spawned with
    bell,       \* permits the Notify holds: 0 or 1
    submitted,  \* send_message calls per id since it was last (re)queued
    accepted,   \* ids whose send_message returned Ok
    filed,      \* ids with a copy appended to the Sent folder
    drafts,     \* ids whose originating draft still exists
    cancelled,  \* ids a DELETE was answered "cancelled" for
    unseen,     \* ids changed since the last OutboxStateChanged event
    faults      \* faults so far

tasks  == <<pc, due, cur, wait, creds>>
mail   == <<submitted, accepted, filed, drafts>>
client == <<pend, del, session, cancelled>>
vars   == <<row, client, tasks, bell, mail, unseen, faults>>

States   == {"absent", "scheduled", "sending", "failed"}
Snapshot == [id : Ids, attempts : Nat]
NoEntry  == [id |-> None, attempts |-> 0]
Password == {"none", "valid", "stale"}

\* No task has been spawned since the process started, or the last one ended.
Stopped == {"none", "finished"}
Asleep  == {"sleep", "idle", "dbsleep"}
Sending == {"tell_sending", "send", "file", "cleanup", "remove", "transient", "permanent"}
\* The result is written, or its write has failed; the event is still to come.
Settled == {"tell_sent", "tell_failed"}
PCs     == Stopped \cup Asleep \cup Sending \cup Settled \cup {"list", "pick", "exiting"}

(***************************************************************************)
(* db/outbox.rs: each operator is one SQL statement.                       *)
(***************************************************************************)
Present(r, e) == r[e].state # "absent"

Row(s, d, a) == [state |-> s, delay |-> d, attempts |-> a]

enqueue(r, e, d) == [r EXCEPT ![e] = Row("scheduled", d, 0)]

\* Mutant: the worker ignores the undo deadline.
list_due_ignoring_deadline(r) ==
    {[id |-> e, attempts |-> r[e].attempts] : e \in {x \in Ids : r[x].state = "scheduled"}}

\* Mutant: also pick up rows a previous process left in `sending'.
list_due_with_sending(r) ==
    {[id |-> e, attempts |-> r[e].attempts] :
        e \in {x \in Ids : r[x].state \in {"scheduled", "sending"} /\ r[x].delay = 0}}

list_due(r) ==
    {[id |-> e, attempts |-> r[e].attempts] :
        e \in {x \in Ids : r[x].state = "scheduled" /\ r[x].delay = 0}}

\* MIN(send_after) of the scheduled rows, as ticks to go: a set of one element,
\* or of none where SQL answers NULL.
next_send_after(r) ==
    LET scheduled == {e \in Ids : r[e].state = "scheduled"}
    IN  {d \in {r[e].delay : e \in scheduled} : \A e \in scheduled : d <= r[e].delay}

\* UPDATE .. WHERE id = ?1: a missing row is no error.
mark_sending(r, e) ==
    IF Present(r, e) THEN [r EXCEPT ![e] = Row("sending", r[e].delay, r[e].attempts)] ELSE r

\* Mutant: the attempt is not counted.
mark_retry_uncounted(r, e, d) ==
    IF Present(r, e) THEN [r EXCEPT ![e] = Row("scheduled", d, r[e].attempts)] ELSE r

\* Mutant: an upsert, which brings a deleted row back.
mark_retry_upsert(r, e, d) == [r EXCEPT ![e] = Row("scheduled", d, r[e].attempts + 1)]

mark_retry(r, e, d) ==
    IF Present(r, e) THEN [r EXCEPT ![e] = Row("scheduled", d, r[e].attempts + 1)] ELSE r

mark_failed(r, e) ==
    IF Present(r, e) THEN [r EXCEPT ![e] = Row("failed", r[e].delay, r[e].attempts)] ELSE r

delete(r, e) == [r EXCEPT ![e] = Row("absent", 0, 0)]

requeue(r, e) == [r EXCEPT ![e] = Row("scheduled", 0, 0)]

(***************************************************************************)
(* backoff_duration: 30 s << attempt_count.clamp(0, 6), at most 30 minutes.*)
(***************************************************************************)
Shift == <<1, 2, 4, 8, 16, 32, 64>>
backoff_duration(a) ==
    LET secs == BaseBackoff * Shift[(IF a > 6 THEN 6 ELSE a) + 1]
    IN  IF secs < MaxBackoff THEN secs ELSE MaxBackoff

(***************************************************************************)
(* ensure_worker(..).notify_one().  The shard lock makes check and spawn   *)
(* one step.  A task that has left its loop but is not yet finished        *)
(* ("exiting") still counts as running, so its bell is the one rung; a     *)
(* ring after the check and before the exit has the same effect.           *)
(***************************************************************************)
\* Mutant: a worker that ended is not replaced.
Ring_without_respawn ==
    /\ bell' = 1
    /\ IF pc = "none"
       THEN /\ pc' = "list"
            /\ due' = {} /\ cur' = NoEntry /\ wait' = 0
            /\ creds' = session
       ELSE UNCHANGED tasks

Ring ==
    /\ bell' = 1
    /\ IF pc \in Stopped
       THEN /\ pc' = "list"
            /\ due' = {} /\ cur' = NoEntry /\ wait' = 0
            /\ creds' = session
       ELSE UNCHANGED tasks

(***************************************************************************)
(* Handlers.                                                               *)
(***************************************************************************)
\* enqueue_handler up to its database closure: INSERT with send_after in the future.
EnqueueInsert(e) ==
    /\ session # "none"
    /\ pend[e] = "new"
    /\ \E d \in UndoDelays : row' = enqueue(row, e, d)
    /\ pend' = [pend EXCEPT ![e] = "written"]
    /\ unseen' = unseen \cup {e}
    /\ UNCHANGED <<del, session, cancelled, tasks, bell, mail, faults>>

\* enqueue reads the row back with a statement of its own.  A worker that was
\* already running may have sent and deleted it: the handler then answers 500
\* and rings nobody.
EnqueueReadBack(e) ==
    /\ pend[e] = "written"
    /\ pend' = [pend EXCEPT ![e] = IF Present(row, e) THEN "stored" ELSE "none"]
    /\ UNCHANGED <<row, del, session, cancelled, tasks, bell, mail, unseen, faults>>

\* retry_handler's UPDATE .. WHERE state = 'failed'.
RetryUpdate(e) ==
    /\ session # "none"
    /\ pend[e] = "none"
    /\ row[e].state = "failed"
    /\ row' = requeue(row, e)
    /\ pend' = [pend EXCEPT ![e] = "stored"]
    /\ submitted' = [submitted EXCEPT ![e] = 0]
    /\ unseen' = unseen \cup {e}
    /\ UNCHANGED <<del, session, cancelled, tasks, bell, accepted, filed, drafts, faults>>

\* How enqueue_handler and retry_handler both end: wake the worker, publish.
RingAndPublish(e) ==
    /\ pend[e] = "stored"
    /\ pend' = [pend EXCEPT ![e] = "none"]
    /\ Ring
    /\ unseen' = {}
    /\ UNCHANGED <<row, del, session, cancelled, mail, faults>>

\* delete_handler's closure is two statements on a pooled connection, not a
\* transaction: SELECT, refuse if `sending' ...
DeleteCheck(e) ==
    /\ session # "none"
    /\ del[e] = "none"
    /\ row[e].state \in {"scheduled", "failed"}
    /\ del' = [del EXCEPT ![e] = "checked"]
    /\ UNCHANGED <<row, pend, session, cancelled, tasks, bell, mail, unseen, faults>>

\* ... then DELETE WHERE id, whatever the state has become.
DeleteRow(e) ==
    /\ del[e] = "checked"
    /\ row' = delete(row, e)
    /\ del' = [del EXCEPT ![e] = "removed"]
    /\ unseen' = unseen \cup {e}
    /\ UNCHANGED <<pend, session, cancelled, tasks, bell, mail, faults>>

\* Publish "cancelled" and answer "cancelled".
DeletePublish(e) ==
    /\ del[e] = "removed"
    /\ del' = [del EXCEPT ![e] = "none"]
    /\ cancelled' = cancelled \cup {e}
    /\ unseen' = {}
    /\ UNCHANGED <<row, pend, session, tasks, bell, mail, faults>>

\* A login checks the password with the mail server, then loads the page.
Login ==
    /\ session # "valid"
    /\ session' = "valid"
    /\ unseen' = {}
    /\ UNCHANGED <<row, pend, del, cancelled, tasks, bell, mail, faults>>

\* get_session, which the frontend calls once it is logged in.
GetSession ==
    /\ session # "none"
    /\ Ring
    /\ UNCHANGED <<row, client, mail, unseen, faults>>

(***************************************************************************)
(* worker_loop.                                                            *)
(***************************************************************************)
ListDue ==
    /\ pc = "list"
    /\ due' = list_due(row)
    /\ pc' = "pick"
    /\ UNCHANGED <<row, client, cur, wait, creds, bell, mail, unseen, faults>>

\* process_entry begins: the row is marked `sending', the event follows.
MarkSending(d) ==
    /\ pc = "pick"
    /\ row' = mark_sending(row, d.id)
    /\ due' = due \ {d}
    /\ cur' = d
    /\ pc' = "tell_sending"
    /\ unseen' = unseen \cup {d.id}
    /\ UNCHANGED <<client, wait, creds, bell, mail, faults>>

\* publish is awaited after each write; the entry is done with after its result.
Done == pc' = "pick" /\ cur' = NoEntry

\* Mutant: a permanent failure publishes nothing.
Publish_not_failed ==
    /\ \/ pc = "tell_sending" /\ pc' = "send" /\ cur' = cur
       \/ pc \in Settled /\ Done
    /\ unseen' = IF pc = "tell_failed" THEN unseen ELSE {}
    /\ UNCHANGED <<row, client, due, wait, creds, bell, mail, faults>>

Publish ==
    /\ \/ pc = "tell_sending" /\ pc' = "send" /\ cur' = cur
       \/ pc \in Settled /\ Done
    /\ unseen' = {}
    /\ UNCHANGED <<row, client, due, wait, creds, bell, mail, faults>>

NextDeadline ==
    /\ pc = "pick" /\ due = {}
    /\ \/ next_send_after(row) = {} /\ pc' = "idle" /\ wait' = IdleTimeout
       \/ pc' = "sleep" /\ wait' \in next_send_after(row)
    /\ UNCHANGED <<row, client, due, cur, creds, bell, mail, unseen, faults>>

\* select!: either branch may win when both are ready.
WakeByBell ==
    /\ pc \in {"sleep", "idle"}
    /\ bell = 1
    /\ bell' = 0
    /\ pc' = "list" /\ wait' = 0
    /\ UNCHANGED <<row, client, due, cur, creds, mail, unseen, faults>>

\* The sleep after a database error does not listen to the bell.
WakeByTimer ==
    /\ pc \in {"sleep", "dbsleep"}
    /\ wait = 0
    /\ pc' = "list"
    /\ UNCHANGED <<row, client, due, cur, wait, creds, bell, mail, unseen, faults>>

IdleExit ==
    /\ pc = "idle"
    /\ wait = 0
    /\ pc' = "exiting"
    /\ UNCHANGED <<row, client, due, cur, wait, creds, bell, mail, unseen, faults>>

Finish ==
    /\ pc = "exiting"
    /\ pc' = "finished"
    /\ UNCHANGED <<row, client, due, cur, wait, creds, bell, mail, unseen, faults>>

(***************************************************************************)
(* perform_send, and what process_entry does with its result.              *)
(***************************************************************************)
\* Never reaches SMTP: a missing identity or an unreadable attachment is final,
\* a missing smtp_host a ServiceUnavailable like any other.
SetupFails ==
    /\ pc = "send"
    /\ pc' \in {"permanent", "transient"}
    /\ UNCHANGED <<row, client, due, cur, wait, creds, bell, mail, unseen, faults>>

Submit(e) == submitted' = [submitted EXCEPT ![e] = @ + 1]

\* "Authentication failed" is the one SMTP error is_retryable refuses.
SmtpRejectsLogin ==
    /\ pc = "send" /\ creds = "stale"
    /\ Submit(cur.id)
    /\ pc' = "permanent"
    /\ UNCHANGED <<row, client, due, cur, wait, creds, bell, accepted, filed, drafts, unseen, faults>>

\* Mutant: the error is logged and the send goes on as if it had worked.
SmtpFails_ignored ==
    /\ pc = "send"
    /\ Submit(cur.id)
    /\ pc' = "file"
    /\ UNCHANGED <<row, client, due, cur, wait, creds, bell, accepted, filed, drafts, unseen, faults>>

\* Every other SMTP error, the lost reply to an accepted message included.
SmtpFails ==
    /\ pc = "send"
    /\ Submit(cur.id)
    /\ pc' = "transient"
    /\ UNCHANGED <<row, client, due, cur, wait, creds, bell, accepted, filed, drafts, unseen, faults>>

SmtpAccepts ==
    /\ pc = "send" /\ creds = "valid"
    /\ Submit(cur.id)
    /\ accepted' = accepted \cup {cur.id}
    /\ pc' = "file"
    /\ UNCHANGED <<row, client, due, cur, wait, creds, bell, filed, drafts, unseen, faults>>

\* Best effort: a failed APPEND is only logged.
AppendToSent ==
    /\ pc = "file"
    /\ \/ filed' = filed \cup {cur.id}
       \/ UNCHANGED filed
    /\ pc' = "cleanup"
    /\ UNCHANGED <<row, client, due, cur, wait, creds, bell, submitted, accepted, drafts, unseen, faults>>

\* cleanup_draft, best effort too.
CleanupDraft ==
    /\ pc = "cleanup"
    /\ \/ drafts' = drafts \ {cur.id}
       \/ UNCHANGED drafts
    /\ pc' = "remove"
    /\ UNCHANGED <<row, client, due, cur, wait, creds, bell, submitted, accepted, filed, unseen, faults>>

RemoveSent ==
    /\ pc = "remove"
    /\ row' = delete(row, cur.id)
    /\ pc' = "tell_sent"
    /\ unseen' = unseen \cup {cur.id}
    /\ UNCHANGED <<client, due, cur, wait, creds, bell, mail, faults>>

\* Mutant: off by one in the attempt limit.
CanRetry_one_more == pc = "transient" /\ cur.attempts < MaxAttempts

CanRetry == pc = "transient" /\ cur.attempts + 1 < MaxAttempts

\* The one outcome that publishes nothing.
MarkRetry ==
    /\ CanRetry
    /\ row' = mark_retry(row, cur.id, backoff_duration(cur.attempts))
    /\ Done
    /\ unseen' = unseen \cup {cur.id}
    /\ UNCHANGED <<client, due, wait, creds, bell, mail, faults>>

MarkFailed ==
    /\ pc \in {"transient", "permanent"} /\ ~CanRetry
    /\ row' = mark_failed(row, cur.id)
    /\ pc' = "tell_failed"
    /\ unseen' = unseen \cup {cur.id}
    /\ UNCHANGED <<client, due, cur, wait, creds, bell, mail, faults>>

(***************************************************************************)
(* Time and faults.                                                        *)
(***************************************************************************)
Minus1(n) == IF n > 0 THEN n - 1 ELSE 0

\* A tick is long against the scheduler: none passes while a sleeping worker
\* has a ring it has not been polled for.
Tick ==
    /\ ~(bell = 1 /\ pc \in {"sleep", "idle"})
    /\ (pc \in Asleep /\ wait > 0) \/ \E e \in Ids : row[e].delay > 0
    /\ row' = [e \in Ids |-> Row(row[e].state, Minus1(row[e].delay), row[e].attempts)]
    /\ wait' = IF pc \in Asleep THEN Minus1(wait) ELSE wait
    /\ UNCHANGED <<client, pc, due, cur, creds, bell, mail, unseen, faults>>

Fault == faults < MaxFaults /\ faults' = faults + 1

\* with_user_db fails where the loop reads: it sleeps the idle timeout.
ListFails ==
    /\ Fault
    /\ pc = "list" \/ (pc = "pick" /\ due = {})
    /\ pc' = "dbsleep" /\ wait' = IdleTimeout
    /\ UNCHANGED <<row, client, due, cur, creds, bell, mail, unseen>>

\* mark_sending fails: the entry is skipped this time round.
MarkSendingFails(d) ==
    /\ Fault
    /\ pc = "pick"
    /\ due' = due \ {d}
    /\ UNCHANGED <<row, client, pc, cur, wait, creds, bell, mail, unseen>>

\* The write of a result fails: `let _ =' drops the error, and the event of
\* the result is published all the same.
SettleFails ==
    /\ Fault
    /\ \/ pc = "remove" /\ pc' = "tell_sent" /\ cur' = cur
       \/ CanRetry /\ Done
       \/ pc \in {"transient", "permanent"} /\ ~CanRetry /\ pc' = "tell_failed" /\ cur' = cur
    /\ UNCHANGED <<row, client, due, wait, creds, bell, mail, unseen>>

\* The client drops its connection and the handler's future with it.
RequestDropped(e) ==
    /\ Fault
    /\ \/ /\ pend[e] \in {"written", "stored"}
          /\ pend' = [pend EXCEPT ![e] = "none"]
          /\ UNCHANGED del
       \/ /\ del[e] = "removed"
          /\ del' = [del EXCEPT ![e] = "none"]
          /\ UNCHANGED pend
    /\ UNCHANGED <<row, session, cancelled, tasks, bell, mail, unseen>>

PasswordChange ==
    /\ Fault
    /\ session = "valid" \/ creds = "valid"
    /\ session' = IF session = "valid" THEN "stale" ELSE session
    /\ creds' = IF creds = "valid" THEN "stale" ELSE creds
    /\ UNCHANGED <<row, pend, del, cancelled, pc, due, cur, wait, bell, mail, unseen>>

\* Only the database survives; sessions and credentials are memory.
Crash ==
    /\ Fault
    /\ pc' = "none" /\ due' = {} /\ cur' = NoEntry /\ wait' = 0 /\ creds' = "none"
    /\ bell' = 0
    /\ session' = "none"
    /\ pend' = [e \in Ids |-> IF pend[e] = "new" THEN "new" ELSE "none"]
    /\ del' = [e \in Ids |-> "none"]
    /\ UNCHANGED <<row, cancelled, mail, unseen>>

(***************************************************************************)
(* Specification.                                                          *)
(***************************************************************************)
Init ==
    /\ row = [e \in Ids |-> Row("absent", 0, 0)]
    /\ pend = [e \in Ids |-> "new"]
    /\ del = [e \in Ids |-> "none"]
    /\ session = "none"
    /\ pc = "none" /\ due = {} /\ cur = NoEntry /\ wait = 0 /\ creds = "none"
    /\ bell = 0
    /\ submitted = [e \in Ids |-> 0]
    /\ accepted = {} /\ filed = {} /\ drafts = Ids
    /\ cancelled = {}
    /\ unseen = {}
    /\ faults = 0

Worker ==
    \/ ListDue \/ (\E d \in due : MarkSending(d)) \/ Publish \/ NextDeadline
    \/ WakeByBell \/ WakeByTimer \/ IdleExit \/ Finish
    \/ SetupFails \/ SmtpRejectsLogin \/ SmtpFails \/ SmtpAccepts
    \/ AppendToSent \/ CleanupDraft \/ RemoveSent \/ MarkRetry \/ MarkFailed

Handlers(e) ==
    \/ EnqueueInsert(e) \/ EnqueueReadBack(e) \/ RetryUpdate(e) \/ RingAndPublish(e)
    \/ DeleteCheck(e) \/ DeleteRow(e) \/ DeletePublish(e)

Faults ==
    \/ ListFails \/ (\E d \in due : MarkSendingFails(d)) \/ SettleFails
    \/ (\E e \in Ids : RequestDropped(e)) \/ PasswordChange \/ Crash

Next ==
    \/ Worker
    \/ \E e \in Ids : Handlers(e)
    \/ Login \/ GetSession
    \/ Tick
    \/ Faults

\* Tokio keeps polling a spawned task and a handler whose client stays; time
\* passes however often the bell is rung.
BackendFairness ==
    /\ WF_vars(Worker)
    /\ SF_vars(Tick)
    /\ \A e \in Ids : WF_vars(EnqueueReadBack(e) \/ RingAndPublish(e))
    /\ \A e \in Ids : WF_vars(DeleteRow(e) \/ DeletePublish(e))

\* The user comes back: logs in again when the session is gone or its password
\* no longer valid, and opens the mailbox, which calls get_session.
UserReturns == WF_vars(Login) /\ WF_vars(GetSession)

Spec        == Init /\ [][Next]_vars
BackendSpec == Spec /\ BackendFairness
FairSpec    == BackendSpec /\ UserReturns

(***************************************************************************)
(* Properties.                                                             *)
(***************************************************************************)
Listed(e) == \E d \in due : d.id = e
Held(e)   == cur.id = e \/ Listed(e)

\* Every variable keeps its shape; a scheduled row has attempts left.
TypeOK ==
    /\ row \in [Ids -> [state : States, delay : Nat, attempts : 0 .. MaxAttempts - 1]]
    /\ pend \in [Ids -> {"new", "none", "written", "stored"}]
    /\ del \in [Ids -> {"none", "checked", "removed"}]
    /\ session \in Password /\ creds \in Password
    /\ pc \in PCs
    /\ due \subseteq Snapshot
    /\ cur \in Snapshot \cup {NoEntry}
    /\ wait \in Nat
    /\ bell \in {0, 1}
    /\ submitted \in [Ids -> Nat]
    /\ accepted \subseteq Ids /\ filed \subseteq Ids /\ drafts \subseteq Ids
    /\ cancelled \subseteq Ids /\ unseen \subseteq Ids
    /\ faults \in 0 .. MaxFaults

Matches(d, state) ==
    row[d.id].state = state /\ row[d.id].delay = 0 /\ row[d.id].attempts = d.attempts

\* What the worker took from list_due is what the table still says when the
\* entry is its turn, unless the row was deleted meanwhile: the deadline of the
\* undo window has passed, nobody else works on it, and the attempt count that
\* decides between retry and failure is the current one.
SnapshotCurrent ==
    /\ \A d \in due : Present(row, d.id) => Matches(d, "scheduled")
    /\ pc \in Sending /\ Present(row, cur.id) => Matches(cur, "sending")

\* One queueing of a message costs at most MaxAttempts attempts, through
\* restarts, failed writes and deletions; only a manual retry grants more.
AttemptsBounded == \A e \in Ids : submitted[e] <= MaxAttempts

\* The draft is the only other copy of an unsent message: it goes only once the
\* mail server took the message, and nothing is filed as sent before that.
DraftKeptUntilSent == (Ids \ drafts) \cup filed \subseteq accepted

\* A permanent failure stays unknown to the clients only while the worker has its
\* event still to publish (outbox_worker.rs:286-299), or when a crash came between
\* the two, and then until the user logs in again and loads the list.
FailureAnnounced ==
    \A e \in unseen : row[e].state = "failed" =>
        session = "none" \/ (pc = "tell_failed" /\ cur.id = e)

\* After the mail server's acceptance was seen, the message is not submitted
\* again, whatever crashes and failed deletes leave in the table.
NoResendAfterAck == [][\A e \in accepted : submitted'[e] = submitted[e]]_vars

\* A cancelled entry the worker does not already hold is never taken up again:
\* the worker's late result writes do not bring the row back.
UndoIsFinal == [][\A e \in cancelled : Held(e)' => Held(e)]_vars

\* The row outlived the task that was sending it: no worker will touch it, and
\* the handlers refuse it.
Orphaned(e) == row[e].state = "sending" /\ cur.id # e

\* A queued message is not forgotten: while its user keeps using the mailbox it
\* is sent, fails visibly, or is left `sending' by a fault.
EventuallyLeavesQueue ==
    \A e \in Ids :
        row[e].state = "scheduled" ~> row[e].state \in {"absent", "failed"} \/ Orphaned(e)

\* routes/outbox.rs: "Rejected if the send is already in flight".  A DELETE
\* answered "cancelled" would then mean that the message was not sent.
CancelledNotSent == cancelled \cap accepted = {}

(***************************************************************************)
(* The inductive invariant behind the safety properties.                   *)
(***************************************************************************)
\* An id nobody has posted yet.
NewIsUntouched ==
    \A e \in Ids : pend[e] = "new" =>
        /\ row[e].state = "absent" /\ ~Held(e)
        /\ del[e] = "none" /\ e \notin cancelled /\ e \notin accepted
        /\ submitted[e] = 0

WorkerShape ==
    /\ due # {} => pc \in Sending \cup Settled \cup {"pick"}
    /\ pc \in Sending \cup Settled <=> cur # NoEntry
    /\ \A d1, d2 \in due : d1.id = d2.id => d1 = d2
    /\ ~Listed(cur.id)

\* The attempts already spent never exceed what the table or the worker's
\* snapshot has on record.
AttemptsOnRecord ==
    /\ \A e \in Ids : row[e].state = "scheduled" => submitted[e] <= row[e].attempts
    /\ \A d \in due : submitted[d.id] <= d.attempts /\ d.attempts < MaxAttempts
    /\ pc \in Sending =>
          /\ cur.attempts < MaxAttempts
          /\ submitted[cur.id] <=
                 cur.attempts + (IF pc \in {"tell_sending", "send"} THEN 0 ELSE 1)

\* An accepted message is at most waiting for its row to be deleted.
AcceptedIsLeaving ==
    /\ \A e \in accepted : row[e].state \in {"absent", "sending"} /\ ~Listed(e)
    /\ pc \in {"file", "cleanup", "remove"} => cur.id \in accepted
    /\ pc \in {"tell_sending", "send", "transient", "permanent"} => cur.id \notin accepted

CancelledIsGone ==
    \A e \in Ids : e \in cancelled \/ del[e] = "removed" => row[e].state = "absent"

OutboxInv ==
    /\ TypeOK /\ NewIsUntouched /\ WorkerShape /\ SnapshotCurrent
    /\ AttemptsOnRecord /\ AttemptsBounded
    /\ AcceptedIsLeaving /\ DraftKeptUntilSent /\ CancelledIsGone
    /\ FailureAnnounced
=============================================================================
