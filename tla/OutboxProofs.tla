---------------------------- MODULE OutboxProofs ----------------------------
(***************************************************************************)
(* Proofs about the send queue, for any number of messages, any limits and *)
(* any number of faults.  The safety properties of Outbox all follow from  *)
(* OutboxInv, which every step of every process preserves.                 *)
(***************************************************************************)
EXTENDS Outbox, TLAPS

\* The delay backoff_duration computes can be written to a row's deadline.
LEMMA BackoffInNat == ASSUME NEW a \in Nat PROVE backoff_duration(a) \in Nat
<1>1. Shift[(IF a > 6 THEN 6 ELSE a) + 1] \in Nat
  BY DEF Shift
<1> QED
  BY <1>1, OutboxAssumption DEF backoff_duration

\* Init establishes the invariant: empty table, no worker, nothing sent.
LEMMA InitEstablishes == Init => OutboxInv
  BY OutboxAssumption
     DEF Init, OutboxInv, TypeOK, NewIsUntouched, WorkerShape, SnapshotCurrent,
         Matches, AttemptsOnRecord, AttemptsBounded, AcceptedIsLeaving, DraftKeptUntilSent,
         CancelledIsGone, FailureAnnounced, Listed, Held, Present, Row, Sending,
         Settled, Stopped, Asleep, PCs, States, Password, Snapshot, NoEntry

\* Every step of a request handler preserves the invariant.
LEMMA HandlerStep == ASSUME OutboxInv, NEW e \in Ids, Handlers(e) PROVE OutboxInv'
<1> USE OutboxAssumption DEF OutboxInv, TypeOK, NewIsUntouched, WorkerShape,
      SnapshotCurrent, Matches, AttemptsOnRecord, AttemptsBounded, AcceptedIsLeaving,
      DraftKeptUntilSent, CancelledIsGone, FailureAnnounced, Listed, Held, Present,
      Row, Sending, Settled, Stopped, Asleep, PCs, States, Password, Snapshot, NoEntry, tasks,
      mail, client
<1>1. CASE EnqueueInsert(e)
  BY <1>1 DEF EnqueueInsert, enqueue
<1>2. CASE EnqueueReadBack(e)
  BY <1>2 DEF EnqueueReadBack
<1>3. CASE RetryUpdate(e)
  BY <1>3 DEF RetryUpdate, requeue
<1>4. CASE RingAndPublish(e)
  BY <1>4 DEF RingAndPublish, Ring
<1>5. CASE DeleteCheck(e)
  BY <1>5 DEF DeleteCheck
<1>6. CASE DeleteRow(e)
  BY <1>6 DEF DeleteRow, delete
<1>7. CASE DeletePublish(e)
  BY <1>7 DEF DeletePublish
<1> QED
  BY <1>1, <1>2, <1>3, <1>4, <1>5, <1>6, <1>7 DEF Handlers

\* Every step of a login or a page load preserves the invariant.
LEMMA SessionStep == ASSUME OutboxInv, Login \/ GetSession PROVE OutboxInv'
<1> USE OutboxAssumption DEF OutboxInv, TypeOK, NewIsUntouched, WorkerShape,
      SnapshotCurrent, Matches, AttemptsOnRecord, AttemptsBounded, AcceptedIsLeaving,
      DraftKeptUntilSent, CancelledIsGone, FailureAnnounced, Listed, Held, Present,
      Row, Sending, Settled, Stopped, Asleep, PCs, States, Password, Snapshot, NoEntry, tasks,
      mail, client
<1>1. CASE Login
  BY <1>1 DEF Login
<1>2. CASE GetSession
  BY <1>2 DEF GetSession, Ring
<1> QED
  BY <1>1, <1>2

\* Every step of the worker preserves the invariant.
LEMMA WorkerStep == ASSUME OutboxInv, Worker PROVE OutboxInv'
<1> USE OutboxAssumption DEF OutboxInv, TypeOK, NewIsUntouched, WorkerShape,
      SnapshotCurrent, Matches, AttemptsOnRecord, AttemptsBounded, AcceptedIsLeaving,
      DraftKeptUntilSent, CancelledIsGone, FailureAnnounced, Listed, Held, Present,
      Row, Sending, Settled, Stopped, Asleep, PCs, States, Password, Snapshot, NoEntry, tasks,
      mail, client
<1>1. CASE ListDue
  BY <1>1 DEF ListDue, list_due
<1>2. CASE \E d \in due : MarkSending(d)
  <2> PICK d \in due : MarkSending(d)
    BY <1>2
  <2>1. \A x \in due' : x \in due /\ x.id # d.id /\ row'[x.id] = row[x.id]
    BY DEF MarkSending, mark_sending
  <2>2. SnapshotCurrent'
    BY <2>1 DEF MarkSending, mark_sending
  <2> QED
    BY <2>1, <2>2 DEF MarkSending, mark_sending
<1>3. CASE NextDeadline
  BY <1>3 DEF NextDeadline, next_send_after
<1>4. CASE WakeByBell
  BY <1>4 DEF WakeByBell
<1>5. CASE WakeByTimer
  BY <1>5 DEF WakeByTimer
<1>6. CASE IdleExit
  BY <1>6 DEF IdleExit
<1>7. CASE Finish
  BY <1>7 DEF Finish
<1>8. CASE SetupFails
  BY <1>8 DEF SetupFails
<1>9. CASE SmtpRejectsLogin
  BY <1>9 DEF SmtpRejectsLogin, Submit
<1>10. CASE SmtpFails
  BY <1>10 DEF SmtpFails, Submit
<1>11. CASE SmtpAccepts
  BY <1>11 DEF SmtpAccepts, Submit
<1>12. CASE AppendToSent
  BY <1>12 DEF AppendToSent
<1>13. CASE CleanupDraft
  BY <1>13 DEF CleanupDraft
<1>14. CASE RemoveSent
  BY <1>14 DEF RemoveSent, delete
<1>15. CASE MarkRetry
  BY <1>15, BackoffInNat DEF MarkRetry, mark_retry, Done, CanRetry
<1>16. CASE MarkFailed
  BY <1>16 DEF MarkFailed, mark_failed, CanRetry
<1>17. CASE Publish
  BY <1>17 DEF Publish, Done
<1> QED
  BY <1>1, <1>2, <1>3, <1>4, <1>5, <1>6, <1>7, <1>8, <1>9, <1>10, <1>11, <1>12, <1>13,
     <1>14, <1>15, <1>16, <1>17 DEF Worker

\* Every step of the clock preserves the invariant.
LEMMA TickStep == ASSUME OutboxInv, Tick PROVE OutboxInv'
<1> USE OutboxAssumption DEF OutboxInv, TypeOK, NewIsUntouched, WorkerShape,
      SnapshotCurrent, Matches, AttemptsOnRecord, AttemptsBounded, AcceptedIsLeaving,
      DraftKeptUntilSent, CancelledIsGone, FailureAnnounced, Listed, Held, Present,
      Row, Sending, Settled, Stopped, Asleep, PCs, States, Password, Snapshot, NoEntry, tasks,
      mail, client
<1>1. CASE Tick
  BY <1>1 DEF Tick, Minus1
<1> QED
  BY <1>1

\* Every step of a fault preserves the invariant.
LEMMA FaultStep == ASSUME OutboxInv, Faults PROVE OutboxInv'
<1> USE OutboxAssumption DEF OutboxInv, TypeOK, NewIsUntouched, WorkerShape,
      SnapshotCurrent, Matches, AttemptsOnRecord, AttemptsBounded, AcceptedIsLeaving,
      DraftKeptUntilSent, CancelledIsGone, FailureAnnounced, Listed, Held, Present,
      Row, Sending, Settled, Stopped, Asleep, PCs, States, Password, Snapshot, NoEntry, tasks,
      mail, client
<1>1. CASE ListFails
  BY <1>1 DEF ListFails, Fault
<1>2. CASE \E d \in due : MarkSendingFails(d)
  BY <1>2 DEF MarkSendingFails, Fault
<1>3. CASE SettleFails
  BY <1>3 DEF SettleFails, Fault, Done, CanRetry
<1>4. CASE \E x \in Ids : RequestDropped(x)
  <2> PICK x \in Ids : RequestDropped(x)
    BY <1>4
  <2> QED
    BY DEF RequestDropped, Fault
<1>5. CASE PasswordChange
  BY <1>5 DEF PasswordChange, Fault
<1>6. CASE Crash
  BY <1>6 DEF Crash, Fault
<1> QED
  BY <1>1, <1>2, <1>3, <1>4, <1>5, <1>6 DEF Faults

\* Every step of the specification preserves the invariant.
LEMMA StepPreserves == OutboxInv /\ [Next]_vars => OutboxInv'
<1> SUFFICES ASSUME OutboxInv, [Next]_vars PROVE OutboxInv'
  OBVIOUS
<1>1. CASE UNCHANGED vars
  BY <1>1 DEF vars, client, tasks, mail, OutboxInv, TypeOK, NewIsUntouched, WorkerShape,
     SnapshotCurrent, Matches, AttemptsOnRecord, AttemptsBounded, AcceptedIsLeaving,
     DraftKeptUntilSent, CancelledIsGone, FailureAnnounced, Listed, Held, Present
<1>2. CASE Next
  BY <1>2, HandlerStep, SessionStep, WorkerStep, TickStep, FaultStep DEF Next
<1> QED
  BY <1>1, <1>2

\* The invariant holds throughout every behaviour.
THEOREM OutboxInvariant == Spec => []OutboxInv
  BY InitEstablishes, StepPreserves, PTL DEF Spec

\* The table, the handlers and the worker keep their types; in particular the
\* attempt count of a row stays below MAX_ATTEMPTS.
THEOREM TypeCorrect == Spec => []TypeOK
<1>1. OutboxInv => TypeOK
  BY DEF OutboxInv
<1> QED
  BY <1>1, OutboxInvariant, PTL

\* The worker never acts on a row whose undo deadline lies ahead, and decides on
\* the attempt count the table has, however handlers interleave with its batch.
THEOREM WorkerActsOnCurrentRows == Spec => []SnapshotCurrent
<1>1. OutboxInv => SnapshotCurrent
  BY DEF OutboxInv
<1> QED
  BY <1>1, OutboxInvariant, PTL

\* One queueing of a message never costs more than MAX_ATTEMPTS attempts.
THEOREM NoUnboundedRetry == Spec => []AttemptsBounded
<1>1. OutboxInv => AttemptsBounded
  BY DEF OutboxInv
<1> QED
  BY <1>1, OutboxInvariant, PTL

\* The draft outlives every failed attempt.
THEOREM UnsentDraftSurvives == Spec => []DraftKeptUntilSent
<1>1. OutboxInv => DraftKeptUntilSent
  BY DEF OutboxInv
<1> QED
  BY <1>1, OutboxInvariant, PTL

\* A permanent failure the clients do not know of is about to be published by the
\* worker, or the process has been restarted and the user not yet logged in again.
THEOREM FailuresAnnounced == Spec => []FailureAnnounced
<1>1. OutboxInv => FailureAnnounced
  BY DEF OutboxInv
<1> QED
  BY <1>1, OutboxInvariant, PTL

\* Once send_message returned Ok, the message is never submitted again.
THEOREM SentOnce == Spec => NoResendAfterAck
<1> DEFINE P == \A e \in accepted : submitted'[e] = submitted[e]
<1>1. OutboxInv /\ [Next]_vars => [P]_vars
  <2> SUFFICES ASSUME OutboxInv, Next, NEW e \in accepted PROVE submitted'[e] = submitted[e]
    OBVIOUS
  <2> USE DEF OutboxInv, TypeOK, AcceptedIsLeaving, Sending, mail
  <2>1. CASE \E x \in Ids : Handlers(x)
    BY <2>1 DEF Handlers, EnqueueInsert, EnqueueReadBack, RetryUpdate, RingAndPublish,
       DeleteCheck, DeleteRow, DeletePublish
  <2>2. CASE Login \/ GetSession \/ Tick
    BY <2>2 DEF Login, GetSession, Tick
  <2>3. CASE Worker
    BY <2>3 DEF Worker, ListDue, MarkSending, NextDeadline, WakeByBell, WakeByTimer,
       IdleExit, Finish, SetupFails, SmtpRejectsLogin, SmtpFails, SmtpAccepts, Submit,
       AppendToSent, CleanupDraft, RemoveSent, MarkRetry, MarkFailed, Publish
  <2>4. CASE Faults
    BY <2>4 DEF Faults, ListFails, MarkSendingFails, SettleFails, RequestDropped,
       PasswordChange, Crash
  <2> QED
    BY <2>1, <2>2, <2>3, <2>4 DEF Next
<1> QED
  BY <1>1, OutboxInvariant, PTL DEF Spec, NoResendAfterAck

\* An undo the worker has not overtaken stays undone.
THEOREM UndoStaysUndone == Spec => UndoIsFinal
<1> DEFINE P == \A e \in cancelled : Held(e)' => Held(e)
<1>1. OutboxInv /\ [Next]_vars => [P]_vars
  <2> SUFFICES ASSUME OutboxInv, Next, NEW e \in cancelled, Held(e)' PROVE Held(e)
    OBVIOUS
  <2> USE OutboxAssumption DEF OutboxInv, TypeOK, CancelledIsGone, Held, Listed, NoEntry, tasks
  <2>1. CASE \E x \in Ids : Handlers(x)
    BY <2>1 DEF Handlers, EnqueueInsert, EnqueueReadBack, RetryUpdate, RingAndPublish,
       DeleteCheck, DeleteRow, DeletePublish, Ring
  <2>2. CASE Login \/ GetSession \/ Tick
    BY <2>2 DEF Login, GetSession, Tick, Ring
  <2>3. CASE Worker
    BY <2>3 DEF Worker, ListDue, list_due, MarkSending, NextDeadline, WakeByBell,
       WakeByTimer, IdleExit, Finish, SetupFails, SmtpRejectsLogin, SmtpFails, SmtpAccepts,
       AppendToSent, CleanupDraft, RemoveSent, MarkRetry, MarkFailed, Publish, Done
  <2>4. CASE Faults
    BY <2>4 DEF Faults, ListFails, MarkSendingFails, SettleFails, RequestDropped,
       PasswordChange, Crash, Done
  <2> QED
    BY <2>1, <2>2, <2>3, <2>4 DEF Next
<1> QED
  BY <1>1, OutboxInvariant, PTL DEF Spec, UndoIsFinal
=============================================================================
