------------------------------- MODULE Drafts -------------------------------
(***************************************************************************)
(* One draft of one user: its staging row, its copies in the IMAP Drafts   *)
(* folder, its attachments, and the requests that work on it.  Two drafts  *)
(* share nothing: lock, row, Message-ID and directory are keyed by uuid.   *)
(*                                                                         *)
(*   backend/src/routes/drafts.rs       DraftLocks, save, discard          *)
(*   backend/src/db/drafts.rs           draft_staging, draft_attachments   *)
(*   backend/src/routes/attachments.rs  upload, delete_attachment          *)
(*   backend/src/routes/send.rs         cleanup_draft                      *)
(*                                                                         *)
(* A request is a phase (where it is in with_lock, or that it takes no     *)
(* lock) and, while its body runs, the statement or IMAP command it is at. *)
(***************************************************************************)
EXTENDS Integers, Sequences, FiniteSets

CONSTANTS
    Reqs,       \* requests; an upload's id also names the file it uploads
    Mutexes,    \* the Arc<AsyncMutex> allocations
    Kinds,      \* the operations a behaviour may use
    NoMutex, NoReq, NoRow, NoUid,
    MaxFaults   \* bound: failed commands and dropped requests in one behaviour

ASSUME DraftsAssumption ==
    /\ IsFiniteSet(Reqs) /\ NoReq \notin Reqs
    /\ NoMutex \notin Mutexes
    /\ NoRow # NoUid /\ NoRow \notin Nat /\ NoUid \notin Nat
    /\ Kinds \subseteq {"save", "delete", "cleanup", "upload", "unattach"}
    /\ MaxFaults \in Nat

VARIABLES
    phase,     \* Reqs -> where the request is
    kind,      \* Reqs -> what it does
    step,      \* Reqs -> the index of its next step in Body(kind)
    uid,       \* Reqs -> the Option<u32> it has in hand: existing, then new
    target,    \* Reqs -> the attachment an "unattach" removes
    locks,     \* DraftLocks.locks at this key: a mutex or NoMutex
    ref,       \* Reqs -> the Arc clone it holds
    owner,     \* Mutexes -> the request whose guard it is
    staging,   \* draft_staging.imap_uid: NoRow, NoUid (NULL) or a UID
    atts,      \* rows of draft_attachments
    files,     \* files in the attachment directory
    copies,    \* UIDs in the Drafts folder with this draft's Message-ID
    uidnext,   \* the folder's UIDNEXT
    answer,    \* the last save or delete that was answered with success
    bypass,    \* kinds of lock-free requests begun so far
    crossed,   \* history: uploads a removal of the draft did not take the record of
    faults

lock  == <<locks, ref, owner>>
disk  == <<staging, atts, files>>
imap  == <<copies, uidnext>>
local == <<kind, step, uid, target>>
vars  == <<phase, local, lock, disk, imap, answer, bypass, crossed, faults>>

Locked == {"save", "delete"}

\* The statements and commands of each operation, in order.
Body(k) ==
    CASE k = "save"     -> <<"read", "expunge", "append", "upsert">>
      [] k = "delete"   -> <<"read", "delrow", "expunge", "rmdir">>
      [] k = "cleanup"  -> <<"read", "expunge", "delrow", "rmdir">>
      [] k = "upload"   -> <<"write", "stage", "insert">>
      [] k = "unattach" -> <<"unlink", "delatt">>

Running(r) == phase[r] \in {"inside", "free", "ghost"}
At(r, s)   == Running(r) /\ Body(kind[r])[step[r]] = s

\* The end of a body: a locked one drops its guard, the others are finished.
\* A ghost is the database closure of a dropped request: it ends with its closure.
Advance(r) ==
    LET last == \/ step[r] = Len(Body(kind[r]))
                \/ phase[r] = "ghost" /\ ~At(r, "stage")
    IN  /\ step' = IF last THEN step ELSE [step EXCEPT ![r] = @ + 1]
        /\ phase' = [phase EXCEPT ![r] =
              CASE ~last -> @
                [] last /\ @ = "inside" -> "finished"
                [] OTHER -> "done"]
        /\ answer' = IF last /\ phase[r] = "inside" THEN kind[r] ELSE answer

Fault == faults < MaxFaults /\ faults' = faults + 1

\* An upload under way, and a removal of the draft that is past its records and
\* has the files still to go.
Uploading == {r \in Reqs : kind[r] = "upload" /\ Running(r)}
BeforeFiles(r) ==
    Running(r) /\ \E i \in 1 .. step[r] - 1 : Body(kind[r])[i] = "delrow"

(***************************************************************************)
(* DraftLocks::with_lock.                                                  *)
(***************************************************************************)
\* entry(key).or_insert_with(..).clone(), under the shard lock.
TakeMutex(r) ==
    \E m \in Mutexes :
        /\ IF locks = NoMutex THEN \A x \in Reqs : ref[x] # m ELSE m = locks
        /\ locks' = m
        /\ ref' = [ref EXCEPT ![r] = m]

Begin(r, k) ==
    /\ phase[r] = "idle"
    /\ kind' = [kind EXCEPT ![r] = k]
    /\ IF k \in Locked
       THEN /\ TakeMutex(r)
            /\ phase' = [phase EXCEPT ![r] = "waiting"]
            /\ UNCHANGED <<bypass, target>>
       ELSE /\ phase' = [phase EXCEPT ![r] = "free"]
            /\ bypass' = bypass \cup {k}
            /\ IF k = "unattach"
               THEN \E a \in atts : target' = [target EXCEPT ![r] = a]
               ELSE UNCHANGED target
            /\ UNCHANGED <<locks, ref>>
    /\ crossed' = IF k = "upload" /\ \E x \in Reqs : BeforeFiles(x)
                  THEN crossed \cup {r} ELSE crossed
    /\ UNCHANGED <<step, uid, owner, disk, imap, answer, faults>>

Acquire(r) ==
    /\ phase[r] = "waiting"
    /\ owner[ref[r]] = NoReq
    /\ owner' = [owner EXCEPT ![ref[r]] = r]
    /\ phase' = [phase EXCEPT ![r] = "inside"]
    /\ UNCHANGED <<local, locks, ref, disk, imap, answer, bypass, crossed, faults>>

\* The guard goes out of scope ...
Unlock(r) ==
    /\ phase[r] = "finished"
    /\ owner' = [owner EXCEPT ![ref[r]] = NoReq]
    /\ phase' = [phase EXCEPT ![r] = "unlocked"]
    /\ UNCHANGED <<local, locks, ref, disk, imap, answer, bypass, crossed, faults>>

\* ... drop(mutex) ...
DropRef(r) ==
    /\ phase[r] = "unlocked"
    /\ ref' = [ref EXCEPT ![r] = NoMutex]
    /\ phase' = [phase EXCEPT ![r] = "dropped"]
    /\ UNCHANGED <<local, locks, owner, disk, imap, answer, bypass, crossed, faults>>

strong_count(m) == Cardinality({r \in Reqs : ref[r] = m}) + (IF locks = m THEN 1 ELSE 0)

\* Mutant: the entry is removed whoever still holds the mutex.
RemoveIf_always(r) ==
    /\ phase[r] = "dropped"
    /\ locks' = NoMutex
    /\ phase' = [phase EXCEPT ![r] = "done"]
    /\ UNCHANGED <<local, ref, owner, disk, imap, answer, bypass, crossed, faults>>

\* Mutant: the map's own reference is not counted.
RemoveIf_never(r) ==
    /\ phase[r] = "dropped"
    /\ locks' = IF locks # NoMutex /\ strong_count(locks) < 1 THEN NoMutex ELSE locks
    /\ phase' = [phase EXCEPT ![r] = "done"]
    /\ UNCHANGED <<local, ref, owner, disk, imap, answer, bypass, crossed, faults>>

\* ... and remove_if, under the shard lock, on whatever mutex is there by now.
RemoveIf(r) ==
    /\ phase[r] = "dropped"
    /\ locks' = IF locks # NoMutex /\ strong_count(locks) <= 1 THEN NoMutex ELSE locks
    /\ phase' = [phase EXCEPT ![r] = "done"]
    /\ UNCHANGED <<local, ref, owner, disk, imap, answer, bypass, crossed, faults>>

(***************************************************************************)
(* Bodies.                                                                 *)
(***************************************************************************)
\* Mutant: a missing row is not mapped to None.
ReadStaging_raw(r) ==
    /\ At(r, "read")
    /\ uid' = [uid EXCEPT ![r] = staging]
    /\ Advance(r)
    /\ UNCHANGED <<kind, target, lock, disk, imap, bypass, crossed, faults>>

\* get_staging(..).and_then(|s| s.imap_uid)
ReadStaging(r) ==
    /\ At(r, "read")
    /\ uid' = [uid EXCEPT ![r] = IF staging = NoRow THEN NoUid ELSE staging]
    /\ Advance(r)
    /\ UNCHANGED <<kind, target, lock, disk, imap, bypass, crossed, faults>>

\* `.ok().flatten()': a row that cannot be read counts as none.
ReadFails(r) ==
    /\ Fault
    /\ At(r, "read")
    /\ uid' = [uid EXCEPT ![r] = NoUid]
    /\ Advance(r)
    /\ UNCHANGED <<kind, target, lock, disk, imap, bypass, crossed>>

\* Mutant: the old copy is left for the user to delete.
Expunge_nothing(r) ==
    /\ At(r, "expunge")
    /\ Advance(r)
    /\ UNCHANGED <<kind, uid, target, lock, disk, imap, bypass, crossed, faults>>

\* expunge_message of the UID in hand, if any; an unknown UID is no error.
Expunge(r) ==
    /\ At(r, "expunge")
    /\ copies' = copies \ {uid[r]}
    /\ Advance(r)
    /\ UNCHANGED <<kind, uid, target, lock, disk, uidnext, bypass, crossed, faults>>

\* A failed expunge is logged, and the operation goes on.
ExpungeFails(r) ==
    /\ Fault
    /\ At(r, "expunge") /\ uid[r] # NoUid
    /\ Advance(r)
    /\ UNCHANGED <<kind, uid, target, lock, disk, imap, bypass, crossed>>

\* append_message: APPEND, then UID SEARCH for the Message-ID, taking the maximum.
AppendCopy(r) ==
    /\ At(r, "append")
    /\ copies' = copies \cup {uidnext}
    /\ uidnext' = uidnext + 1
    /\ uid' = [uid EXCEPT ![r] = uidnext]
    /\ Advance(r)
    /\ UNCHANGED <<kind, target, lock, disk, bypass, crossed, faults>>

\* The message cannot be built or APPEND fails, or only the search does.
AppendFails(r) ==
    /\ Fault
    /\ At(r, "append")
    /\ \/ copies' = copies \cup {uidnext} /\ uidnext' = uidnext + 1
       \/ UNCHANGED imap
    /\ uid' = [uid EXCEPT ![r] = NoUid]
    /\ Advance(r)
    /\ UNCHANGED <<kind, target, lock, disk, bypass, crossed>>

\* upsert_staging: INSERT .. ON CONFLICT DO UPDATE SET imap_uid = excluded.imap_uid
upsert_staging(u) == staging' = u

UpsertStaging(r) ==
    /\ At(r, "upsert")
    /\ upsert_staging(uid[r])
    /\ Advance(r)
    /\ UNCHANGED <<kind, uid, target, lock, atts, files, imap, bypass, crossed, faults>>

\* delete_staging; draft_attachments cascades.
DeleteStaging(r) ==
    /\ At(r, "delrow")
    /\ staging' = NoRow
    /\ atts' = {}
    /\ crossed' = crossed \cup Uploading
    /\ Advance(r)
    /\ UNCHANGED <<kind, uid, target, lock, files, imap, bypass, faults>>

\* remove_dir_all(att_dir)
RemoveDir(r) ==
    /\ At(r, "rmdir")
    /\ files' = {}
    /\ Advance(r)
    /\ UNCHANGED <<kind, uid, target, lock, staging, atts, imap, bypass, crossed, faults>>

\* A failing statement is logged in save and cleanup_draft, a failing removal of
\* the directory, which may have taken some files, everywhere.
StatementFails(r) ==
    /\ Fault
    /\ \/ At(r, "upsert") /\ UNCHANGED <<files, crossed>>
       \/ /\ kind[r] = "cleanup" /\ At(r, "delrow")
          /\ crossed' = crossed \cup atts \cup Uploading
          /\ UNCHANGED files
       \/ At(r, "rmdir") /\ files' \in SUBSET files /\ UNCHANGED crossed
    /\ Advance(r)
    /\ UNCHANGED <<kind, uid, target, lock, staging, atts, imap, bypass>>

\* The operations that return the error instead: the body ends where it is.
BodyFails(r) ==
    /\ Fault
    /\ \/ \E s \in {"read", "write", "stage", "insert", "delatt"} : At(r, s)
       \/ kind[r] = "delete" /\ (At(r, "delrow") \/ At(r, "expunge"))
    /\ phase' = [phase EXCEPT ![r] = IF @ = "inside" THEN "finished" ELSE "done"]
    /\ UNCHANGED <<local, lock, disk, imap, answer, bypass, crossed>>

\* Mutant: a write that stored nothing goes unnoticed.
WriteFile_unchecked(r) ==
    /\ At(r, "write")
    /\ Advance(r)
    /\ UNCHANGED <<kind, uid, target, lock, disk, imap, bypass, crossed, faults>>

\* upload_attachment: the file is written before the rows.
WriteFile(r) ==
    /\ At(r, "write")
    /\ files' = files \cup {r}
    /\ Advance(r)
    /\ UNCHANGED <<kind, uid, target, lock, staging, atts, imap, bypass, crossed, faults>>

\* add_draft_attachment: upsert_staging(conn, draft_uuid, None, None) ...
StageRow(r) ==
    /\ At(r, "stage")
    /\ upsert_staging(NoUid)
    /\ Advance(r)
    /\ UNCHANGED <<kind, uid, target, lock, atts, files, imap, bypass, crossed, faults>>

\* ... then INSERT, refused by the foreign key if the row is gone again.
InsertAttachment(r) ==
    /\ At(r, "insert")
    /\ atts' = IF staging = NoRow THEN atts ELSE atts \cup {r}
    /\ Advance(r)
    /\ UNCHANGED <<kind, uid, target, lock, staging, files, imap, bypass, crossed, faults>>

\* delete_attachment found the record; it removes the file, then the record.
RemoveFile(r) ==
    /\ At(r, "unlink")
    /\ files' = files \ {target[r]}
    /\ Advance(r)
    /\ UNCHANGED <<kind, uid, target, lock, staging, atts, imap, bypass, crossed, faults>>

\* A file that cannot be removed is logged and left; the record goes all the same.
RemoveFileFails(r) ==
    /\ Fault
    /\ At(r, "unlink")
    /\ Advance(r)
    /\ UNCHANGED <<kind, uid, target, lock, disk, imap, bypass, crossed>>

DeleteAttachment(r) ==
    /\ At(r, "delatt")
    /\ atts' = atts \ {target[r]}
    /\ Advance(r)
    /\ UNCHANGED <<kind, uid, target, lock, staging, files, imap, bypass, crossed, faults>>

(***************************************************************************)
(* The client goes away and the handler's future is dropped: guard and Arc *)
(* are released without remove_if.  A closure already on the blocking pool *)
(* still runs to its end, now outside the lock.                            *)
(***************************************************************************)
InClosure(r) == \E s \in {"upsert", "delrow", "stage", "insert", "delatt"} : At(r, s)

\* Mutant: the guard of a dropped request is never released.
DropRequest_keeping_guard(r) ==
    /\ Fault
    /\ phase[r] \in {"waiting", "inside", "free"}
    /\ ref' = [ref EXCEPT ![r] = NoMutex]
    /\ \/ phase' = [phase EXCEPT ![r] = "done"]
       \/ InClosure(r) /\ phase' = [phase EXCEPT ![r] = "ghost"]
    /\ UNCHANGED <<local, locks, owner, disk, imap, answer, bypass, crossed>>

DropRequest(r) ==
    /\ Fault
    /\ phase[r] \in {"waiting", "inside", "free"}
    /\ owner' = IF phase[r] = "inside" THEN [owner EXCEPT ![ref[r]] = NoReq] ELSE owner
    /\ ref' = [ref EXCEPT ![r] = NoMutex]
    /\ \/ phase' = [phase EXCEPT ![r] = "done"]
       \/ InClosure(r) /\ phase' = [phase EXCEPT ![r] = "ghost"]
    /\ UNCHANGED <<local, locks, disk, imap, answer, bypass, crossed>>

(***************************************************************************)
(* Specification.                                                          *)
(***************************************************************************)
Init ==
    /\ phase = [r \in Reqs |-> "idle"]
    /\ kind = [r \in Reqs |-> "save"]
    /\ step = [r \in Reqs |-> 1]
    /\ uid = [r \in Reqs |-> NoUid]
    /\ target = [r \in Reqs |-> NoReq]
    /\ locks = NoMutex
    /\ ref = [r \in Reqs |-> NoMutex]
    /\ owner = [m \in Mutexes |-> NoReq]
    /\ staging = NoRow /\ atts = {} /\ files = {}
    /\ copies = {} /\ uidnext = 1
    /\ answer = "none" /\ bypass = {} /\ crossed = {} /\ faults = 0

WithLock(r) == Acquire(r) \/ Unlock(r) \/ DropRef(r) \/ RemoveIf(r)

BodyStep(r) ==
    \/ ReadStaging(r) \/ Expunge(r) \/ AppendCopy(r) \/ UpsertStaging(r)
    \/ DeleteStaging(r) \/ RemoveDir(r)
    \/ WriteFile(r) \/ StageRow(r) \/ InsertAttachment(r)
    \/ RemoveFile(r) \/ DeleteAttachment(r)

Failure(r) ==
    \/ ReadFails(r) \/ ExpungeFails(r) \/ AppendFails(r) \/ StatementFails(r)
    \/ RemoveFileFails(r) \/ BodyFails(r) \/ DropRequest(r)

Next ==
    \E r \in Reqs :
        \/ \E k \in Kinds : Begin(r, k)
        \/ WithLock(r)
        \/ BodyStep(r)
        \/ Failure(r)

Spec == Init /\ [][Next]_vars

\* Tokio polls every handler, and every IMAP command and statement ends.
FairSpec == Spec /\ \A r \in Reqs : WF_vars(WithLock(r) \/ BodyStep(r))

(***************************************************************************)
(* Properties.                                                             *)
(***************************************************************************)
Uids == Nat \cup {NoUid}

\* Every variable keeps its shape.
TypeOK ==
    /\ phase \in [Reqs -> {"idle", "waiting", "inside", "free", "ghost", "finished",
                           "unlocked", "dropped", "done"}]
    /\ kind \in [Reqs -> Kinds \cup {"save"}]
    /\ \A r \in Reqs : step[r] \in 1 .. Len(Body(kind[r]))
    /\ uid \in [Reqs -> Uids]
    /\ target \in [Reqs -> Reqs \cup {NoReq}]
    /\ locks \in Mutexes \cup {NoMutex}
    /\ ref \in [Reqs -> Mutexes \cup {NoMutex}]
    /\ owner \in [Mutexes -> Reqs \cup {NoReq}]
    /\ staging \in Uids \cup {NoRow}
    /\ atts \subseteq Reqs /\ files \subseteq Reqs
    /\ copies \subseteq Nat /\ uidnext \in Nat
    /\ answer \in Locked \cup {"none"} /\ bypass \subseteq Kinds \ Locked
    /\ crossed \subseteq Reqs
    /\ faults \in 0 .. MaxFaults

\* The requests whose critical section is open.
Inside == {r \in Reqs : phase[r] \in {"inside", "finished"}}

\* At most one of them is.
OneInside == \A r1, r2 \in Inside : r1 = r2

\* DraftLocks is a mutex for each draft although map entries are removed and
\* created again under the requests' feet: no request enters before the one
\* inside has left or is gone, and none comes back in (routes/drafts.rs:42).
Stage(p) == CASE p = "waiting" -> "waiting"
              [] p \in {"inside", "finished"} -> "in"
              [] OTHER -> "out"
Turn == [r \in Reqs |-> Stage(phase[r])]
Lock == INSTANCE Mutex WITH Clients <- Reqs, state <- Turn
OneAtATime == Lock!Spec

AtRest == \A r \in Reqs : phase[r] \in {"idle", "done"}

\* The lock map does not grow: an entry goes with the last request that used
\* it, unless that request was dropped.
NoLockLeak == AtRest /\ faults = 0 => locks = NoMutex

Staged == IF staging \in {NoRow, NoUid} THEN {} ELSE {staging}

\* What saves and discards answered is true once they are over, if nothing
\* failed and no request bypassed the lock: after a save there is one copy in
\* the Drafts folder and the staging row knows it; after a discard nothing.
LastAnswerHolds ==
    AtRest /\ faults = 0 /\ bypass = {} =>
        /\ copies = Staged
        /\ answer = "save" => Cardinality(copies) = 1
        /\ answer = "delete" => staging = NoRow

\* Failures do not add up: each failed command, unread row or dropped request
\* leaves at most one copy in the Drafts folder that the staging row does not know,
\* whatever saves and discards came before and after it.
StraysCounted ==
    AtRest /\ bypass = {} => Cardinality(copies \ Staged) <= faults

\* The deletion of attachment a took the file; the record is still to go, or its
\* deletion failed, or the request was dropped in between.
Unlinked(a) == \E r \in Reqs : kind[r] = "unattach" /\ target[r] = a /\ step[r] = 2

\* load_draft_attachments fails the whole send if a recorded file is missing.
\* Through every failure, dropped request and removal of the draft a record has
\* its file unless the user asked for that attachment to go (attachments.rs:213),
\* or the upload ran across a discard or a clean-up, or the clean-up could not
\* delete the records and took the files all the same (send.rs:404-421).
AttachmentsReadable == \A a \in atts \ files : Unlinked(a) \/ a \in crossed

\* No request waits for the lock forever, not even behind a dropped one.
EveryRequestEnds == \A r \in Reqs : phase[r] = "waiting" ~> phase[r] = "done"

\* db/drafts.rs: imap_uid is "IMAP UID of the current draft copy in the Drafts
\* folder"; routes/drafts.rs stores it "so the next save can expunge the right
\* UID".  Checked without faults, with saves and uploads.
StagingKnowsCopy == AtRest => copies = Staged

(***************************************************************************)
(* Why OneInside holds: whoever holds a reference holds the one in the map.*)
(***************************************************************************)
LockInv ==
    /\ phase \in [Reqs -> {"idle", "waiting", "inside", "free", "ghost", "finished",
                           "unlocked", "dropped", "done"}]
    /\ ref \in [Reqs -> Mutexes \cup {NoMutex}]
    /\ owner \in [Mutexes -> Reqs \cup {NoReq}]
    /\ locks \in Mutexes \cup {NoMutex}
    /\ \A r \in Reqs :
          IF phase[r] \in {"waiting", "inside", "finished", "unlocked"}
          THEN ref[r] = locks /\ locks # NoMutex
          ELSE ref[r] = NoMutex
    /\ \A m \in Mutexes, r \in Reqs : owner[m] = r <=> r \in Inside /\ ref[r] = m
=============================================================================
