---------------------------- MODULE DraftsProofs ----------------------------
(***************************************************************************)
(* For any number of requests on a draft, of any kinds, with any number of *)
(* failures and requests dropped in the middle:                            *)
(*   - DraftLocks is a lock, and implements Mutex (LockInv);               *)
(*   - the types hold (Typed), and the lock map is empty in the end;       *)
(*   - answers are true when nothing failed (CopyInv);                     *)
(*   - records have their files, whatever failed in between (FileInv).     *)
(* The argument of LockInv: a request that holds a reference holds the one *)
(* in the map, because remove_if spares referenced entries.                *)
(***************************************************************************)
EXTENDS Drafts, FiniteSetTheorems, TLAPS

\* What remove_if's test means: nobody but the map refers to the mutex.
LEMMA CountMeansUnreferenced ==
    ASSUME locks # NoMutex, strong_count(locks) <= 1
    PROVE  \A r \in Reqs : ref[r] # locks
<1> DEFINE S == {r \in Reqs : ref[r] = locks}
<1>1. IsFiniteSet(S)
  BY DraftsAssumption, FS_Subset
<1>2. Cardinality(S) \in Nat
  BY <1>1, FS_CardinalityType
<1>3. Cardinality(S) = 0
  BY <1>2 DEF strong_count
<1>4. S = {}
  BY <1>1, <1>3, FS_EmptySet
<1> QED
  BY <1>4

\* A command or statement that fails, and the body goes on.
BodyStepFails(r) ==
    ReadFails(r) \/ ExpungeFails(r) \/ AppendFails(r) \/ StatementFails(r) \/ RemoveFileFails(r)

\* A step of a body leaves the lock alone and keeps the critical section open.
LEMMA AdvanceKeepsLock ==
    ASSUME LockInv, NEW r \in Reqs, Running(r), Advance(r), UNCHANGED lock
    PROVE  LockInv'
<1>1. \A x \in Reqs \ {r} : phase'[x] = phase[x]
  BY DEF Advance, LockInv
<1>2. /\ phase[r] = "inside" => phase'[r] \in {"inside", "finished"}
      /\ phase[r] # "inside" => phase'[r] \in {"free", "ghost", "done"}
  BY DEF Advance, LockInv, Running
<1>3. phase' \in [Reqs -> {"idle", "waiting", "inside", "free", "ghost", "finished",
                           "unlocked", "dropped", "done"}]
  <2>1. phase' = [phase EXCEPT ![r] = phase'[r]]
    BY DEF Advance, LockInv
  <2> QED
    BY <1>2, <2>1 DEF LockInv, Running
<1> QED
  BY <1>1, <1>2, <1>3 DEF LockInv, Inside, lock, Running

\* Before the first request the map is empty.
LEMMA InitLock == Init => LockInv
  BY DraftsAssumption DEF Init, LockInv, Inside

\* with_lock and the arrival of a request.
LEMMA WithLockStep ==
    ASSUME LockInv, NEW r \in Reqs, (\E k \in Kinds : Begin(r, k)) \/ WithLock(r)
    PROVE  LockInv'
<1> USE DraftsAssumption DEF LockInv, Inside
<1>1. CASE \E k \in Kinds : Begin(r, k)
  <2> PICK k \in Kinds : Begin(r, k)
    BY <1>1
  <2>1. CASE k \in Locked
    <3> PICK m \in Mutexes :
            /\ IF locks = NoMutex THEN \A x \in Reqs : ref[x] # m ELSE m = locks
            /\ locks' = m
            /\ ref' = [ref EXCEPT ![r] = m]
      BY <2>1 DEF Begin, TakeMutex
    <3>1. phase' = [phase EXCEPT ![r] = "waiting"] /\ owner' = owner /\ phase[r] = "idle"
      BY <2>1 DEF Begin
    <3> QED
      BY <3>1
  <2>2. CASE k \notin Locked
    BY <2>2 DEF Begin
  <2> QED
    BY <2>1, <2>2
<1>2. CASE Acquire(r)
  BY <1>2 DEF Acquire
<1>3. CASE Unlock(r)
  BY <1>3 DEF Unlock
<1>4. CASE DropRef(r)
  BY <1>4 DEF DropRef
<1>5. CASE RemoveIf(r)
  BY <1>5, CountMeansUnreferenced DEF RemoveIf
<1> QED
  BY <1>1, <1>2, <1>3, <1>4, <1>5 DEF WithLock

\* The statements and commands of a body.
LEMMA BodyStepKeepsLock == ASSUME LockInv, NEW r \in Reqs, BodyStep(r) PROVE LockInv'
<1>1. Running(r) /\ Advance(r) /\ UNCHANGED lock
  BY DEF BodyStep, ReadStaging, Expunge, AppendCopy, UpsertStaging, DeleteStaging, RemoveDir,
         WriteFile, StageRow, InsertAttachment, RemoveFile, DeleteAttachment, At
<1> QED
  BY <1>1, AdvanceKeepsLock

\* Failures; a dropped request gives back guard and reference together.
LEMMA FailureStep == ASSUME LockInv, NEW r \in Reqs, Failure(r) PROVE LockInv'
<1>1. CASE BodyStepFails(r)
  <2>1. Running(r) /\ Advance(r) /\ UNCHANGED lock
    BY <1>1 DEF BodyStepFails, ReadFails, ExpungeFails, AppendFails, StatementFails, RemoveFileFails, At
  <2> QED
    BY <2>1, AdvanceKeepsLock
<1>2. CASE BodyFails(r)
  <2>1. Running(r)
    BY <1>2 DEF BodyFails, At
  <2> QED
    BY <1>2, <2>1 DEF BodyFails, Running, LockInv, Inside, lock
<1>3. CASE DropRequest(r)
  BY <1>3, DraftsAssumption DEF DropRequest, LockInv, Inside
<1> QED
  BY <1>1, <1>2, <1>3 DEF Failure, BodyStepFails

\* Whoever holds a reference to a draft's mutex holds the one in the map, and
\* the guard belongs to the one open critical section.
THEOREM LockInvariant == Spec => []LockInv
<1>1. LockInv /\ [Next]_vars => LockInv'
  <2>1. ASSUME LockInv, Next PROVE LockInv'
    BY <2>1, WithLockStep, BodyStepKeepsLock, FailureStep DEF Next
  <2>2. ASSUME LockInv, UNCHANGED vars PROVE LockInv'
    BY <2>2 DEF LockInv, Inside, vars, lock
  <2> QED
    BY <2>1, <2>2
<1> QED
  BY <1>1, InitLock, PTL DEF Spec

\* Saves and discards of one draft exclude each other.
THEOREM MutualExclusion == Spec => []OneInside
<1>1. LockInv => OneInside
  <2> SUFFICES ASSUME LockInv, NEW r1 \in Inside, NEW r2 \in Inside PROVE r1 = r2
    BY DEF OneInside
  <2>1. locks \in Mutexes /\ ref[r1] = locks /\ ref[r2] = locks
    BY DEF LockInv, Inside
  <2>2. owner[locks] = r1 /\ owner[locks] = r2
    BY <2>1 DEF LockInv, Inside
  <2> QED
    BY <2>2
<1> QED
  BY <1>1, LockInvariant, PTL

-----------------------------------------------------------------------------
(* Drafts implements Mutex.                                                *)

\* A step of one request moves its stage and nobody else's.
LEMMA OneMoves ==
    ASSUME LockInv, NEW r \in Reqs, \A x \in Reqs \ {r} : phase'[x] = phase[x]
    PROVE  Turn' = [Turn EXCEPT ![r] = Stage(phase'[r])]
  BY DEF Turn, Stage

\* A step that leaves the stage of its request as it is does nothing to the mutex.
LEMMA SameStage ==
    ASSUME LockInv, NEW r \in Reqs, \A x \in Reqs \ {r} : phase'[x] = phase[x],
           Stage(phase'[r]) = Stage(phase[r])
    PROVE  UNCHANGED Turn
<1>1. Turn[r] = Stage(phase[r])
  BY DEF Turn
<1>2. Turn' = [Turn EXCEPT ![r] = Turn[r]]
  BY <1>1, OneMoves
<1> QED
  BY <1>2 DEF Turn

\* A running body stays inside until its guard is dropped.
LEMMA AdvanceSameStage ==
    ASSUME LockInv, NEW r \in Reqs, Running(r), Advance(r)
    PROVE  UNCHANGED Turn
<1>1. \A x \in Reqs \ {r} : phase'[x] = phase[x]
  BY DEF Advance, LockInv
<1>2. /\ phase[r] = "inside" => phase'[r] \in {"inside", "finished"}
      /\ phase[r] # "inside" => phase'[r] \in {"free", "ghost", "done"}
  BY DEF Advance, LockInv, Running
<1>3. Stage(phase'[r]) = Stage(phase[r])
  BY <1>2 DEF Stage, Running
<1> QED
  BY <1>1, <1>3, SameStage

\* Each step of with_lock is a step of the mutex, or none.
LEMMA WithLockMoves ==
    ASSUME LockInv, NEW r \in Reqs, (\E k \in Kinds : Begin(r, k)) \/ WithLock(r)
    PROVE  [Lock!Next]_Turn
<1>1. CASE \E k \in Kinds : Begin(r, k)
  <2>1. phase[r] = "idle" /\ \E p \in {"waiting", "free"} : phase' = [phase EXCEPT ![r] = p]
    BY <1>1 DEF Begin
  <2>2. \A x \in Reqs \ {r} : phase'[x] = phase[x]
    BY <2>1
  <2>3. phase'[r] \in {"waiting", "free"}
    BY <2>1 DEF LockInv
  <2>4. CASE phase'[r] = "free"
    <3>1. Stage(phase'[r]) = Stage(phase[r])
      BY <2>1, <2>4 DEF Stage
    <3> QED
      BY <2>2, <3>1, SameStage
  <2>5. CASE phase'[r] = "waiting"
    <3>1. Turn[r] = "out" /\ Turn' = [Turn EXCEPT ![r] = "waiting"]
      BY <2>1, <2>2, <2>5, OneMoves DEF Turn, Stage
    <3> QED
      BY <3>1 DEF Lock!Next, Lock!Ask, Lock!Move
  <2> QED
    BY <2>3, <2>4, <2>5
<1>2. CASE Acquire(r)
  <2>1. phase[r] = "waiting" /\ owner[ref[r]] = NoReq /\ phase' = [phase EXCEPT ![r] = "inside"]
    BY <1>2 DEF Acquire
  <2>2. Turn[r] = "waiting" /\ Turn' = [Turn EXCEPT ![r] = "in"]
    BY <2>1, OneMoves DEF Turn, Stage, LockInv
  <2>3. ASSUME NEW d \in Reqs PROVE Turn[d] # "in"
    <3> SUFFICES ASSUME d \in Inside PROVE FALSE
      BY DEF Turn, Stage, Inside, LockInv
    <3>1. ref[r] = locks /\ ref[d] = locks /\ locks \in Mutexes
      BY <2>1 DEF LockInv, Inside
    <3>2. owner[locks] = d
      BY <3>1 DEF LockInv
    <3> QED
      BY <2>1, <3>1, <3>2, DraftsAssumption
  <2> QED
    BY <2>2, <2>3 DEF Lock!Next, Lock!Enter, Lock!Move
<1>3. CASE Unlock(r)
  <2>1. phase[r] = "finished" /\ phase' = [phase EXCEPT ![r] = "unlocked"]
    BY <1>3 DEF Unlock
  <2>2. Turn[r] = "in" /\ Turn' = [Turn EXCEPT ![r] = "out"]
    BY <2>1, OneMoves DEF Turn, Stage, LockInv
  <2> QED
    BY <2>2 DEF Lock!Next, Lock!Leave, Lock!Move
<1>4. CASE DropRef(r) \/ RemoveIf(r)
  <2>1. /\ phase[r] \in {"unlocked", "dropped"}
        /\ \E p \in {"dropped", "done"} : phase' = [phase EXCEPT ![r] = p]
    BY <1>4 DEF DropRef, RemoveIf
  <2>2. \A x \in Reqs \ {r} : phase'[x] = phase[x]
    BY <2>1
  <2>3. Stage(phase'[r]) = Stage(phase[r])
    BY <2>1 DEF Stage, LockInv
  <2> QED
    BY <2>2, <2>3, SameStage
<1> QED
  BY <1>1, <1>2, <1>3, <1>4 DEF WithLock

\* So is what happens in a body, and a request that is dropped leaves or gives up.
LEMMA BodyMoves ==
    ASSUME LockInv, NEW r \in Reqs, BodyStep(r) \/ Failure(r)
    PROVE  [Lock!Next]_Turn
<1>1. CASE BodyStep(r) \/ BodyStepFails(r)
  <2>1. Running(r) /\ Advance(r)
    BY <1>1 DEF BodyStep, ReadStaging, Expunge, AppendCopy, UpsertStaging, DeleteStaging,
         RemoveDir, WriteFile, StageRow, InsertAttachment, RemoveFile, DeleteAttachment,
         BodyStepFails, ReadFails, ExpungeFails, AppendFails, StatementFails, RemoveFileFails, At
  <2> QED
    BY <2>1, AdvanceSameStage
<1>2. CASE BodyFails(r)
  <2>1. /\ Running(r)
        /\ phase' = [phase EXCEPT ![r] = IF @ = "inside" THEN "finished" ELSE "done"]
    BY <1>2 DEF BodyFails, At
  <2>2. \A x \in Reqs \ {r} : phase'[x] = phase[x]
    BY <2>1
  <2>3. phase'[r] = IF phase[r] = "inside" THEN "finished" ELSE "done"
    BY <2>1 DEF LockInv
  <2>4. Stage(phase'[r]) = Stage(phase[r])
    BY <2>1, <2>3 DEF Stage, Running
  <2> QED
    BY <2>2, <2>4, SameStage
<1>3. CASE DropRequest(r)
  <2>1. /\ phase[r] \in {"waiting", "inside", "free"}
        /\ \E p \in {"done", "ghost"} : phase' = [phase EXCEPT ![r] = p]
    BY <1>3 DEF DropRequest
  <2>2. Turn' = [Turn EXCEPT ![r] = "out"]
    BY <2>1, OneMoves DEF Stage, LockInv
  <2>3. CASE phase[r] = "waiting"
    BY <2>2, <2>3 DEF Turn, Stage, Lock!Next, Lock!GiveUp, Lock!Move
  <2>4. CASE phase[r] = "inside"
    BY <2>2, <2>4 DEF Turn, Stage, Lock!Next, Lock!Leave, Lock!Move
  <2>5. CASE phase[r] = "free"
    BY <2>2, <2>5 DEF Turn, Stage
  <2> QED
    BY <2>1, <2>3, <2>4, <2>5
<1> QED
  BY <1>1, <1>2, <1>3 DEF Failure, BodyStepFails

\* with_lock implements a mutex: every behaviour of the requests on a draft,
\* with its map entries coming and going, is one of Mutex.
THEOREM ImplementsMutex == Spec => OneAtATime
<1>1. Init => Lock!Init
  BY DEF Init, Lock!Init, Turn, Stage
<1>2. LockInv /\ [Next]_vars => [Lock!Next]_Turn
  <2>1. ASSUME LockInv, Next PROVE [Lock!Next]_Turn
    BY <2>1, WithLockMoves, BodyMoves DEF Next
  <2>2. ASSUME UNCHANGED vars PROVE UNCHANGED Turn
    BY <2>2 DEF vars, Turn
  <2> QED
    BY <2>1, <2>2
<1> QED
  BY <1>1, <1>2, LockInvariant, PTL DEF Spec, OneAtATime, Lock!Spec

-----------------------------------------------------------------------------
(* Types.                                                                  *)

\* A request starts at the first step of its body, and only a locked one is
\* ever inside.
Typed ==
    /\ TypeOK /\ DOMAIN step = Reqs
    /\ \A r \in Reqs :
          /\ phase[r] \in {"idle", "waiting"} => step[r] = 1
          /\ phase[r] \in {"waiting", "inside"} => kind[r] \in Locked

Phases == {"idle", "waiting", "inside", "free", "ghost", "finished", "unlocked", "dropped", "done"}

\* Every operation has a first step.
LEMMA BodyNotEmpty ==
    ASSUME NEW k \in Kinds \cup {"save"}
    PROVE  Len(Body(k)) \in Nat \ {0}
<1>1. k \in {"save", "delete", "cleanup", "upload", "unattach"}
  BY DraftsAssumption
<1> QED
  BY <1>1 DEF Body

\* A step of a body keeps the types of what Advance changes.
LEMMA AdvanceTyped ==
    ASSUME Typed, NEW r \in Reqs, Running(r), Advance(r), kind' = kind
    PROVE  /\ phase' \in [Reqs -> Phases] /\ DOMAIN step' = Reqs
           /\ \A x \in Reqs : step'[x] \in 1 .. Len(Body(kind'[x]))
           /\ answer' \in Locked \cup {"none"}
           /\ \A x \in Reqs :
                 /\ phase'[x] \in {"idle", "waiting"} => step'[x] = 1
                 /\ phase'[x] \in {"waiting", "inside"} => kind'[x] \in Locked
<1> DEFINE last == \/ step[r] = Len(Body(kind[r]))
                   \/ phase[r] = "ghost" /\ ~At(r, "stage")
           next == CASE ~last -> phase[r]
                     [] last /\ phase[r] = "inside" -> "finished"
                     [] OTHER -> "done"
<1>1. /\ step' = IF last THEN step ELSE [step EXCEPT ![r] = step[r] + 1]
      /\ phase' = [phase EXCEPT ![r] = next]
      /\ answer' = IF last /\ phase[r] = "inside" THEN kind[r] ELSE answer
  BY DEF Advance
<1>2. phase \in [Reqs -> Phases] /\ kind[r] \in Kinds \cup {"save"} /\ answer \in Locked \cup {"none"}
  BY DEF Typed, TypeOK, Phases
<1>3. \A x \in Reqs : step[x] \in 1 .. Len(Body(kind[x]))
  BY DEF Typed, TypeOK
<1>4. Len(Body(kind[r])) \in Nat
  BY <1>2, BodyNotEmpty
<1>5. last \/ step[r] # Len(Body(kind[r]))
  OBVIOUS
<1>6. last \in BOOLEAN
  OBVIOUS
<1>7. next \in Phases \ {"idle", "waiting"} /\ (next = "inside" => phase[r] = "inside")
  BY DEF Running, Phases
<1> HIDE DEF last, next
<1>8. \A x \in Reqs : step'[x] \in 1 .. Len(Body(kind'[x]))
  <2> SUFFICES ASSUME NEW x \in Reqs PROVE step'[x] \in 1 .. Len(Body(kind[x]))
    OBVIOUS
  <2>1. CASE last
    BY <1>1, <1>3, <2>1
  <2>2. CASE ~last /\ x # r
    BY <1>1, <1>3, <2>2
  <2>3. CASE ~last /\ x = r
    <3>1. step[r] + 1 \in 1 .. Len(Body(kind[r]))
      BY <1>3, <1>4, <1>5, <2>3
    <3>2. step'[x] = IF r \in DOMAIN step THEN step[r] + 1 ELSE step[x]
      BY <1>1, <2>3
    <3> QED
      BY <3>1, <3>2, <1>3, <2>3
  <2> QED
    BY <2>1, <2>2, <2>3
<1>9. ASSUME NEW x \in Reqs
      PROVE  /\ phase'[x] \in {"idle", "waiting"} => step'[x] = 1
             /\ phase'[x] \in {"waiting", "inside"} => kind'[x] \in Locked
  <2>1. CASE x = r
    BY <1>1, <1>2, <1>7, <2>1 DEF Typed
  <2>2. CASE x # r
    <3>1. phase'[x] = phase[x] /\ step'[x] = step[x]
      BY <1>1, <1>2, <2>2
    <3> QED
      BY <3>1 DEF Typed
  <2> QED
    BY <2>1, <2>2
<1>10. answer' \in Locked \cup {"none"}
  BY <1>1, <1>2 DEF Typed
<1>11. phase' \in [Reqs -> Phases] /\ DOMAIN step' = Reqs
  BY <1>1, <1>2, <1>7 DEF Typed
<1> QED
  BY <1>8, <1>9, <1>10, <1>11

\* Before the first request.
LEMMA InitTyped == Init => Typed
<1> SUFFICES ASSUME Init PROVE Typed
  OBVIOUS
<1>1. Len(Body("save")) = 4
  BY DEF Body
<1>2. \A r \in Reqs : step[r] \in 1 .. Len(Body(kind[r]))
  <2> SUFFICES ASSUME NEW r \in Reqs PROVE step[r] \in 1 .. Len(Body(kind[r]))
    OBVIOUS
  <2>1. kind[r] = "save" /\ step[r] = 1
    BY DEF Init
  <2>2. Len(Body(kind[r])) = 4
    BY <1>1, <2>1
  <2> QED
    BY <2>1, <2>2
<1> QED
  BY <1>2, DraftsAssumption DEF Init, Typed, TypeOK, Uids, Locked

\* What no step of a body touches but its own part of the data.
LEMMA BodyTyped ==
    ASSUME Typed, NEW r \in Reqs,
           BodyStep(r) \/ BodyStepFails(r)
    PROVE  Typed'
<1>1. Running(r) /\ Advance(r) /\ kind' = kind /\ UNCHANGED <<target, lock, bypass>>
  BY DEF BodyStep, ReadStaging, Expunge, AppendCopy, UpsertStaging, DeleteStaging, RemoveDir,
         WriteFile, StageRow, InsertAttachment, RemoveFile, DeleteAttachment,
         BodyStepFails, ReadFails, ExpungeFails, AppendFails, StatementFails, RemoveFileFails, At
<1>2. /\ phase' \in [Reqs -> Phases] /\ DOMAIN step' = Reqs
      /\ \A x \in Reqs : step'[x] \in 1 .. Len(Body(kind'[x]))
      /\ answer' \in Locked \cup {"none"}
      /\ \A x \in Reqs :
            /\ phase'[x] \in {"idle", "waiting"} => step'[x] = 1
            /\ phase'[x] \in {"waiting", "inside"} => kind'[x] \in Locked
  BY <1>1, AdvanceTyped
<1> USE DEF Typed, TypeOK, Uids, Fault
<1>3. uid' \in [Reqs -> Uids]
  <2>1. uid' = uid \/ \E v \in {NoUid, uidnext, IF staging = NoRow THEN NoUid ELSE staging} :
                         uid' = [uid EXCEPT ![r] = v]
    BY DEF BodyStep, ReadStaging, Expunge, AppendCopy, UpsertStaging, DeleteStaging, RemoveDir,
           WriteFile, StageRow, InsertAttachment, RemoveFile, DeleteAttachment,
           BodyStepFails, ReadFails, ExpungeFails, AppendFails, StatementFails, RemoveFileFails
  <2>2. {NoUid, uidnext, IF staging = NoRow THEN NoUid ELSE staging} \subseteq Uids
    OBVIOUS
  <2>3. ASSUME NEW v \in Uids, uid' = [uid EXCEPT ![r] = v] PROVE uid' \in [Reqs -> Uids]
    BY <2>3
  <2>4. uid' = uid \/ \E v \in Uids : uid' = [uid EXCEPT ![r] = v]
    BY <2>1, <2>2
  <2> QED
    BY <2>3, <2>4
<1>4. staging' \in Uids \cup {NoRow}
  BY DEF BodyStep, ReadStaging, Expunge, AppendCopy, UpsertStaging, DeleteStaging, RemoveDir,
         WriteFile, StageRow, InsertAttachment, RemoveFile, DeleteAttachment, upsert_staging,
         BodyStepFails, ReadFails, ExpungeFails, AppendFails, StatementFails, RemoveFileFails, disk
<1>5. atts' \subseteq Reqs /\ files' \subseteq Reqs /\ crossed' \subseteq Reqs
  BY DEF Uploading, BodyStep, ReadStaging, Expunge, AppendCopy, UpsertStaging, DeleteStaging, RemoveDir,
         WriteFile, StageRow, InsertAttachment, RemoveFile, DeleteAttachment,
         BodyStepFails, ReadFails, ExpungeFails, AppendFails, StatementFails, RemoveFileFails, disk
<1>6. copies' \subseteq Nat /\ uidnext' \in Nat
  <2>1. \/ UNCHANGED imap
        \/ copies' = copies \ {uid[r]} /\ uidnext' = uidnext
        \/ copies' = copies \cup {uidnext} /\ uidnext' = uidnext + 1
    BY DEF BodyStep, ReadStaging, Expunge, AppendCopy, UpsertStaging, DeleteStaging, RemoveDir,
           WriteFile, StageRow, InsertAttachment, RemoveFile, DeleteAttachment, disk,
           BodyStepFails, ReadFails, ExpungeFails, AppendFails, StatementFails, RemoveFileFails, imap
  <2>2. copies \subseteq Nat /\ uidnext \in Nat
    OBVIOUS
  <2>3. CASE UNCHANGED imap
    BY <2>2, <2>3 DEF imap
  <2>4. CASE copies' = copies \ {uid[r]} /\ uidnext' = uidnext
    BY <2>2, <2>4
  <2>5. CASE copies' = copies \cup {uidnext} /\ uidnext' = uidnext + 1
    BY <2>2, <2>5
  <2> QED
    BY <2>1, <2>3, <2>4, <2>5
<1>7. faults' \in 0 .. MaxFaults
  BY DraftsAssumption DEF BodyStep, ReadStaging, Expunge, AppendCopy, UpsertStaging, DeleteStaging, RemoveDir,
         WriteFile, StageRow, InsertAttachment, RemoveFile, DeleteAttachment,
         BodyStepFails, ReadFails, ExpungeFails, AppendFails, StatementFails, RemoveFileFails
<1>8. target' = target /\ locks' = locks /\ ref' = ref /\ owner' = owner /\ bypass' = bypass
  BY <1>1 DEF lock
<1> QED
  BY <1>1, <1>2, <1>3, <1>4, <1>5, <1>6, <1>7, <1>8 DEF Phases

\* The arrival of a request, with_lock, and the ways out of it.
LEMMA LockTyped ==
    ASSUME Typed, NEW r \in Reqs,
           (\E k \in Kinds : Begin(r, k)) \/ WithLock(r) \/ BodyFails(r) \/ DropRequest(r)
    PROVE  Typed'
<1> USE DraftsAssumption DEF Typed, TypeOK, local, disk, imap, lock
<1>1. CASE \E k \in Kinds : Begin(r, k)
  <2> PICK k \in Kinds : Begin(r, k)
    BY <1>1
  <2>1. kind' = [kind EXCEPT ![r] = k] /\ step' = step /\ phase[r] = "idle" /\ step[r] = 1
    BY DEF Begin
  <2>2. \A x \in Reqs : step'[x] \in 1 .. Len(Body(kind'[x]))
    <3> SUFFICES ASSUME NEW x \in Reqs PROVE step'[x] \in 1 .. Len(Body(kind'[x]))
      OBVIOUS
    <3>1. CASE x = r
      <4>1. Len(Body(k)) \in Nat \ {0}
        BY BodyNotEmpty
      <4>2. kind'[x] = k /\ step'[x] = 1
        BY <2>1, <3>1
      <4> QED
        BY <4>1, <4>2
    <3>2. CASE x # r
      BY <2>1, <3>2
    <3> QED
      BY <3>1, <3>2
  <2>3. kind' \in [Reqs -> Kinds \cup {"save"}] /\ crossed' \subseteq Reqs
    BY <2>1 DEF Begin
  <2>4. CASE k \in Locked
    <3>1. /\ TakeMutex(r) /\ phase' = [phase EXCEPT ![r] = "waiting"]
          /\ UNCHANGED <<bypass, target, step, uid, owner, disk, imap, answer, faults>>
      BY <2>4 DEF Begin
    <3>2. locks' \in Mutexes /\ ref' \in [Reqs -> Mutexes \cup {NoMutex}]
      BY <3>1 DEF TakeMutex
    <3> QED
      BY <2>1, <2>2, <2>3, <2>4, <3>1, <3>2
  <2>5. CASE k \notin Locked
    <3>1. /\ phase' = [phase EXCEPT ![r] = "free"] /\ bypass' = bypass \cup {k}
          /\ UNCHANGED <<locks, ref, step, uid, owner, disk, imap, answer, faults>>
      BY <2>5 DEF Begin
    <3>2. target' \in [Reqs -> Reqs \cup {NoReq}]
      BY <2>5 DEF Begin
    <3>3. /\ phase' \in [Reqs -> Phases] /\ bypass' \subseteq Kinds \ Locked
          /\ phase'[r] \notin {"idle", "waiting", "inside"}
          /\ \A x \in Reqs \ {r} : phase'[x] = phase[x] /\ kind'[x] = kind[x]
      BY <2>1, <2>5, <3>1 DEF Phases
    <3> QED
      BY <2>1, <2>2, <2>3, <3>1, <3>2, <3>3 DEF Phases
  <2> QED
    BY <2>4, <2>5
<1>2. CASE WithLock(r)
  <2>1. CASE Acquire(r)
    BY <2>1 DEF Acquire
  <2>2. CASE Unlock(r)
    BY <2>2 DEF Unlock
  <2>3. CASE DropRef(r)
    BY <2>3 DEF DropRef
  <2>4. CASE RemoveIf(r)
    BY <2>4 DEF RemoveIf
  <2> QED
    BY <1>2, <2>1, <2>2, <2>3, <2>4 DEF WithLock
<1>3. CASE BodyFails(r)
  BY <1>3 DEF BodyFails, Fault
<1>4. CASE DropRequest(r)
  <2>1. /\ phase' \in [Reqs -> Phases] /\ \A x \in Reqs : phase'[x] = phase[x] \/ phase'[x] \in {"done", "ghost"}
        /\ UNCHANGED <<local, locks, disk, imap, answer, bypass, crossed>>
    <3>1. PICK p \in {"done", "ghost"} : phase' = [phase EXCEPT ![r] = p]
      BY <1>4 DEF DropRequest
    <3>2. UNCHANGED <<local, locks, disk, imap, answer, bypass, crossed>>
      BY <1>4 DEF DropRequest
    <3> QED BY <3>1, <3>2 DEF Phases
  <2>2. ref' \in [Reqs -> Mutexes \cup {NoMutex}] /\ owner' \in [Mutexes -> Reqs \cup {NoReq}]
    BY <1>4 DEF DropRequest
  <2>3. faults' \in 0 .. MaxFaults
    BY <1>4 DEF DropRequest, Fault
  <2> QED
    BY <2>1, <2>2, <2>3 DEF Phases
<1> QED
  BY <1>1, <1>2, <1>3, <1>4

LEMMA TypesKept == Typed /\ [Next]_vars => Typed'
<1> SUFFICES ASSUME Typed, [Next]_vars PROVE Typed'
  OBVIOUS
<1>1. CASE Next
  BY <1>1, BodyTyped, LockTyped DEF Next, Failure, BodyStepFails
<1>2. CASE UNCHANGED vars
  BY <1>2 DEF Typed, TypeOK, vars, local, lock, disk, imap
<1> QED
  BY <1>1, <1>2

\* Requests, locks, rows, files and copies keep their types, for any number of
\* requests; no request runs past the end of its body.
THEOREM DraftsTypeCorrect == Spec => []TypeOK
<1>1. Typed => TypeOK
  BY DEF Typed
<1> QED
  BY <1>1, InitTyped, TypesKept, PTL DEF Spec

-----------------------------------------------------------------------------
(* The map does not grow.                                                  *)

InUse == {"waiting", "inside", "finished", "unlocked", "dropped"}

\* An entry of the map has a request that is going to try to remove it.
EntryUsed == faults = 0 /\ locks # NoMutex => \E r \in Reqs : phase[r] \in InUse

\* remove_if leaves an entry only for one that still refers to it.
LEMMA CountMeansReferenced ==
    ASSUME locks # NoMutex, ~(strong_count(locks) <= 1)
    PROVE  \E r \in Reqs : ref[r] = locks
<1> SUFFICES ASSUME \A r \in Reqs : ref[r] # locks PROVE FALSE
  OBVIOUS
<1>1. {r \in Reqs : ref[r] = locks} = {}
  OBVIOUS
<1> QED
  BY <1>1, FS_EmptySet DEF strong_count

LEMMA EntryUsedKept ==
    ASSUME Typed, LockInv, EntryUsed, [Next]_vars
    PROVE  EntryUsed'
<1> SUFFICES ASSUME faults' = 0, locks' # NoMutex PROVE \E r \in Reqs : phase'[r] \in InUse
  BY DEF EntryUsed
<1>1. faults \in Nat
  BY DEF Typed, TypeOK
<1>2. CASE UNCHANGED vars
  BY <1>2 DEF vars, lock, EntryUsed
<1>3. CASE Next
  <2> PICK r \in Reqs : (\E k \in Kinds : Begin(r, k)) \/ WithLock(r) \/ BodyStep(r) \/ Failure(r)
    BY <1>3 DEF Next
  <2>1. CASE Failure(r)
    BY <1>1, <2>1 DEF Failure, BodyStepFails, ReadFails, ExpungeFails, AppendFails, StatementFails, RemoveFileFails, BodyFails, DropRequest, Fault
  <2>2. CASE BodyStep(r)
    <3>1. Running(r) /\ Advance(r) /\ UNCHANGED lock /\ faults' = faults
      BY <2>2 DEF BodyStep, ReadStaging, Expunge, AppendCopy, UpsertStaging, DeleteStaging, RemoveDir,
             WriteFile, StageRow, InsertAttachment, RemoveFile, DeleteAttachment, At
    <3>2. PICK w \in Reqs : phase[w] \in InUse
      BY <3>1 DEF lock, EntryUsed
    <3>3. /\ \A x \in Reqs \ {r} : phase'[x] = phase[x]
          /\ phase[r] = "inside" => phase'[r] \in {"inside", "finished"}
      BY <3>1 DEF Advance, LockInv, Running
    <3> QED
      BY <3>1, <3>2, <3>3 DEF InUse, Running
  <2>3. CASE \E k \in Kinds : Begin(r, k)
    <3>1. PICK p \in {"waiting", "free"} :
             /\ phase' = [phase EXCEPT ![r] = p] /\ phase[r] = "idle" /\ faults' = faults
             /\ p = "free" => locks' = locks
      BY <2>3 DEF Begin
    <3>2. CASE p = "waiting"
      BY <3>1, <3>2 DEF LockInv, InUse
    <3>3. CASE p = "free"
      <4>1. PICK w \in Reqs : phase[w] \in InUse
        BY <3>1, <3>3 DEF EntryUsed
      <4> QED
        BY <3>1, <4>1 DEF LockInv, InUse
    <3> QED
      BY <3>2, <3>3
  <2>4. CASE Acquire(r) \/ Unlock(r) \/ DropRef(r)
    <3>1. phase' = [phase EXCEPT ![r] = phase'[r]] /\ phase'[r] \in InUse
      BY <2>4 DEF Acquire, Unlock, DropRef, LockInv, InUse
    <3> QED
      BY <3>1
  <2>5. CASE RemoveIf(r)
    <3>1. locks' = locks /\ locks # NoMutex /\ ~(strong_count(locks) <= 1)
      BY <2>5 DEF RemoveIf
    <3>2. PICK x \in Reqs : ref[x] = locks
      BY <3>1, CountMeansReferenced
    <3>3. phase[x] \in {"waiting", "inside", "finished", "unlocked"}
      BY <3>1, <3>2 DEF LockInv
    <3>4. phase'[x] = phase[x]
      BY <2>5, <3>3 DEF RemoveIf, LockInv
    <3> QED
      BY <3>3, <3>4 DEF InUse
  <2> QED
    BY <2>1, <2>2, <2>3, <2>4, <2>5 DEF WithLock
<1> QED
  BY <1>2, <1>3

\* When all requests are through and none was dropped, the map is empty.
THEOREM LocksGoWithRequests == Spec => []NoLockLeak
<1>1. Init => EntryUsed
  BY DEF Init, EntryUsed
<1>2. EntryUsed => NoLockLeak
  BY DEF EntryUsed, NoLockLeak, AtRest, InUse
<1>3. Typed /\ LockInv /\ EntryUsed /\ [Next]_vars => EntryUsed'
  BY EntryUsedKept
<1> QED
  BY <1>1, <1>2, <1>3, InitTyped, TypesKept, LockInvariant, PTL DEF Spec

-----------------------------------------------------------------------------
(* Answers are true.                                                       *)

\* Nothing failed and nobody went past the lock.
Orderly == faults = 0 /\ bypass = {}

\* What the last answer said.
Answered ==
    /\ copies = Staged
    /\ answer = "save" => staging \in Nat
    /\ answer = "delete" => staging = NoRow

InHand(r) == IF staging = NoRow THEN NoUid ELSE staging

\* Where the copy and the row are when the one inside has come so far.
SoFar(r) ==
    /\ step[r] = 1 => Answered
    /\ step[r] = 2 => copies = Staged /\ uid[r] = InHand(r)
    /\ kind[r] = "save" /\ step[r] = 3 => copies = {}
    /\ kind[r] = "save" /\ step[r] = 4 => uid[r] \in Nat /\ copies = {uid[r]}
    /\ kind[r] = "delete" /\ step[r] = 3 => staging = NoRow /\ copies = {uid[r]} \ {NoUid}
    /\ kind[r] = "delete" /\ step[r] = 4 => staging = NoRow /\ copies = {}

CopyInv ==
    Orderly =>
        /\ \A r \in Reqs : phase[r] \notin {"free", "ghost"}
        /\ Inside = {} => Answered
        /\ \A r \in Reqs : phase[r] = "finished" => Answered
        /\ \A r \in Reqs : phase[r] = "inside" => SoFar(r)

\* Which step of which body a command or statement is.
LEMMA WhichStep ==
    ASSUME Typed, NEW r \in Reqs, phase[r] = "inside"
    PROVE  /\ kind[r] \in {"save", "delete"} /\ step[r] \in 1 .. 4 /\ Len(Body(kind[r])) = 4
           /\ At(r, "read") => step[r] = 1
           /\ At(r, "expunge") => (kind[r] = "save" /\ step[r] = 2) \/ (kind[r] = "delete" /\ step[r] = 3)
           /\ At(r, "append") => kind[r] = "save" /\ step[r] = 3
           /\ At(r, "upsert") => kind[r] = "save" /\ step[r] = 4
           /\ At(r, "delrow") => kind[r] = "delete" /\ step[r] = 2
           /\ At(r, "rmdir") => kind[r] = "delete" /\ step[r] = 4
           /\ \A s \in {"write", "stage", "insert", "unlink", "delatt"} : ~At(r, s)
<1>1. kind[r] \in {"save", "delete"}
  BY DEF Typed, Locked
<1>2. Body("save") = <<"read", "expunge", "append", "upsert">> /\ Body("delete") = <<"read", "delrow", "expunge", "rmdir">>
  BY DEF Body
<1>3. Len(Body(kind[r])) = 4
  BY <1>1, <1>2
<1>4. step[r] \in 1 .. 4
  BY <1>3 DEF Typed, TypeOK
<1>5. step[r] \in {1, 2, 3, 4}
  BY <1>4
<1>6. CASE kind[r] = "save"
  BY <1>2, <1>3, <1>4, <1>5, <1>6 DEF At
<1>7. CASE kind[r] = "delete"
  BY <1>2, <1>3, <1>4, <1>5, <1>7 DEF At
<1> QED
  BY <1>1, <1>6, <1>7

\* The one inside moves on, or comes to the end and is answered.
LEMMA InsideAdvances ==
    ASSUME Typed, NEW r \in Reqs, phase[r] = "inside", Advance(r)
    PROVE  /\ \A x \in Reqs \ {r} : phase'[x] = phase[x]
           /\ step[r] # 4 => phase'[r] = "inside" /\ step'[r] = step[r] + 1 /\ answer' = answer
           /\ step[r] = 4 => phase'[r] = "finished" /\ answer' = kind[r]
<1>1. Len(Body(kind[r])) = 4
  BY WhichStep
<1>2. phase[r] # "ghost"
  OBVIOUS
<1>3. DOMAIN phase = Reqs /\ DOMAIN step = Reqs
  BY DEF Typed, TypeOK
<1> QED
  BY <1>1, <1>2, <1>3 DEF Advance

\* Who is inside is alone there.
LEMMA AloneInside ==
    ASSUME LockInv, NEW r \in Inside, NEW x \in Inside
    PROVE  r = x
<1>1. locks \in Mutexes /\ ref[r] = locks /\ ref[x] = locks
  BY DEF LockInv, Inside
<1>2. owner[locks] = r /\ owner[locks] = x
  BY <1>1 DEF LockInv, Inside
<1> QED
  BY <1>2

\* The command or statement of the one inside leaves copy and row as SoFar says.
LEMMA BodyKeepsCopy ==
    ASSUME Typed, LockInv, CopyInv, Orderly, NEW r \in Reqs, phase[r] = "inside", BodyStep(r)
    PROVE  CopyInv'
<1> USE DraftsAssumption
<1>1. Advance(r) /\ kind' = kind /\ faults' = faults /\ bypass' = bypass
  BY DEF BodyStep, ReadStaging, Expunge, AppendCopy, UpsertStaging, DeleteStaging, RemoveDir,
         WriteFile, StageRow, InsertAttachment, RemoveFile, DeleteAttachment
<1>2. /\ \A x \in Reqs \ {r} : phase'[x] = phase[x]
      /\ step[r] # 4 => phase'[r] = "inside" /\ step'[r] = step[r] + 1 /\ answer' = answer
      /\ step[r] = 4 => phase'[r] = "finished" /\ answer' = kind[r]
  BY <1>1, InsideAdvances
<1>3. /\ kind[r] \in {"save", "delete"} /\ step[r] \in 1 .. 4
      /\ At(r, "read") => step[r] = 1
      /\ At(r, "expunge") => (kind[r] = "save" /\ step[r] = 2) \/ (kind[r] = "delete" /\ step[r] = 3)
      /\ At(r, "append") => kind[r] = "save" /\ step[r] = 3
      /\ At(r, "upsert") => kind[r] = "save" /\ step[r] = 4
      /\ At(r, "delrow") => kind[r] = "delete" /\ step[r] = 2
      /\ At(r, "rmdir") => kind[r] = "delete" /\ step[r] = 4
      /\ \A s \in {"write", "stage", "insert", "unlink", "delatt"} : ~At(r, s)
  BY WhichStep
<1>4. SoFar(r) /\ \A x \in Reqs : phase[x] \notin {"free", "ghost"}
  BY DEF CopyInv
<1>5. /\ uid \in [Reqs -> Uids] /\ staging \in Nat \cup {NoUid, NoRow} /\ uidnext \in Nat
      /\ \A n \in Nat : n # NoUid /\ n # NoRow
  BY DEF Typed, TypeOK, Uids
<1>6. IF step[r] = 4 THEN Answered' ELSE SoFar(r)'
  <2>1. CASE ReadStaging(r)
    <3>1. step[r] = 1 /\ step'[r] = 2 /\ copies' = copies /\ staging' = staging
          /\ uid'[r] = InHand(r)
      BY <1>2, <1>3, <1>5, <2>1 DEF ReadStaging, InHand, imap, disk
    <3> QED
      BY <1>4, <3>1 DEF SoFar, Answered, Staged, InHand
  <2>2. CASE Expunge(r)
    <3>1. copies' = copies \ {uid[r]} /\ staging' = staging /\ uid' = uid /\ At(r, "expunge")
      BY <2>2 DEF Expunge, disk
    <3>2. CASE kind[r] = "save"
      BY <1>1, <1>2, <1>3, <1>4, <1>5, <3>1, <3>2 DEF SoFar, Staged, InHand
    <3>3. CASE kind[r] = "delete"
      <4>1. step[r] = 3 /\ step'[r] = 4 /\ staging = NoRow /\ copies = {uid[r]} \ {NoUid}
        BY <1>2, <1>3, <1>4, <3>1, <3>3 DEF SoFar
      <4> QED
        BY <1>1, <3>1, <3>3, <4>1 DEF SoFar
    <3> QED
      BY <1>3, <3>2, <3>3
  <2>3. CASE AppendCopy(r)
    <3>1. /\ copies' = copies \cup {uidnext} /\ uid'[r] = uidnext
          /\ kind[r] = "save" /\ step[r] = 3 /\ step'[r] = 4
      BY <1>2, <1>3, <1>5, <2>3 DEF AppendCopy
    <3> QED
      BY <1>1, <1>4, <1>5, <3>1 DEF SoFar
  <2>4. CASE UpsertStaging(r)
    <3>1. /\ staging' = uid[r] /\ copies' = copies
          /\ kind[r] = "save" /\ step[r] = 4 /\ answer' = "save"
      BY <1>2, <1>3, <2>4 DEF UpsertStaging, upsert_staging, imap
    <3>2. uid[r] \in Nat /\ copies = {uid[r]}
      BY <1>4, <3>1 DEF SoFar
    <3> QED
      BY <1>5, <3>1, <3>2 DEF Answered, Staged
  <2>5. CASE DeleteStaging(r)
    <3>1. /\ staging' = NoRow /\ copies' = copies /\ uid' = uid
          /\ kind[r] = "delete" /\ step[r] = 2 /\ step'[r] = 3
      BY <1>2, <1>3, <2>5 DEF DeleteStaging, imap
    <3>2. copies = {uid[r]} \ {NoUid}
      BY <1>4, <1>5, <3>1 DEF SoFar, Staged, InHand
    <3> QED
      BY <1>1, <3>1, <3>2 DEF SoFar
  <2>6. CASE RemoveDir(r)
    <3>1. /\ staging' = staging /\ copies' = copies
          /\ kind[r] = "delete" /\ step[r] = 4 /\ answer' = "delete"
      BY <1>2, <1>3, <2>6 DEF RemoveDir, imap
    <3> QED
      BY <1>4, <3>1 DEF Answered, Staged, SoFar
  <2>7. CASE WriteFile(r) \/ StageRow(r) \/ InsertAttachment(r) \/ RemoveFile(r) \/ DeleteAttachment(r)
    BY <1>3, <2>7 DEF WriteFile, StageRow, InsertAttachment, RemoveFile, DeleteAttachment
  <2> QED
    BY <2>1, <2>2, <2>3, <2>4, <2>5, <2>6, <2>7 DEF BodyStep
<1>7. \A x \in Reqs \ {r} : phase'[x] \notin {"free", "ghost", "inside", "finished"}
  BY <1>2, <1>4, AloneInside DEF Inside
<1>8. phase'[r] \in {"inside", "finished"} /\ Inside' # {}
  BY <1>2 DEF Inside
<1> QED
  BY <1>2, <1>6, <1>7, <1>8 DEF CopyInv

\* with_lock lets a request in on an answered draft, and out of one.
LEMMA LockKeepsCopy ==
    ASSUME Typed, LockInv, CopyInv, Orderly, NEW r \in Reqs,
           (\E k \in Kinds : Begin(r, k)) \/ WithLock(r), Orderly'
    PROVE  CopyInv'
<1>1. /\ UNCHANGED <<copies, staging, answer>> /\ step' = step /\ uid' = uid
      /\ \A x \in Reqs \ {r} : phase'[x] = phase[x] /\ kind'[x] = kind[x]
      /\ phase[r] # "idle" => kind'[r] = kind[r]
  BY DEF Begin, WithLock, Acquire, Unlock, DropRef, RemoveIf, local, disk, imap, Typed, TypeOK
<1>2. \A x \in Reqs \ {r} : SoFar(x)' <=> SoFar(x)
  BY <1>1 DEF SoFar, Answered, Staged, InHand
<1>3. (Answered' <=> Answered) /\ DOMAIN phase = Reqs
  BY <1>1 DEF Answered, Staged, Typed, TypeOK
<1>4. \A x \in Reqs : phase[x] \notin {"free", "ghost"}
  BY DEF CopyInv
<1>5. CASE \E k \in Kinds : Begin(r, k)
  <2> PICK k \in Kinds : Begin(r, k)
    BY <1>5
  <2>1. k \in Locked
    BY DEF Begin, Orderly
  <2>2. phase[r] = "idle" /\ phase'[r] = "waiting"
    BY <1>3, <2>1 DEF Begin
  <2>3. Inside' = Inside
    BY <1>1, <2>2 DEF Inside
  <2> QED
    BY <1>1, <1>2, <1>3, <1>4, <2>2, <2>3 DEF CopyInv
<1>6. CASE Acquire(r)
  <2>1. phase[r] = "waiting" /\ phase'[r] = "inside" /\ owner[ref[r]] = NoReq
    BY <1>3, <1>6 DEF Acquire
  <2>2. Inside = {}
    <3> SUFFICES ASSUME NEW d \in Inside PROVE FALSE
      OBVIOUS
    <3>1. ref[r] = locks /\ ref[d] = locks /\ locks \in Mutexes /\ d \in Reqs
      BY <2>1 DEF LockInv, Inside
    <3>2. owner[locks] = d
      BY <3>1 DEF LockInv
    <3> QED
      BY <2>1, <3>1, <3>2, DraftsAssumption
  <2>3. Answered /\ step[r] = 1
    BY <2>1, <2>2 DEF CopyInv, Typed
  <2>4. SoFar(r)'
    BY <1>1, <1>3, <2>3 DEF SoFar
  <2>5. \A x \in Reqs \ {r} : phase'[x] \notin {"free", "ghost", "inside", "finished"}
    BY <1>1, <1>4, <2>2 DEF Inside
  <2> QED
    BY <1>3, <2>1, <2>3, <2>4, <2>5 DEF CopyInv
<1>7. CASE Unlock(r)
  <2>1. phase[r] = "finished" /\ phase'[r] = "unlocked"
    BY <1>3, <1>7 DEF Unlock
  <2>2. Answered
    BY <2>1 DEF CopyInv
  <2> QED
    BY <1>1, <1>2, <1>3, <1>4, <2>1, <2>2 DEF CopyInv
<1>8. CASE DropRef(r) \/ RemoveIf(r)
  <2>1. phase[r] \in {"unlocked", "dropped"} /\ phase'[r] \in {"dropped", "done"}
    BY <1>3, <1>8 DEF DropRef, RemoveIf
  <2>2. Inside' = Inside
    BY <1>1, <2>1 DEF Inside
  <2> QED
    BY <1>1, <1>2, <1>3, <1>4, <2>1, <2>2 DEF CopyInv
<1> QED
  BY <1>5, <1>6, <1>7, <1>8 DEF WithLock

\* A step that leaves the behaviour orderly is no failure, and it was orderly before.
LEMMA CopyKept == Typed /\ LockInv /\ CopyInv /\ [Next]_vars => CopyInv'
<1> SUFFICES ASSUME Typed, LockInv, CopyInv, [Next]_vars, Orderly' PROVE CopyInv'
  BY DEF CopyInv
<1>1. faults \in Nat
  BY DEF Typed, TypeOK
<1>2. CASE UNCHANGED vars
  BY <1>2 DEF vars, local, disk, imap, CopyInv, Orderly, Inside, SoFar, Answered, Staged, InHand
<1>3. CASE Next
  <2> PICK r \in Reqs : (\E k \in Kinds : Begin(r, k)) \/ WithLock(r) \/ BodyStep(r) \/ Failure(r)
    BY <1>3 DEF Next
  <2>1. ~Failure(r)
    BY <1>1 DEF Failure, BodyStepFails, ReadFails, ExpungeFails, AppendFails, StatementFails, RemoveFileFails, BodyFails, DropRequest, Fault, Orderly
  <2>2. CASE BodyStep(r)
    <3>1. Running(r) /\ faults' = faults /\ bypass' = bypass
      BY <2>2 DEF BodyStep, ReadStaging, Expunge, AppendCopy, UpsertStaging, DeleteStaging, RemoveDir,
             WriteFile, StageRow, InsertAttachment, RemoveFile, DeleteAttachment, At
    <3>2. Orderly
      BY <3>1 DEF Orderly
    <3>3. phase[r] = "inside"
      BY <3>1, <3>2 DEF CopyInv, Running
    <3> QED
      BY <2>2, <3>2, <3>3, BodyKeepsCopy
  <2>3. CASE (\E k \in Kinds : Begin(r, k)) \/ WithLock(r)
    <3>1. faults' = faults /\ bypass \subseteq bypass'
      BY <2>3 DEF Begin, WithLock, Acquire, Unlock, DropRef, RemoveIf
    <3>2. Orderly
      BY <3>1 DEF Orderly
    <3> QED
      BY <2>3, <3>2, LockKeepsCopy
  <2> QED
    BY <2>1, <2>2, <2>3
<1> QED
  BY <1>2, <1>3

\* If nothing failed and no request bypassed the lock, then whatever saves and
\* discards raced, the last answer describes the row and the Drafts folder.
THEOREM AnswersHold == Spec => []LastAnswerHolds
<1>1. Init => CopyInv
  BY DEF Init, CopyInv, Answered, Staged, Inside
<1>2. Typed /\ CopyInv => LastAnswerHolds
  <2> SUFFICES ASSUME Typed, CopyInv, AtRest, Orderly
               PROVE  /\ copies = Staged
                      /\ answer = "save" => Cardinality(copies) = 1
                      /\ answer = "delete" => staging = NoRow
    BY DEF LastAnswerHolds, Orderly
  <2>1. Inside = {}
    BY DEF AtRest, Inside
  <2>2. Answered
    BY <2>1 DEF CopyInv
  <2>3. answer = "save" => copies = {staging}
    BY <2>2, DraftsAssumption DEF Answered, Staged
  <2>4. Cardinality({staging}) = 1
    BY FS_Singleton
  <2> QED
    BY <2>2, <2>3, <2>4 DEF Answered
<1> QED
  BY <1>1, <1>2, CopyKept, InitTyped, TypesKept, LockInvariant, PTL DEF Spec

-----------------------------------------------------------------------------
(* Records have their files.                                               *)

\* A removal of the draft that has its files still to go has written down every
\* record and upload it leaves behind; an upload past its write has its file; what
\* is recorded or being removed was uploaded by a request that is over, so nobody
\* removes a file that is still going in.
FileInv ==
    /\ \A r \in Reqs :
          /\ BeforeFiles(r) => atts \cup Uploading \subseteq crossed
          /\ r \in Uploading /\ step[r] > 1 => r \in files \cup crossed
          /\ kind[r] = "unattach" /\ Running(r) =>
                 target[r] \in Reqs /\ phase[target[r]] = "done"
          /\ kind[r] = "unattach" /\ phase[r] = "ghost" => step[r] = 2
    /\ \A a \in atts : phase[a] = "done"
    /\ AttachmentsReadable

\* Which step of which body it is, for the bodies of attachments and removals.
LEMMA WhichOther ==
    ASSUME Typed, NEW r \in Reqs, Running(r)
    PROVE  /\ At(r, "write") => kind[r] = "upload" /\ step[r] = 1
           /\ At(r, "insert") => kind[r] = "upload" /\ step[r] = 3 /\ Len(Body(kind[r])) = 3
           /\ At(r, "unlink") => kind[r] = "unattach" /\ step[r] = 1 /\ Len(Body(kind[r])) = 2
           /\ At(r, "delatt") => kind[r] = "unattach" /\ step[r] = 2 /\ Len(Body(kind[r])) = 2
           /\ At(r, "delrow") \/ At(r, "rmdir") => kind[r] \in {"delete", "cleanup"}
           /\ At(r, "rmdir") => BeforeFiles(r)
           /\ kind[r] = "upload" /\ step[r] = 1 => At(r, "write")
<1>1. /\ Body("save") = <<"read", "expunge", "append", "upsert">>
      /\ Body("delete") = <<"read", "delrow", "expunge", "rmdir">>
      /\ Body("cleanup") = <<"read", "expunge", "delrow", "rmdir">>
      /\ Body("upload") = <<"write", "stage", "insert">>
      /\ Body("unattach") = <<"unlink", "delatt">>
  BY DEF Body
<1>2. step[r] \in 1 .. Len(Body(kind[r])) /\ kind[r] \in Kinds \cup {"save"}
  BY DEF Typed, TypeOK
<1>3. CASE kind[r] \in {"save", "delete", "cleanup"}
  <2>1. Len(Body(kind[r])) = 4
    BY <1>1, <1>3
  <2>2. step[r] \in {1, 2, 3, 4}
    BY <1>2, <2>1
  <2>3. /\ \A s \in {"write", "insert", "unlink", "delatt"} : ~At(r, s)
        /\ At(r, "delrow") \/ At(r, "rmdir") => kind[r] # "save"
        /\ At(r, "rmdir") => step[r] = 4
    BY <1>1, <1>3, <2>2 DEF At
  <2>4. kind[r] # "save" => \E i \in {2, 3} : Body(kind[r])[i] = "delrow"
    BY <1>1, <1>3
  <2>5. step[r] = 4 => 2 \in 1 .. step[r] - 1 /\ 3 \in 1 .. step[r] - 1
    OBVIOUS
  <2>6. step[r] = 4 /\ kind[r] # "save" => BeforeFiles(r)
    BY <2>4, <2>5 DEF BeforeFiles
  <2> QED
    BY <1>3, <2>3, <2>6
<1>4. CASE kind[r] = "upload"
  <2>1. Len(Body(kind[r])) = 3
    BY <1>1, <1>4
  <2>2. step[r] \in {1, 2, 3}
    BY <1>2, <2>1
  <2>3. \/ step[r] = 1 /\ Body(kind[r])[step[r]] = "write"
        \/ step[r] = 2 /\ Body(kind[r])[step[r]] = "stage"
        \/ step[r] = 3 /\ Body(kind[r])[step[r]] = "insert"
    BY <1>1, <1>4, <2>2
  <2> QED
    BY <1>4, <2>1, <2>3 DEF At
<1>5. CASE kind[r] = "unattach"
  <2>1. Len(Body(kind[r])) = 2
    BY <1>1, <1>5
  <2>2. step[r] \in {1, 2}
    BY <1>2, <2>1
  <2>3. \/ step[r] = 1 /\ Body(kind[r])[step[r]] = "unlink"
        \/ step[r] = 2 /\ Body(kind[r])[step[r]] = "delatt"
    BY <1>1, <1>5, <2>2
  <2> QED
    BY <1>5, <2>1, <2>3 DEF At
<1> QED
  BY <1>2, <1>3, <1>4, <1>5, DraftsAssumption

\* What a step of a body does to its own place in it.
LEMMA AdvanceMoves ==
    ASSUME Typed, NEW r \in Reqs, Running(r), Advance(r)
    PROVE  /\ \A x \in Reqs \ {r} : phase'[x] = phase[x] /\ step'[x] = step[x]
           /\ phase'[r] \in {phase[r], "finished", "done"}
           /\ step'[r] \in {step[r], step[r] + 1}
           /\ step[r] = Len(Body(kind[r])) =>
                 step'[r] = step[r] /\ phase'[r] = IF phase[r] = "inside" THEN "finished" ELSE "done"
           /\ step[r] # Len(Body(kind[r])) /\ phase[r] # "ghost" =>
                 step'[r] = step[r] + 1 /\ phase'[r] = phase[r]
<1>1. DOMAIN phase = Reqs /\ DOMAIN step = Reqs
  BY DEF Typed, TypeOK
<1> QED
  BY <1>1 DEF Advance

\* What it does to records, files and the history.
LEMMA BodyTouches ==
    ASSUME NEW r \in Reqs, BodyStep(r) \/ BodyStepFails(r)
    PROVE  /\ Running(r) /\ Advance(r) /\ kind' = kind /\ target' = target
           /\ \/ ~At(r, "write") /\ ~At(r, "delrow") /\ UNCHANGED <<atts, files, crossed>>
              \/ At(r, "write") /\ files' = files \cup {r} /\ UNCHANGED <<atts, crossed>>
              \/ At(r, "insert") /\ atts' \in {atts, atts \cup {r}} /\ UNCHANGED <<files, crossed>>
              \/ At(r, "unlink") /\ files' = files \ {target[r]} /\ UNCHANGED <<atts, crossed>>
              \/ At(r, "delatt") /\ atts' = atts \ {target[r]} /\ UNCHANGED <<files, crossed>>
              \/ /\ At(r, "delrow") /\ atts' \subseteq atts /\ UNCHANGED files
                 /\ crossed \cup Uploading \cup atts' \subseteq crossed'
              \/ At(r, "rmdir") /\ files' \subseteq files /\ UNCHANGED <<atts, crossed>>
<1>1. Running(r) /\ Advance(r) /\ kind' = kind /\ target' = target
  BY DEF BodyStep, ReadStaging, Expunge, AppendCopy, UpsertStaging, DeleteStaging, RemoveDir,
         WriteFile, StageRow, InsertAttachment, RemoveFile, DeleteAttachment, BodyStepFails,
         ReadFails, ExpungeFails, AppendFails, StatementFails, RemoveFileFails, At
<1>2. CASE \/ ReadStaging(r) \/ Expunge(r) \/ AppendCopy(r) \/ UpsertStaging(r) \/ StageRow(r)
           \/ ReadFails(r) \/ ExpungeFails(r) \/ AppendFails(r) \/ RemoveFileFails(r)
  BY <1>1, <1>2 DEF ReadStaging, Expunge, AppendCopy, UpsertStaging, StageRow,
                    ReadFails, ExpungeFails, AppendFails, RemoveFileFails, At, disk
<1>3. CASE WriteFile(r) \/ RemoveFile(r) \/ DeleteAttachment(r) \/ RemoveDir(r)
  BY <1>1, <1>3 DEF WriteFile, RemoveFile, DeleteAttachment, RemoveDir
<1>4. CASE InsertAttachment(r)
  BY <1>1, <1>4 DEF InsertAttachment
<1>5. CASE DeleteStaging(r)
  BY <1>1, <1>5 DEF DeleteStaging
<1>6. CASE StatementFails(r)
  <2>1. CASE At(r, "upsert")
    BY <1>1, <1>6, <2>1 DEF StatementFails, At
  <2>2. CASE ~At(r, "upsert")
    BY <1>1, <1>6, <2>2 DEF StatementFails
  <2> QED
    BY <2>1, <2>2
<1> QED
  BY <1>2, <1>3, <1>4, <1>5, <1>6 DEF BodyStep, BodyStepFails

\* The steps of saves, discards, clean-ups, uploads and removals, failed ones too.
LEMMA BodyKeepsFiles ==
    ASSUME Typed, FileInv, NEW r \in Reqs, BodyStep(r) \/ BodyStepFails(r)
    PROVE  FileInv'
<1>1. /\ Running(r) /\ Advance(r) /\ kind' = kind /\ target' = target
      /\ \/ ~At(r, "write") /\ ~At(r, "delrow") /\ UNCHANGED <<atts, files, crossed>>
         \/ At(r, "write") /\ files' = files \cup {r} /\ UNCHANGED <<atts, crossed>>
         \/ At(r, "insert") /\ atts' \in {atts, atts \cup {r}} /\ UNCHANGED <<files, crossed>>
         \/ At(r, "unlink") /\ files' = files \ {target[r]} /\ UNCHANGED <<atts, crossed>>
         \/ At(r, "delatt") /\ atts' = atts \ {target[r]} /\ UNCHANGED <<files, crossed>>
         \/ /\ At(r, "delrow") /\ atts' \subseteq atts /\ UNCHANGED files
            /\ crossed \cup Uploading \cup atts' \subseteq crossed'
         \/ At(r, "rmdir") /\ files' \subseteq files /\ UNCHANGED <<atts, crossed>>
  BY BodyTouches
<1>2. /\ At(r, "write") => kind[r] = "upload" /\ step[r] = 1
      /\ At(r, "insert") => kind[r] = "upload" /\ step[r] = 3 /\ Len(Body(kind[r])) = 3
      /\ At(r, "unlink") => kind[r] = "unattach" /\ step[r] = 1 /\ Len(Body(kind[r])) = 2
      /\ At(r, "delatt") => kind[r] = "unattach" /\ step[r] = 2 /\ Len(Body(kind[r])) = 2
      /\ At(r, "delrow") \/ At(r, "rmdir") => kind[r] \in {"delete", "cleanup"}
      /\ At(r, "rmdir") => BeforeFiles(r)
      /\ kind[r] = "upload" /\ step[r] = 1 => At(r, "write")
  BY <1>1, WhichOther
<1>3. /\ \A x \in Reqs \ {r} : phase'[x] = phase[x] /\ step'[x] = step[x]
      /\ phase'[r] \in {phase[r], "finished", "done"}
      /\ step'[r] \in {step[r], step[r] + 1}
      /\ step[r] = Len(Body(kind[r])) =>
            step'[r] = step[r] /\ phase'[r] = IF phase[r] = "inside" THEN "finished" ELSE "done"
      /\ step[r] # Len(Body(kind[r])) /\ phase[r] # "ghost" =>
            step'[r] = step[r] + 1 /\ phase'[r] = phase[r]
  BY <1>1, AdvanceMoves
<1>4. /\ atts \subseteq Reqs /\ files \subseteq Reqs /\ atts' \subseteq atts \cup {r}
      /\ \A x \in Reqs : step[x] \in Nat /\ step[x] >= 1
      /\ phase[r] = "inside" => kind[r] \in {"save", "delete"}
  <2>1. \A x \in Reqs : step[x] \in 1 .. Len(Body(kind[x]))
    BY DEF Typed, TypeOK
  <2> QED
    BY <1>1, <2>1 DEF Typed, TypeOK, Locked
<1>5. \A x \in Reqs : phase[x] = "done" => phase'[x] = "done"
  BY <1>1, <1>3 DEF Running
<1>6. \A x \in Reqs : Running(x)' => Running(x)
  BY <1>1, <1>3 DEF Running
<1>7. Uploading' \subseteq Uploading /\ crossed \subseteq crossed'
  BY <1>1, <1>6 DEF Uploading
<1>8. At(r, "insert") => r \in Uploading
  BY <1>1, <1>2 DEF Uploading
<1>9. \A a \in Reqs : Unlinked(a) => Unlinked(a)'
  <2> SUFFICES ASSUME NEW a \in Reqs, NEW x \in Reqs, kind[x] = "unattach", target[x] = a, step[x] = 2
               PROVE  step'[x] = 2
    BY <1>1 DEF Unlinked
  <2>1. Len(Body("unattach")) = 2
    BY DEF Body
  <2> QED
    BY <1>3, <2>1
<1>10. ASSUME NEW x \in Reqs, BeforeFiles(x)' PROVE atts' \cup Uploading' \subseteq crossed'
  <2>1. PICK i \in 1 .. step'[x] - 1 : Body(kind[x])[i] = "delrow"
    BY <1>1, <1>10 DEF BeforeFiles
  <2>2. Running(x)
    BY <1>6, <1>10 DEF BeforeFiles
  <2>3. BeforeFiles(x) \/ (x = r /\ At(r, "delrow"))
    <3>1. step'[x] \in {step[x], step[x] + 1} /\ (x # r => step'[x] = step[x])
      BY <1>3
    <3>2. i \in 1 .. step[x] - 1 \/ (x = r /\ i = step[x])
      BY <1>4, <3>1
    <3> QED
      BY <2>1, <2>2, <3>2 DEF BeforeFiles, At
  <2>4. CASE BeforeFiles(x)
    <3>1. atts \cup Uploading \subseteq crossed
      BY <2>4 DEF FileInv
    <3>2. atts' \subseteq atts \cup Uploading \cup crossed'
      BY <1>1, <1>8
    <3> QED
      BY <1>7, <3>1, <3>2
  <2>5. CASE x = r /\ At(r, "delrow")
    BY <1>1, <1>2, <1>7, <2>5 DEF At
  <2> QED
    BY <2>3, <2>4, <2>5
<1>11. At(r, "rmdir") => atts \cup Uploading \subseteq crossed
  BY <1>2 DEF FileInv
<1>12. ASSUME NEW x \in Reqs, x \in Uploading', step'[x] > 1 PROVE x \in files' \cup crossed'
  <2>1. x \in Uploading
    BY <1>7, <1>12
  <2>2. CASE x = r /\ step[r] = 1
    BY <1>1, <1>2, <2>1, <2>2 DEF Uploading, At
  <2>3. CASE ~(x = r /\ step[r] = 1)
    <3>1. step[x] > 1
      BY <1>3, <1>4, <1>12, <2>3
    <3>2. x \in files \cup crossed
      BY <2>1, <3>1 DEF FileInv
    <3>3. CASE At(r, "unlink")
      <4>1. phase[target[r]] = "done"
        BY <1>1, <1>2, <3>3 DEF FileInv
      <4>2. x # target[r]
        BY <2>1, <4>1 DEF Uploading, Running
      <4>3. files \ {target[r]} \subseteq files' /\ crossed' = crossed
        BY <1>1, <1>2, <3>3
      <4> QED
        BY <3>2, <4>2, <4>3
    <3>4. CASE At(r, "rmdir")
      BY <1>7, <1>11, <2>1, <3>4
    <3>5. CASE ~At(r, "unlink") /\ ~At(r, "rmdir")
      BY <1>1, <1>7, <3>2, <3>5
    <3> QED
      BY <3>3, <3>4, <3>5
  <2> QED
    BY <2>2, <2>3
<1>13. ASSUME NEW x \in Reqs, kind'[x] = "unattach"
       PROVE  /\ Running(x)' => target'[x] \in Reqs /\ phase'[target'[x]] = "done"
              /\ phase'[x] = "ghost" => step'[x] = 2
  <2>1. Running(x)' => target'[x] \in Reqs /\ phase'[target'[x]] = "done"
    BY <1>1, <1>5, <1>6, <1>13 DEF FileInv
  <2>2. ASSUME phase'[x] = "ghost" PROVE step'[x] = 2
    <3>1. phase[x] = "ghost" /\ step[x] = 2
      BY <1>1, <1>3, <1>13, <2>2 DEF FileInv
    <3>2. Len(Body("unattach")) = 2
      BY DEF Body
    <3> QED
      BY <1>1, <1>3, <1>13, <2>2, <3>1, <3>2
  <2> QED
    BY <2>1, <2>2
<1>14. ASSUME NEW a \in atts' PROVE phase'[a] = "done"
  <2>1. CASE a \in atts
    BY <1>4, <1>5, <2>1 DEF FileInv
  <2>2. CASE a \notin atts
    <3>1. At(r, "insert") /\ a = r
      BY <1>1, <2>2
    <3>2. phase[r] # "inside" /\ step[r] = Len(Body(kind[r]))
      BY <1>2, <1>4, <3>1
    <3> QED
      BY <1>3, <3>1, <3>2
  <2> QED
    BY <2>1, <2>2
<1>15. ASSUME NEW a \in atts' \ files' PROVE Unlinked(a)' \/ a \in crossed'
  <2>1. CASE a \in atts \ files
    BY <1>4, <1>7, <1>9, <2>1 DEF FileInv, AttachmentsReadable
  <2>2. CASE a \notin atts
    <3>1. At(r, "insert") /\ a = r /\ files' = files
      BY <1>1, <2>2
    <3>2. r \in files \cup crossed
      BY <1>2, <1>8, <3>1 DEF FileInv
    <3> QED
      BY <1>7, <3>1, <3>2
  <2>3. CASE a \in atts /\ a \in files
    <3>1. (At(r, "unlink") /\ a = target[r]) \/ At(r, "rmdir")
      BY <1>1, <2>3
    <3>2. CASE At(r, "rmdir")
      BY <1>7, <1>11, <2>3, <3>2
    <3>3. CASE At(r, "unlink") /\ a = target[r]
      <4>1. kind[r] = "unattach" /\ step[r] = 1 /\ Len(Body(kind[r])) = 2
        BY <1>2, <3>3
      <4>2. phase[r] # "ghost"
        BY <4>1 DEF FileInv
      <4>3. step'[r] = 2
        BY <1>3, <4>1, <4>2
      <4> QED
        BY <1>1, <3>3, <4>1, <4>3 DEF Unlinked
    <3> QED
      BY <3>1, <3>2, <3>3
  <2> QED
    BY <2>1, <2>2, <2>3
<1> QED
  BY <1>10, <1>12, <1>13, <1>14, <1>15 DEF FileInv, AttachmentsReadable

\* The arrival of a request, with_lock and the ways out of it touch no file and no record.
LEMMA LockKeepsFiles ==
    ASSUME Typed, FileInv, NEW r \in Reqs,
           (\E k \in Kinds : Begin(r, k)) \/ WithLock(r) \/ BodyFails(r) \/ DropRequest(r)
    PROVE  FileInv'
<1>1. /\ UNCHANGED <<atts, files, step>> /\ crossed \subseteq crossed'
      /\ \A x \in Reqs \ {r} : phase'[x] = phase[x] /\ kind'[x] = kind[x] /\ target'[x] = target[x]
      /\ phase[r] # "idle" => kind' = kind /\ target' = target
      /\ phase[r] # "done"
  BY DEF Begin, WithLock, Acquire, Unlock, DropRef, RemoveIf, BodyFails, DropRequest, At, Running,
         local, disk, Typed, TypeOK
<1>2. /\ phase[r] = "idle" => step[r] = 1
      /\ ~Running(r) /\ Running(r)' => step[r] = 1
      /\ ~Running(r) /\ Running(r)' /\ kind'[r] = "upload" /\ (\E x \in Reqs : BeforeFiles(x)) => r \in crossed'
      /\ ~Running(r) /\ Running(r)' /\ kind'[r] = "unattach" => target'[r] \in atts
      /\ phase'[r] = "ghost" /\ kind[r] = "unattach" => InClosure(r)
  <2>1. DOMAIN phase = Reqs /\ DOMAIN target = Reqs /\ DOMAIN kind = Reqs /\ (phase[r] \in {"idle", "waiting"} => step[r] = 1)
        /\ (phase[r] = "waiting" => kind[r] \in {"save", "delete"})
    BY DEF Typed, TypeOK, Locked
  <2>2. CASE \E k \in Kinds : Begin(r, k)
    BY <2>1, <2>2 DEF Begin, Locked, Running
  <2>3. CASE WithLock(r)
    BY <2>1, <2>3 DEF WithLock, Acquire, Unlock, DropRef, RemoveIf, Running, local
  <2>4. CASE BodyFails(r)
    BY <2>1, <2>4 DEF BodyFails, Running, At
  <2>5. CASE DropRequest(r)
    BY <2>1, <2>5 DEF DropRequest, Running, InClosure, At
  <2> QED
    BY <2>2, <2>3, <2>4, <2>5
<1>3. atts \subseteq Reqs /\ \A x \in Reqs : phase[x] = "done" => phase'[x] = "done"
  BY <1>1 DEF Typed, TypeOK
<1>4. \A x \in Reqs : BeforeFiles(x)' => BeforeFiles(x)
  <2> SUFFICES ASSUME NEW x \in Reqs, BeforeFiles(x)' PROVE BeforeFiles(x)
    OBVIOUS
  <2>1. Running(x)' /\ \E i \in 1 .. step[x] - 1 : Body(kind'[x])[i] = "delrow"
    BY <1>1 DEF BeforeFiles
  <2>2. step[x] # 1
    BY <2>1
  <2>3. Running(x) /\ kind'[x] = kind[x]
    BY <1>1, <1>2, <2>1, <2>2 DEF Running
  <2> QED
    BY <2>1, <2>3 DEF BeforeFiles
<1>5. ASSUME NEW x \in Reqs, BeforeFiles(x)' PROVE atts' \cup Uploading' \subseteq crossed'
  <2>1. BeforeFiles(x)
    BY <1>4, <1>5
  <2>2. atts \cup Uploading \subseteq crossed
    BY <2>1 DEF FileInv
  <2>3. ASSUME NEW u \in Uploading' PROVE u \in crossed'
    <3>1. u \in Reqs /\ Running(u)' /\ kind'[u] = "upload"
      BY <2>3 DEF Uploading
    <3>2. CASE u = r /\ ~Running(r)
      BY <1>2, <2>1, <3>1, <3>2
    <3>3. CASE u # r \/ Running(r)
      <4>1. u \in Uploading
        BY <1>1, <3>1, <3>3 DEF Uploading, Running
      <4> QED
        BY <1>1, <2>2, <4>1
    <3> QED
      BY <3>2, <3>3
  <2> QED
    BY <1>1, <2>2, <2>3
<1>6. ASSUME NEW x \in Reqs, x \in Uploading', step'[x] > 1 PROVE x \in files' \cup crossed'
  <2>1. Running(x)' /\ kind'[x] = "upload" /\ step[x] # 1
    BY <1>1, <1>6 DEF Uploading
  <2>2. x \in Uploading
    BY <1>1, <1>2, <2>1 DEF Uploading, Running
  <2> QED
    BY <1>1, <1>6, <2>2 DEF FileInv
<1>7. ASSUME NEW x \in Reqs, kind'[x] = "unattach", Running(x)'
      PROVE  target'[x] \in Reqs /\ phase'[target'[x]] = "done"
  <2>1. CASE x = r /\ ~Running(r)
    BY <1>2, <1>3, <1>7, <2>1 DEF FileInv
  <2>2. CASE x # r \/ Running(r)
    <3>1. Running(x) /\ kind[x] = "unattach" /\ target'[x] = target[x]
      BY <1>1, <1>7, <2>2 DEF Running
    <3> QED
      BY <1>3, <3>1 DEF FileInv
  <2> QED
    BY <2>1, <2>2
<1>8. ASSUME NEW x \in Reqs, kind'[x] = "unattach", phase'[x] = "ghost"
      PROVE  step'[x] = 2
  <2>1. CASE x = r
    <3>1. Running(r)
      <4>1. phase'[r] = "ghost" /\ DOMAIN phase = Reqs
        BY <1>8, <2>1 DEF Typed, TypeOK
      <4> QED
        BY <4>1 DEF Begin, WithLock, Acquire, Unlock, DropRef, RemoveIf, BodyFails, DropRequest,
                    InClosure, At, Running
    <3>2. kind[r] = "unattach" /\ InClosure(r)
      BY <1>1, <1>2, <1>8, <2>1, <3>1 DEF Running
    <3>3. Body("unattach") = <<"unlink", "delatt">> /\ Len(Body("unattach")) = 2
      BY DEF Body
    <3>4. step[r] \in 1 .. 2
      BY <3>2, <3>3 DEF Typed, TypeOK
    <3>5. step[r] # 1
      BY <3>2, <3>3 DEF InClosure, At
    <3> QED
      BY <1>1, <2>1, <3>4, <3>5
  <2>2. CASE x # r
    BY <1>1, <1>8, <2>2 DEF FileInv
  <2> QED
    BY <2>1, <2>2
<1>9. \A a \in atts' : phase'[a] = "done"
  BY <1>1, <1>3 DEF FileInv
<1>10. ASSUME NEW a \in atts' \ files' PROVE Unlinked(a)' \/ a \in crossed'
  <2>1. Unlinked(a) \/ a \in crossed
    BY <1>1, <1>10 DEF FileInv, AttachmentsReadable
  <2>2. Unlinked(a) => Unlinked(a)'
    BY <1>1, <1>2 DEF Unlinked
  <2> QED
    BY <1>1, <2>1, <2>2
<1> QED
  BY <1>5, <1>6, <1>7, <1>8, <1>9, <1>10 DEF FileInv, AttachmentsReadable

LEMMA FilesKept == Typed /\ FileInv /\ [Next]_vars => FileInv'
<1> SUFFICES ASSUME Typed, FileInv, [Next]_vars PROVE FileInv'
  OBVIOUS
<1>1. CASE UNCHANGED vars
  BY <1>1 DEF vars, local, disk, FileInv, AttachmentsReadable, Unlinked, BeforeFiles, Uploading, At, Running
<1>2. CASE Next
  BY <1>2, LockKeepsFiles, BodyKeepsFiles DEF Next, Failure, BodyStepFails
<1> QED
  BY <1>1, <1>2

\* Whatever fails or is dropped in between, and however uploads, removals, discards
\* and clean-ups interleave, a record whose file is gone is one the user asked to
\* remove, or one that a removal of the draft passed over.
THEOREM RecordsHaveFiles == Spec => []AttachmentsReadable
<1>1. Init => FileInv
  BY DEF Init, FileInv, AttachmentsReadable, BeforeFiles, Uploading, Running
<1>2. FileInv => AttachmentsReadable
  BY DEF FileInv
<1> QED
  BY <1>1, <1>2, FilesKept, InitTyped, TypesKept, PTL DEF Spec
=============================================================================
