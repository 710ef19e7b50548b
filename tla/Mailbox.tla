------------------------------ MODULE Mailbox ------------------------------
(***************************************************************************)
(* One folder of one user and everybody who changes it: the server and its *)
(* other clients, the cycles of the sync worker (SyncCycle), and the       *)
(* requests that change both the folder and its cached copy.               *)
(*                                                                         *)
(*   backend/src/realtime/worker.rs     cycles that overlap (pc2 .. late2) *)
(*   backend/src/routes/messages/mod.rs the requests       (req bg)        *)
(*   backend/src/imap/client.rs         what each call does to the server  *)
(*                                                                         *)
(* Two cycles may be under way at once: ensure_worker can start a second   *)
(* worker beside one that is ending (Realtime), and a statement of a cycle *)
(* that was cut off lands while the next cycle runs.  The second one is    *)
(* Rival, the same cycle with locals of its own.  Each goes by what it     *)
(* read for itself, so the slower may undo what the faster did and then    *)
(* be cut off before it stores its older number: from the moment two       *)
(* overlap nothing is promised of any message any more (leak), only of the *)
(* numbers (MarkSound).                                                    *)
(***************************************************************************)
EXTENDS SyncCycle

CONSTANTS
    Seen,        \* \Seen
    Requests,    \* requests under way at once
    Cold         \* headers of a first paint: 100

ASSUME MailboxAssumption ==
    /\ Seen \in Flags
    /\ Cold \in Nat \ {0}

VARIABLES
    pc2, wval2, since2, stat2, told2, delta2, snap2, mark2, above2, old2,
    late2,   \* the second cycle
    req,     \* Requests -> the request under way
    bg,      \* the background fetch of older headers
    foreign  \* history: rows left of the mailbox before a new UIDVALIDITY

rival == <<pc2, wval2, since2, stat2, told2, delta2, snap2, mark2, above2, old2,
           late2>>
worker == <<locals, rival>>
vars == <<server, rows, folder, worker, req, bg, foreign, leak, left>>

Rival == INSTANCE SyncCycle
    WITH pc <- pc2, wval <- wval2, since <- since2, stat <- stat2, told <- told2,
         delta <- delta2, snap <- snap2, mark <- mark2, above <- above2,
         old <- old2, late <- late2

NoReq == [op |-> "none"]
NoBg == [pc |-> "none"]

Init ==
    /\ cap \in Caps
    /\ msgs = Nothing /\ smod = [u \in Uid |-> 0]
    /\ top = 1 /\ next = 1 /\ sval = 1
    /\ rows = Nothing /\ cval = 0 /\ cmod = 0 /\ null = TRUE
    /\ CycleInit /\ Rival!CycleInit
    /\ req = [r \in Requests |-> NoReq] /\ bg = NoBg
    /\ foreign = {} /\ leak = {} /\ left \in Budgets

-----------------------------------------------------------------------------
(* The server: mail arrives, other clients flag and expunge, the folder is *)
(* rebuilt under a new UIDVALIDITY.                                        *)

\* UIDs in S get the flags f[u]; those that change get the next number.
Store(S, f) ==
    LET hit == {u \in S \cap Present : f[u] # msgs[u]}
    IN  /\ msgs' = [u \in Uid |-> IF u \in hit THEN f[u] ELSE msgs[u]]
        /\ smod' = [u \in Uid |-> IF u \in hit THEN top + 1 ELSE smod[u]]
        /\ top' = IF hit = {} THEN top ELSE top + 1

\* The messages S are expunged.  A server without QRESYNC need not give an
\* expunge a number: then nothing stored in the cache ever covers it.
Remove(S) ==
    LET hit == S \cap Present
    IN  /\ msgs' = [u \in Uid |-> IF u \in hit THEN Absent ELSE msgs[u]]
        /\ \/ /\ smod' = [u \in Uid |-> IF u \in hit THEN top + 1 ELSE smod[u]]
              /\ top' = IF hit = {} THEN top ELSE top + 1
              /\ leak' = leak
           \/ /\ cap = "condstore" /\ hit # {}
              /\ UNCHANGED <<smod, top>>
              /\ leak' = leak \cup hit

Deliver ==
    /\ next <= MaxUid /\ Spend({"change"})
    /\ \E f \in FlagSets : msgs' = [msgs EXCEPT ![next] = f]
    /\ smod' = [smod EXCEPT ![next] = top + 1]
    /\ top' = top + 1
    /\ next' = next + 1
    /\ UNCHANGED <<cap, sval, rows, folder, worker, req, bg, leak>>

Reflag(u, f) ==
    /\ u \in Present /\ f # msgs[u] /\ Spend({"change"})
    /\ Store({u}, [v \in Uid |-> f])
    /\ UNCHANGED <<cap, next, sval, rows, folder, worker, req, bg, leak>>

Expunge(u) ==
    /\ u \in Present /\ Spend({"change"})
    /\ Remove({u})
    /\ UNCHANGED <<cap, next, sval, rows, folder, worker, req, bg>>

\* The numbers start afresh under the new validity while the cache keeps its
\* old highest_modseq, so every UID counts as leaked from here on.
Rebuild ==
    /\ Spend({"rebuild"})
    /\ sval' = sval + 1
    /\ \E k \in {0, 1} \cap 0..MaxUid :
          /\ msgs' = [u \in Uid |-> IF u <= k THEN {} ELSE Absent]
          /\ smod' = [u \in Uid |-> IF u <= k THEN 1 ELSE 0]
          /\ next' = k + 1
    /\ top' = 1
    /\ leak' = Uid
    /\ UNCHANGED <<cap, rows, folder, worker, req, bg>>

Server ==
    \/ Deliver
    \/ \E u \in Uid, f \in FlagSets : Reflag(u, f)
    \/ \E u \in Uid : Expunge(u)
    \/ Rebuild

\* What STATUS of SELECT reports.
folder_status == [val |-> sval, exists |-> Cardinality(Present), next |-> next]

-----------------------------------------------------------------------------
(* The cycles.  A cycle that runs alone is the first, whichever worker it  *)
(* belongs to; one that begins beside it, or before its last statement has *)
(* landed, is the second.                                                  *)

Start == Wake /\ Quiet /\ UNCHANGED <<server, rival, req, bg>>

Overlap ==
    /\ pc # "idle" /\ Rival!Wake
    /\ Spend({"rival"}) /\ leak' = Uid
    /\ UNCHANGED <<server, locals, req, bg>>

Advance == (Cycle \/ Cut) /\ UNCHANGED <<server, rival, req, bg>>
RivalAdvance ==
    (Rival!Cycle \/ Rival!Cut) /\ UNCHANGED <<server, locals, req, bg>>

-----------------------------------------------------------------------------
(* The requests.  Each changes the server first and the cache in a second  *)
(* step; it may be dropped in between.                                     *)

Done(r) == req' = [req EXCEPT ![r] = NoReq]
Become(r, q) == req' = [req EXCEPT ![r] = q]
Idle(r) == req[r].op = "none"

\* update_flags and bulk_update_flags: STORE on the server, then the rows, in
\* one transaction when they are many.
WithFlag(f, flag, add) == IF add THEN f \cup {flag} ELSE f \ {flag}

FlagStore(r) ==
    /\ Idle(r) /\ Spend({"op"})
    /\ \E S \in SUBSET Cached, flag \in Flags, add \in BOOLEAN :
          /\ S # {}
          /\ Store(S, [u \in Uid |-> IF msgs[u] = Absent THEN Absent
                                     ELSE WithFlag(msgs[u], flag, add)])
          /\ Become(r, [op |-> IF Cardinality(S) = 1 THEN "flag" ELSE "flags",
                        uids |-> S, flag |-> flag, add |-> add])
    /\ UNCHANGED <<cap, next, sval, rows, folder, worker, bg, leak>>

FlagRows(r) ==
    /\ req[r].op = "flags"
    /\ WriteRows([u \in Uid |->
                    IF u \in req[r].uids /\ rows[u] # Absent
                    THEN WithFlag(rows[u], req[r].flag, req[r].add)
                    ELSE rows[u]])
    /\ Done(r)
    /\ UNCHANGED <<server, folder, worker, bg, left>>

\* One message: SELECT and UPDATE are two statements with nothing around them,
\* and a row that is not there, or cannot be read, has no flags.
FlagRead(r) ==
    /\ req[r].op = "flag"
    /\ \E f \in FlagSets :
          /\ \/ /\ \E u \in req[r].uids :
                      f = IF rows[u] = Absent THEN {} ELSE rows[u]
                /\ left' = left
             \/ f = {} /\ Fault("row")
          /\ Become(r, [op |-> "update", uids |-> req[r].uids,
                        flags |-> WithFlag(f, req[r].flag, req[r].add)])
    /\ UNCHANGED <<server, rows, folder, worker, bg, leak>>

FlagUpdate(r) ==
    /\ req[r].op = "update"
    /\ WriteRows([u \in Uid |-> IF u \in req[r].uids /\ rows[u] # Absent
                                THEN req[r].flags ELSE rows[u]])
    /\ Done(r)
    /\ UNCHANGED <<server, folder, worker, bg, left>>

\* mark_all_read: every message on the server, then every row of the folder,
\* the rows stored in the meantime included.
AllStore(r) ==
    /\ Idle(r) /\ Spend({"op"})
    /\ Store(Present, [u \in Uid |-> IF msgs[u] = Absent THEN Absent
                                     ELSE msgs[u] \cup {Seen}])
    /\ Become(r, [op |-> "all"])
    /\ UNCHANGED <<cap, next, sval, rows, folder, worker, bg, leak>>

AllRows(r) ==
    /\ req[r].op = "all"
    /\ WriteRows([u \in Uid |-> IF rows[u] = Absent THEN Absent
                                ELSE rows[u] \cup {Seen}])
    /\ Done(r)
    /\ UNCHANGED <<server, folder, worker, bg, left>>

\* delete, move and their bulk forms: gone on the server, then from the rows.
RemoveMail(r) ==
    /\ Idle(r) /\ Spend({"op"})
    /\ \E S \in SUBSET Cached :
          /\ S # {}
          /\ Remove(S)
          /\ Become(r, [op |-> "remove", uids |-> S])
    /\ UNCHANGED <<cap, next, sval, rows, folder, worker, bg>>

RemoveRows(r) ==
    /\ req[r].op = "remove"
    /\ WriteRows([u \in Uid |-> IF u \in req[r].uids THEN Absent ELSE rows[u]])
    /\ Done(r)
    /\ UNCHANGED <<server, folder, worker, bg, left>>

\* get_message of a body that is not cached: any IMAP error, not only a
\* missing message, deletes the row and the folder's freshness.
OpenFails(r, u) ==
    /\ Idle(r) /\ u \in Cached
    /\ IF u \in Present THEN "open" \in Faults /\ Spend({"op", "fault"})
                       ELSE Spend({"op"})
    /\ WriteRows([rows EXCEPT ![u] = Absent])
    /\ null' = TRUE
    /\ UNCHANGED <<server, cval, cmod, worker, req, bg>>

\* list_messages: the cache check, whenever FOLDER_MESSAGES_TTL_SECS have passed
\* since the last sync or the folder was invalidated; SELECT, the decision, and on a cold start
\* the most recent headers, with the older ones left to a background task.
ListCheck(r) ==
    /\ Idle(r)
    /\ Become(r, [op |-> "select", val |-> cval,
                  count |-> Cardinality(Cached), null |-> null])
    /\ UNCHANGED <<server, rows, folder, worker, bg, leak, left>>

ListSelect(r) ==
    /\ req[r].op = "select"
    /\ \/ /\ Become(r, [op |-> "decide", chk |-> req[r], st |-> folder_status])
          /\ left' = left
       \/ Done(r) /\ Fault("imap")
    /\ UNCHANGED <<server, rows, folder, worker, bg, leak>>

\* Mutant: the rows of the old mailbox are kept.
ListDecide_without_clearing(r) ==
    /\ req[r].op = "decide"
    /\ LET chk == req[r].chk
           st == req[r].st
           rebuilt == chk.val # 0 /\ chk.val # st.val
           needs == rebuilt \/ chk.count = 0 \/ st.exists # chk.count
                    \/ chk.null
           cold == (rebuilt \/ chk.count = 0) /\ st.exists > 0
       IN  /\ UNCHANGED <<rows, leak>>
           /\ IF needs /\ cold
              THEN /\ Become(r, [op |-> "headers", val |-> st.val, next |-> st.next,
                                 first |-> chk.val = 0])
                   /\ UNCHANGED folder
              ELSE /\ Done(r)
                   /\ cval' = st.val /\ null' = FALSE /\ cmod' = cmod
    /\ UNCHANGED <<server, worker, bg, left>>

ListDecide(r) ==
    /\ req[r].op = "decide"
    /\ LET chk == req[r].chk
           st == req[r].st
           rebuilt == chk.val # 0 /\ chk.val # st.val
           needs == rebuilt \/ chk.count = 0 \/ st.exists # chk.count
                    \/ chk.null
           cold == (rebuilt \/ chk.count = 0) /\ st.exists > 0
       IN  /\ IF rebuilt THEN WriteRows(Nothing) ELSE UNCHANGED <<rows, leak>>
           /\ IF needs /\ cold
              THEN /\ Become(r, [op |-> "headers", val |-> st.val, next |-> st.next,
                                 first |-> chk.val = 0])
                   /\ UNCHANGED folder
              ELSE /\ Done(r)
                   /\ cval' = st.val /\ null' = FALSE /\ cmod' = cmod
    /\ UNCHANGED <<server, worker, bg, left>>

RecentStart(n) == IF n > Cold THEN n - Cold ELSE 1

\* The messages of `all' that an answer cut to S leaves out below others.
Skipped(all, S) == {u \in all \ S : \E v \in S : u < v}

ListHeaders(r) ==
    /\ req[r].op = "headers"
    /\ LET start == RecentStart(req[r].next)
           recent == {u \in Present : u >= start}
           got(S) == [op |-> "paint", val |-> req[r].val, start |-> start,
                      first |-> req[r].first, hdrs |-> fetch_headers(S)]
       IN  \/ Become(r, got(recent)) /\ left' = left /\ leak' = leak
           \/ \E S \in SUBSET recent \ {recent} :
                 /\ Become(r, got(S)) /\ Fault("eof")
                 /\ leak' = leak \cup Skipped(recent, S)
           \/ Done(r) /\ Fault("imap") /\ leak' = leak
    /\ UNCHANGED <<server, rows, folder, worker, bg>>

Named(hdrs) == {u \in Uid : hdrs[u] # Absent}

\* The page is written in one closure, which stops at the first upsert that is
\* refused and keeps the earlier ones; only then is the background fetch spawned.
ListPaint(r) ==
    /\ req[r].op = "paint"
    /\ LET hdrs == req[r].hdrs
           start == req[r].start
       IN  \/ /\ WriteRows(Written(Named(hdrs), hdrs)) /\ left' = left
              /\ cval' = req[r].val /\ null' = FALSE /\ cmod' = cmod
              /\ IF start > 1
                 THEN Become(r, [op |-> "spawn", val |-> req[r].val, start |-> start])
                 ELSE Done(r)
           \/ \E S \in SUBSET Named(hdrs) :
                 /\ rows' = Written(S, hdrs) /\ Fault("row")
                 /\ leak' = leak \cup Leaks(Written(S, hdrs))
                                 \cup Skipped(Present, S \cup Cached)
                 /\ Done(r)
                 /\ UNCHANGED folder
    /\ UNCHANGED <<server, worker, bg>>

\* Bound: one background fetch at a time.
ListSpawn(r) ==
    /\ req[r].op = "spawn" /\ bg = NoBg
    /\ bg' = [pc |-> "fetch", below |-> req[r].start, val |-> req[r].val]
    /\ Done(r)
    /\ UNCHANGED <<server, rows, folder, worker, leak, left>>

\* sync_remaining_headers: logged and dropped when it fails.
Older == {u \in Uid : u < bg.below}

OlderFetch ==
    /\ bg.pc = "fetch"
    /\ LET got(S) == [pc |-> "store", below |-> bg.below, val |-> bg.val,
                      hdrs |-> fetch_headers(S)]
           all == Older \cap Present
       IN  \/ bg' = got(all) /\ UNCHANGED <<leak, left>>
           \/ \E S \in SUBSET all \ {all} :
                 bg' = got(S) /\ Fault("eof") /\ leak' = leak \cup (all \ S)
           \/ bg' = NoBg /\ Fault("background") /\ leak' = leak \cup (all \ Cached)
    /\ UNCHANGED <<server, rows, folder, worker, req>>

OlderStore ==
    /\ bg.pc = "store"
    /\ LET hdrs == bg.hdrs
       IN  \/ /\ WriteRows(Written(Named(hdrs), hdrs)) /\ left' = left
              /\ IF Named(hdrs) # {}
                 THEN cval' = bg.val /\ null' = FALSE /\ cmod' = cmod
                 ELSE UNCHANGED folder
           \/ \E S \in SUBSET Named(hdrs) :
                 /\ rows' = Written(S, hdrs) /\ Fault("row")
                 /\ leak' = leak \cup Leaks(Written(S, hdrs))
                                 \cup ((Older \cap Present) \ (S \cup Cached))
                 /\ UNCHANGED folder
    /\ bg' = NoBg
    /\ UNCHANGED <<server, worker, req>>

\* The client goes away, or the database refuses the write, after the server
\* has already done its part, or between the page and the spawn of the rest.
Lost(r) ==
    /\ ~Idle(r) /\ Fault("lost")
    /\ Done(r)
    /\ leak' = IF req[r].op = "spawn"
               THEN leak \cup {u \in Present \ Cached : u < req[r].start}
               ELSE leak
    /\ UNCHANGED <<server, rows, folder, worker, bg>>

Proceed(r) ==
    \/ FlagRows(r) \/ FlagRead(r) \/ FlagUpdate(r)
    \/ AllRows(r) \/ RemoveRows(r)
    \/ ListSelect(r) \/ ListDecide(r) \/ ListHeaders(r) \/ ListPaint(r)
    \/ ListSpawn(r)

Request(r) ==
    \/ FlagStore(r) \/ AllStore(r) \/ RemoveMail(r)
    \/ \E u \in Uid : OpenFails(r, u)
    \/ ListCheck(r) \/ Proceed(r) \/ Lost(r)

(***************************************************************************)
(* Rows of the old mailbox that stand after a change of UIDVALIDITY.  One  *)
(* who began when the folder had no number at all cannot notice the change *)
(* and gives them the new number; from then on nobody can, and they are    *)
(* no longer counted.                                                      *)
(***************************************************************************)
Unnoticed ==
    \/ pc = "fullapply" /\ wval = 0
    \/ pc = "emptymark" /\ wval = 0
    \/ pc2 = "fullapply" /\ wval2 = 0
    \/ pc2 = "emptymark" /\ wval2 = 0
    \/ \E r \in Requests :
          \/ req[r].op = "paint" /\ req[r].first
          \/ req[r].op = "decide" /\ req[r].chk.val = 0

Remains ==
    foreign' = IF sval' # sval THEN Cached'
               ELSE IF cval' # cval /\ Unnoticed THEN {}
               ELSE foreign \cap Cached'

Next ==
    \/ Server /\ Remains
    \/ Start /\ Remains
    \/ Advance /\ Remains
    \/ Overlap /\ Remains
    \/ RivalAdvance /\ Remains
    \/ \E r \in Requests : Request(r) /\ Remains
    \/ OlderFetch /\ Remains
    \/ OlderStore /\ Remains

Spec == Init /\ [][Next]_vars

(***************************************************************************)
(* Fairness.  The worker is a task of its own and the keepalive rings its  *)
(* bell every 30 s while a page is open; a cycle or a request that is not  *)
(* cut off goes on; time passes.  Mail, other clients and the user owe     *)
(* nothing, except in WatchedSpec, where the user keeps looking at the     *)
(* folder.                                                                 *)
(***************************************************************************)
Fairness ==
    /\ WF_vars((Start \/ Advance) /\ Remains)
    /\ WF_vars(RivalAdvance /\ Remains)
    /\ WF_vars(OlderFetch /\ Remains) /\ WF_vars(OlderStore /\ Remains)
    /\ \A r \in Requests : WF_vars(Proceed(r) /\ Remains)

FairSpec == Spec /\ Fairness
WatchedSpec ==
    FairSpec /\ \A r \in Requests : SF_vars(ListCheck(r) /\ Remains)

-----------------------------------------------------------------------------
(* Properties.                                                             *)

RequestType ==
    \A r \in Requests :
        req[r].op \in {"none", "flag", "flags", "update", "all", "remove",
                       "select", "decide", "headers", "paint", "spawn"}

TypeOK ==
    /\ cap \in Caps
    /\ msgs \in [Uid -> FlagSets \cup {Absent}] /\ smod \in [Uid -> Nat]
    /\ top \in Nat \ {0} /\ next \in Nat \ {0} /\ sval \in Nat \ {0}
    /\ rows \in [Uid -> FlagSets \cup {Absent}]
    /\ cval \in Nat /\ cmod \in Nat /\ null \in BOOLEAN
    /\ CycleType /\ Rival!CycleType
    /\ RequestType
    /\ foreign \subseteq Cached /\ leak \subseteq Uid
    /\ left \in BudgetSet

(***************************************************************************)
(* Every difference between the folder and its cache is one the sync still *)
(* has in hand.  sync.rs keeps one number per folder and looks no further  *)
(* back than that, so whatever moves the number past a difference that is  *)
(* not carried over loses it for good.  A flag that differs was changed    *)
(* after the number or is about to be written; a message that is missing   *)
(* lies above everything cached or is left to the background fetch; a row  *)
(* too many was expunged after the number or is about to be deleted.       *)
(* What is lost for good is in `leak': by a statement that is refused, an  *)
(* answer that is cut, a page that is dropped before the older messages    *)
(* are sent for, and by two cycles at once.                                *)
(***************************************************************************)
Revisited(u) ==
    \/ smod[u] > Horizon
    \/ pc \in {"fullfetch", "fullapply"} /\ old[u] # Absent

Fetched(u) ==
    \/ \A v \in Cached : v < u
    \/ bg # NoBg /\ u < bg.below
    \/ \E r \in Requests : req[r].op = "spawn" /\ u < req[r].start

Dropped(u) ==
    /\ msgs[u] = Absent
    /\ \/ pc = "vanish" /\ u \in delta /\ snap[u] = Absent
       \/ pc \in Applied /\ ~told

Accounted ==
    \A u \in Uid \ leak : Differs(u) =>
        IF rows[u] = Absent THEN Fetched(u)
        ELSE Revisited(u) \/ Dropped(u)

(***************************************************************************)
(* Within one UIDVALIDITY the stored number never runs ahead of the        *)
(* server, and no cycle stores one below that which it began with: it may  *)
(* repeat work, never skip it.  So the number goes back only to undo what  *)
(* a cycle beside it has stored in the meantime.                           *)
(***************************************************************************)
MarkSound ==
    [][sval' = 1 /\ cmod' # cmod =>
          /\ cmod' <= top'
          /\ \/ pc' # pc /\ since <= cmod'
             \/ pc2' # pc2 /\ since2 <= cmod']_vars

(***************************************************************************)
(* Tier 1 skips a folder whose number and count agree with the stored      *)
(* ones.  What differs at that moment was changed after the STATUS answer, *)
(* or is still being fetched by a request: of what is not in `leak',       *)
(* nothing older is skipped.                                               *)
(***************************************************************************)
SkipSound ==
    [][/\ pc = "count" /\ pc' = "idle" /\ left' = left
       /\ leak = {} /\ bg = NoBg /\ \A r \in Requests : req[r].op # "spawn"
       => \A u \in Uid : Differs(u) => smod[u] > stat.mod]_vars

(***************************************************************************)
(* Once the server rests and nothing was lost, the cache becomes the       *)
(* folder and stays so.                                                    *)
(***************************************************************************)
Converges == <>[](leak = {} => rows = msgs)

(***************************************************************************)
(* After a change of UIDVALIDITY the cache ends up with the new mailbox:   *)
(* its number, and none of the rows that stood when it changed, unless one *)
(* who could not know of the change has given them the new number.         *)
(***************************************************************************)
Relabelled == <>[](cval = sval /\ foreign = {})
=============================================================================
