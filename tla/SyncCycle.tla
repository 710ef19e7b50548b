----------------------------- MODULE SyncCycle -----------------------------
(***************************************************************************)
(* One cycle of the sync worker over one folder: the mailbox on the IMAP   *)
(* server, the copy of it in the user's SQLite file, and run_sync, which   *)
(* pulls the one into the other.                                           *)
(*                                                                         *)
(*   backend/src/realtime/sync.rs       the cycle            (pc .. late)  *)
(*   backend/src/db/messages.rs         table messages       (rows)        *)
(*   backend/src/db/folders.rs          table folders     (cval cmod null) *)
(*   backend/src/imap/client.rs         what each call does to the server  *)
(*                                                                         *)
(* A cycle visits the folders one after the other and shares nothing       *)
(* between them, so one folder is enough; a move is an expunge here and a  *)
(* delivery in the other folder.  Every IMAP call and every with_user_db   *)
(* closure is one step; anything may happen between two of them.           *)
(*                                                                         *)
(* The code takes much for granted: it ignores the result of nearly every  *)
(* statement inside a closure (fault "row": one is refused, the rest goes  *)
(* on), and it takes a FETCH whose connection ends half-way for the whole  *)
(* answer (fault "eof").  Both are steps here, and what they lose for good *)
(* is collected in `leak'.                                                 *)
(*                                                                         *)
(* A message is the set of its flags.  Subjects, bodies, threads and the   *)
(* search index follow the row and are left out.                           *)
(***************************************************************************)
EXTENDS Integers, FiniteSets

CONSTANTS
    MaxUid,      \* bound: UIDs the server hands out
    Flags,       \* the flags a message can carry
    Gone,        \* marks the absence of a message
    Span,        \* MAX_RANGE_SPAN: 100 000
    Caps,        \* servers considered: "qresync", "condstore", "plain"
    Faults,      \* what may go wrong
    Budgets      \* bound: how often things may happen in one behaviour

Uid == 1..MaxUid
FlagSets == SUBSET Flags
Absent == {Gone}
BudgetSet == [change : Nat, rebuild : Nat, fault : Nat, op : Nat, rival : Nat]

ASSUME SyncAssumption ==
    /\ MaxUid \in Nat
    /\ Gone \notin Flags
    /\ Span \in Nat \ {0}
    /\ Caps \subseteq {"qresync", "condstore", "plain"} /\ Caps # {}
    /\ Faults \subseteq {"imap", "eof", "row", "stall", "cut", "open",
                         "background", "lost"}
    /\ Budgets \subseteq BudgetSet

VARIABLES
    cap,     \* what the server supports
    msgs,    \* server: Uid -> flags
    smod,    \* server: Uid -> modification number of its last change
    top,     \* server: HIGHESTMODSEQ
    next,    \* server: UIDNEXT
    sval,    \* server: UIDVALIDITY
    rows,    \* cache: Uid -> flags
    cval,    \* cache: folders.uid_validity
    cmod,    \* cache: folders.highest_modseq
    null,    \* cache: folders.messages_updated_at IS NULL
    pc,      \* cycle: what it does next
    wval,    \* cycle: uid_validity of its snapshot
    since,   \* cycle: highest_modseq of its snapshot
    stat,    \* cycle: the STATUS answer
    told,    \* cycle: the server named the vanished UIDs
    delta,   \* cycle: UIDs the server reported
    snap,    \* cycle: the flags (or absence) it reported
    mark,    \* cycle: the modification number to store
    above,   \* cycle: the UIDs above the highest cached one
    old,     \* cycle: the rows as sync_full read them
    late,    \* cycle: cut off, but one statement of it still lands
    leak,    \* history: UIDs whose difference no stored number covers
    left     \* history: what is left of the budget

server == <<cap, msgs, smod, top, next, sval>>
folder == <<cval, cmod, null>>
locals == <<pc, wval, since, stat, told, delta, snap, mark, above, old, late>>

Present == {u \in Uid : msgs[u] # Absent}
Cached == {u \in Uid : rows[u] # Absent}
Differs(u) == rows[u] # msgs[u]
Max2(a, b) == IF a > b THEN a ELSE b

NoStat == [val |-> 0, exists |-> 0, next |-> 0, mod |-> 0]
Nothing == [u \in Uid |-> Absent]

\* The rows, with those of S as f has them.
Written(S, f) == [u \in Uid |-> IF u \in S THEN f[u] ELSE rows[u]]

\* One unit of each budget line in K is used up by this step.
Spend(K) ==
    /\ \A k \in K : left[k] > 0
    /\ left' = [k \in DOMAIN left |-> IF k \in K THEN left[k] - 1 ELSE left[k]]

\* A fault of kind k happens in this step.
Fault(k) == k \in Faults /\ Spend({"fault"})

(***************************************************************************)
(* What the cycle no longer revisits.  Until it has applied a delta it     *)
(* will read again everything above cmod; afterwards only what is above    *)
(* the number it is about to store; once sync_full has read the rows, a    *)
(* row written behind its back is covered only above the STATUS number.    *)
(***************************************************************************)
Applied == {"vanish", "tally", "sweep", "sweepdb", "max", "fetch", "store",
            "mark"}
FullTier == {"full", "emptymark", "fullfetch", "fullapply"}

Horizon ==
    CASE pc \in Applied -> Max2(cmod, mark)
      [] pc \in FullTier \ {"full"} -> Max2(cmod, stat.mod)
      [] OTHER -> cmod

(***************************************************************************)
(* A write of `new' to the rows that does not go by a number.  A row that  *)
(* is then not what the server has, and whose last change on the server    *)
(* lies at or below the horizon, stays wrong: no later cycle asks for it.  *)
(* `leak' collects those UIDs and a row taken away while the message still *)
(* exists.                                                                 *)
(***************************************************************************)
Leaks(new) ==
    {u \in Uid : /\ new[u] # rows[u]
                 /\ new[u] # msgs[u]
                 /\ new[u] = Absent \/ smod[u] <= Horizon}

WriteRows(new) == rows' = new /\ leak' = leak \cup Leaks(new)

\* A statement for the row u is refused and n is stored as if it had not been.
Forgotten(u, n) == {v \in {u} : smod[v] <= n}

\* What FETCH reports of the messages S: their headers, or their flags.
fetch_headers(S) == [u \in Uid |-> IF u \in S THEN msgs[u] ELSE Absent]
fetch_uids_and_flags(S) == [u \in Uid |-> IF u \in S THEN msgs[u] ELSE Absent]

CycleInit ==
    /\ pc = "idle" /\ wval = 0 /\ since = 0
    /\ stat = NoStat /\ told = FALSE /\ delta = {} /\ snap = Nothing
    /\ mark = 0 /\ above = {} /\ old = Nothing /\ late = FALSE

Quiet == leak' = leak /\ left' = left

\* The locals of a cycle end with it.
Finish ==
    /\ pc' = "idle" /\ wval' = 0 /\ since' = 0 /\ stat' = NoStat /\ told' = FALSE
    /\ delta' = {} /\ snap' = Nothing /\ mark' = 0 /\ above' = {} /\ old' = Nothing
    /\ late' = FALSE

Goto(l) == pc' = l /\ late' = late

\* After a statement: on to l, or the end of a cycle that was cut off.
Onward(l) ==
    IF late THEN Finish
    ELSE Goto(l) /\ UNCHANGED <<wval, since, stat, told, delta, snap, mark, above, old>>

-----------------------------------------------------------------------------
(* run_sync for this folder.                                               *)

\* The snapshot of the folders, read once at the start of a cycle.  Anything
\* may have rung: the keepalive, IDLE, a stale view.
Wake ==
    /\ pc = "idle"
    /\ Goto("status") /\ wval' = cval /\ since' = cmod
    /\ UNCHANGED <<rows, folder, stat, told, delta, snap, mark, above, old>>

\* STATUS, and the choice of tier.
StatusAnswer ==
    [val |-> sval, exists |-> Cardinality(Present), next |-> next,
     mod |-> IF cap = "plain" THEN 0 ELSE top]

Tier(st) ==
    IF wval # 0 /\ st.val # wval THEN "rebuilt"
    ELSE IF st.mod > 0 /\ since > 0
         THEN IF st.mod = since THEN "count" ELSE "delta"
         ELSE "full"

Status ==
    /\ pc = "status"
    /\ \/ /\ stat' = StatusAnswer
          /\ Goto(Tier(StatusAnswer))
          /\ UNCHANGED <<wval, since, told, delta, snap, mark, above, old>>
          /\ Quiet
       \/ Finish /\ Fault("imap") /\ leak' = leak
    /\ UNCHANGED <<rows, folder>>

\* UIDVALIDITY changed: only the freshness goes; list_messages clears the rows.
Invalidate ==
    /\ pc = "rebuilt"
    /\ \/ null' = TRUE /\ left' = left
       \/ null' = null /\ Fault("row")
    /\ Finish
    /\ UNCHANGED <<rows, cval, cmod, leak>>

\* Tier 1: numbers agree, so an equal count means nothing to do; a count that
\* cannot be read is taken for 0.
\* Mutant: the number alone decides.
SkipUnchanged_number_only ==
    /\ pc = "count"
    /\ Finish
    /\ UNCHANGED <<rows, folder>> /\ Quiet

SkipUnchanged ==
    /\ pc = "count"
    /\ \/ Cardinality(Cached) = stat.exists /\ left' = left
       \/ stat.exists = 0 /\ Fault("row")
    /\ Finish
    /\ UNCHANGED <<rows, folder, leak>>

CountDiffers ==
    /\ pc = "count"
    /\ \/ Cardinality(Cached) # stat.exists /\ left' = left
       \/ stat.exists # 0 /\ Fault("row")
    /\ Goto("delta")
    /\ UNCHANGED <<wval, since, stat, told, delta, snap, mark, above, old>>
    /\ UNCHANGED <<rows, folder, leak>>

\* Tier 2: what changed since the stored number.  QRESYNC reports the
\* vanished UIDs too and the numbers of the changed ones, and an answer that
\* is cut is dropped; the CONDSTORE fallback reports the folder's number at
\* SELECT and no vanished list, and a cut answer passes for a whole one.
ChangedSince == {u \in Uid : u < next /\ smod[u] > since}

\* expand_ranges: neighbouring UIDs are one range, and one range wider than
\* MAX_RANGE_SPAN empties the whole list.
Expanded(S) == IF \E u \in S : u..(u + Span) \subseteq S THEN {} ELSE S

AskQresync ==
    /\ pc = "delta" /\ cap = "qresync" /\ since > 0 /\ stat.val > 0
    /\ told' = TRUE /\ snap' = msgs
    /\ LET named == IF stat.val = sval THEN ChangedSince ELSE {}
           alive == named \cap Present
           gone == named \ Present
       IN  /\ delta' = alive \cup Expanded(gone)
           /\ leak' = leak \cup (gone \ Expanded(gone))
           /\ IF alive = {} THEN mark' = stat.mod
              ELSE \E u \in alive : /\ \A v \in alive : smod[v] <= smod[u]
                                    /\ mark' = smod[u]
    /\ Goto("apply")
    /\ UNCHANGED <<wval, since, stat, above, old>>
    /\ UNCHANGED <<rows, folder, left>>

\* Mutant: UIDNEXT style, the number after the last one used.
AskCondstore_one_ahead ==
    /\ pc = "delta"
    /\ \/ cap = "condstore" /\ left' = left
       \/ cap = "qresync" /\ Fault("stall")
    /\ delta' = ChangedSince /\ leak' = leak
    /\ told' = FALSE /\ snap' = msgs
    /\ mark' = top + 1
    /\ Goto("apply")
    /\ UNCHANGED <<wval, since, stat, above, old>>
    /\ UNCHANGED <<rows, folder>>

AskCondstore ==
    /\ pc = "delta"
    /\ \/ /\ cap = "condstore" /\ left' = left
          /\ delta' = ChangedSince /\ leak' = leak
       \/ /\ cap = "qresync" /\ Fault("stall")
          /\ delta' = ChangedSince /\ leak' = leak
       \/ /\ cap = "condstore" /\ Fault("eof")
          /\ \E S \in SUBSET ChangedSince \ {ChangedSince} :
                delta' = S /\ leak' = leak \cup (ChangedSince \ S)
    /\ told' = FALSE /\ snap' = msgs
    /\ mark' = IF top > 0 THEN top ELSE stat.mod
    /\ Goto("apply")
    /\ UNCHANGED <<wval, since, stat, above, old>>
    /\ UNCHANGED <<rows, folder>>

AskFails ==
    /\ pc = "delta" /\ Fault("imap")
    /\ Goto("full")
    /\ UNCHANGED <<wval, since, stat, told, delta, snap, mark, above, old>>
    /\ UNCHANGED <<rows, folder, leak>>

\* update_message_flags for every changed UID: a row that is not there stays
\* so, one that is refused is passed over.
Apply ==
    /\ pc = "apply"
    /\ LET hit == {u \in delta : snap[u] # Absent /\ rows[u] # Absent}
       IN  \/ rows' = Written(hit, snap) /\ Quiet
           \/ \E u \in hit : /\ rows[u] # snap[u] /\ Fault("row")
                             /\ rows' = Written(hit \ {u}, snap)
                             /\ leak' = leak \cup Forgotten(u, mark)
    /\ Onward(IF told THEN "vanish" ELSE "tally")
    /\ UNCHANGED folder

\* Mutant: the vanished UIDs are counted and not deleted.
Vanish_counted ==
    /\ pc = "vanish" /\ rows' = rows /\ Quiet
    /\ Onward("max")
    /\ UNCHANGED folder

Vanish ==
    /\ pc = "vanish"
    /\ LET hit == {u \in delta : snap[u] = Absent}
       IN  \/ rows' = Written(hit, Nothing) /\ Quiet
           \/ \E u \in hit \cap Cached :
                 /\ Fault("row")
                 /\ rows' = Written(hit \ {u}, Nothing)
                 /\ leak' = leak \cup Forgotten(u, mark)
    /\ Onward("max")
    /\ UNCHANGED folder

\* No vanished list: fewer messages there than rows here means a deletion.
Tally ==
    /\ pc = "tally"
    /\ \/ /\ Goto(IF stat.exists < Cardinality(Cached) THEN "sweep" ELSE "max")
          /\ left' = left
       \/ Goto("max") /\ Fault("row")
    /\ UNCHANGED <<wval, since, stat, told, delta, snap, mark, above, old>>
    /\ UNCHANGED <<rows, folder, leak>>

Sweep ==
    /\ pc = "sweep"
    /\ \/ snap' = fetch_uids_and_flags(Present) /\ Goto("sweepdb") /\ left' = left
       \/ \E S \in SUBSET Present \ {Present} :
             snap' = fetch_uids_and_flags(S) /\ Goto("sweepdb") /\ Fault("eof")
       \/ snap' = snap /\ Goto("max") /\ Fault("imap")
    /\ UNCHANGED <<wval, since, stat, told, delta, mark, above, old>>
    /\ UNCHANGED <<rows, folder, leak>>

\* The rows the answer does not name; a refused deletion is passed over, and
\* rows that cannot be read are none.
SweepDb ==
    /\ pc = "sweepdb"
    /\ LET hit == {u \in Cached : snap[u] = Absent}
       IN  \/ WriteRows(Written(hit, Nothing)) /\ left' = left
           \/ \E S \in {hit \ {u} : u \in hit} \cup {{}} :
                 S # hit /\ WriteRows(Written(S, Nothing)) /\ Fault("row")
    /\ Onward("max")
    /\ UNCHANGED folder

\* max_uid, 0 when it cannot be read, and whether UIDNEXT promises more.
\* Mutant: from the highest cached UID itself, 0 when there is none.
AboveCached_inclusive == {u \in 0..MaxUid : \A v \in Cached : v <= u}

AboveCached == {u \in Uid : \A v \in Cached : v < u}

\* Mutant: off by one against UIDNEXT.
MaxCached_off_by_one ==
    /\ pc = "max"
    /\ above' = AboveCached
    /\ Goto(IF \E u \in AboveCached : u + 1 < stat.next THEN "fetch" ELSE "mark")
    /\ UNCHANGED <<wval, since, stat, told, delta, snap, mark, old>>
    /\ UNCHANGED <<rows, folder>> /\ Quiet

MaxCached ==
    /\ pc = "max"
    /\ \/ above' = AboveCached /\ left' = left
       \/ above' = Uid /\ Cached # {} /\ Fault("row")
    /\ Goto(IF \E u \in above' : u < stat.next THEN "fetch" ELSE "mark")
    /\ UNCHANGED <<wval, since, stat, told, delta, snap, mark, old>>
    /\ UNCHANGED <<rows, folder, leak>>

\* fetch_and_store_new: the headers from the highest cached UID upwards, then
\* one upsert each; an upsert that fails is skipped and the rest go on.
FetchNew ==
    /\ pc \in {"fetch", "fullnew"}
    /\ \/ /\ \/ snap' = fetch_headers(above) /\ Quiet
             \/ \E S \in SUBSET (above \cap Present) :
                   /\ S # above \cap Present /\ Fault("eof")
                   /\ snap' = fetch_headers(S)
                   /\ leak' = leak \cup {u \in (above \cap Present) \ S :
                                            \E v \in S : u < v}
          /\ Goto(IF pc = "fetch" THEN "store" ELSE "fullstore")
          /\ UNCHANGED <<wval, since, stat, told, delta, mark, above, old>>
       \/ /\ Fault("imap") /\ leak' = leak
          /\ IF pc = "fetch" THEN Onward("mark") ELSE Finish
    /\ UNCHANGED <<rows, folder>>

StoreNew ==
    /\ pc \in {"store", "fullstore"}
    /\ LET got == {u \in Uid : snap[u] # Absent}
       IN  \/ rows' = Written(got, snap) /\ Quiet
           \/ \E u \in got : /\ Fault("row")
                             /\ rows' = Written(got \ {u}, snap)
                             /\ leak' = leak \cup {u}
           \/ rows' = rows /\ leak' = leak /\ Fault("row")
    /\ IF pc = "store" THEN Onward("mark") ELSE Finish
    /\ UNCHANGED folder

\* update_folder_sync_status, its result ignored.  Without a vanished list the
\* number may cover an expunge the cycle did not carry over; from then on only
\* a count can tell.
MarkSynced ==
    /\ pc = "mark"
    /\ \/ /\ cval' = stat.val /\ cmod' = mark /\ null' = FALSE
          /\ leak' = IF told THEN leak
                     ELSE leak \cup {u \in Cached \ Present : smod[u] <= mark}
          /\ left' = left
       \/ UNCHANGED <<folder, leak>> /\ Fault("row")
    /\ Finish
    /\ UNCHANGED rows

\* Tier 3, sync_full.
FullRead ==
    /\ pc = "full"
    /\ old' = rows /\ above' = AboveCached
    /\ Goto(IF Cached = {} THEN "emptymark" ELSE "fullfetch")
    /\ UNCHANGED <<wval, since, stat, told, delta, snap, mark>>
    /\ UNCHANGED <<rows, folder>> /\ Quiet

FullEmpty ==
    /\ pc = "emptymark"
    /\ \/ /\ cval' = stat.val /\ cmod' = stat.mod /\ null' = FALSE
          /\ left' = left
       \/ UNCHANGED folder /\ Fault("row")
    /\ Finish
    /\ UNCHANGED <<rows, leak>>

\* A row that a cut answer does not name is about to be deleted.
FullFetch ==
    /\ pc = "fullfetch"
    /\ \/ /\ \/ snap' = fetch_uids_and_flags(Present) /\ Quiet
             \/ \E S \in SUBSET Present :
                   /\ S # Present /\ Fault("eof")
                   /\ snap' = fetch_uids_and_flags(S)
                   /\ leak' = leak \cup {u \in Present \ S : old[u] # Absent}
          /\ Goto("fullapply")
          /\ UNCHANGED <<wval, since, stat, told, delta, mark, above, old>>
       \/ Finish /\ Fault("imap") /\ leak' = leak
    /\ UNCHANGED <<rows, folder>>

\* One closure: rows gone from the server are deleted, rows whose flags are
\* not those read before are overwritten, the folder row is updated; what is
\* refused is passed over.
FullApply ==
    /\ pc = "fullapply"
    /\ LET hit == {u \in Cached : old[u] # Absent /\ old[u] # snap[u]}
       IN  \/ /\ cval' = stat.val /\ cmod' = stat.mod /\ null' = FALSE
              /\ \/ rows' = Written(hit, snap) /\ Quiet
                 \/ \E u \in hit : /\ rows[u] # snap[u] /\ Fault("row")
                                   /\ rows' = Written(hit \ {u}, snap)
                                   /\ leak' = leak \cup Forgotten(u, stat.mod)
           \/ /\ rows' = Written(hit, snap)
              /\ UNCHANGED <<folder, leak>> /\ Fault("row")
    /\ IF \E u \in above : snap[u] # Absent THEN Onward("fullnew") ELSE Finish

\* The 120 s limit, a database error that ends the cycle, or a restart.  The
\* statement that was under way is done, not done, or still to land.
Cut ==
    /\ pc # "idle" /\ ~late
    /\ \/ Finish
       \/ /\ pc \in {"rebuilt", "apply", "vanish", "sweepdb", "store", "mark",
                     "emptymark", "fullapply", "fullstore"}
          /\ pc' = pc /\ late' = TRUE
          /\ UNCHANGED <<wval, since, stat, told, delta, snap, mark, above, old>>
    /\ Fault("cut")
    /\ UNCHANGED <<rows, folder, leak>>

Cycle ==
    \/ Status \/ Invalidate \/ SkipUnchanged \/ CountDiffers
    \/ AskQresync \/ AskCondstore \/ AskFails \/ Apply \/ Vanish
    \/ Tally \/ Sweep \/ SweepDb \/ MaxCached \/ FetchNew \/ StoreNew
    \/ MarkSynced \/ FullRead \/ FullEmpty \/ FullFetch \/ FullApply

-----------------------------------------------------------------------------

CycleType ==
    /\ pc \in Applied \cup FullTier
              \cup {"idle", "status", "rebuilt", "count", "delta", "apply",
                    "fullnew", "fullstore"}
    /\ wval \in Nat /\ since \in Nat /\ mark \in Nat
    /\ told \in BOOLEAN /\ late \in BOOLEAN
    /\ stat \in [val : Nat, exists : Nat, next : Nat, mod : Nat]
    /\ delta \subseteq Uid /\ above \subseteq Uid
    /\ snap \in [Uid -> FlagSets \cup {Absent}]
    /\ old \in [Uid -> FlagSets \cup {Absent}]
=============================================================================
