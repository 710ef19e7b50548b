--------------------------- MODULE MailboxProofs ---------------------------
(***************************************************************************)
(* A cache that is behind its folder: no difference is forgotten, but for  *)
(* those that `leak' has collected.                                        *)
(*                                                                         *)
(* Accounted is not inductive: it speaks of the rows and says nothing of   *)
(* what the cycle, the requests and the background fetch carry with them   *)
(* and are about to write.  Holds adds that what the server reported to    *)
(* them is still so, has changed after the number they will store, or is   *)
(* leaked (Reported), that a row that is wrong lies above every number     *)
(* that is stored or about to be (Covered), that pages are painted below   *)
(* UIDNEXT without gaps (Painting), and that what is missing is above the  *)
(* cache or left to the background fetch (Fetching).  A step of the server *)
(* or of a request only drifts (Drift): numbers grow, and what changes     *)
(* gets a new one.  Holds is an invariant as long as not every UID is      *)
(* leaked: a new UIDVALIDITY and a second cycle leak them all, so under it *)
(* there is one cycle and the first UIDVALIDITY.                           *)
(*                                                                         *)
(* What is said of the stored number alone (Marks) needs neither: each of  *)
(* two cycles bounds the number it will store by its own locals, and no    *)
(* step of the other, of the server or of a request touches these.         *)
(***************************************************************************)
EXTENDS Mailbox, FiniteSetTheorems, TLAPS

-----------------------------------------------------------------------------
(* Types: those of TypeOK, and the records of requests in full.            *)

Flagged == FlagSets \cup {Absent}
Copies == [Uid -> Flagged]
StatusSet == [val : Nat, exists : Nat, next : Nat, mod : Nat]
SelectSet == [val : Nat, exists : Nat, next : Nat]
CheckSet == [op : {"select"}, val : Nat, count : Nat, null : BOOLEAN]

RequestSet ==
    {NoReq} \cup [op : {"flag", "flags"}, uids : SUBSET Uid, flag : Flags, add : BOOLEAN]
    \cup [op : {"update"}, uids : SUBSET Uid, flags : FlagSets]
    \cup [op : {"all"}] \cup [op : {"remove"}, uids : SUBSET Uid]
    \cup CheckSet \cup [op : {"decide"}, chk : CheckSet, st : SelectSet]
    \cup [op : {"headers"}, val : Nat, next : Nat, first : BOOLEAN]
    \cup [op : {"paint"}, val : Nat, start : Nat, first : BOOLEAN, hdrs : Copies]
    \cup [op : {"spawn"}, val : Nat, start : Nat]
BgSet ==
    {NoBg} \cup [pc : {"fetch"}, below : Nat, val : Nat]
    \cup [pc : {"store"}, below : Nat, val : Nat, hdrs : Copies]

Pcs == Applied \cup FullTier
        \cup {"idle", "status", "rebuilt", "count", "delta", "apply",
              "fullnew", "fullstore"}

ServerType ==
    /\ cap \in Caps /\ msgs \in Copies /\ smod \in [Uid -> Nat]
    /\ top \in Nat \ {0} /\ next \in Nat \ {0} /\ sval \in Nat \ {0}
RowsType == rows \in Copies /\ leak \in SUBSET Uid
FolderType == cval \in Nat /\ cmod \in Nat /\ null \in BOOLEAN
WorkerType ==
    /\ pc \in Pcs /\ wval \in Nat /\ since \in Nat /\ mark \in Nat
    /\ told \in BOOLEAN /\ late \in BOOLEAN /\ stat \in StatusSet
    /\ delta \in SUBSET Uid /\ above \in SUBSET Uid
    /\ snap \in Copies /\ old \in Copies
RivalType ==
    /\ pc2 \in Pcs /\ wval2 \in Nat /\ since2 \in Nat /\ mark2 \in Nat
    /\ told2 \in BOOLEAN /\ late2 \in BOOLEAN /\ stat2 \in StatusSet
    /\ delta2 \in SUBSET Uid /\ above2 \in SUBSET Uid
    /\ snap2 \in Copies /\ old2 \in Copies
RequestsType == req \in [Requests -> RequestSet] /\ bg \in BgSet
BudgetType == left \in BudgetSet

Typed ==
    /\ ServerType /\ RowsType /\ FolderType /\ WorkerType /\ RivalType
    /\ RequestsType /\ BudgetType

\* Rows of the old mailbox are rows.
ForeignType == foreign \subseteq Cached

\* A cycle leaves the server, the requests and the other cycle alone.
WorkerFrame == UNCHANGED <<server, rival, req, bg>>
RivalFrame == UNCHANGED <<server, locals, req, bg>>

\* No set of flags is taken for a message that is not there.
LEMMA AbsentFact == Absent \notin FlagSets
BY SyncAssumption DEF Absent, FlagSets

\* Every set of UIDs is finite and can be counted.
LEMMA UidFinite ==
    /\ IsFiniteSet(Uid)
    /\ \A S \in SUBSET Uid : IsFiniteSet(S) /\ Cardinality(S) \in Nat
<1>1. IsFiniteSet(Uid)
  BY SyncAssumption, FS_Interval DEF Uid
<1> QED BY <1>1, FS_Subset, FS_CardinalityType

\* A budget that is spent stays a budget.
LEMMA SpendTypes ==
    ASSUME BudgetType, NEW K \in SUBSET {"change", "rebuild", "fault", "op", "rival"}, Spend(K)
    PROVE BudgetType'
BY DEF BudgetType, BudgetSet, Spend

\* What STORE does keeps the types of the server's mailbox.
LEMMA StoreTypes ==
    ASSUME ServerType, NEW S, NEW f \in Copies, Store(S, f)
    PROVE  msgs' \in Copies /\ smod' \in [Uid -> Nat] /\ top' \in Nat \ {0}
BY DEF ServerType, Store, Copies

\* What EXPUNGE does keeps them too, and leaks nothing but UIDs.
LEMMA RemoveTypes ==
    ASSUME ServerType, RowsType, NEW S, Remove(S)
    PROVE  /\ msgs' \in Copies /\ smod' \in [Uid -> Nat] /\ top' \in Nat \ {0}
           /\ leak' \in SUBSET Uid
BY DEF ServerType, RowsType, Remove, Copies, Flagged, Present

\* Writing rows keeps their type and that of the leaks.
LEMMA WriteTypes ==
    ASSUME RowsType, NEW new \in Copies, WriteRows(new)
    PROVE RowsType'
BY DEF RowsType, WriteRows, Leaks

\* A cycle that ends leaves its locals with their types.
LEMMA FinishTypes == ASSUME Finish PROVE WorkerType'
BY DEF Finish, WorkerType, Pcs, Applied, FullTier, NoStat, StatusSet, Nothing, Copies, Flagged

\* An empty mailbox is a mailbox.
LEMMA NothingType == Nothing \in Copies
BY DEF Nothing, Copies, Flagged

\* Rows that are overwritten by what has the type of rows keep it.
LEMMA WrittenTypes ==
    ASSUME RowsType, NEW S, NEW f \in Copies
    PROVE  Written(S, f) \in Copies
BY DEF RowsType, Written, Copies

\* The state the cache starts in has its types.
LEMMA InitTyped == Init => Typed
<1> SUFFICES ASSUME Init PROVE Typed
  OBVIOUS
<1>1. ServerType
  BY NothingType, SyncAssumption DEF Init, ServerType
<1>2. WorkerType
  BY NothingType DEF Init, CycleInit, WorkerType, Pcs, NoStat, StatusSet
<1>6. RivalType
  BY NothingType DEF Init, Rival!CycleInit, Rival!NoStat, Rival!Nothing, Rival!Uid, Rival!Absent,
     Nothing, Uid, Absent, RivalType, Pcs, StatusSet
<1>3. RowsType /\ FolderType
  BY NothingType DEF Init, RowsType, FolderType
<1>4. RequestsType
  BY DEF Init, RequestsType, RequestSet, BgSet
<1>5. BudgetType
  BY SyncAssumption DEF Init, BudgetType
<1> QED BY <1>1, <1>2, <1>3, <1>4, <1>5, <1>6 DEF Typed

\* Mail that comes, goes, is flagged or numbered anew keeps the types.
LEMMA ServerTyped == ASSUME Typed, Server PROVE Typed'
<1> USE DEF Typed
<1>1. ASSUME Deliver PROVE Typed'
  <2>1. ServerType'
    BY <1>1 DEF Deliver, ServerType, Copies, Flagged, Uid
  <2>2. BudgetType'
    BY <1>1, SpendTypes DEF Deliver
  <2> QED
    BY <1>1, <2>1, <2>2 DEF Deliver, folder, worker, locals, rival, RivalType, RowsType, FolderType, WorkerType,
           RequestsType
<1>2. ASSUME NEW u \in Uid, NEW f \in FlagSets, Reflag(u, f) PROVE Typed'
  <2>1. [v \in Uid |-> f] \in Copies
    BY DEF Copies, Flagged
  <2>2. ServerType'
    BY <1>2, <2>1, StoreTypes DEF Reflag, ServerType
  <2>3. BudgetType'
    BY <1>2, SpendTypes DEF Reflag
  <2> QED
    BY <1>2, <2>2, <2>3 DEF Reflag, folder, worker, locals, rival, RivalType, RowsType, FolderType, WorkerType, RequestsType
<1>3. ASSUME NEW u \in Uid, Expunge(u) PROVE Typed'
  <2>2. ServerType' /\ RowsType'
    BY <1>3, RemoveTypes DEF Expunge, ServerType, RowsType
  <2>3. BudgetType'
    BY <1>3, SpendTypes DEF Expunge
  <2> QED
    BY <1>3, <2>2, <2>3 DEF Expunge, folder, worker, locals, rival, RivalType, FolderType, WorkerType, RequestsType
<1>4. ASSUME Rebuild PROVE Typed'
  <2>1. {} \in Flagged /\ Absent \in Flagged
    BY DEF Flagged, FlagSets
  <2>2. ServerType'
    BY <1>4, <2>1 DEF Rebuild, ServerType, Copies
  <2>3. BudgetType'
    BY <1>4, SpendTypes DEF Rebuild
  <2> QED
    BY <1>4, <2>2, <2>3 DEF Rebuild, folder, worker, locals, rival, RivalType, RowsType, FolderType, WorkerType,
           RequestsType
<1> QED BY <1>1, <1>2, <1>3, <1>4 DEF Server

\* The STATUS answer is a record of numbers.
LEMMA StatusAnswerType ==
    ASSUME ServerType PROVE StatusAnswer \in StatusSet
<1>1. Present \in SUBSET Uid
  BY DEF Present
<1> QED BY <1>1, UidFinite DEF StatusAnswer, StatusSet, ServerType

\* Every step of a cycle keeps the types, one step of the code at a time.
LEMMA CycleTyped == ASSUME Typed, Start \/ Advance PROVE Typed'
<1> USE DEF Typed
<1>0. WorkerFrame
  BY DEF Start, Advance, WorkerFrame
<1>1. ServerType' /\ RequestsType' /\ RivalType'
  BY <1>0 DEF WorkerFrame, server, rival, ServerType, RequestsType, RivalType
<1>a. ASSUME left' = left PROVE BudgetType'
  BY <1>a DEF BudgetType
<1>b. ASSUME NEW k, Fault(k) PROVE BudgetType'
  BY <1>b, SpendTypes DEF Fault
<1>c. Nothing \in Copies /\ AboveCached \in SUBSET Uid /\ leak \in SUBSET Uid /\ rows \in Copies
  BY NothingType DEF AboveCached, RowsType
<1>d. ASSUME Finish PROVE WorkerType'
  BY <1>d, FinishTypes
<1>e. \A S : fetch_headers(S) \in Copies /\ fetch_uids_and_flags(S) \in Copies
  BY DEF fetch_headers, fetch_uids_and_flags, Copies, Flagged, ServerType
<1>f. ASSUME UNCHANGED folder PROVE FolderType'
  BY <1>f DEF folder, FolderType
<1>g. ASSUME rows' = rows, leak' \in SUBSET Uid PROVE RowsType'
  BY <1>g DEF RowsType
<1>h. ASSUME NEW l \in Pcs, Onward(l) PROVE WorkerType'
  BY <1>h, <1>d DEF Onward, Goto, WorkerType
<1>i. \A S, f : f \in Copies => Written(S, f) \in Copies
  BY WrittenTypes
<1>j. stat \in StatusSet /\ mark \in Nat /\ snap \in Copies
  BY DEF WorkerType
<1>2. CASE Start
  <2>1. WorkerType'
    BY <1>2 DEF Start, Wake, Goto, WorkerType, Pcs, FolderType
  <2> QED BY <1>2, <2>1, <1>1, <1>a, <1>c, <1>f, <1>g DEF Start, Wake, Quiet
<1>3. CASE Status
  <2>1. WorkerType'
    BY <1>3, <1>d, StatusAnswerType DEF Status, Goto, Tier, WorkerType, Pcs, FullTier
  <2> QED BY <1>3, <2>1, <1>1, <1>a, <1>b, <1>c, <1>f, <1>g DEF Status, Quiet
<1>4. CASE Invalidate
  BY <1>4, <1>1, <1>a, <1>b, <1>c, <1>d, <1>g DEF Invalidate, FolderType
<1>5. CASE SkipUnchanged
  BY <1>5, <1>1, <1>a, <1>b, <1>c, <1>d, <1>f, <1>g DEF SkipUnchanged
<1>6. CASE CountDiffers
  <2>1. WorkerType'
    BY <1>6 DEF CountDiffers, Goto, WorkerType, Pcs
  <2> QED BY <1>6, <2>1, <1>1, <1>a, <1>b, <1>c, <1>f, <1>g DEF CountDiffers
<1>7. CASE AskQresync
  <2>1. WorkerType' /\ leak' \in SUBSET Uid
    BY <1>7, <1>c DEF AskQresync, Goto, WorkerType, Pcs, StatusSet, ServerType,
           ChangedSince, Expanded
  <2> QED BY <1>7, <2>1, <1>1, <1>a, <1>f, <1>g DEF AskQresync
<1>8. CASE AskCondstore
  <2>1. ChangedSince \in SUBSET Uid
    BY DEF ChangedSince
  <2>2. delta' \in SUBSET Uid /\ leak' \in SUBSET Uid /\ BudgetType'
    BY <1>8, <2>1, <1>a, <1>b, <1>c DEF AskCondstore
  <2>3. WorkerType'
    BY <1>8, <2>2 DEF AskCondstore, Goto, WorkerType, Pcs, StatusSet, ServerType
  <2> QED BY <1>8, <2>2, <2>3, <1>1, <1>f, <1>g DEF AskCondstore
<1>9. CASE AskFails
  <2>1. WorkerType'
    BY <1>9 DEF AskFails, Goto, WorkerType, Pcs, FullTier
  <2> QED BY <1>9, <2>1, <1>1, <1>b, <1>c, <1>f, <1>g DEF AskFails
<1>10. CASE Apply
  <2>1. WorkerType'
    BY <1>10, <1>h DEF Apply, Pcs, Applied
  <2>2. rows' \in Copies
    BY <1>10, <1>i, <1>j DEF Apply
  <2>3. leak' \in SUBSET Uid /\ BudgetType'
    BY <1>10, <1>a, <1>b, <1>c DEF Apply, Quiet, Forgotten, WorkerType
  <2> QED BY <1>10, <2>1, <2>2, <2>3, <1>1, <1>f DEF Apply, RowsType
<1>11. CASE Vanish
  <2>1. WorkerType'
    BY <1>11, <1>h DEF Vanish, Pcs, Applied
  <2>2. rows' \in Copies
    BY <1>11, <1>c, <1>i DEF Vanish
  <2>3. leak' \in SUBSET Uid /\ BudgetType'
    BY <1>11, <1>a, <1>b, <1>c DEF Vanish, Quiet, Forgotten, Cached
  <2> QED BY <1>11, <2>1, <2>2, <2>3, <1>1, <1>f DEF Vanish, RowsType
<1>12. CASE Tally
  <2>1. WorkerType'
    BY <1>12 DEF Tally, Goto, WorkerType, Pcs, Applied
  <2> QED BY <1>12, <2>1, <1>1, <1>a, <1>b, <1>c, <1>f, <1>g DEF Tally
<1>13. CASE Sweep
  <2>1. snap' \in Copies /\ BudgetType'
    BY <1>13, <1>a, <1>b, <1>e, <1>j DEF Sweep
  <2>2. WorkerType'
    BY <1>13, <2>1 DEF Sweep, Goto, WorkerType, Pcs, Applied
  <2> QED BY <1>13, <2>1, <2>2, <1>1, <1>c, <1>f, <1>g DEF Sweep
<1>14. CASE SweepDb
  <2>1. WorkerType'
    BY <1>14, <1>h DEF SweepDb, Pcs, Applied
  <2>2. RowsType'
    BY <1>14, <1>c, <1>i, WriteTypes DEF SweepDb
  <2>3. BudgetType'
    BY <1>14, <1>a, <1>b DEF SweepDb
  <2> QED BY <1>14, <2>1, <2>2, <2>3, <1>1, <1>f DEF SweepDb
<1>15. CASE MaxCached
  <2>1. above' \in SUBSET Uid /\ BudgetType'
    BY <1>15, <1>a, <1>b, <1>c DEF MaxCached
  <2>2. WorkerType'
    BY <1>15, <2>1 DEF MaxCached, Goto, WorkerType, Pcs, Applied
  <2> QED BY <1>15, <2>1, <2>2, <1>1, <1>c, <1>f, <1>g DEF MaxCached
<1>16. CASE FetchNew
  <2>1. BudgetType' /\ leak' \in SUBSET Uid
    BY <1>16, <1>a, <1>b, <1>c DEF FetchNew, Quiet, Present
  <2>2. ASSUME Goto(IF pc = "fetch" THEN "store" ELSE "fullstore"), snap' \in Copies,
               UNCHANGED <<wval, since, stat, told, delta, mark, above, old>>
        PROVE  WorkerType'
    BY <2>2 DEF Goto, WorkerType, Pcs, Applied
  <2>3. ASSUME IF pc = "fetch" THEN Onward("mark") ELSE Finish PROVE WorkerType'
    BY <2>3, <1>d, <1>h DEF Pcs, Applied
  <2>4. WorkerType'
    BY <1>16, <2>2, <2>3, <1>e DEF FetchNew
  <2> QED BY <1>16, <2>1, <2>4, <1>1, <1>f, <1>g DEF FetchNew
<1>17. CASE StoreNew
  <2>1. WorkerType'
    BY <1>17, <1>d, <1>h DEF StoreNew, Pcs, Applied
  <2>2. rows' \in Copies
    BY <1>17, <1>c, <1>i, <1>j DEF StoreNew
  <2>3. leak' \in SUBSET Uid /\ BudgetType'
    BY <1>17, <1>a, <1>b, <1>c DEF StoreNew, Quiet
  <2> QED BY <1>17, <2>1, <2>2, <2>3, <1>1, <1>f DEF StoreNew, RowsType
<1>18. CASE MarkSynced
  <2>1. FolderType'
    BY <1>18, <1>f, <1>j DEF MarkSynced, FolderType, StatusSet
  <2>2. leak' \in SUBSET Uid /\ BudgetType'
    BY <1>18, <1>a, <1>b, <1>c DEF MarkSynced, Cached
  <2> QED BY <1>18, <2>1, <2>2, <1>1, <1>d, <1>g DEF MarkSynced
<1>19. CASE FullRead
  <2>1. WorkerType'
    BY <1>19, <1>c DEF FullRead, Goto, WorkerType, Pcs, FullTier
  <2> QED BY <1>19, <2>1, <1>1, <1>a, <1>c, <1>f, <1>g DEF FullRead, Quiet
<1>20. CASE FullEmpty
  <2>1. FolderType'
    BY <1>20, <1>f, <1>j DEF FullEmpty, FolderType, StatusSet
  <2> QED BY <1>20, <2>1, <1>1, <1>a, <1>b, <1>c, <1>d, <1>g DEF FullEmpty
<1>21. CASE FullFetch
  <2>1. BudgetType' /\ leak' \in SUBSET Uid
    BY <1>21, <1>a, <1>b, <1>c DEF FullFetch, Quiet, Present
  <2>2. ASSUME Goto("fullapply"), snap' \in Copies,
               UNCHANGED <<wval, since, stat, told, delta, mark, above, old>>
        PROVE  WorkerType'
    BY <2>2 DEF Goto, WorkerType, Pcs, FullTier
  <2>3. WorkerType'
    BY <1>21, <2>2, <1>d, <1>e DEF FullFetch
  <2> QED BY <1>21, <2>1, <2>3, <1>1, <1>f, <1>g DEF FullFetch
<1>22. CASE FullApply
  <2>1. WorkerType'
    BY <1>22, <1>d, <1>h DEF FullApply, Pcs
  <2>2. rows' \in Copies
    BY <1>22, <1>i, <1>j DEF FullApply
  <2>3. leak' \in SUBSET Uid /\ BudgetType'
    BY <1>22, <1>a, <1>b, <1>c DEF FullApply, Quiet, Forgotten, Cached
  <2>4. FolderType'
    BY <1>22, <1>f, <1>j DEF FullApply, FolderType, StatusSet
  <2> QED BY <2>1, <2>2, <2>3, <2>4, <1>1 DEF RowsType
<1>23. CASE Cut
  <2>1. WorkerType'
    BY <1>23, <1>d DEF Cut, WorkerType
  <2> QED BY <1>23, <2>1, <1>1, <1>b, <1>c, <1>f, <1>g DEF Cut
<1> QED BY <1>2, <1>3, <1>4, <1>5, <1>6, <1>7, <1>8, <1>9, <1>10, <1>11, <1>12, <1>13,
           <1>14, <1>15, <1>16, <1>17, <1>18, <1>19, <1>20, <1>21, <1>22, <1>23
        DEF Cycle, Advance

\* The instance shares the server, the rows and the folder with the first cycle.
LEMMA RivalSame ==
    /\ Rival!Uid = Uid /\ Rival!Absent = Absent /\ Rival!Nothing = Nothing
    /\ Rival!Present = Present /\ Rival!Cached = Cached /\ Rival!folder = folder
BY DEF Rival!Uid, Uid, Rival!Absent, Absent, Rival!Nothing, Nothing, Rival!Present, Present,
   Rival!Cached, Cached, Rival!folder, folder

\* Every step of the second cycle does too: it is the same cycle.
LEMMA RivalTyped == ASSUME Typed, Overlap \/ RivalAdvance PROVE Typed'
<1> USE DEF Typed
<1> USE RivalSame
<1>0. RivalFrame
  BY DEF Overlap, RivalAdvance, RivalFrame
<1>1. ServerType' /\ RequestsType' /\ WorkerType'
  BY <1>0 DEF RivalFrame, server, locals, ServerType, RequestsType, WorkerType
<1>a. ASSUME left' = left PROVE BudgetType'
  BY <1>a DEF BudgetType
<1>b. ASSUME NEW k, Rival!Fault(k) PROVE BudgetType'
  <2>1. Fault(k)
    BY <1>b DEF Rival!Fault, Rival!Spend, Fault, Spend
  <2> QED BY <2>1, SpendTypes DEF Fault
<1>c. Nothing \in Copies /\ Rival!AboveCached \in SUBSET Uid /\ leak \in SUBSET Uid /\ rows \in Copies
  BY NothingType DEF Rival!AboveCached, RowsType
<1>d. ASSUME Rival!Finish PROVE RivalType'
  BY <1>d, NothingType DEF Rival!Finish, Rival!NoStat, StatusSet, RivalType, Pcs
<1>e. \A S : Rival!fetch_headers(S) \in Copies /\ Rival!fetch_uids_and_flags(S) \in Copies
  BY DEF Rival!fetch_headers, Rival!fetch_uids_and_flags, Rival!Absent, Absent, Copies, Flagged, ServerType
<1>f. ASSUME UNCHANGED Rival!folder PROVE FolderType'
  BY <1>f DEF Rival!folder, FolderType
<1>g. ASSUME rows' = rows, leak' \in SUBSET Uid PROVE RowsType'
  BY <1>g DEF RowsType
<1>h. ASSUME NEW l \in Pcs, Rival!Onward(l) PROVE RivalType'
  BY <1>h, <1>d DEF Rival!Onward, Rival!Goto, RivalType
<1>i. \A S, f : f \in Copies => Rival!Written(S, f) \in Copies
  BY WrittenTypes DEF Rival!Written, Written
<1>j. stat2 \in StatusSet /\ mark2 \in Nat /\ snap2 \in Copies
  BY DEF RivalType
<1>k. Rival!StatusAnswer \in StatusSet
  <2>1. Rival!StatusAnswer = StatusAnswer
    BY DEF StatusAnswer, Rival!StatusAnswer, Rival!Cardinality, Cardinality
  <2> QED BY <2>1, StatusAnswerType
<1>l. \A new : rows' = new /\ new \in Copies /\ Rival!WriteRows(new) => RowsType'
  BY DEF Rival!WriteRows, Rival!Leaks, RowsType
<1>2. CASE Overlap
  <2>1. RivalType'
    BY <1>2 DEF Overlap, Rival!Wake, Rival!Goto, RivalType, Pcs, FolderType
  <2>2. BudgetType'
    BY <1>2, SpendTypes DEF Overlap
  <2> QED BY <1>2, <2>1, <2>2, <1>1, <1>f, <1>g DEF Overlap, Rival!Wake
<1>3. CASE Rival!Status
  <2>1. RivalType'
    BY <1>3, <1>d, <1>k DEF Rival!Status, Rival!Goto, Rival!Tier, RivalType, Pcs, FullTier
  <2> QED BY <1>3, <2>1, <1>1, <1>a, <1>b, <1>c, <1>f, <1>g DEF Rival!Status, Rival!Quiet
<1>4. CASE Rival!Invalidate
  BY <1>4, <1>1, <1>a, <1>b, <1>c, <1>d, <1>g DEF Rival!Invalidate, FolderType
<1>5. CASE Rival!SkipUnchanged
  BY <1>5, <1>1, <1>a, <1>b, <1>c, <1>d, <1>f, <1>g DEF Rival!SkipUnchanged
<1>6. CASE Rival!CountDiffers
  <2>1. RivalType'
    BY <1>6 DEF Rival!CountDiffers, Rival!Goto, RivalType, Pcs
  <2> QED BY <1>6, <2>1, <1>1, <1>a, <1>b, <1>c, <1>f, <1>g DEF Rival!CountDiffers
<1>7. CASE Rival!AskQresync
  <2>1. RivalType' /\ leak' \in SUBSET Uid
    BY <1>7, <1>c DEF Rival!AskQresync, Rival!Goto, RivalType, Pcs, StatusSet, ServerType,
           Rival!ChangedSince, Rival!Expanded
  <2> QED BY <1>7, <2>1, <1>1, <1>a, <1>f, <1>g DEF Rival!AskQresync
<1>8. CASE Rival!AskCondstore
  <2>1. Rival!ChangedSince \in SUBSET Uid
    BY DEF Rival!ChangedSince
  <2>2. delta2' \in SUBSET Uid /\ leak' \in SUBSET Uid /\ BudgetType'
    BY <1>8, <2>1, <1>a, <1>b, <1>c DEF Rival!AskCondstore
  <2>3. RivalType'
    BY <1>8, <2>2 DEF Rival!AskCondstore, Rival!Goto, RivalType, Pcs, StatusSet, ServerType
  <2> QED BY <1>8, <2>2, <2>3, <1>1, <1>f, <1>g DEF Rival!AskCondstore
<1>9. CASE Rival!AskFails
  <2>1. RivalType'
    BY <1>9 DEF Rival!AskFails, Rival!Goto, RivalType, Pcs, FullTier
  <2> QED BY <1>9, <2>1, <1>1, <1>b, <1>c, <1>f, <1>g DEF Rival!AskFails
<1>10. CASE Rival!Apply
  <2>1. RivalType'
    BY <1>10, <1>h DEF Rival!Apply, Pcs, Applied
  <2>2. rows' \in Copies
    BY <1>10, <1>i, <1>j DEF Rival!Apply
  <2>3. leak' \in SUBSET Uid /\ BudgetType'
    BY <1>10, <1>a, <1>b, <1>c DEF Rival!Apply, Rival!Quiet, Rival!Forgotten, RivalType
  <2> QED BY <1>10, <2>1, <2>2, <2>3, <1>1, <1>f DEF Rival!Apply, RowsType
<1>11. CASE Rival!Vanish
  <2>1. RivalType'
    BY <1>11, <1>h DEF Rival!Vanish, Pcs, Applied
  <2>2. rows' \in Copies
    BY <1>11, <1>c, <1>i DEF Rival!Vanish
  <2>3. leak' \in SUBSET Uid /\ BudgetType'
    BY <1>11, <1>a, <1>b, <1>c DEF Rival!Vanish, Rival!Quiet, Rival!Forgotten, Cached
  <2> QED BY <1>11, <2>1, <2>2, <2>3, <1>1, <1>f DEF Rival!Vanish, RowsType
<1>12. CASE Rival!Tally
  <2>1. RivalType'
    BY <1>12 DEF Rival!Tally, Rival!Goto, RivalType, Pcs, Applied
  <2> QED BY <1>12, <2>1, <1>1, <1>a, <1>b, <1>c, <1>f, <1>g DEF Rival!Tally
<1>13. CASE Rival!Sweep
  <2>1. snap2' \in Copies /\ BudgetType'
    BY <1>13, <1>a, <1>b, <1>e, <1>j DEF Rival!Sweep
  <2>2. RivalType'
    BY <1>13, <2>1 DEF Rival!Sweep, Rival!Goto, RivalType, Pcs, Applied
  <2> QED BY <1>13, <2>1, <2>2, <1>1, <1>c, <1>f, <1>g DEF Rival!Sweep
<1>14. CASE Rival!SweepDb
  <2>1. RivalType'
    BY <1>14, <1>h DEF Rival!SweepDb, Pcs, Applied
  <2>2. RowsType'
    BY <1>14, <1>c, <1>i, <1>l DEF Rival!SweepDb, Rival!WriteRows
  <2>3. BudgetType'
    BY <1>14, <1>a, <1>b DEF Rival!SweepDb
  <2> QED BY <1>14, <2>1, <2>2, <2>3, <1>1, <1>f DEF Rival!SweepDb
<1>15. CASE Rival!MaxCached
  <2>1. above2' \in SUBSET Uid /\ BudgetType'
    BY <1>15, <1>a, <1>b, <1>c DEF Rival!MaxCached
  <2>2. RivalType'
    BY <1>15, <2>1 DEF Rival!MaxCached, Rival!Goto, RivalType, Pcs, Applied
  <2> QED BY <1>15, <2>1, <2>2, <1>1, <1>c, <1>f, <1>g DEF Rival!MaxCached
<1>16. CASE Rival!FetchNew
  <2>1. BudgetType' /\ leak' \in SUBSET Uid
    BY <1>16, <1>a, <1>b, <1>c DEF Rival!FetchNew, Rival!Quiet, Present
  <2>2. ASSUME Rival!Goto(IF pc2 = "fetch" THEN "store" ELSE "fullstore"), snap2' \in Copies,
               UNCHANGED <<wval2, since2, stat2, told2, delta2, mark2, above2, old2>>
        PROVE  RivalType'
    BY <2>2 DEF Rival!Goto, RivalType, Pcs, Applied
  <2>3. ASSUME IF pc2 = "fetch" THEN Rival!Onward("mark") ELSE Rival!Finish PROVE RivalType'
    BY <2>3, <1>d, <1>h DEF Pcs, Applied
  <2>4. RivalType'
    BY <1>16, <2>2, <2>3, <1>e DEF Rival!FetchNew
  <2> QED BY <1>16, <2>1, <2>4, <1>1, <1>f, <1>g DEF Rival!FetchNew
<1>17. CASE Rival!StoreNew
  <2>1. RivalType'
    BY <1>17, <1>d, <1>h DEF Rival!StoreNew, Pcs, Applied
  <2>2. rows' \in Copies
    BY <1>17, <1>c, <1>i, <1>j DEF Rival!StoreNew
  <2>3. leak' \in SUBSET Uid /\ BudgetType'
    BY <1>17, <1>a, <1>b, <1>c DEF Rival!StoreNew, Rival!Quiet
  <2> QED BY <1>17, <2>1, <2>2, <2>3, <1>1, <1>f DEF Rival!StoreNew, RowsType
<1>18. CASE Rival!MarkSynced
  <2>1. FolderType'
    BY <1>18, <1>f, <1>j DEF Rival!MarkSynced, FolderType, StatusSet
  <2>2. leak' \in SUBSET Uid /\ BudgetType'
    BY <1>18, <1>a, <1>b, <1>c DEF Rival!MarkSynced, Cached
  <2> QED BY <1>18, <2>1, <2>2, <1>1, <1>d, <1>g DEF Rival!MarkSynced
<1>19. CASE Rival!FullRead
  <2>1. RivalType'
    BY <1>19, <1>c DEF Rival!FullRead, Rival!Goto, RivalType, Pcs, FullTier
  <2> QED BY <1>19, <2>1, <1>1, <1>a, <1>c, <1>f, <1>g DEF Rival!FullRead, Rival!Quiet
<1>20. CASE Rival!FullEmpty
  <2>1. FolderType'
    BY <1>20, <1>f, <1>j DEF Rival!FullEmpty, FolderType, StatusSet
  <2> QED BY <1>20, <2>1, <1>1, <1>a, <1>b, <1>c, <1>d, <1>g DEF Rival!FullEmpty
<1>21. CASE Rival!FullFetch
  <2>1. BudgetType' /\ leak' \in SUBSET Uid
    BY <1>21, <1>a, <1>b, <1>c DEF Rival!FullFetch, Rival!Quiet, Present
  <2>2. ASSUME Rival!Goto("fullapply"), snap2' \in Copies,
               UNCHANGED <<wval2, since2, stat2, told2, delta2, mark2, above2, old2>>
        PROVE  RivalType'
    BY <2>2 DEF Rival!Goto, RivalType, Pcs, FullTier
  <2>3. RivalType'
    BY <1>21, <2>2, <1>d, <1>e DEF Rival!FullFetch
  <2> QED BY <1>21, <2>1, <2>3, <1>1, <1>f, <1>g DEF Rival!FullFetch
<1>22. CASE Rival!FullApply
  <2>1. RivalType'
    BY <1>22, <1>d, <1>h DEF Rival!FullApply, Pcs
  <2>2. rows' \in Copies
    BY <1>22, <1>i, <1>j DEF Rival!FullApply
  <2>3. leak' \in SUBSET Uid /\ BudgetType'
    BY <1>22, <1>a, <1>b, <1>c DEF Rival!FullApply, Rival!Quiet, Rival!Forgotten, Cached
  <2>4. FolderType'
    BY <1>22, <1>f, <1>j DEF Rival!FullApply, FolderType, StatusSet
  <2> QED BY <2>1, <2>2, <2>3, <2>4, <1>1 DEF RowsType
<1>23. CASE Rival!Cut
  <2>1. RivalType'
    BY <1>23, <1>d DEF Rival!Cut, RivalType
  <2> QED BY <1>23, <2>1, <1>1, <1>b, <1>c, <1>f, <1>g DEF Rival!Cut
<1> QED BY <1>2, <1>3, <1>4, <1>5, <1>6, <1>7, <1>8, <1>9, <1>10, <1>11, <1>12, <1>13,
           <1>14, <1>15, <1>16, <1>17, <1>18, <1>19, <1>20, <1>21, <1>22, <1>23
        DEF Rival!Cycle, RivalAdvance

\* The fields a request has at each of its points.
LEMMA RequestShapes ==
    ASSUME NEW q \in RequestSet
    PROVE  /\ q.op \in {"flag", "flags"} =>
                 q.uids \in SUBSET Uid /\ q.flag \in Flags /\ q.add \in BOOLEAN
           /\ q.op = "update" => q.uids \in SUBSET Uid /\ q.flags \in FlagSets
           /\ q.op = "remove" => q.uids \in SUBSET Uid
           /\ q.op = "select" => q \in CheckSet
           /\ q.op = "decide" => q.chk \in CheckSet /\ q.st \in SelectSet
           /\ q.op = "headers" => q.val \in Nat /\ q.next \in Nat /\ q.first \in BOOLEAN
           /\ q.op = "paint" => q.val \in Nat /\ q.start \in Nat /\ q.hdrs \in Copies
           /\ q.op = "spawn" => q.val \in Nat /\ q.start \in Nat
BY DEF RequestSet, CheckSet, NoReq

\* The fields of the background fetch at each of its points.
LEMMA BackgroundShapes ==
    ASSUME NEW b \in BgSet
    PROVE  /\ b.pc = "fetch" => b.below \in Nat /\ b.val \in Nat
           /\ b.pc = "store" => b.below \in Nat /\ b.val \in Nat /\ b.hdrs \in Copies
           /\ b # NoBg => b.pc \in {"fetch", "store"} /\ b.below \in Nat
BY DEF BgSet, NoBg

\* A request that goes on is a request.
LEMMA BecomeTypes ==
    ASSUME RequestsType, NEW r \in Requests, NEW q \in RequestSet, Become(r, q)
    PROVE  req' \in [Requests -> RequestSet]
BY DEF RequestsType, Become

\* A request that ends leaves its place empty.
LEMMA DoneTypes ==
    ASSUME RequestsType, NEW r \in Requests, Done(r)
    PROVE  req' \in [Requests -> RequestSet]
BY DEF RequestsType, Done, RequestSet

\* Setting or clearing a flag makes a set of flags.
LEMMA FlagTypes ==
    ASSUME NEW f \in FlagSets, NEW flag \in Flags, NEW add \in BOOLEAN
    PROVE  WithFlag(f, flag, add) \in FlagSets /\ f \cup {Seen} \in FlagSets
BY SyncAssumption, MailboxAssumption DEF WithFlag, FlagSets

\* Every step of a request keeps the types.
LEMMA RequestTyped == ASSUME Typed, NEW r \in Requests, Request(r) PROVE Typed'
<1> USE DEF Typed
<1>a. ASSUME left' = left PROVE BudgetType'
  BY <1>a DEF BudgetType
<1>b. ASSUME NEW k, Fault(k) PROVE BudgetType'
  BY <1>b, SpendTypes DEF Fault
<1>c. ASSUME UNCHANGED worker PROVE WorkerType' /\ RivalType'
  BY <1>c DEF worker, locals, rival, WorkerType, RivalType
<1>d. ASSUME UNCHANGED folder PROVE FolderType'
  BY <1>d DEF folder, FolderType
<1>e. ASSUME UNCHANGED server PROVE ServerType'
  BY <1>e DEF server, ServerType
<1>f. ASSUME UNCHANGED <<rows, leak>> PROVE RowsType'
  BY <1>f DEF RowsType
<1>g. ASSUME NEW q \in RequestSet, Become(r, q), bg' = bg PROVE RequestsType'
  BY <1>g, BecomeTypes DEF RequestsType
<1>h. ASSUME Done(r), bg' = bg PROVE RequestsType'
  BY <1>h, DoneTypes DEF RequestsType
<1>i. req[r] \in RequestSet
  BY DEF RequestsType
<1>j. \A u \in Uid : /\ msgs[u] # Absent => msgs[u] \in FlagSets
                     /\ rows[u] # Absent => rows[u] \in FlagSets
                     /\ rows[u] \in Flagged
  BY DEF ServerType, RowsType, Copies, Flagged
<1>k. Cached \in SUBSET Uid /\ Present \in SUBSET Uid
  BY DEF Cached, Present
<1>l. Absent \in Flagged /\ FlagSets \subseteq Flagged
  BY DEF Flagged
<1>1. ASSUME FlagStore(r) PROVE Typed'
  <2>1. BudgetType'
    BY <1>1, SpendTypes DEF FlagStore
  <2>2. PICK S \in SUBSET Cached, flag \in Flags, add \in BOOLEAN :
          /\ Store(S, [u \in Uid |-> IF msgs[u] = Absent THEN Absent
                                     ELSE WithFlag(msgs[u], flag, add)])
          /\ Become(r, [op |-> IF Cardinality(S) = 1 THEN "flag" ELSE "flags",
                        uids |-> S, flag |-> flag, add |-> add])
    BY <1>1 DEF FlagStore
  <2>3. [u \in Uid |-> IF msgs[u] = Absent THEN Absent
                      ELSE WithFlag(msgs[u], flag, add)] \in Copies
    BY <1>j, <1>l, FlagTypes DEF Copies
  <2>4. ServerType'
    BY <1>1, <2>2, <2>3, StoreTypes DEF FlagStore, ServerType
  <2>5. [op |-> IF Cardinality(S) = 1 THEN "flag" ELSE "flags",
         uids |-> S, flag |-> flag, add |-> add] \in RequestSet
    BY <1>k DEF RequestSet
  <2>6. RequestsType'
    BY <1>1, <2>2, <2>5, <1>g DEF FlagStore
  <2> QED BY <1>1, <2>1, <2>4, <2>6, <1>c, <1>d, <1>f DEF FlagStore
<1>2. ASSUME FlagRows(r) PROVE Typed'
  <2>1. [u \in Uid |-> IF u \in req[r].uids /\ rows[u] # Absent
                      THEN WithFlag(rows[u], req[r].flag, req[r].add)
                      ELSE rows[u]] \in Copies
    BY <1>2, <1>i, <1>j, <1>l, FlagTypes, RequestShapes DEF FlagRows, Copies
  <2>2. RowsType'
    BY <1>2, <2>1, WriteTypes DEF FlagRows
  <2> QED BY <1>2, <2>2, <1>a, <1>c, <1>d, <1>e, <1>h DEF FlagRows
<1>14. ASSUME FlagRead(r) PROVE Typed'
  <2>1. req[r].uids \in SUBSET Uid /\ req[r].flag \in Flags /\ req[r].add \in BOOLEAN
    BY <1>14, <1>i, RequestShapes DEF FlagRead
  <2>2. PICK f \in FlagSets :
          /\ left' = left \/ Fault("row")
          /\ Become(r, [op |-> "update", uids |-> req[r].uids,
                        flags |-> WithFlag(f, req[r].flag, req[r].add)])
    BY <1>14 DEF FlagRead
  <2>3. WithFlag(f, req[r].flag, req[r].add) \in FlagSets
    BY <2>1, FlagTypes
  <2>4. [op |-> "update", uids |-> req[r].uids,
         flags |-> WithFlag(f, req[r].flag, req[r].add)] \in RequestSet
    BY <2>1, <2>3 DEF RequestSet
  <2>5. BudgetType' /\ RequestsType'
    BY <1>14, <2>2, <2>4, <1>a, <1>b, <1>g DEF FlagRead
  <2> QED BY <1>14, <2>5, <1>c, <1>d, <1>e, <1>f DEF FlagRead
<1>15. ASSUME FlagUpdate(r) PROVE Typed'
  <2>1. [u \in Uid |-> IF u \in req[r].uids /\ rows[u] # Absent
                      THEN req[r].flags ELSE rows[u]] \in Copies
    BY <1>15, <1>i, <1>j, <1>l, RequestShapes DEF FlagUpdate, Copies
  <2>2. RowsType'
    BY <1>15, <2>1, WriteTypes DEF FlagUpdate
  <2> QED BY <1>15, <2>2, <1>a, <1>c, <1>d, <1>e, <1>h DEF FlagUpdate
<1>3. ASSUME AllStore(r) PROVE Typed'
  <2>1. BudgetType'
    BY <1>3, SpendTypes DEF AllStore
  <2>2. [u \in Uid |-> IF msgs[u] = Absent THEN Absent
                      ELSE msgs[u] \cup {Seen}] \in Copies
    BY <1>j, <1>l, FlagTypes, MailboxAssumption DEF Copies
  <2>3. ServerType'
    BY <1>3, <2>2, StoreTypes DEF AllStore, ServerType
  <2>4. [op |-> "all"] \in RequestSet
    BY DEF RequestSet
  <2>5. RequestsType'
    BY <1>3, <2>4, <1>g DEF AllStore
  <2> QED BY <1>3, <2>1, <2>3, <2>5, <1>c, <1>d, <1>f DEF AllStore
<1>4. ASSUME AllRows(r) PROVE Typed'
  <2>1. [u \in Uid |-> IF rows[u] = Absent THEN Absent
                      ELSE rows[u] \cup {Seen}] \in Copies
    BY <1>j, <1>l, FlagTypes, MailboxAssumption DEF Copies
  <2>2. RowsType'
    BY <1>4, <2>1, WriteTypes DEF AllRows
  <2> QED BY <1>4, <2>2, <1>a, <1>c, <1>d, <1>e, <1>h DEF AllRows
<1>5. ASSUME RemoveMail(r) PROVE Typed'
  <2>1. BudgetType'
    BY <1>5, SpendTypes DEF RemoveMail
  <2>2. PICK S \in SUBSET Cached :
          Remove(S) /\ Become(r, [op |-> "remove", uids |-> S])
    BY <1>5 DEF RemoveMail
  <2>3. ServerType' /\ RowsType'
    BY <1>5, <2>2, RemoveTypes DEF RemoveMail, ServerType, RowsType
  <2>4. [op |-> "remove", uids |-> S] \in RequestSet
    BY <1>k DEF RequestSet
  <2>5. RequestsType'
    BY <1>5, <2>2, <2>4, <1>g DEF RemoveMail
  <2> QED BY <1>5, <2>1, <2>3, <2>5, <1>c, <1>d DEF RemoveMail
<1>6. ASSUME RemoveRows(r) PROVE Typed'
  <2>1. [u \in Uid |-> IF u \in req[r].uids THEN Absent ELSE rows[u]] \in Copies
    BY <1>j, <1>l DEF Copies
  <2>2. RowsType'
    BY <1>6, <2>1, WriteTypes DEF RemoveRows
  <2> QED BY <1>6, <2>2, <1>a, <1>c, <1>d, <1>e, <1>h DEF RemoveRows
<1>7. ASSUME NEW u \in Uid, OpenFails(r, u) PROVE Typed'
  <2>1. [rows EXCEPT ![u] = Absent] \in Copies
    BY <1>l DEF RowsType, Copies
  <2>2. RowsType'
    BY <1>7, <2>1, WriteTypes DEF OpenFails
  <2>3. BudgetType'
    BY <1>7, SpendTypes DEF OpenFails
  <2> QED BY <1>7, <2>2, <2>3, <1>c, <1>e DEF OpenFails, FolderType, RequestsType
<1>8. ASSUME ListCheck(r) PROVE Typed'
  <2>1. [op |-> "select", val |-> cval, count |-> Cardinality(Cached), null |-> null]
            \in RequestSet
    BY <1>k, UidFinite DEF RequestSet, CheckSet, FolderType
  <2> QED BY <1>8, <2>1, <1>a, <1>c, <1>d, <1>e, <1>f, <1>g DEF ListCheck
<1>9. ASSUME ListSelect(r) PROVE Typed'
  <2>1. ASSUME req[r].op = "select"
        PROVE [op |-> "decide", chk |-> req[r], st |-> folder_status] \in RequestSet
    <3>1. req[r] \in CheckSet
      BY <1>i, <2>1, RequestShapes
    <3>2. folder_status \in SelectSet
      BY <1>k, UidFinite DEF folder_status, SelectSet, ServerType
    <3> QED BY <3>1, <3>2 DEF RequestSet
  <2>2. BudgetType' /\ RequestsType'
    BY <1>9, <2>1, <1>a, <1>b, <1>g, <1>h DEF ListSelect
  <2> QED BY <1>9, <2>2, <1>c, <1>d, <1>e, <1>f DEF ListSelect
<1>10. ASSUME ListDecide(r) PROVE Typed'
  <2>1. req[r].chk \in CheckSet /\ req[r].st \in SelectSet
    BY <1>10, <1>i, RequestShapes DEF ListDecide
  <2>2. RowsType'
    BY <1>10, <1>f, WriteTypes, NothingType DEF ListDecide
  <2>3. [op |-> "headers", val |-> req[r].st.val, next |-> req[r].st.next,
         first |-> req[r].chk.val = 0] \in RequestSet
    BY <2>1 DEF RequestSet, SelectSet
  <2>4. FolderType' /\ RequestsType'
    BY <1>10, <2>1, <2>3, <1>d, <1>g, <1>h DEF ListDecide, FolderType, SelectSet
  <2> QED BY <1>10, <2>2, <2>4, <1>a, <1>c, <1>e DEF ListDecide
<1>11. ASSUME ListHeaders(r) PROVE Typed'
  <2>1. ASSUME req[r].op = "headers"
        PROVE  \A S : [op |-> "paint", val |-> req[r].val, start |-> RecentStart(req[r].next),
                      first |-> req[r].first, hdrs |-> fetch_headers(S)] \in RequestSet
    <3>1. req[r].val \in Nat /\ req[r].next \in Nat /\ req[r].first \in BOOLEAN
      BY <1>i, <2>1, RequestShapes
    <3>2. RecentStart(req[r].next) \in Nat
      BY <3>1, MailboxAssumption DEF RecentStart
    <3>3. \A S : fetch_headers(S) \in Copies
      BY <1>l DEF fetch_headers, ServerType, Copies
    <3> QED BY <3>1, <3>2, <3>3 DEF RequestSet
  <2>2. BudgetType' /\ RequestsType'
    BY <1>11, <2>1, <1>a, <1>b, <1>g, <1>h DEF ListHeaders
  <2>3. RowsType'
    BY <1>11 DEF ListHeaders, RowsType, Skipped, Present
  <2> QED BY <1>11, <2>2, <2>3, <1>c, <1>d, <1>e DEF ListHeaders
<1>12. ASSUME ListPaint(r) PROVE Typed'
  <2>1. req[r].val \in Nat /\ req[r].start \in Nat /\ req[r].hdrs \in Copies
    BY <1>12, <1>i, RequestShapes DEF ListPaint
  <2>2. \A S : Written(S, req[r].hdrs) \in Copies
    BY <2>1, WrittenTypes
  <2>3. RowsType'
    BY <1>12, <2>2 DEF ListPaint, RowsType, WriteRows, Leaks, Skipped, Present
  <2>4. FolderType'
    BY <1>12, <2>1, <1>d DEF ListPaint, FolderType
  <2>5. [op |-> "spawn", val |-> req[r].val, start |-> req[r].start] \in RequestSet
    BY <2>1 DEF RequestSet
  <2>6. RequestsType' /\ BudgetType'
    BY <1>12, <2>5, <1>a, <1>b, <1>g, <1>h DEF ListPaint
  <2> QED BY <1>12, <2>3, <2>4, <2>6, <1>c, <1>e DEF ListPaint
<1>16. ASSUME ListSpawn(r) PROVE Typed'
  <2>1. req[r].val \in Nat /\ req[r].start \in Nat
    BY <1>16, <1>i, RequestShapes DEF ListSpawn
  <2>2. bg' \in BgSet
    BY <1>16, <2>1 DEF ListSpawn, BgSet
  <2>3. RequestsType'
    BY <1>16, <2>2, DoneTypes DEF ListSpawn, RequestsType
  <2> QED BY <1>16, <2>3, <1>a, <1>c, <1>d, <1>e, <1>f DEF ListSpawn
<1>13. ASSUME Lost(r) PROVE Typed'
  <2>1. RowsType'
    BY <1>13 DEF Lost, RowsType, Present
  <2> QED BY <1>13, <2>1, <1>b, <1>c, <1>d, <1>e, <1>h DEF Lost
<1> QED BY <1>1, <1>2, <1>3, <1>4, <1>5, <1>6, <1>7, <1>8, <1>9, <1>10, <1>11, <1>12,
           <1>13, <1>14, <1>15, <1>16 DEF Request, Proceed

\* So does the fetch of the older headers.
LEMMA BackgroundTyped == ASSUME Typed, OlderFetch \/ OlderStore PROVE Typed'
<1> USE DEF Typed
<1>1. bg \in BgSet
  BY DEF RequestsType
<1>a. ASSUME left' = left PROVE BudgetType'
  BY <1>a DEF BudgetType
<1>b. ASSUME NEW k, Fault(k) PROVE BudgetType'
  BY <1>b, SpendTypes DEF Fault
<1>c. ASSUME UNCHANGED <<server, worker>> PROVE ServerType' /\ WorkerType' /\ RivalType'
  BY <1>c DEF server, worker, locals, rival, ServerType, WorkerType, RivalType
<1>2. ASSUME OlderFetch PROVE Typed'
  <2>1. bg.below \in Nat /\ bg.val \in Nat
    BY <1>1, <1>2, BackgroundShapes DEF OlderFetch
  <2>2. \A S : fetch_headers(S) \in Copies
    BY DEF fetch_headers, ServerType, Copies, Flagged
  <2>3. bg' \in BgSet
    BY <1>2, <2>1, <2>2 DEF OlderFetch, BgSet
  <2>4. RowsType'
    BY <1>2 DEF OlderFetch, RowsType, Older
  <2>5. BudgetType'
    BY <1>2, <1>a, <1>b DEF OlderFetch
  <2> QED BY <1>2, <2>3, <2>4, <2>5, <1>c DEF OlderFetch, folder, FolderType, RequestsType
<1>3. ASSUME OlderStore PROVE Typed'
  <2>1. bg.val \in Nat /\ bg.hdrs \in Copies
    BY <1>1, <1>3, BackgroundShapes DEF OlderStore
  <2>2. \A S : Written(S, bg.hdrs) \in Copies
    BY <2>1, WrittenTypes
  <2>3. RowsType'
    BY <1>3, <2>2 DEF OlderStore, RowsType, WriteRows, Leaks, Older
  <2>4. FolderType'
    BY <1>3, <2>1 DEF OlderStore, folder, FolderType
  <2>5. RequestsType' /\ BudgetType'
    BY <1>3, <1>a, <1>b DEF OlderStore, RequestsType, BgSet
  <2> QED BY <1>3, <2>3, <2>4, <2>5, <1>c DEF OlderStore
<1> QED BY <1>2, <1>3

\* Types are inductive.
LEMMA NextTyped == Typed /\ [Next]_vars => Typed'
<1> SUFFICES ASSUME Typed, [Next]_vars PROVE Typed'
  OBVIOUS
<1>1. ASSUME UNCHANGED vars PROVE Typed'
  BY <1>1 DEF vars, server, folder, worker, locals, rival, Typed, ServerType, RowsType, FolderType,
     WorkerType, RivalType, RequestsType, BudgetType
<1> QED BY <1>1, ServerTyped, CycleTyped, RivalTyped, RequestTyped, BackgroundTyped DEF Next

\* Rows of the old mailbox are rows, and stay so.
LEMMA NextForeign == ForeignType /\ [Next]_vars => ForeignType'
<1> SUFFICES ASSUME ForeignType, [Next]_vars PROVE ForeignType'
  OBVIOUS
<1>1. CASE UNCHANGED vars
  BY <1>1 DEF vars, ForeignType, Cached
<1>2. CASE Remains
  BY <1>2 DEF Remains, ForeignType
<1> QED BY <1>1, <1>2 DEF Next

\* They are at least those of TypeOK.
LEMMA TypedTypeOK == Typed /\ ForeignType => TypeOK
<1> SUFFICES ASSUME Typed, ForeignType PROVE TypeOK
  OBVIOUS
<1>1. \A q \in RequestSet : q.op \in {"none", "flag", "flags", "update", "all", "remove",
                       "select", "decide", "headers", "paint", "spawn"}
  BY DEF RequestSet, CheckSet, NoReq
<1>2. RequestType
  BY <1>1 DEF Typed, RequestsType, RequestType
<1>3. CycleType
  BY DEF Typed, WorkerType, CycleType, Copies, Flagged, StatusSet, Pcs
<1>4. Rival!CycleType
  <2>1. /\ Rival!Uid = Uid /\ Rival!FlagSets = FlagSets /\ Rival!Absent = Absent
        /\ Rival!Applied = Applied /\ Rival!FullTier = FullTier
    BY DEF Rival!Uid, Uid, Rival!FlagSets, FlagSets, Rival!Absent, Absent, Rival!Applied, Applied,
       Rival!FullTier, FullTier
  <2> QED BY <2>1 DEF Typed, RivalType, Rival!CycleType, Copies, Flagged, StatusSet, Pcs
<1> QED BY <1>2, <1>3, <1>4 DEF Typed, TypeOK, ServerType, RowsType, FolderType, BudgetType,
           ForeignType, Copies, Flagged

\* The folder, its cache, the locals of both cycles and the requests keep their types,
\* for any number of messages, flags and requests (realtime/sync.rs, routes/messages/mod.rs).
THEOREM MailboxTypeCorrect == Spec => []TypeOK
<1>1. Init => Typed /\ ForeignType
  BY InitTyped DEF Init, ForeignType
<1>2. Typed /\ ForeignType /\ [Next]_vars => (Typed /\ ForeignType)'
  BY NextTyped, NextForeign
<1>3. Typed /\ ForeignType => TypeOK
  BY TypedTypeOK
<1> QED BY <1>1, <1>2, <1>3, PTL DEF Spec

-----------------------------------------------------------------------------
(* The inductive invariant                                                 *)

\* The folder has the UIDVALIDITY it began with.
First == sval = 1
\* The cycle has had its STATUS answer.
Known == pc \notin {"idle", "status"}

\* The message changed after the number n, or is known to be lost.
Fresh(u, n) == u \in leak \/ smod[u] > n

\* The points at which the worker is about to fetch, or store, what is above.
Reaching == {"fetch", "store", "fullfetch", "fullapply", "fullnew", "fullstore"}

\* Modification numbers and UIDs lie below the server's, and so do the numbers
\* that are stored or will be; a cycle stores none below the one it began with.
Numbers ==
    /\ \A u \in Uid : smod[u] <= top /\ (msgs[u] # Absent => u < next)
    /\ \A u \in Uid : rows[u] # Absent => u < next
    /\ cmod <= top /\ mark <= top
    /\ cap = "plain" => cmod = 0
    /\ Known => /\ stat.val = 1 /\ stat.next <= next
                /\ cmod <= stat.mod /\ stat.mod <= top
                /\ cap = "plain" => stat.mod = 0
    /\ pc \notin {"idle", "fullnew", "fullstore"} => since = cmod
    /\ pc = "count" => stat.mod = since
    /\ pc \in {"count", "delta", "apply"} \cup Applied => cap # "plain"
    /\ pc \in Applied \cup {"apply"} => since <= mark
    /\ pc \in Reaching => \A u \in Uid : u \notin above => u < next

\* What the server reported of the changes is still so, or has changed after the
\* number that will be stored; what it did not report has not changed since.
ReportedDelta ==
    pc \in {"apply", "vanish"} => \A u \in Uid :
        /\ snap[u] # msgs[u] => Fresh(u, mark)
        /\ u \notin delta /\ u < next => smod[u] <= since \/ Fresh(u, mark)
        /\ u \in delta => u < next
        /\ u \in delta /\ snap[u] = Absent => msgs[u] = Absent

\* The same of the headers of new messages that were fetched.
ReportedNew ==
    pc \in {"store", "fullstore"} => \A u \in Uid :
        /\ snap[u] # Absent => u < next
        /\ snap[u] # Absent /\ snap[u] # msgs[u] =>
              Fresh(u, IF pc = "store" THEN mark ELSE cmod)
        /\ u \in above /\ msgs[u] # Absent =>
              \/ snap[u] # Absent \/ u \in leak
              \/ \A v \in Uid : snap[v] # Absent => v < u

\* The same of the whole folder, as sync_full fetches it.
ReportedAll ==
    /\ pc \in {"fullfetch", "fullapply"} => \A u \in Uid : old[u] # Absent => u < next
    /\ pc = "fullapply" => \A u \in Uid :
          /\ old[u] # Absent /\ snap[u] # msgs[u] => Fresh(u, stat.mod)
          /\ old[u] # Absent /\ snap[u] = Absent => msgs[u] = Absent \/ u \in leak

Reported == ReportedDelta /\ ReportedNew /\ ReportedAll

\* A row that is there and not what the server has.
Wrong(u) == rows[u] # Absent /\ Differs(u) /\ u \notin leak

\* A wrong row lies above every number that is stored, or will be.
CoveredAt(u) ==
    /\ smod[u] > cmod
    /\ pc \in Applied => smod[u] > mark \/ Dropped(u)
    /\ pc = "emptymark" => smod[u] > stat.mod
    /\ pc \in {"fullfetch", "fullapply"} => rows[u] = old[u] \/ smod[u] > stat.mod
Covered == \A u \in Uid : Wrong(u) => CoveredAt(u)

\* What a request on the folder's list has read, and is about to paint: of the
\* messages from its start on, all but those that are newer than what it read.
RequestHolds(q) ==
    /\ q.op = "decide" => q.st.next <= next
    /\ q.op = "headers" => q.next <= next
    /\ q.op = "paint" =>
          /\ q.start <= next
          /\ \A u \in Uid :
                /\ q.hdrs[u] # Absent => u < next
                /\ u >= q.start /\ msgs[u] # Absent =>
                      \/ q.hdrs[u] # Absent \/ u \in leak
                      \/ \A v \in Uid : q.hdrs[v] # Absent => v < u
    /\ q.op = "spawn" => q.start <= next

\* The background fetch lies below UIDNEXT and misses none of what is below it.
BackgroundHolds ==
    /\ bg # NoBg => bg.below <= next
    /\ bg.pc = "store" => \A u \in Uid :
          /\ bg.hdrs[u] # Absent => u < bg.below
          /\ u < bg.below /\ msgs[u] # Absent => bg.hdrs[u] # Absent \/ u \in leak
Painting == (\A r \in Requests : RequestHolds(req[r])) /\ BackgroundHolds

\* A message that has no row, and should.
Missing(u) == rows[u] = Absent /\ msgs[u] # Absent /\ u \notin leak

\* It is, or will be, among what the background fetches.
Behind(u) ==
    \/ bg # NoBg /\ u < bg.below
    \/ \E r \in Requests : req[r].op = "spawn" /\ u < req[r].start

\* It lies above all rows, or is left to the background; and a cycle that is
\* past looking at what is above has it among them.
Fetching ==
    \A u \in Uid : Missing(u) =>
       /\ (\A v \in Cached : v < u) \/ Behind(u)
       /\ pc \in Reaching /\ u \notin above => Behind(u)

\* What is still missing after a step is left to the background as before it.
Entrusted == \A u \in Uid : Missing(u)' /\ Behind(u) => Behind(u)'

\* The strengthening of Accounted while the UIDVALIDITY lasts and one cycle runs.
Holds == Numbers /\ Reported /\ Covered /\ Painting /\ Fetching

\* The inductive invariant.
MailboxInv == Typed /\ (leak # Uid => First /\ pc2 = "idle" /\ Holds)

-----------------------------------------------------------------------------
(* The server                                                              *)

\* What the server may do: numbers grow, and whatever changes gets a new one or leaks.
Drift ==
    /\ top <= top' /\ next <= next' /\ leak \subseteq leak' /\ cap' = cap
    /\ \A u \in Uid :
        /\ \/ /\ smod'[u] = smod[u]
              /\ msgs'[u] = msgs[u] \/ u \in leak'
           \/ top < smod'[u] /\ smod'[u] <= top'
        /\ msgs'[u] # Absent => u < next' /\ (msgs[u] # Absent \/ next <= u)
        /\ next <= u /\ u < next' => top < smod'[u]
        /\ msgs[u] # Absent \/ next <= u \/ smod'[u] = smod[u]

\* A drift of the server leaves everything that was read either true or out of
\* date by a number that a later cycle asks for.
LEMMA DriftKeeps ==
    ASSUME Typed, Typed', First, First', Holds, Drift, Entrusted,
           UNCHANGED <<rows, folder, worker, bg>>
    PROVE  /\ Numbers' /\ Reported' /\ Covered' /\ BackgroundHolds' /\ Fetching'
           /\ \A q \in RequestSet : RequestHolds(q) => RequestHolds(q)'
<1> USE DEF Typed, ServerType, Uid
<1>0. worker' = worker /\ cmod' = cmod /\ rows' = rows /\ bg' = bg
  BY DEF folder
<1>1. /\ pc' = pc /\ since' = since /\ stat' = stat /\ told' = told /\ delta' = delta
      /\ snap' = snap /\ mark' = mark /\ above' = above /\ old' = old
  BY <1>0 DEF worker, locals
<1>2. \A u \in Uid, n \in Nat : n <= top /\ Fresh(u, n) => Fresh(u, n)'
  BY DEF Fresh, Drift
<1>3. \A u \in Uid, n \in Nat : n <= top =>
         Fresh(u, n)' \/ (smod'[u] = smod[u] /\ msgs'[u] = msgs[u])
  BY DEF Fresh, Drift
<1>4. mark \in Nat /\ stat.mod \in Nat /\ cmod \in Nat /\ since \in Nat /\ stat.next \in Nat
  BY DEF WorkerType, FolderType, StatusSet
<1>5. Numbers'
  BY <1>0, <1>1, <1>4 DEF Holds, Numbers, Drift, Known
<1>6. ReportedDelta'
  <2> SUFFICES ASSUME pc \in {"apply", "vanish"}, NEW u \in Uid
               PROVE  /\ snap[u] # msgs'[u] => Fresh(u, mark)'
                      /\ u \notin delta /\ u < next' => smod'[u] <= since \/ Fresh(u, mark)'
                      /\ u \in delta => u < next'
                      /\ u \in delta /\ snap[u] = Absent => msgs'[u] = Absent
    BY <1>1 DEF ReportedDelta
  <2>1. /\ snap[u] # msgs[u] => Fresh(u, mark)
        /\ u \notin delta /\ u < next => smod[u] <= since \/ Fresh(u, mark)
        /\ u \in delta => u < next
        /\ u \in delta /\ snap[u] = Absent => msgs[u] = Absent
    BY DEF Holds, Reported, ReportedDelta
  <2>2. mark <= top /\ (Fresh(u, mark) => Fresh(u, mark)')
    BY <1>1, <1>2, <1>4 DEF Holds, Numbers
  <2>3. Fresh(u, mark)' \/ (smod'[u] = smod[u] /\ msgs'[u] = msgs[u])
    BY <1>1, <1>3, <1>4, <2>2
  <2>4. next <= u /\ u < next' => Fresh(u, mark)'
    BY <1>1, <1>4, <2>2 DEF Fresh, Drift
  <2> QED BY <2>1, <2>2, <2>3, <2>4 DEF Drift
<1>7. ReportedNew'
  BY <1>0, <1>1, <1>2, <1>3, <1>4 DEF Holds, Reported, ReportedNew, Numbers, Drift
<1>8. ReportedAll'
  <2>1. pc \in {"fullfetch", "fullapply"} => \A u \in Uid : old[u] # Absent => u < next'
    BY DEF Holds, Reported, ReportedAll, Drift
  <2>2. ASSUME pc = "fullapply", NEW u \in Uid
        PROVE  /\ old[u] # Absent /\ snap[u] # msgs'[u] => Fresh(u, stat.mod)'
               /\ old[u] # Absent /\ snap[u] = Absent => msgs'[u] = Absent \/ u \in leak'
    <3>1. /\ old[u] # Absent /\ snap[u] # msgs[u] => Fresh(u, stat.mod)
          /\ old[u] # Absent /\ snap[u] = Absent =>
                (msgs[u] = Absent \/ u \in leak) /\ u < next
      BY <2>2 DEF Holds, Reported, ReportedAll
    <3>2. stat.mod <= top
      BY <2>2 DEF Holds, Numbers, Known
    <3>3. Fresh(u, stat.mod) => Fresh(u, stat.mod)'
      BY <1>1, <1>2, <1>4, <3>2
    <3>4. Fresh(u, stat.mod)' \/ (smod'[u] = smod[u] /\ msgs'[u] = msgs[u])
      BY <1>1, <1>3, <1>4, <3>2
    <3> QED BY <3>1, <3>3, <3>4 DEF Drift
  <2> QED BY <1>1, <2>1, <2>2 DEF ReportedAll
<1>9. Covered'
  <2> SUFFICES ASSUME NEW u \in Uid, Wrong(u)' PROVE CoveredAt(u)'
    BY DEF Covered
  <2>1. CASE smod'[u] = smod[u] /\ msgs'[u] = msgs[u]
    <3>1. Wrong(u)
      BY <1>0, <2>1 DEF Wrong, Differs, Drift
    <3>2. CoveredAt(u)
      BY <3>1 DEF Holds, Covered
    <3> QED BY <1>0, <1>1, <2>1, <3>2 DEF CoveredAt, Dropped
  <2>2. CASE smod'[u] > top
    BY <1>0, <1>1, <1>4, <2>2 DEF CoveredAt, Holds, Numbers, Known, Applied
  <2> QED BY <2>1, <2>2 DEF Wrong, Drift
<1>10. BackgroundHolds'
  <2>1. bg # NoBg => bg.below \in Nat
    BY BackgroundShapes DEF RequestsType
  <2>2. bg.pc = "store" => bg # NoBg
    BY DEF NoBg
  <2> QED BY <1>0, <2>1, <2>2 DEF Holds, Painting, BackgroundHolds, Drift
<1>11. Fetching'
  <2> SUFFICES ASSUME NEW u \in Uid, Missing(u)'
               PROVE  /\ (\A v \in Cached' : v < u) \/ Behind(u)'
                      /\ pc \in Reaching /\ u \notin above => Behind(u)'
    BY <1>0, <1>1 DEF Fetching
  <2>1. CASE msgs[u] # Absent
    <3>1. Missing(u)
      BY <1>0, <2>1 DEF Missing, Drift
    <3> QED BY <1>0, <3>1 DEF Holds, Fetching, Entrusted, Cached
  <2>2. CASE next <= u
    BY <1>0, <2>2 DEF Holds, Numbers, Cached
  <2> QED BY <2>1, <2>2 DEF Missing, Drift
<1>12. ASSUME NEW q \in RequestSet, RequestHolds(q) PROVE RequestHolds(q)'
  <2>1. /\ q.op = "decide" => q.st \in SelectSet
        /\ q.op = "headers" => q.next \in Nat
        /\ q.op \in {"paint", "spawn"} => q.start \in Nat
    BY RequestShapes
  <2> QED BY <1>12, <2>1 DEF RequestHolds, SelectSet, Drift
<1> QED BY <1>5, <1>6, <1>7, <1>8, <1>9, <1>10, <1>11, <1>12 DEF Reported

\* STORE is a drift.
LEMMA StoreDrifts ==
    ASSUME Typed, First, Holds, NEW S, NEW f, Store(S, f), UNCHANGED <<cap, next, leak>>,
           \A u \in Uid : msgs[u] # Absent => f[u] # Absent
    PROVE  Drift
BY DEF Typed, ServerType, Holds, Numbers, Store, Drift, Present, Uid

\* So is EXPUNGE, without a number for it too.
LEMMA RemoveDrifts ==
    ASSUME Typed, First, Holds, NEW S, Remove(S), UNCHANGED <<cap, next>>
    PROVE  Drift
<1> USE DEF Typed, ServerType
<1> DEFINE hit == S \cap Present
<1>1. msgs' = [u \in Uid |-> IF u \in hit THEN Absent ELSE msgs[u]]
  BY DEF Remove
<1>2. \/ /\ smod' = [u \in Uid |-> IF u \in hit THEN top + 1 ELSE smod[u]]
         /\ top' = IF hit = {} THEN top ELSE top + 1
         /\ leak' = leak
      \/ smod' = smod /\ top' = top /\ leak' = leak \cup hit
  BY DEF Remove
<1>3. \A u \in Uid : msgs[u] # Absent => u < next
  BY DEF Holds, Numbers
<1>4. hit # {} <=> \E u \in Uid : u \in hit
  BY DEF Present
<1> HIDE DEF hit
<1>5. top <= top' /\ leak \subseteq leak'
  BY <1>2
<1>6. ASSUME NEW u \in Uid
      PROVE  \/ smod'[u] = smod[u] /\ (msgs'[u] = msgs[u] \/ u \in leak')
             \/ top < smod'[u] /\ smod'[u] <= top'
  BY <1>1, <1>2, <1>4
<1>7. \A u \in Uid : msgs'[u] # Absent => msgs[u] # Absent
  BY <1>1
<1>8. \A u \in Uid : msgs[u] # Absent \/ smod'[u] = smod[u]
  BY <1>1, <1>2 DEF hit, Present
<1> QED BY <1>3, <1>5, <1>6, <1>7, <1>8 DEF Drift, Uid

\* So is the arrival of a message.
LEMMA DeliverDrifts ==
    ASSUME Typed, First, Holds, Deliver
    PROVE  Drift
BY DEF Typed, ServerType, Holds, Numbers, Deliver, Drift, Uid, Copies

\* So is all the server does, but a new UIDVALIDITY.
LEMMA ServerDrifts ==
    ASSUME Typed, First, First', Holds, Server
    PROVE  Drift
<1>1. ~Rebuild
  BY DEF Rebuild, First
<1>2. ASSUME NEW u \in Uid, NEW f \in FlagSets, Reflag(u, f) PROVE Drift
  BY <1>2, StoreDrifts, AbsentFact DEF Reflag
<1>3. ASSUME NEW u \in Uid, Expunge(u) PROVE Drift
  BY <1>3, RemoveDrifts DEF Expunge
<1> QED BY <1>1, <1>2, <1>3, DeliverDrifts DEF Server

\* The server's own steps keep the invariant.
LEMMA ServerHolds ==
    ASSUME Typed, Typed', First, First', Holds, Server
    PROVE  Holds'
<1>2. ASSUME Drift, UNCHANGED <<rows, folder, worker, req, bg>> PROVE Holds'
  <2>0. Entrusted
    BY <1>2 DEF Entrusted, Behind
  <2>1. \A r \in Requests : req[r] \in RequestSet
    BY DEF Typed, RequestsType
  <2>2. /\ Numbers' /\ Reported' /\ Covered' /\ BackgroundHolds' /\ Fetching'
        /\ \A q \in RequestSet : RequestHolds(q) => RequestHolds(q)'
    BY <1>2, <2>0, DriftKeeps
  <2>3. Painting'
    BY <1>2, <2>1, <2>2 DEF Painting, Holds, RequestHolds
  <2> QED BY <2>2, <2>3 DEF Holds
<1>3. UNCHANGED <<rows, folder, worker, req, bg>>
  BY DEF Server, Deliver, Reflag, Expunge, Rebuild
<1> QED BY <1>2, <1>3, ServerDrifts

-----------------------------------------------------------------------------
(* The requests                                                            *)

\* The horizon is the largest of the numbers that are stored or will be.
LEMMA HorizonBounds ==
    ASSUME Typed, Holds
    PROVE  /\ Horizon \in Nat /\ cmod <= Horizon
           /\ pc \in Applied => mark <= Horizon
           /\ pc \in {"emptymark", "fullfetch", "fullapply"} => stat.mod <= Horizon
BY DEF Typed, FolderType, WorkerType, StatusSet, Horizon, Max2, Applied, FullTier

\* Rows that are written behind the cycle's back are right, above the horizon, or leaked.
LEMMA RewriteKeeps ==
    ASSUME Typed, Typed', Holds, NEW new \in Copies, rows' = new,
           leak \cup Leaks(new) \subseteq leak',
           \A u \in Uid : new[u] # Absent => rows[u] # Absent \/ u < next,
           UNCHANGED <<server, worker>>, cmod' = cmod
    PROVE  /\ Numbers' /\ Reported' /\ Covered'
           /\ \A q : RequestHolds(q) => RequestHolds(q)'
           /\ \A u \in Uid : Missing(u)' => Missing(u)
<1>1. /\ pc' = pc /\ since' = since /\ stat' = stat /\ told' = told /\ delta' = delta
      /\ snap' = snap /\ mark' = mark /\ above' = above /\ old' = old
  BY DEF worker, locals
<1>2. /\ cap' = cap /\ msgs' = msgs /\ smod' = smod /\ top' = top /\ next' = next
      /\ leak \subseteq leak' /\ rows' = new
  BY DEF server
<1>3. Numbers'
  BY <1>1, <1>2 DEF Holds, Numbers, Known
<1>4. Reported'
  BY <1>1, <1>2 DEF Holds, Reported, ReportedDelta, ReportedNew, ReportedAll, Fresh
<1>5. Covered'
  <2> SUFFICES ASSUME NEW u \in Uid, Wrong(u)' PROVE CoveredAt(u)'
    BY DEF Covered
  <2>1. CASE new[u] = rows[u]
    <3>1. Wrong(u)
      BY <1>2, <2>1 DEF Wrong, Differs
    <3>2. CoveredAt(u)
      BY <3>1 DEF Holds, Covered
    <3> QED BY <1>1, <1>2, <2>1, <3>2 DEF CoveredAt, Dropped
  <2>2. CASE new[u] # rows[u]
    <3>1. ~(smod[u] <= Horizon)
      BY <1>2, <2>2 DEF Wrong, Differs, Leaks
    <3>2. smod[u] > Horizon
      BY <3>1, HorizonBounds DEF Typed, ServerType
    <3> QED BY <1>1, <1>2, <3>2, HorizonBounds DEF CoveredAt, Typed, ServerType, FolderType,
               WorkerType, StatusSet
  <2> QED BY <2>1, <2>2
<1>6. \A q : RequestHolds(q) => RequestHolds(q)'
  BY <1>2 DEF RequestHolds
<1>7. \A u \in Uid : Missing(u)' => Missing(u)
  BY <1>2 DEF Missing, Leaks
<1> QED BY <1>3, <1>4, <1>5, <1>6, <1>7 DEF Reported

\* The same when no row is added, for what is being fetched too.
LEMMA ShrinkKeeps ==
    ASSUME Typed, Typed', Holds, Entrusted, NEW new \in Copies, WriteRows(new),
           \A u \in Uid : new[u] # Absent => rows[u] # Absent,
           UNCHANGED <<server, worker, bg>>, cmod' = cmod
    PROVE  /\ Numbers' /\ Reported' /\ Covered' /\ BackgroundHolds' /\ Fetching'
           /\ \A q : RequestHolds(q) => RequestHolds(q)'
<1>1. /\ Numbers' /\ Reported' /\ Covered'
      /\ \A q : RequestHolds(q) => RequestHolds(q)'
      /\ \A u \in Uid : Missing(u)' => Missing(u)
  BY RewriteKeeps DEF WriteRows
<1>2. BackgroundHolds'
  BY DEF Holds, Painting, BackgroundHolds, server, WriteRows
<1>3. Fetching'
  BY <1>1 DEF Holds, Fetching, Entrusted, Cached, WriteRows, worker, locals
<1> QED BY <1>1, <1>2, <1>3

\* A step that only moves a request on keeps everything.
LEMMA QuietKeeps ==
    ASSUME Typed, Holds, Entrusted, UNCHANGED <<server, rows, worker, bg>>, cmod' = cmod,
           leak \subseteq leak'
    PROVE  /\ Numbers' /\ Reported' /\ Covered' /\ BackgroundHolds' /\ Fetching'
           /\ \A q : RequestHolds(q) => RequestHolds(q)'
<1>1. /\ pc' = pc /\ since' = since /\ stat' = stat /\ told' = told /\ delta' = delta
      /\ snap' = snap /\ mark' = mark /\ above' = above /\ old' = old
  BY DEF worker, locals
<1>2. /\ cap' = cap /\ msgs' = msgs /\ smod' = smod /\ top' = top /\ next' = next
      /\ rows' = rows /\ bg' = bg
  BY DEF server
<1>3. Numbers'
  BY <1>1, <1>2 DEF Holds, Numbers, Known
<1>4. Reported'
  BY <1>1, <1>2 DEF Holds, Reported, ReportedDelta, ReportedNew, ReportedAll, Fresh
<1>5. Covered'
  BY <1>1, <1>2 DEF Holds, Covered, CoveredAt, Wrong, Differs, Dropped
<1>6. BackgroundHolds'
  BY <1>2 DEF Holds, Painting, BackgroundHolds
<1>7. Fetching'
  BY <1>1, <1>2 DEF Holds, Fetching, Entrusted, Missing, Cached
<1> QED BY <1>2, <1>3, <1>4, <1>5, <1>6, <1>7 DEF RequestHolds

\* What a request does on the server is a drift of it.
LEMMA RequestDrifts ==
    ASSUME Typed, First, Holds, NEW r \in Requests, FlagStore(r) \/ AllStore(r) \/ RemoveMail(r)
    PROVE  Drift
<1>1. \A u \in Uid : msgs[u] # Absent => msgs[u] \in FlagSets
  BY DEF Typed, ServerType, Copies, Flagged
<1>2. CASE FlagStore(r)
  <2>1. PICK S \in SUBSET Cached, flag \in Flags, add \in BOOLEAN :
          Store(S, [u \in Uid |-> IF msgs[u] = Absent THEN Absent
                                 ELSE WithFlag(msgs[u], flag, add)])
    BY <1>2 DEF FlagStore
  <2> DEFINE f == [u \in Uid |-> IF msgs[u] = Absent THEN Absent
                                ELSE WithFlag(msgs[u], flag, add)]
  <2>2. \A u \in Uid : msgs[u] # Absent => f[u] # Absent
    BY <1>1, FlagTypes, AbsentFact
  <2> HIDE DEF f
  <2> QED BY <1>2, <2>1, <2>2, StoreDrifts DEF FlagStore, f
<1>3. CASE AllStore(r)
  <2> DEFINE f == [u \in Uid |-> IF msgs[u] = Absent THEN Absent
                      ELSE msgs[u] \cup {Seen}]
  <2>1. \A u \in Uid : msgs[u] # Absent => f[u] # Absent
    BY <1>1, FlagTypes, AbsentFact, MailboxAssumption
  <2> HIDE DEF f
  <2> QED BY <1>3, <2>1, StoreDrifts DEF AllStore, f
<1>4. CASE RemoveMail(r)
  BY <1>4, RemoveDrifts DEF RemoveMail
<1> QED BY <1>2, <1>3, <1>4

\* Every step of a request keeps the invariant (routes/messages/mod.rs).
LEMMA RequestStepHolds ==
    ASSUME Typed, Typed', First, First', Holds, NEW r \in Requests, Request(r)
    PROVE  Holds'
<1> DEFINE Kept ==
        /\ Numbers' /\ Reported' /\ Covered' /\ BackgroundHolds' /\ Fetching'
        /\ \A q \in RequestSet : RequestHolds(q) => RequestHolds(q)'
<1>a. ASSUME NEW q \in RequestSet, req' = [req EXCEPT ![r] = q], RequestHolds(q)',
             \A p \in RequestSet : RequestHolds(p) => RequestHolds(p)', BackgroundHolds'
      PROVE  Painting'
  <2>1. \A p \in Requests : req[p] \in RequestSet /\ RequestHolds(req[p])
    BY DEF Typed, RequestsType, Holds, Painting
  <2>2. \A p \in Requests : req'[p] = IF p = r THEN q ELSE req[p]
    BY <1>a DEF Typed, RequestsType
  <2>3. \A p \in Requests : RequestHolds(req[p])'
    BY <1>a, <2>1, <2>2 DEF RequestHolds
  <2> QED BY <1>a, <2>3 DEF Painting
<1>b. NoReq \in RequestSet /\ RequestHolds(NoReq)'
  BY DEF RequestSet, NoReq, RequestHolds
<1>c. ASSUME Kept, Done(r) PROVE Holds'
  <2>1. Painting'
    BY <1>a, <1>b, <1>c DEF Done
  <2> QED BY <1>c, <2>1 DEF Holds
<1>d. ASSUME Kept, NEW q \in RequestSet, Become(r, q), RequestHolds(q)' PROVE Holds'
  <2>1. Painting'
    BY <1>a, <1>d DEF Become
  <2> QED BY <1>d, <2>1 DEF Holds
<1>k. ASSUME NEW q, req' = [req EXCEPT ![r] = q], req[r].op # "spawn", bg' = bg
      PROVE  Entrusted
  <2>1. \A p \in Requests : p # r => req'[p] = req[p]
    BY <1>k DEF Typed, RequestsType
  <2> QED BY <1>k, <2>1 DEF Entrusted, Behind
<1>e. ASSUME Drift, Entrusted, UNCHANGED <<rows, folder, worker, bg>> PROVE Kept
  BY <1>e, DriftKeeps
<1>f. ASSUME NEW new \in Copies, WriteRows(new), Entrusted,
             \A u \in Uid : new[u] # Absent => rows[u] # Absent,
             UNCHANGED <<server, worker, bg>>, cmod' = cmod
      PROVE Kept
  BY <1>f, ShrinkKeeps
<1>g. ASSUME UNCHANGED <<server, rows, worker, bg>>, cmod' = cmod, leak \subseteq leak', Entrusted
      PROVE Kept
  BY <1>g, QuietKeeps
<1>h. req[r] \in RequestSet /\ RequestHolds(req[r])
  BY DEF Typed, RequestsType, Holds, Painting
<1>i. \A u \in Uid : /\ msgs[u] \in Flagged /\ rows[u] \in Flagged
                     /\ msgs[u] # Absent => msgs[u] \in FlagSets
                     /\ rows[u] # Absent => rows[u] \in FlagSets
  BY DEF Typed, ServerType, RowsType, Copies, Flagged
<1>j. Absent \in Flagged /\ FlagSets \subseteq Flagged
  BY DEF Flagged
<1> HIDE DEF Kept
<1>1. ASSUME FlagStore(r) PROVE Holds'
  <2>2. PICK S \in SUBSET Cached, flag \in Flags, add \in BOOLEAN :
          /\ Store(S, [u \in Uid |-> IF msgs[u] = Absent THEN Absent
                                     ELSE WithFlag(msgs[u], flag, add)])
          /\ Become(r, [op |-> IF Cardinality(S) = 1 THEN "flag" ELSE "flags",
                        uids |-> S, flag |-> flag, add |-> add])
    BY <1>1 DEF FlagStore
  <2> DEFINE q == [op |-> IF Cardinality(S) = 1 THEN "flag" ELSE "flags",
                   uids |-> S, flag |-> flag, add |-> add]
  <2>3. Entrusted
    BY <1>1, <2>2, <1>k DEF FlagStore, Become, Idle
  <2>4. Kept
    BY <1>1, <2>3, <1>e, RequestDrifts DEF FlagStore
  <2>5. q \in RequestSet /\ RequestHolds(q)'
    BY DEF RequestSet, RequestHolds, Cached
  <2> QED BY <2>2, <2>4, <2>5, <1>d
<1>2. ASSUME FlagRows(r) PROVE Holds'
  <2> DEFINE new == [u \in Uid |-> IF u \in req[r].uids /\ rows[u] # Absent
                      THEN WithFlag(rows[u], req[r].flag, req[r].add)
                      ELSE rows[u]]
  <2>1. new \in Copies
    BY <1>2, <1>h, <1>i, <1>j, FlagTypes, RequestShapes DEF FlagRows, Copies
  <2>2. \A u \in Uid : new[u] # Absent => rows[u] # Absent
    OBVIOUS
  <2>3. WriteRows(new)
    BY <1>2 DEF FlagRows
  <2> HIDE DEF new
  <2>5. Entrusted
    BY <1>2, <1>k DEF FlagRows, Done
  <2>4. Kept
    BY <1>2, <2>1, <2>2, <2>3, <2>5, <1>f DEF FlagRows, folder
  <2> QED BY <1>2, <2>4, <1>c DEF FlagRows
<1>14. ASSUME FlagRead(r) PROVE Holds'
  <2>1. req[r].uids \in SUBSET Uid /\ req[r].flag \in Flags /\ req[r].add \in BOOLEAN
    BY <1>14, <1>h, RequestShapes DEF FlagRead
  <2>2. PICK f \in FlagSets :
          Become(r, [op |-> "update", uids |-> req[r].uids,
                     flags |-> WithFlag(f, req[r].flag, req[r].add)])
    BY <1>14 DEF FlagRead
  <2>3. WithFlag(f, req[r].flag, req[r].add) \in FlagSets
    BY <2>1, FlagTypes
  <2> PICK q \in RequestSet :
        q = [op |-> "update", uids |-> req[r].uids,
             flags |-> WithFlag(f, req[r].flag, req[r].add)]
    BY <2>1, <2>3 DEF RequestSet
  <2>4. RequestHolds(q)'
    BY DEF RequestHolds
  <2>5. Entrusted
    BY <1>14, <2>2, <1>k DEF FlagRead, Become
  <2>6. Kept
    BY <1>14, <2>5, <1>g DEF FlagRead, folder
  <2> QED BY <2>2, <2>4, <2>6, <1>d
<1>15. ASSUME FlagUpdate(r) PROVE Holds'
  <2> DEFINE new == [u \in Uid |-> IF u \in req[r].uids /\ rows[u] # Absent
                      THEN req[r].flags ELSE rows[u]]
  <2>1. new \in Copies
    BY <1>15, <1>h, <1>i, <1>j, RequestShapes DEF FlagUpdate, Copies
  <2>2. \A u \in Uid : new[u] # Absent => rows[u] # Absent
    OBVIOUS
  <2>3. WriteRows(new)
    BY <1>15 DEF FlagUpdate
  <2> HIDE DEF new
  <2>4. Entrusted
    BY <1>15, <1>k DEF FlagUpdate, Done
  <2>5. Kept
    BY <1>15, <2>1, <2>2, <2>3, <2>4, <1>f DEF FlagUpdate, folder
  <2> QED BY <1>15, <2>5, <1>c DEF FlagUpdate
<1>3. ASSUME AllStore(r) PROVE Holds'
  <2>1. Entrusted
    BY <1>3, <1>k DEF AllStore, Become, Idle
  <2>2. Kept
    BY <1>3, <2>1, <1>e, RequestDrifts DEF AllStore
  <2>3. [op |-> "all"] \in RequestSet /\ RequestHolds([op |-> "all"])'
    BY DEF RequestSet, RequestHolds
  <2> QED BY <1>3, <2>2, <2>3, <1>d DEF AllStore
<1>4. ASSUME AllRows(r) PROVE Holds'
  <2> DEFINE new == [u \in Uid |-> IF rows[u] = Absent THEN Absent
                      ELSE rows[u] \cup {Seen}]
  <2>1. new \in Copies
    BY <1>i, <1>j, FlagTypes, MailboxAssumption DEF Copies
  <2>2. \A u \in Uid : new[u] # Absent => rows[u] # Absent
    OBVIOUS
  <2>3. WriteRows(new)
    BY <1>4 DEF AllRows
  <2> HIDE DEF new
  <2>5. Entrusted
    BY <1>4, <1>k DEF AllRows, Done
  <2>4. Kept
    BY <1>4, <2>1, <2>2, <2>3, <2>5, <1>f DEF AllRows, folder
  <2> QED BY <1>4, <2>4, <1>c DEF AllRows
<1>5. ASSUME RemoveMail(r) PROVE Holds'
  <2>1. PICK S \in SUBSET Cached :
          Remove(S) /\ Become(r, [op |-> "remove", uids |-> S])
    BY <1>5 DEF RemoveMail
  <2>4. Entrusted
    BY <1>5, <2>1, <1>k DEF RemoveMail, Become, Idle
  <2>2. Kept
    BY <1>5, <2>4, <1>e, RequestDrifts DEF RemoveMail
  <2> DEFINE q == [op |-> "remove", uids |-> S]
  <2>3. q \in RequestSet /\ RequestHolds(q)'
    BY DEF RequestSet, RequestHolds, Cached
  <2> QED BY <2>1, <2>2, <2>3, <1>d
<1>6. ASSUME RemoveRows(r) PROVE Holds'
  <2> DEFINE new == [u \in Uid |-> IF u \in req[r].uids THEN Absent ELSE rows[u]]
  <2>1. new \in Copies
    BY <1>i, <1>j DEF Copies
  <2>2. \A u \in Uid : new[u] # Absent => rows[u] # Absent
    OBVIOUS
  <2>3. WriteRows(new)
    BY <1>6 DEF RemoveRows
  <2> HIDE DEF new
  <2>5. Entrusted
    BY <1>6, <1>k DEF RemoveRows, Done
  <2>4. Kept
    BY <1>6, <2>1, <2>2, <2>3, <2>5, <1>f DEF RemoveRows, folder
  <2> QED BY <1>6, <2>4, <1>c DEF RemoveRows
<1>7. ASSUME NEW u \in Uid, OpenFails(r, u) PROVE Holds'
  <2> DEFINE new == [rows EXCEPT ![u] = Absent]
  <2>1. new \in Copies
    BY <1>j DEF Typed, RowsType, Copies
  <2>2. \A v \in Uid : new[v] # Absent => rows[v] # Absent
    BY DEF Typed, RowsType, Copies
  <2>3. WriteRows(new)
    BY <1>7 DEF OpenFails
  <2> HIDE DEF new
  <2>6. Entrusted
    BY <1>7 DEF OpenFails, Entrusted, Behind
  <2>4. Kept
    BY <1>7, <2>1, <2>2, <2>3, <2>6, <1>f DEF OpenFails
  <2>5. Painting'
    BY <1>7, <2>4 DEF OpenFails, Kept, Painting, Holds, Typed, RequestsType, RequestHolds
  <2> QED BY <2>4, <2>5 DEF Holds, Kept
<1>8. ASSUME ListCheck(r) PROVE Holds'
  <2>1. [op |-> "select", val |-> cval, count |-> Cardinality(Cached), null |-> null]
            \in RequestSet
    BY UidFinite DEF RequestSet, CheckSet, Typed, FolderType, Cached
  <2> PICK q \in RequestSet :
        q = [op |-> "select", val |-> cval, count |-> Cardinality(Cached), null |-> null]
    BY <2>1
  <2>2. RequestHolds(q)'
    BY DEF RequestHolds
  <2>4. Become(r, q)
    BY <1>8 DEF ListCheck
  <2>5. Entrusted
    BY <1>8, <2>4, <1>k DEF ListCheck, Become, Idle
  <2>3. Kept
    BY <1>8, <2>5, <1>g DEF ListCheck, folder
  <2> QED BY <2>2, <2>3, <2>4, <1>d
<1>9. ASSUME ListSelect(r) PROVE Holds'
  <2>1. [op |-> "decide", chk |-> req[r], st |-> folder_status] \in RequestSet
    <3>1. req[r] \in CheckSet
      BY <1>9, <1>h, RequestShapes DEF ListSelect
    <3>2. folder_status \in SelectSet
      BY UidFinite DEF folder_status, SelectSet, Typed, ServerType, Present
    <3> QED BY <3>1, <3>2 DEF RequestSet
  <2> PICK q \in RequestSet : q = [op |-> "decide", chk |-> req[r], st |-> folder_status]
    BY <2>1
  <2>2. RequestHolds(q)'
    BY <1>9 DEF RequestHolds, folder_status, ListSelect, server, Typed, ServerType
  <2>4. Become(r, q) \/ Done(r)
    BY <1>9 DEF ListSelect
  <2>5. Entrusted
    BY <1>9, <2>4, <1>k DEF ListSelect, Become, Done
  <2>3. Kept
    BY <1>9, <2>5, <1>g DEF ListSelect, folder
  <2> QED BY <2>2, <2>3, <2>4, <1>c, <1>d
<1>10. ASSUME ListDecide(r) PROVE Holds'
  <2>1. req[r].chk \in CheckSet /\ req[r].st \in SelectSet /\ req[r].st.next <= next
    BY <1>10, <1>h, RequestShapes DEF ListDecide, RequestHolds
  <2> PICK q \in RequestSet :
        q = [op |-> "headers", val |-> req[r].st.val, next |-> req[r].st.next,
             first |-> req[r].chk.val = 0]
    BY <2>1 DEF RequestSet, SelectSet
  <2>4. Become(r, q) \/ Done(r)
    BY <1>10 DEF ListDecide
  <2>5. Entrusted
    BY <1>10, <2>4, <1>k DEF ListDecide, Become, Done
  <2>2. Kept
    <3>1. WriteRows(Nothing) \/ UNCHANGED <<rows, leak>>
      BY <1>10 DEF ListDecide
    <3>2. cmod' = cmod /\ UNCHANGED <<server, worker, bg>>
      BY <1>10 DEF ListDecide, folder
    <3>3. Nothing \in Copies /\ \A u \in Uid : Nothing[u] = Absent
      BY NothingType DEF Nothing
    <3> QED BY <2>5, <3>1, <3>2, <3>3, <1>f, <1>g
  <2>3. RequestHolds(q)'
    BY <1>10, <2>1 DEF RequestHolds, ListDecide, server
  <2> QED BY <2>2, <2>3, <2>4, <1>c, <1>d
<1>11. ASSUME ListHeaders(r) PROVE Holds'
  <2> DEFINE start == RecentStart(req[r].next)
             recent == {u \in Present : u >= start}
  <2>1. req[r].val \in Nat /\ req[r].next \in Nat /\ req[r].next <= next /\ req[r].first \in BOOLEAN
    BY <1>11, <1>h, RequestShapes DEF ListHeaders, RequestHolds
  <2>2. start \in Nat /\ start <= next
    BY <2>1, MailboxAssumption DEF RecentStart, Typed, ServerType
  <2>3. (Done(r) /\ leak' = leak) \/ \E S \in SUBSET recent :
           /\ Become(r, [op |-> "paint", val |-> req[r].val, start |-> start,
                          first |-> req[r].first, hdrs |-> fetch_headers(S)])
           /\ leak' = leak \cup Skipped(recent, S)
    <3>1. Skipped(recent, recent) = {}
      BY DEF Skipped
    <3> QED BY <1>11, <3>1 DEF ListHeaders
  <2> HIDE DEF start
  <2>4. Entrusted /\ leak \subseteq leak'
    BY <1>11, <2>3, <1>k DEF ListHeaders, Become, Done
  <2>5. Kept
    BY <1>11, <2>4, <1>g DEF ListHeaders, folder
  <2>6. CASE Done(r)
    BY <2>5, <2>6, <1>c
  <2>7. ASSUME NEW S \in SUBSET recent,
               Become(r, [op |-> "paint", val |-> req[r].val, start |-> start,
                          first |-> req[r].first, hdrs |-> fetch_headers(S)]),
               leak' = leak \cup Skipped(recent, S)
        PROVE  Holds'
    <3>1. fetch_headers(S) \in Copies
      BY <1>i, <1>j DEF fetch_headers, Copies
    <3> PICK q \in RequestSet :
          q = [op |-> "paint", val |-> req[r].val, start |-> start,
               first |-> req[r].first, hdrs |-> fetch_headers(S)]
      BY <2>1, <2>2, <3>1 DEF RequestSet
    <3>2. \A u \in Uid : /\ fetch_headers(S)[u] = IF u \in S THEN msgs[u] ELSE Absent
                         /\ msgs[u] # Absent => u < next
      BY DEF fetch_headers, Holds, Numbers
    <3>3. UNCHANGED <<msgs, next>>
      BY <1>11 DEF ListHeaders, server
    <3>4. q.op = "paint" /\ q.start = start /\ q.hdrs = fetch_headers(S)
      OBVIOUS
    <3>5. ASSUME NEW u \in Uid, u >= start, msgs[u] # Absent, u \notin S, u \notin leak',
                 NEW v \in S
          PROVE  v < u
      <4>1. u \in recent /\ v \in Uid
        BY <3>5 DEF Present
      <4>2. ~(u < v)
        BY <2>7, <3>5, <4>1 DEF Skipped
      <4> QED BY <3>5, <4>1, <4>2 DEF Uid
    <3>6. \A u \in Uid : fetch_headers(S)[u] # Absent => u \in S
      BY <3>2
    <3>7. \A u \in S : fetch_headers(S)[u] # Absent
      BY <3>2 DEF Present
    <3> HIDE DEF recent
    <3>8. RequestHolds(q)'
      BY <2>2, <3>2, <3>3, <3>4, <3>5, <3>6, <3>7 DEF RequestHolds
    <3> QED BY <2>5, <2>7, <3>8, <1>d
  <2> QED BY <2>3, <2>6, <2>7
<1>12. ASSUME ListPaint(r) PROVE Holds'
  <2> DEFINE hdrs == req[r].hdrs
             start == req[r].start
  <2>1. /\ start \in Nat /\ hdrs \in Copies /\ start <= next /\ req[r].val \in Nat
        /\ \A u \in Uid :
              /\ hdrs[u] # Absent => u < next
              /\ u >= start /\ msgs[u] # Absent =>
                      \/ hdrs[u] # Absent \/ u \in leak
                      \/ \A v \in Uid : hdrs[v] # Absent => v < u
    BY <1>12, <1>h, RequestShapes DEF ListPaint, RequestHolds
  <2> HIDE DEF hdrs, start
  <2> PICK q \in RequestSet : q = [op |-> "spawn", val |-> req[r].val, start |-> start]
    BY <2>1 DEF RequestSet
  <2>q. q.op = "spawn" /\ q.start = start /\ RequestHolds(q)'
    BY <1>12, <2>1 DEF RequestHolds, ListPaint, server
  <2>2. PICK S \in SUBSET Named(hdrs) :
          /\ rows' = Written(S, hdrs) /\ leak \cup Leaks(Written(S, hdrs)) \subseteq leak'
          /\ \/ /\ S = Named(hdrs)
                /\ \/ start > 1 /\ Become(r, q)
                   \/ ~(start > 1) /\ Done(r)
             \/ Skipped(Present, S \cup Cached) \subseteq leak' /\ Done(r)
    BY <1>12 DEF ListPaint, WriteRows, hdrs, start
  <2> DEFINE new == Written(S, hdrs)
  <2>3. new \in Copies
    BY <2>1, WrittenTypes DEF Typed
  <2>4. rows' = new /\ cmod' = cmod /\ UNCHANGED <<server, worker, bg>>
    BY <1>12, <2>2 DEF ListPaint, folder
  <2>5. \A u \in Uid : new[u] = IF u \in S THEN hdrs[u] ELSE rows[u]
    BY DEF Written
  <2>6. \A u \in S : u \in Uid /\ hdrs[u] # Absent
    BY DEF Named
  <2> HIDE DEF new
  <2>7. \A u \in Uid : new[u] # Absent => rows[u] # Absent \/ u < next
    BY <2>1, <2>5
  <2>8. /\ Numbers' /\ Reported' /\ Covered'
        /\ \A p : RequestHolds(p) => RequestHolds(p)'
        /\ \A u \in Uid : Missing(u)' => Missing(u)
    BY <2>2, <2>3, <2>4, <2>7, RewriteKeeps DEF new
  <2>9. BackgroundHolds'
    BY <2>2, <2>4 DEF BackgroundHolds, Holds, Painting, server
  <2>10. Entrusted
    <3>1. req[r].op # "spawn"
      BY <1>12 DEF ListPaint
    <3> QED BY <2>2, <2>4, <3>1, <1>k DEF Become, Done
  <2>11. Fetching'
    <3> SUFFICES ASSUME NEW u \in Uid, Missing(u)'
                 PROVE  /\ (\A v \in Cached' : v < u) \/ Behind(u)'
                        /\ pc' \in Reaching /\ u \notin above' => Behind(u)'
      BY DEF Fetching
    <3>1. /\ Missing(u) /\ new[u] = Absent /\ rows[u] = Absent /\ u \notin S
          /\ msgs[u] # Absent /\ pc' = pc /\ above' = above /\ u \notin leak' /\ u \in Present
      BY <2>4, <2>5, <2>6, <2>8 DEF Missing, worker, locals, server, Present
    <3>2. CASE Behind(u)
      BY <2>10, <3>2 DEF Entrusted
    <3>3. CASE ~Behind(u)
      <4>1. (\A v \in Cached : v < u) /\ ~(pc \in Reaching /\ u \notin above)
        BY <3>1, <3>3 DEF Holds, Fetching
      <4>2. ASSUME \A v \in S : v < u PROVE \A v \in Cached' : v < u
        BY <2>4, <2>5, <4>1, <4>2 DEF Cached
      <4>3. CASE Skipped(Present, S \cup Cached) \subseteq leak'
        <5>1. \A v \in S : ~(u < v)
          BY <3>1, <4>3 DEF Skipped, Cached
        <5> QED BY <2>6, <3>1, <4>1, <4>2, <5>1 DEF Uid
      <4>4. CASE S = Named(hdrs) /\ u >= start
        <5>1. hdrs[u] = Absent /\ u \notin leak
          BY <2>2, <3>1, <4>4 DEF Named
        <5>2. \A v \in S : v < u
          BY <2>1, <2>6, <3>1, <4>4, <5>1
        <5> QED BY <3>1, <4>1, <4>2, <5>2
      <4>5. CASE start > 1 /\ Become(r, q) /\ u < start
        <5>1. req'[r] = q
          BY <4>5 DEF Become, Typed, RequestsType
        <5>2. Behind(u)'
          BY <2>q, <4>5, <5>1 DEF Behind
        <5> QED BY <5>2
      <4>6. \/ Skipped(Present, S \cup Cached) \subseteq leak'
            \/ S = Named(hdrs) /\ u >= start
            \/ start > 1 /\ Become(r, q) /\ u < start
        <5>1. u \in Nat /\ u >= 1 /\ start \in Nat
          BY <2>1 DEF Uid
        <5> QED BY <2>2, <5>1
      <4> QED BY <4>3, <4>4, <4>5, <4>6
    <3> QED BY <3>2, <3>3
  <2>12. Kept
    BY <2>8, <2>9, <2>11 DEF Kept
  <2> QED BY <2>2, <2>q, <2>12, <1>c, <1>d
<1>16. ASSUME ListSpawn(r) PROVE Holds'
  <2>1. req[r].start <= next /\ req[r].start \in Nat
    BY <1>16, <1>h, RequestShapes DEF ListSpawn, RequestHolds
  <2>2. /\ bg' = [pc |-> "fetch", below |-> req[r].start, val |-> req[r].val] /\ bg = NoBg
        /\ Done(r) /\ UNCHANGED <<server, rows, folder, worker, leak>>
    BY <1>16 DEF ListSpawn
  <2>3. bg' # NoBg /\ bg'.below = req[r].start /\ bg'.pc # "store"
    BY <2>2 DEF NoBg
  <2>4. \A p \in Requests : p # r => req'[p] = req[p]
    BY <2>2 DEF Done, Typed, RequestsType
  <2>5. Entrusted
    BY <2>2, <2>3, <2>4 DEF Entrusted, Behind
  <2>6. BackgroundHolds'
    BY <2>1, <2>2, <2>3 DEF BackgroundHolds, server
  <2>7. /\ pc' = pc /\ since' = since /\ stat' = stat /\ told' = told /\ delta' = delta
        /\ snap' = snap /\ mark' = mark /\ above' = above /\ old' = old
        /\ cap' = cap /\ msgs' = msgs /\ smod' = smod /\ top' = top /\ next' = next
        /\ leak' = leak /\ rows' = rows /\ cmod' = cmod
    BY <2>2 DEF worker, locals, server, folder
  <2>8. Numbers' /\ Reported' /\ Covered'
    BY <2>7 DEF Holds, Numbers, Known, Reported, ReportedDelta, ReportedNew, ReportedAll, Fresh,
       Covered, CoveredAt, Wrong, Differs, Dropped
  <2>9. Fetching'
    BY <2>5, <2>7 DEF Holds, Fetching, Entrusted, Missing, Cached
  <2>10. \A p : RequestHolds(p) => RequestHolds(p)'
    BY <2>7 DEF RequestHolds
  <2> QED BY <2>2, <2>6, <2>8, <2>9, <2>10, <1>c DEF Kept
<1>13. ASSUME Lost(r) PROVE Holds'
  <2>1. CASE req[r].op = "spawn"
    <3>1. leak' = leak \cup {u \in Present \ Cached : u < req[r].start}
      BY <1>13, <2>1 DEF Lost
    <3>2. \A p \in Requests : p # r => req'[p] = req[p]
      BY <1>13 DEF Lost, Done, Typed, RequestsType
    <3>3. \A u \in Uid : Missing(u)' => ~(u < req[r].start)
      BY <1>13, <3>1 DEF Lost, Missing, Present, Cached, server
    <3>4. Entrusted
      BY <1>13, <3>2, <3>3 DEF Lost, Entrusted, Behind
    <3> QED BY <1>13, <3>1, <3>4, <1>c, <1>g DEF Lost, folder
  <2>2. CASE req[r].op # "spawn"
    <3>1. Entrusted
      BY <1>13, <2>2, <1>k DEF Lost, Done
    <3> QED BY <1>13, <2>2, <3>1, <1>c, <1>g DEF Lost, folder
  <2> QED BY <2>1, <2>2
<1> QED BY <1>1, <1>2, <1>3, <1>4, <1>5, <1>6, <1>7, <1>8, <1>9, <1>10, <1>11, <1>12,
           <1>13, <1>14, <1>15, <1>16 DEF Request, Proceed

\* So does the fetch of the older headers, done, cut or failed.
LEMMA BackgroundStepHolds ==
    ASSUME Typed, Typed', First, Holds, OlderFetch \/ OlderStore
    PROVE  Holds'
<1>1. bg \in BgSet
  BY DEF Typed, RequestsType
<1>2. ASSUME OlderFetch PROVE Holds'
  <2>1. bg.below \in Nat /\ bg # NoBg /\ bg.below <= next
    BY <1>1, <1>2, BackgroundShapes DEF OlderFetch, NoBg, Holds, Painting, BackgroundHolds
  <2>2. /\ cap' = cap /\ msgs' = msgs /\ smod' = smod /\ top' = top /\ next' = next
        /\ leak \subseteq leak' /\ rows' = rows /\ cmod' = cmod /\ req' = req
        /\ pc' = pc /\ since' = since /\ stat' = stat /\ told' = told /\ delta' = delta
        /\ snap' = snap /\ mark' = mark /\ above' = above /\ old' = old
    BY <1>2 DEF OlderFetch, server, worker, locals, folder
  <2>3. Numbers'
    BY <2>2 DEF Holds, Numbers, Known
  <2>4. Reported'
    BY <2>2 DEF Holds, Reported, ReportedDelta, ReportedNew, ReportedAll, Fresh
  <2>5. Covered'
    BY <2>2 DEF Holds, Covered, CoveredAt, Wrong, Differs, Dropped
  <2>6. \A r \in Requests : RequestHolds(req[r])'
    BY <2>2 DEF Holds, Painting, RequestHolds
  <2> DEFINE all == Older \cap Present
  <2>7. ASSUME NEW S \in SUBSET all, leak' = leak \cup (all \ S),
               bg' = [pc |-> "store", below |-> bg.below, val |-> bg.val, hdrs |-> fetch_headers(S)]
        PROVE  Holds'
    <3>1. bg' # NoBg /\ bg'.below = bg.below /\ bg'.hdrs = fetch_headers(S)
      BY <2>7 DEF NoBg
    <3>2. \A u \in Uid : fetch_headers(S)[u] = IF u \in S THEN msgs[u] ELSE Absent
      BY DEF fetch_headers
    <3>3. \A u \in Uid : u \in all <=> u < bg.below /\ msgs[u] # Absent
      BY DEF Older, Present
    <3> HIDE DEF all
    <3>4. BackgroundHolds'
      BY <2>1, <2>2, <2>7, <3>1, <3>2, <3>3 DEF BackgroundHolds
    <3>5. Fetching'
      BY <2>1, <2>2, <3>1 DEF Holds, Fetching, Missing, Behind, Cached
    <3> QED BY <2>3, <2>4, <2>5, <2>6, <3>4, <3>5 DEF Holds, Painting
  <2>8. CASE bg' = NoBg /\ leak' = leak \cup (all \ Cached)
    <3>1. BackgroundHolds'
      BY <2>8 DEF BackgroundHolds, NoBg
    <3>2. \A u \in Uid : Missing(u)' => Missing(u) /\ ~(u < bg.below)
      BY <2>2, <2>8 DEF Missing, Older, Present, Cached
    <3>3. Fetching'
      BY <2>1, <2>2, <3>2 DEF Holds, Fetching, Behind, Cached
    <3> QED BY <2>3, <2>4, <2>5, <2>6, <3>1, <3>3 DEF Holds, Painting
  <2>9. leak = leak \cup (all \ all)
    OBVIOUS
  <2> HIDE DEF all
  <2> QED BY <1>2, <2>7, <2>8, <2>9 DEF OlderFetch, all
<1>3. ASSUME OlderStore PROVE Holds'
  <2> DEFINE hdrs == bg.hdrs
  <2>1. /\ bg.below \in Nat /\ hdrs \in Copies /\ bg # NoBg /\ bg.below <= next
        /\ \A u \in Uid : /\ hdrs[u] # Absent => u < bg.below
                          /\ u < bg.below /\ msgs[u] # Absent => hdrs[u] # Absent \/ u \in leak
    BY <1>1, <1>3, BackgroundShapes DEF OlderStore, NoBg, Holds, Painting, BackgroundHolds
  <2> HIDE DEF hdrs
  <2>2. PICK S \in SUBSET Named(hdrs) :
          /\ rows' = Written(S, hdrs) /\ leak \cup Leaks(Written(S, hdrs)) \subseteq leak'
          /\ \/ S = Named(hdrs)
             \/ (Older \cap Present) \ (S \cup Cached) \subseteq leak'
    BY <1>3 DEF OlderStore, WriteRows, hdrs
  <2> DEFINE new == Written(S, hdrs)
  <2>3. new \in Copies
    BY <2>1, WrittenTypes DEF Typed
  <2>4. /\ rows' = new /\ cmod' = cmod /\ UNCHANGED <<server, worker, req>>
        /\ bg' = NoBg
    BY <1>3, <2>2 DEF OlderStore, folder
  <2>5. \A u \in Uid : new[u] = IF u \in S THEN hdrs[u] ELSE rows[u]
    BY DEF Written
  <2>6. \A u \in S : u \in Uid /\ hdrs[u] # Absent
    BY DEF Named
  <2> HIDE DEF new
  <2>7. \A u \in Uid : new[u] # Absent => rows[u] # Absent \/ u < next
    BY <2>1, <2>5, <2>6 DEF Typed, ServerType, Uid
  <2>8. /\ Numbers' /\ Reported' /\ Covered'
        /\ \A q : RequestHolds(q) => RequestHolds(q)'
        /\ \A u \in Uid : Missing(u)' => Missing(u)
    BY <2>2, <2>3, <2>4, <2>7, RewriteKeeps DEF new
  <2>9. Painting'
    BY <2>4, <2>8 DEF Painting, Holds, BackgroundHolds, NoBg, RequestHolds
  <2>10. ASSUME NEW u \in Uid, Missing(u)'
         PROVE  /\ (\A v \in Cached' : v < u) \/ Behind(u)'
                /\ pc' \in Reaching /\ u \notin above' => Behind(u)'
    <3>1. /\ Missing(u) /\ new[u] = Absent /\ rows[u] = Absent /\ u \notin S
          /\ msgs[u] # Absent /\ pc' = pc /\ above' = above /\ u \notin leak' /\ u \notin leak
      BY <2>2, <2>4, <2>5, <2>6, <2>8, <2>10 DEF Missing, worker, locals, server
    <3>2. ~(u < bg.below)
      <4>1. CASE S = Named(hdrs)
        BY <2>1, <3>1, <4>1 DEF Named
      <4>2. CASE (Older \cap Present) \ (S \cup Cached) \subseteq leak'
        BY <3>1, <4>2 DEF Older, Present, Cached
      <4> QED BY <2>2, <4>1, <4>2
    <3>3. CASE \E r \in Requests : req[r].op = "spawn" /\ u < req[r].start
      BY <2>4, <3>3 DEF Behind
    <3>4. CASE ~\E r \in Requests : req[r].op = "spawn" /\ u < req[r].start
      <4>1. (\A v \in Cached : v < u) /\ ~(pc \in Reaching /\ u \notin above)
        BY <3>1, <3>2, <3>4 DEF Holds, Fetching, Behind
      <4>2. \A v \in S : v < u
        BY <2>1, <2>6, <3>2 DEF Uid
      <4>3. \A v \in Cached' : v < u
        BY <2>4, <2>5, <4>1, <4>2 DEF Cached
      <4> QED BY <3>1, <4>1, <4>3
    <3> QED BY <3>3, <3>4
  <2>11. Fetching'
    BY <2>10 DEF Fetching
  <2> QED BY <2>8, <2>9, <2>11 DEF Holds
<1> QED BY <1>2, <1>3

-----------------------------------------------------------------------------
(* The cycle, while it runs alone                                          *)

\* A cycle leaves the server and the requests alone.
LEMMA CycleFrame ==
    ASSUME Typed, First, Holds, WorkerFrame, leak \subseteq leak'
    PROVE  /\ cap' = cap /\ msgs' = msgs /\ smod' = smod /\ top' = top /\ next' = next
           /\ sval' = sval /\ req' = req /\ bg' = bg /\ Painting' /\ sval = 1
           /\ \A u \in Uid : Behind(u)' <=> Behind(u)
BY DEF WorkerFrame, server, First, Holds, Painting, RequestHolds, BackgroundHolds, Behind

\* The cycle ends, or moves on, with the rows and the stored number as they are.
LEMMA FinishKeeps ==
    ASSUME Typed, Typed', First, Holds, WorkerFrame, Finish, rows' = rows, cmod' = cmod,
           leak \subseteq leak'
    PROVE  Holds'
<1>1. pc' = "idle" /\ mark' = 0
  BY DEF Finish
<1>2. Numbers'
  BY <1>1, CycleFrame DEF Holds, Numbers, Known, Applied, Reaching, Typed, ServerType
<1>3. Reported'
  BY <1>1 DEF Reported, ReportedDelta, ReportedNew, ReportedAll
<1>4. Covered'
  BY <1>1, CycleFrame DEF Holds, Covered, CoveredAt, Wrong, Differs, Applied
<1>5. Fetching'
  BY <1>1, CycleFrame DEF Holds, Fetching, Missing, Cached, Reaching
<1> QED BY <1>2, <1>3, <1>4, <1>5, CycleFrame DEF Holds

\* Every step of the cycle keeps the invariant (realtime/sync.rs).
LEMMA CycleHolds ==
    ASSUME Typed, Typed', First, Holds, Start \/ Advance, leak \subseteq leak'
    PROVE  Holds'
<1> USE CycleFrame
<1>f. WorkerFrame
  BY DEF Start, Advance, WorkerFrame
<1>0. \A u \in Uid : /\ smod[u] \in Nat /\ msgs[u] \in Flagged
                     /\ smod[u] <= top /\ (msgs[u] # Absent => u < next)
                     /\ rows[u] # Absent => u < next
  BY DEF Holds, Numbers, Typed, ServerType, Copies
<1>00. /\ top \in Nat /\ next \in Nat /\ cmod \in Nat /\ since \in Nat /\ mark \in Nat
       /\ stat.mod \in Nat /\ stat.next \in Nat
  BY DEF Typed, ServerType, FolderType, WorkerType, StatusSet
<1>1. ASSUME Start PROVE Holds'
  <2>1. /\ WorkerFrame /\ rows' = rows /\ cmod' = cmod /\ leak' = leak /\ pc' = "status"
        /\ since' = cmod /\ mark' = mark
    BY <1>1, <1>f DEF Start, Wake, Goto, Quiet, folder, WorkerType, Typed
  <2>2. Numbers'
    BY <2>1 DEF Holds, Numbers, Known, Applied, Reaching
  <2>3. Reported'
    BY <2>1 DEF Reported, ReportedDelta, ReportedNew, ReportedAll
  <2>4. Covered'
    BY <2>1 DEF Holds, Covered, CoveredAt, Wrong, Differs, Applied
  <2>5. Fetching'
    BY <2>1 DEF Holds, Fetching, Missing, Cached, Reaching
  <2> QED BY <2>1, <2>2, <2>3, <2>4, <2>5 DEF Holds
<1>2. ASSUME Status PROVE Holds'
  <2>1. CASE Finish
    BY <1>2, <1>f, <2>1, FinishKeeps DEF Status, folder
  <2>2. CASE ~Finish
    <3>1. /\ WorkerFrame /\ rows' = rows /\ cmod' = cmod /\ leak' = leak
          /\ pc = "status" /\ pc' = Tier(StatusAnswer) /\ stat' = StatusAnswer
          /\ since' = since /\ mark' = mark /\ since = cmod
      BY <1>2, <1>f, <2>2 DEF Status, Goto, Quiet, folder, Holds, Numbers
    <3>2. /\ StatusAnswer.val = 1 /\ StatusAnswer.next = next
          /\ StatusAnswer.mod = IF cap = "plain" THEN 0 ELSE top
      BY <3>1 DEF StatusAnswer
    <3>3. /\ pc' \in {"rebuilt", "count", "delta", "full"}
          /\ pc' = "count" => StatusAnswer.mod = since
          /\ pc' \in {"count", "delta"} => cap # "plain"
      BY <3>1, <3>2 DEF Tier
    <3>4. Numbers'
      BY <3>1, <3>2, <3>3, <1>00 DEF Holds, Numbers, Known, Applied, Reaching
    <3>5. Reported'
      BY <3>3 DEF Reported, ReportedDelta, ReportedNew, ReportedAll
    <3>6. Covered'
      BY <3>1, <3>3 DEF Holds, Covered, CoveredAt, Wrong, Differs, Applied
    <3>7. Fetching'
      BY <3>1, <3>3 DEF Holds, Fetching, Missing, Cached, Reaching
    <3> QED BY <3>1, <3>4, <3>5, <3>6, <3>7 DEF Holds
  <2> QED BY <2>1, <2>2
<1>3. ASSUME Invalidate PROVE Holds'
  BY <1>3, <1>f, FinishKeeps DEF Invalidate
<1>4. ASSUME SkipUnchanged PROVE Holds'
  BY <1>4, <1>f, FinishKeeps DEF SkipUnchanged, folder
<1>5. ASSUME CountDiffers \/ AskFails PROVE Holds'
  <2>1. /\ WorkerFrame /\ rows' = rows /\ cmod' = cmod /\ leak' = leak
        /\ pc \in {"count", "delta"} /\ pc' \in {"delta", "full"}
        /\ stat' = stat /\ since' = since /\ mark' = mark
    BY <1>5, <1>f DEF CountDiffers, AskFails, Goto, folder
  <2>2. Numbers'
    BY <2>1 DEF Holds, Numbers, Known, Applied, Reaching
  <2>3. Reported'
    BY <2>1 DEF Reported, ReportedDelta, ReportedNew, ReportedAll
  <2>4. Covered'
    BY <2>1 DEF Holds, Covered, CoveredAt, Wrong, Differs, Applied
  <2>5. Fetching'
    BY <2>1 DEF Holds, Fetching, Missing, Cached, Reaching
  <2> QED BY <2>1, <2>2, <2>3, <2>4, <2>5 DEF Holds
<1>6. ASSUME AskQresync PROVE Holds'
  <2> DEFINE named == IF stat.val = sval THEN ChangedSince ELSE {}
             alive == named \cap Present
             gone == named \ Present
  <2>1. /\ WorkerFrame /\ rows' = rows /\ cmod' = cmod /\ pc = "delta" /\ pc' = "apply"
        /\ stat' = stat /\ since' = since /\ snap' = msgs
        /\ delta' = alive \cup Expanded(gone)
        /\ leak' = leak \cup (gone \ Expanded(gone))
        /\ \/ alive = {} /\ mark' = stat.mod
           \/ \E u \in alive : mark' = smod[u]
    BY <1>6, <1>f DEF AskQresync, Goto, folder
  <2>2. /\ stat.val = 1 /\ stat.mod <= top /\ cmod <= stat.mod /\ since = cmod
    BY <2>1 DEF Holds, Numbers, Known
  <2>3. named = ChangedSince
    BY <2>1, <2>2
  <2>4. Expanded(gone) \subseteq gone
    BY DEF Expanded
  <2>5. \A u \in Uid : u \in named <=> u < next /\ smod[u] > since
    BY <2>3 DEF ChangedSince
  <2>6. \A u \in Uid : u \in Present <=> msgs[u] # Absent
    BY DEF Present
  <2>7. since <= mark' /\ mark' <= top
    <3>1. \A u \in alive : u \in Uid
      BY DEF Present
    <3> QED BY <2>1, <2>2, <2>5, <3>1, <1>0, <1>00
  <2> HIDE DEF named
  <2>8. Numbers'
    BY <2>1, <2>2, <2>7 DEF Holds, Numbers, Known, Applied, Reaching
  <2>9. ASSUME NEW u \in Uid
        PROVE  /\ u \notin delta' /\ u < next => smod[u] <= since \/ u \in leak'
               /\ u \in delta' => u < next
    <3>1. smod[u] \in Nat /\ since \in Nat
      BY <1>0, <1>00
    <3>2. /\ u \in named <=> u \in alive \/ u \in gone
          /\ u \in Expanded(gone) => u \in gone
      BY <2>4
    <3> HIDE DEF alive, gone
    <3>3. /\ u \in delta' <=> u \in alive \/ u \in Expanded(gone)
          /\ u \in gone /\ u \notin Expanded(gone) => u \in leak'
      BY <2>1
    <3>4. u \in named => u \in delta' \/ u \in leak'
      BY <3>2, <3>3
    <3>5. u \in delta' => u \in named
      BY <3>2, <3>3
    <3>6. u \notin named /\ u < next => smod[u] <= since
      BY <2>5, <3>1
    <3> QED BY <2>5, <3>4, <3>5, <3>6
  <2>10. ReportedDelta'
    BY <2>1, <2>9 DEF ReportedDelta, Fresh
  <2>11. Reported'
    BY <2>1, <2>10 DEF Reported, ReportedNew, ReportedAll
  <2>12. Covered'
    BY <2>1 DEF Holds, Covered, CoveredAt, Wrong, Differs, Applied
  <2>13. Fetching'
    BY <2>1 DEF Holds, Fetching, Missing, Cached, Reaching
  <2> QED BY <2>1, <2>8, <2>11, <2>12, <2>13 DEF Holds
<1>7. ASSUME AskCondstore PROVE Holds'
  <2>1. /\ WorkerFrame /\ rows' = rows /\ cmod' = cmod /\ pc = "delta" /\ pc' = "apply"
        /\ stat' = stat /\ since' = since /\ snap' = msgs /\ leak \subseteq leak'
        /\ delta' \subseteq ChangedSince /\ ChangedSince \ delta' \subseteq leak' /\ mark' = top
    BY <1>7, <1>f, <1>00 DEF AskCondstore, Goto, folder, Typed, ServerType
  <2>2. since = cmod
    BY <2>1 DEF Holds, Numbers
  <2>3. Numbers'
    BY <2>1, <2>2, <1>00 DEF Holds, Numbers, Known, Applied, Reaching
  <2>4. ReportedDelta'
    BY <2>1, <1>0, <1>00 DEF ReportedDelta, Fresh, ChangedSince
  <2>5. Reported'
    BY <2>1, <2>4 DEF Reported, ReportedNew, ReportedAll
  <2>6. Covered'
    BY <2>1 DEF Holds, Covered, CoveredAt, Wrong, Differs, Applied
  <2>7. Fetching'
    BY <2>1 DEF Holds, Fetching, Missing, Cached, Reaching
  <2> QED BY <2>1, <2>3, <2>5, <2>6, <2>7 DEF Holds
<1>8. ASSUME Apply PROVE Holds'
  <2>0. \A S : \A u \in Uid : u \notin S => Written(S, snap)[u] = rows[u]
    BY DEF Written
  <2>1. /\ WorkerFrame /\ cmod' = cmod /\ pc = "apply"
        /\ \/ /\ pc' = IF told THEN "vanish" ELSE "tally"
              /\ stat' = stat /\ since' = since /\ snap' = snap
              /\ delta' = delta /\ mark' = mark /\ told' = told
           \/ pc' = "idle" /\ mark' = 0
    BY <1>8, <1>f DEF Apply, Onward, Finish, Goto, folder
  <2>2. since = cmod /\ since <= mark
    BY <2>1 DEF Holds, Numbers
  <2>3. \A u \in Uid :
          \/ rows'[u] = IF u \in delta /\ snap[u] # Absent /\ rows[u] # Absent
                       THEN snap[u] ELSE rows[u]
          \/ rows'[u] = rows[u] /\ (u \in leak' \/ ~(smod[u] <= mark))
    BY <1>8 DEF Apply, Written, Forgotten
  <2>4. \A u \in Uid : rows'[u] = Absent <=> rows[u] = Absent
    BY <2>3
  <2>5. Numbers'
    BY <2>1, <2>2, <2>4, <1>00 DEF Holds, Numbers, Known, Applied, Reaching
  <2>6. Reported'
    BY <2>1 DEF Holds, Reported, ReportedDelta, ReportedNew, ReportedAll, Fresh
  <2>7. Covered'
    <3> SUFFICES ASSUME NEW u \in Uid, Wrong(u)' PROVE CoveredAt(u)'
      BY DEF Covered
    <3>1. /\ snap[u] # msgs[u] => Fresh(u, mark)
          /\ u \notin delta /\ u < next => smod[u] <= since \/ Fresh(u, mark)
          /\ u \in delta => u < next
          /\ u \in delta /\ snap[u] = Absent => msgs[u] = Absent
      BY <2>1 DEF Holds, Reported, ReportedDelta
    <3>2. /\ u \notin leak /\ u \notin leak'
          /\ rows'[u] # Absent /\ rows'[u] # msgs[u] /\ rows[u] # Absent /\ u < next
      BY <2>1, <2>4, <1>0 DEF Wrong, Differs
    <3>3. CASE smod[u] > mark
      BY <2>1, <2>2, <3>3, <1>0, <1>00 DEF CoveredAt, Applied
    <3>4. CASE ~(smod[u] > mark)
      <4>0. rows'[u] = IF u \in delta /\ snap[u] # Absent THEN snap[u] ELSE rows[u]
        BY <2>3, <3>2, <3>4, <1>0, <1>00
      <4>1. snap[u] = msgs[u] /\ (u \notin delta => smod[u] <= since)
        BY <3>1, <3>2, <3>4 DEF Fresh
      <4>2. rows[u] # msgs[u]
        BY <4>0, <3>2, <4>1
      <4>3. smod[u] > cmod
        BY <3>2, <4>2 DEF Holds, Covered, CoveredAt, Wrong, Differs
      <4>4. u \in delta
        BY <2>2, <4>1, <4>3, <1>0, <1>00
      <4>5. snap[u] = Absent
        BY <4>0, <3>2, <4>1, <4>4
      <4>6. pc' = "idle" \/ Dropped(u)'
        BY <2>1, <4>1, <4>4, <4>5 DEF Dropped, Applied
      <4> QED BY <2>1, <4>3, <4>6 DEF CoveredAt, Applied
    <3> QED BY <3>3, <3>4
  <2>8. Fetching'
    BY <2>1, <2>4 DEF Holds, Fetching, Missing, Cached, Reaching
  <2> QED BY <2>1, <2>5, <2>6, <2>7, <2>8 DEF Holds
<1>9. ASSUME Vanish PROVE Holds'
  <2>1. /\ WorkerFrame /\ cmod' = cmod /\ pc = "vanish"
        /\ \/ /\ pc' = "max"
              /\ stat' = stat /\ since' = since /\ snap' = snap
              /\ delta' = delta /\ mark' = mark /\ told' = told
           \/ pc' = "idle" /\ mark' = 0
    BY <1>9, <1>f DEF Vanish, Onward, Finish, Goto, folder
  <2>0. \A u \in Uid : Nothing[u] = Absent
    BY DEF Nothing
  <2>2. \A u \in Uid :
          \/ rows'[u] = IF u \in delta /\ snap[u] = Absent THEN Absent ELSE rows[u]
          \/ rows'[u] = rows[u] /\ (u \in leak' \/ ~(smod[u] <= mark))
    BY <1>9, <2>0 DEF Vanish, Written, Forgotten
  <2>3. \A u \in Uid : u \in delta /\ snap[u] = Absent => msgs[u] = Absent
    BY <2>1 DEF Holds, Reported, ReportedDelta
  <2>4. Numbers'
    BY <2>1, <2>2, <1>00 DEF Holds, Numbers, Known, Applied, Reaching
  <2>5. Reported'
    BY <2>1 DEF Reported, ReportedDelta, ReportedNew, ReportedAll
  <2>6. ASSUME NEW u \in Uid, Wrong(u)' PROVE CoveredAt(u)'
    <3>1. Wrong(u) /\ (~(u \in delta /\ snap[u] = Absent) \/ smod[u] > mark)
      BY <2>1, <2>2, <2>6, <1>0, <1>00 DEF Wrong, Differs
    <3>2. CoveredAt(u)
      BY <3>1 DEF Holds, Covered
    <3> QED BY <2>1, <3>1, <3>2 DEF CoveredAt, Dropped, Applied
  <2>7. Fetching'
    BY <2>1, <2>2, <2>3 DEF Holds, Fetching, Missing, Cached, Reaching
  <2> QED BY <2>1, <2>4, <2>5, <2>6, <2>7 DEF Holds, Covered
<1>10. ASSUME Tally \/ Sweep PROVE Holds'
  <2>1. /\ WorkerFrame /\ rows' = rows /\ cmod' = cmod /\ pc \in {"tally", "sweep"}
        /\ pc' \in {"sweep", "max", "sweepdb"}
        /\ stat' = stat /\ since' = since /\ leak' = leak
        /\ mark' = mark /\ told' = told
    BY <1>10, <1>f DEF Tally, Sweep, Goto, folder
  <2>2. Numbers'
    BY <2>1 DEF Holds, Numbers, Known, Applied, Reaching
  <2>3. Reported'
    BY <2>1 DEF Reported, ReportedDelta, ReportedNew, ReportedAll
  <2>4. Covered'
    BY <2>1 DEF Holds, Covered, CoveredAt, Wrong, Differs, Applied, Dropped
  <2>5. Fetching'
    BY <2>1 DEF Holds, Fetching, Missing, Cached, Reaching
  <2> QED BY <2>1, <2>2, <2>3, <2>4, <2>5 DEF Holds
<1>11. ASSUME SweepDb PROVE Holds'
  <2>1. /\ WorkerFrame /\ cmod' = cmod /\ pc = "sweepdb"
        /\ \/ /\ pc' = "max" /\ stat' = stat /\ since' = since /\ mark' = mark /\ told' = told
           \/ pc' = "idle" /\ mark' = 0
    BY <1>11, <1>f DEF SweepDb, Onward, Finish, Goto, folder
  <2>0. /\ \A u \in Uid : rows'[u] = Absent \/ rows'[u] = rows[u]
        /\ leak' = leak \cup Leaks(rows')
    <3>1. \A S : \A u \in Uid : \/ Written(S, Nothing)[u] = Absent
                              \/ Written(S, Nothing)[u] = rows[u]
      BY DEF Written, Nothing
    <3> QED BY <1>11, <3>1 DEF SweepDb, WriteRows
  <2>2. Numbers'
    BY <2>0, <2>1, <1>00 DEF Holds, Numbers, Known, Applied, Reaching
  <2>3. Reported'
    BY <2>1 DEF Reported, ReportedDelta, ReportedNew, ReportedAll
  <2>4. ASSUME NEW u \in Uid, Wrong(u)' PROVE CoveredAt(u)'
    <3>1. Wrong(u)
      BY <2>0, <2>1, <2>4 DEF Wrong, Differs
    <3>2. CoveredAt(u)
      BY <3>1 DEF Holds, Covered
    <3> QED BY <2>0, <2>1, <3>1, <3>2 DEF CoveredAt, Dropped, Applied
  <2>5. \A u \in Uid : Missing(u)' => Missing(u)
    BY <2>0, <2>1 DEF Missing, Leaks
  <2>6. Fetching'
    BY <2>0, <2>1, <2>5 DEF Holds, Fetching, Cached, Reaching
  <2> QED BY <2>1, <2>2, <2>3, <2>4, <2>6 DEF Holds, Covered
<1>12. ASSUME MaxCached PROVE Holds'
  <2>1. /\ WorkerFrame /\ rows' = rows /\ cmod' = cmod /\ pc = "max" /\ pc' \in {"fetch", "mark"}
        /\ stat' = stat /\ since' = since /\ mark' = mark /\ told' = told /\ leak' = leak
        /\ above' = AboveCached \/ above' = Uid
    BY <1>12, <1>f DEF MaxCached, Goto, folder
  <2>2. \A u \in Uid : u \in AboveCached <=> \A v \in Uid : rows[v] # Absent => v < u
    BY DEF AboveCached, Cached
  <2>3. \A u \in Uid : u \notin AboveCached => u < next
    BY <2>2, <1>0, <1>00 DEF Uid
  <2>4. Numbers'
    BY <2>1, <2>3 DEF Holds, Numbers, Known, Applied
  <2>5. Reported'
    BY <2>1 DEF Reported, ReportedDelta, ReportedNew, ReportedAll
  <2>6. Covered'
    BY <2>1 DEF Holds, Covered, CoveredAt, Wrong, Differs, Applied, Dropped
  <2>7. Fetching'
    BY <2>1, <2>2 DEF Holds, Fetching, Missing, Cached
  <2> QED BY <2>1, <2>4, <2>5, <2>6, <2>7 DEF Holds
<1>13. ASSUME FetchNew PROVE Holds'
  <2>1. /\ WorkerFrame /\ rows' = rows /\ cmod' = cmod /\ pc \in {"fetch", "fullnew"}
    BY <1>13, <1>f DEF FetchNew, folder
  <2>2. CASE Finish
    BY <2>1, <2>2, FinishKeeps
  <2>3. CASE ~Finish
    <3>a. \/ Onward("mark") /\ pc = "fetch"
          \/ /\ \/ snap' = fetch_headers(above)
                \/ \E S \in SUBSET (above \cap Present) :
                      /\ snap' = fetch_headers(S)
                      /\ leak' = leak \cup {u \in (above \cap Present) \ S :
                                              \E v \in S : u < v}
             /\ Goto(IF pc = "fetch" THEN "store" ELSE "fullstore")
             /\ UNCHANGED <<wval, since, stat, told, delta, mark, above, old>>
      BY <1>13, <2>3, Zenon DEF FetchNew
    <3>b. above \in SUBSET Uid
      BY DEF Typed, WorkerType
    <3>1. /\ stat' = stat /\ since' = since /\ mark' = mark /\ told' = told /\ above' = above
          /\ \/ pc = "fetch" /\ pc' = "mark"
             \/ /\ pc' = IF pc = "fetch" THEN "store" ELSE "fullstore"
                /\ \E S \in SUBSET Uid :
                      /\ snap' = fetch_headers(S) /\ S \subseteq above
                      /\ S = above \/ {u \in (above \cap Present) \ S : \E v \in S : u < v} \subseteq leak'
      <4>1. CASE Onward("mark") /\ pc = "fetch"
        BY <4>1, <2>3 DEF Onward, Goto
      <4> DEFINE Got(S) == /\ snap' = fetch_headers(S) /\ S \subseteq above
                           /\ \/ S = above
                              \/ {u \in (above \cap Present) \ S : \E v \in S : u < v} \subseteq leak'
      <4>2. ASSUME snap' = fetch_headers(above) PROVE \E S \in SUBSET Uid : Got(S)
        BY <4>2, <3>b
      <4>3. ASSUME NEW S \in SUBSET (above \cap Present), snap' = fetch_headers(S),
                   leak' = leak \cup {u \in (above \cap Present) \ S : \E v \in S : u < v}
            PROVE  \E T \in SUBSET Uid : Got(T)
        <5>1. S \in SUBSET Uid /\ S \subseteq above
          BY <3>b
        <5>2. {u \in (above \cap Present) \ S : \E v \in S : u < v} \subseteq leak'
          BY <4>3
        <5> QED BY <5>1, <5>2, <4>3
      <4>4. \/ Onward("mark") /\ pc = "fetch"
            \/ /\ \E S \in SUBSET Uid : Got(S)
               /\ Goto(IF pc = "fetch" THEN "store" ELSE "fullstore")
               /\ UNCHANGED <<wval, since, stat, told, delta, mark, above, old>>
        <5> HIDE DEF Got
        <5> QED BY <3>a, <4>2, <4>3
      <4>5. CASE ~(Onward("mark") /\ pc = "fetch")
        <5>1. \E S \in SUBSET Uid : Got(S)
          BY <4>4, <4>5
        <5> HIDE DEF Got
        <5>2. /\ stat' = stat /\ since' = since /\ mark' = mark /\ told' = told /\ above' = above
              /\ pc' = IF pc = "fetch" THEN "store" ELSE "fullstore"
          BY <4>4, <4>5 DEF Goto
        <5> USE DEF Got
        <5> QED BY <5>1, <5>2
      <4> HIDE DEF Got
      <4> QED BY <4>1, <4>5
    <3>2. Numbers'
      BY <2>1, <3>1 DEF Holds, Numbers, Known, Applied, Reaching
    <3>3. \A S \in SUBSET Uid, u \in Uid :
              fetch_headers(S)[u] = IF u \in S THEN msgs[u] ELSE Absent
      BY DEF fetch_headers
    <3>4. ASSUME pc' = "mark" PROVE Reported'
      BY <3>4 DEF Reported, ReportedDelta, ReportedNew, ReportedAll
    <3>5. ASSUME pc' \in {"store", "fullstore"} PROVE Reported'
      <4>1. PICK S \in SUBSET Uid :
                  /\ snap' = fetch_headers(S) /\ S \subseteq above
                  /\ S = above \/ {u \in (above \cap Present) \ S : \E v \in S : u < v} \subseteq leak'
        BY <3>1, <3>5
      <4>2. \A u \in Uid : snap'[u] = IF u \in S THEN msgs[u] ELSE Absent
        BY <3>3, <4>1
      <4>3. ASSUME NEW u \in above, u \in Uid, msgs[u] # Absent, u \notin S, u \notin leak', NEW v \in S
            PROVE  v < u
        <5>1. ~(u < v) /\ v \in Uid
          BY <4>1, <4>3 DEF Present
        <5> QED BY <4>3, <5>1 DEF Uid
      <4> QED BY <2>1, <3>1, <3>5, <4>2, <4>3, <1>0 DEF Reported, ReportedDelta, ReportedNew, ReportedAll
    <3>6. Covered'
      BY <2>1, <3>1 DEF Holds, Covered, CoveredAt, Wrong, Differs, Applied, Dropped
    <3>7. Fetching'
      BY <2>1, <3>1 DEF Holds, Fetching, Missing, Cached, Reaching
    <3>8. Reported'
      BY <3>1, <3>4, <3>5 DEF Reported, ReportedDelta, ReportedNew, ReportedAll
    <3> QED BY <2>1, <3>2, <3>6, <3>7, <3>8 DEF Holds
  <2> QED BY <2>2, <2>3
<1>14. ASSUME StoreNew PROVE Holds'
  <2>1. /\ WorkerFrame /\ cmod' = cmod /\ pc \in {"store", "fullstore"}
        /\ \/ pc' = "idle" /\ mark' = 0
           \/ pc = "store" /\ pc' = "mark" /\ stat' = stat /\ since' = since /\ mark' = mark /\ told' = told
    BY <1>14, <1>f DEF StoreNew, Onward, Finish, Goto, folder
  <2>2. \/ rows' = rows
        \/ \A u \in Uid :
             \/ rows'[u] = IF snap[u] # Absent THEN snap[u] ELSE rows[u]
             \/ u \in leak' /\ snap[u] # Absent /\ rows'[u] = rows[u]
    BY <1>14 DEF StoreNew, Written
  <2>3. \A u \in Uid :
          /\ snap[u] # Absent => u < next
          /\ snap[u] # Absent /\ snap[u] # msgs[u] =>
                Fresh(u, IF pc = "store" THEN mark ELSE cmod)
          /\ u \in above /\ msgs[u] # Absent =>
                \/ snap[u] # Absent \/ u \in leak
                \/ \A v \in Uid : snap[v] # Absent => v < u
    BY <2>1 DEF Holds, Reported, ReportedNew
  <2>4. pc = "store" => cmod <= mark
    BY <2>1 DEF Holds, Numbers, Applied
  <2>5. Numbers'
    BY <2>1, <2>2, <2>3, <1>00 DEF Holds, Numbers, Known, Applied, Reaching
  <2>6. Reported'
    BY <2>1 DEF Reported, ReportedDelta, ReportedNew, ReportedAll
  <2>7. ASSUME NEW u \in Uid, Wrong(u)' PROVE CoveredAt(u)'
    <3>1. CASE rows'[u] = rows[u]
      <4>1. Wrong(u)
        BY <2>1, <2>7, <3>1 DEF Wrong, Differs
      <4>2. CoveredAt(u)
        BY <4>1 DEF Holds, Covered
      <4> QED BY <2>1, <4>2 DEF CoveredAt, Applied, Dropped
    <3>2. CASE rows'[u] # rows[u]
      <4>1. snap[u] # Absent /\ snap[u] # msgs[u] /\ u \notin leak
        BY <2>1, <2>2, <2>7, <3>2 DEF Wrong, Differs
      <4>2. smod[u] > IF pc = "store" THEN mark ELSE cmod
        BY <2>3, <4>1 DEF Fresh
      <4> QED BY <2>1, <2>4, <4>2, <1>0, <1>00 DEF CoveredAt, Applied
    <3> QED BY <3>1, <3>2
  <2>8. ASSUME NEW u \in Uid, Missing(u)' PROVE (\A v \in Cached' : v < u) \/ Behind(u)'
    <3>1. Missing(u) /\ msgs[u] # Absent /\ (rows' = rows \/ snap[u] = Absent)
      BY <2>1, <2>2, <2>8 DEF Missing
    <3>2. CASE Behind(u)
      BY <2>1, <3>2
    <3>3. CASE ~Behind(u)
      <4>1. u \in above /\ \A v \in Uid : rows[v] # Absent => v < u
        BY <2>1, <3>1, <3>3 DEF Holds, Fetching, Cached, Reaching
      <4>2. CASE rows' = rows
        BY <4>1, <4>2 DEF Cached
      <4>3. CASE snap[u] = Absent /\ rows' # rows
        <5>1. \A v \in Uid : snap[v] # Absent => v < u
          BY <2>3, <3>1, <4>1, <4>3 DEF Missing
        <5>2. \A v \in Uid : rows'[v] # Absent => v < u
          BY <2>2, <4>1, <4>3, <5>1
        <5> QED BY <5>2 DEF Cached
      <4> QED BY <3>1, <4>2, <4>3
    <3> QED BY <3>2, <3>3
  <2>9. Fetching'
    BY <2>1, <2>8 DEF Fetching, Reaching
  <2> QED BY <2>1, <2>5, <2>6, <2>7, <2>9 DEF Holds, Covered
<1>20. ASSUME MarkSynced \/ FullEmpty, UNCHANGED folder PROVE Holds'
  BY <1>20, <1>f, FinishKeeps DEF MarkSynced, FullEmpty, folder
<1>15. ASSUME MarkSynced \/ FullEmpty, ~UNCHANGED folder PROVE Holds'
  <2>1. /\ WorkerFrame /\ rows' = rows /\ pc \in {"mark", "emptymark"}
        /\ pc' = "idle" /\ mark' = 0
        /\ cmod' = IF pc = "mark" THEN mark ELSE stat.mod
        /\ pc = "mark" /\ ~told => {u \in Cached \ Present : smod[u] <= mark} \subseteq leak'
    BY <1>15, <1>f DEF MarkSynced, FullEmpty, Finish
  <2>2. cmod' <= top /\ (cap = "plain" => cmod' = 0)
    BY <2>1 DEF Holds, Numbers, Known, Applied
  <2>3. Numbers'
    BY <2>1, <2>2, <1>00 DEF Holds, Numbers, Known, Applied, Reaching
  <2>4. Reported'
    BY <2>1 DEF Reported, ReportedDelta, ReportedNew, ReportedAll
  <2>5. ASSUME NEW u \in Uid, Wrong(u)' PROVE CoveredAt(u)'
    <3>1. Wrong(u)
      BY <2>1, <2>5 DEF Wrong, Differs
    <3>2. CoveredAt(u)
      BY <3>1 DEF Holds, Covered
    <3>3. pc = "mark" /\ ~told => ~(msgs[u] = Absent /\ smod[u] <= mark)
      BY <2>1, <2>5 DEF Wrong, Cached, Present
    <3>4. smod[u] > cmod'
      BY <2>1, <3>2, <3>3, <1>0, <1>00 DEF CoveredAt, Applied, Dropped
    <3> QED BY <2>1, <3>4 DEF CoveredAt, Applied
  <2>6. Fetching'
    BY <2>1 DEF Holds, Fetching, Missing, Cached, Reaching
  <2> QED BY <2>1, <2>3, <2>4, <2>5, <2>6 DEF Holds, Covered
<1>16. ASSUME FullRead PROVE Holds'
  <2>1. /\ WorkerFrame /\ rows' = rows /\ cmod' = cmod /\ pc = "full" /\ leak' = leak
        /\ pc' = IF Cached = {} THEN "emptymark" ELSE "fullfetch"
        /\ stat' = stat /\ since' = since /\ mark' = mark /\ told' = told
        /\ above' = AboveCached /\ old' = rows
    BY <1>16, <1>f DEF FullRead, Goto, folder, Quiet
  <2>2. \A u \in Uid : u \in AboveCached <=> \A v \in Uid : rows[v] # Absent => v < u
    BY DEF AboveCached, Cached
  <2>3. \A u \in Uid : u \notin AboveCached => u < next
    BY <2>2, <1>0, <1>00 DEF Uid
  <2>4. Numbers'
    BY <2>1, <2>3 DEF Holds, Numbers, Known, Applied
  <2>5. Reported'
    BY <2>1, <1>0 DEF Reported, ReportedDelta, ReportedNew, ReportedAll
  <2>6. Covered'
    BY <2>1 DEF Holds, Covered, CoveredAt, Wrong, Differs, Applied, Cached
  <2>7. Fetching'
    BY <2>1, <2>2 DEF Holds, Fetching, Missing, Cached
  <2> QED BY <2>1, <2>4, <2>5, <2>6, <2>7 DEF Holds
<1>17. ASSUME FullFetch PROVE Holds'
  <2>1. CASE Finish
    BY <1>17, <1>f, <2>1, FinishKeeps DEF FullFetch, folder
  <2>2. CASE ~Finish
    <3>1. /\ WorkerFrame /\ rows' = rows /\ cmod' = cmod /\ pc = "fullfetch"
          /\ pc' = "fullapply"
          /\ stat' = stat /\ since' = since /\ mark' = mark /\ told' = told
          /\ above' = above /\ old' = old
      BY <1>17, <1>f, <2>2 DEF FullFetch, Goto, folder
    <3>0. \A u \in Uid : old[u] # Absent => snap'[u] = msgs[u] \/ u \in leak'
      <4>1. \E S \in SUBSET Present :
               /\ snap' = fetch_uids_and_flags(S)
               /\ S = Present \/ leak' = leak \cup {u \in Present \ S : old[u] # Absent}
        BY <1>17, <2>2 DEF FullFetch
      <4> QED BY <4>1 DEF fetch_uids_and_flags, Present
    <3>2. Numbers'
      BY <3>1 DEF Holds, Numbers, Known, Applied, Reaching
    <3>3. Reported'
      BY <3>0, <3>1 DEF Holds, Reported, ReportedDelta, ReportedNew, ReportedAll, Fresh
    <3>4. Covered'
      BY <3>1 DEF Holds, Covered, CoveredAt, Wrong, Differs, Applied
    <3>5. Fetching'
      BY <3>1 DEF Holds, Fetching, Missing, Cached, Reaching
    <3> QED BY <3>1, <3>2, <3>3, <3>4, <3>5 DEF Holds
  <2> QED BY <2>1, <2>2
<1>18. ASSUME FullApply PROVE Holds'
  <2>1. /\ WorkerFrame /\ pc = "fullapply"
        /\ cmod' = stat.mod \/ cmod' = cmod
        /\ \/ pc' = "fullnew" /\ stat' = stat /\ above' = above /\ mark' = mark
           \/ pc' = "idle" /\ mark' = 0
    BY <1>18, <1>f DEF FullApply, Onward, Goto, Finish, folder
  <2>0. \A u \in Uid :
          \/ rows'[u] = IF old[u] # Absent /\ old[u] # snap[u] /\ rows[u] # Absent
                       THEN snap[u] ELSE rows[u]
          \/ /\ rows'[u] = rows[u] /\ (u \in leak' \/ ~(smod[u] <= stat.mod))
             /\ rows[u] # Absent
    BY <1>18 DEF FullApply, Written, Forgotten, Cached
  <2>2. \A u \in Uid :
          /\ old[u] # Absent /\ snap[u] # msgs[u] => Fresh(u, stat.mod)
          /\ old[u] # Absent /\ snap[u] = Absent => msgs[u] = Absent \/ u \in leak
    BY <2>1 DEF Holds, Reported, ReportedAll
  <2>3. cmod <= stat.mod /\ stat.mod <= top /\ (cap = "plain" => stat.mod = 0 /\ cmod = 0)
    BY <2>1 DEF Holds, Numbers, Known
  <2>4. \A u \in Uid : rows'[u] # Absent => rows[u] # Absent
    BY <2>0
  <2>5. Numbers'
    BY <2>1, <2>3, <2>4, <1>00 DEF Holds, Numbers, Known, Applied, Reaching
  <2>6. Reported'
    BY <2>1 DEF Reported, ReportedDelta, ReportedNew, ReportedAll
  <2>7. ASSUME NEW u \in Uid, Wrong(u)' PROVE CoveredAt(u)'
    <3>1. /\ u \notin leak /\ u \notin leak'
          /\ rows'[u] # Absent /\ rows'[u] # msgs[u] /\ rows[u] # Absent
      BY <2>1, <2>4, <2>7 DEF Wrong, Differs
    <3>2. smod[u] > stat.mod
      <4>1. CASE old[u] # Absent /\ snap[u] # msgs[u]
        BY <2>2, <3>1, <4>1 DEF Fresh
      <4>2. CASE ~(smod[u] <= stat.mod)
        BY <4>2, <1>0, <1>00
      <4>3. CASE (old[u] = Absent \/ snap[u] = msgs[u]) /\ smod[u] <= stat.mod
        <5>1. rows'[u] = rows[u] /\ (old[u] = Absent \/ old[u] = snap[u])
          BY <2>0, <3>1, <4>3
        <5>2. rows[u] # old[u]
          BY <3>1, <4>3, <5>1
        <5> QED BY <2>1, <3>1, <5>1, <5>2 DEF Holds, Covered, CoveredAt, Wrong, Differs
      <4> QED BY <4>1, <4>2, <4>3
    <3> QED BY <2>1, <2>3, <3>2, <1>0, <1>00 DEF CoveredAt, Applied
  <2>8. \A u \in Uid : Missing(u)' => Missing(u)
    BY <2>0, <2>1, <2>2 DEF Missing
  <2>9. Fetching'
    BY <2>1, <2>4, <2>8 DEF Holds, Fetching, Cached, Reaching
  <2> QED BY <2>1, <2>5, <2>6, <2>7, <2>9 DEF Holds, Covered
<1>19. ASSUME Cut PROVE Holds'
  <2>1. CASE Finish
    BY <1>19, <1>f, <2>1, FinishKeeps DEF Cut, folder
  <2>2. CASE ~Finish
    <3>1. /\ WorkerFrame /\ rows' = rows /\ cmod' = cmod /\ leak' = leak
          /\ pc' = pc /\ since' = since /\ stat' = stat /\ told' = told /\ delta' = delta
          /\ snap' = snap /\ mark' = mark /\ above' = above /\ old' = old
      BY <1>19, <1>f, <2>2 DEF Cut, folder
    <3>2. Numbers'
      BY <3>1 DEF Holds, Numbers, Known
    <3>3. Reported'
      BY <3>1 DEF Holds, Reported, ReportedDelta, ReportedNew, ReportedAll, Fresh
    <3>4. Covered'
      BY <3>1 DEF Holds, Covered, CoveredAt, Wrong, Differs, Dropped
    <3>5. Fetching'
      BY <3>1 DEF Holds, Fetching, Missing, Cached
    <3> QED BY <3>1, <3>2, <3>3, <3>4, <3>5 DEF Holds
  <2> QED BY <2>1, <2>2
<1> QED BY <1>1, <1>2, <1>3, <1>4, <1>5, <1>6, <1>7, <1>8, <1>9, <1>10, <1>11, <1>12,
           <1>13, <1>14, <1>15, <1>16, <1>17, <1>18, <1>19, <1>20 DEF Cycle, Advance

\* What is leaked stays so, and a new UIDVALIDITY or a second cycle leaks everything.
LEMMA LeakGrows ==
    ASSUME Typed, Typed', [Next]_vars
    PROVE  /\ leak \subseteq leak'
           /\ sval' = sval \/ (sval' # 1 /\ leak' = Uid)
<1>0. leak \subseteq Uid /\ sval \in Nat \ {0}
  BY DEF Typed, RowsType, ServerType
<1>1. CASE Server
  <2>1. CASE Rebuild
    BY <1>0, <2>1 DEF Rebuild
  <2>2. CASE ~Rebuild
    BY <1>1, <2>2 DEF Server, Deliver, Reflag, Expunge, Remove
  <2> QED BY <2>1, <2>2
<1>2. CASE Start \/ Advance
  <2>1. leak \subseteq leak'
    <3>1. Start => leak' = leak
      BY DEF Start, Quiet
    <3>2. Status \/ Invalidate \/ SkipUnchanged \/ CountDiffers \/ AskQresync \/ AskCondstore
            \/ AskFails \/ Apply \/ Vanish \/ Tally => leak \subseteq leak'
      BY DEF Quiet, Status, Invalidate, SkipUnchanged, CountDiffers, AskQresync, AskCondstore,
         AskFails, Apply, Vanish, Tally
    <3>3. Sweep \/ SweepDb \/ MaxCached \/ FetchNew \/ StoreNew \/ MarkSynced \/ FullRead
            \/ FullEmpty \/ FullFetch \/ FullApply \/ Cut => leak \subseteq leak'
      BY DEF Quiet, Sweep, SweepDb, MaxCached, FetchNew, StoreNew, MarkSynced, FullRead,
         FullEmpty, FullFetch, FullApply, Cut, WriteRows
    <3> QED BY <1>2, <3>1, <3>2, <3>3 DEF Advance, Cycle
  <2> QED BY <1>2, <2>1 DEF Start, Advance, server
<1>3. CASE Overlap
  BY <1>0, <1>3 DEF Overlap, server
<1>4. CASE RivalAdvance
  <2>1. leak \subseteq leak'
    <3>2. Rival!Status \/ Rival!Invalidate \/ Rival!SkipUnchanged \/ Rival!CountDiffers
            \/ Rival!AskQresync \/ Rival!AskCondstore \/ Rival!AskFails \/ Rival!Apply
            \/ Rival!Vanish \/ Rival!Tally => leak \subseteq leak'
      BY DEF Rival!Quiet, Rival!Status, Rival!Invalidate, Rival!SkipUnchanged,
         Rival!CountDiffers, Rival!AskQresync, Rival!AskCondstore, Rival!AskFails, Rival!Apply,
         Rival!Vanish, Rival!Tally
    <3>3. Rival!Sweep \/ Rival!SweepDb \/ Rival!MaxCached \/ Rival!FetchNew \/ Rival!StoreNew
            \/ Rival!MarkSynced \/ Rival!FullRead \/ Rival!FullEmpty \/ Rival!FullFetch
            \/ Rival!FullApply \/ Rival!Cut => leak \subseteq leak'
      BY DEF Rival!Quiet, Rival!Sweep, Rival!SweepDb, Rival!MaxCached, Rival!FetchNew,
         Rival!StoreNew, Rival!MarkSynced, Rival!FullRead, Rival!FullEmpty, Rival!FullFetch,
         Rival!FullApply, Rival!Cut, Rival!WriteRows
    <3> QED BY <1>4, <3>2, <3>3 DEF RivalAdvance, Rival!Cycle
  <2> QED BY <1>4, <2>1 DEF RivalAdvance, server
<1>5. ASSUME NEW r \in Requests, Request(r) PROVE leak \subseteq leak' /\ sval' = sval
  BY <1>5 DEF Request, Proceed, FlagStore, FlagRows, FlagRead, FlagUpdate, AllStore, AllRows,
     RemoveMail, RemoveRows, OpenFails, ListCheck, ListSelect, ListDecide, ListHeaders,
     ListPaint, ListSpawn, Lost, server, WriteRows, Remove
<1>6. CASE OlderFetch \/ OlderStore
  BY <1>6 DEF OlderFetch, OlderStore, WriteRows, server
<1>7. CASE UNCHANGED vars
  BY <1>7 DEF vars, server
<1> QED BY <1>1, <1>2, <1>3, <1>4, <1>5, <1>6, <1>7 DEF Next

\* A second cycle steps only when there is one.
LEMMA RivalSteps == ASSUME RivalAdvance PROVE pc2 # "idle"
<1>1. Rival!Status \/ Rival!Invalidate \/ Rival!SkipUnchanged \/ Rival!CountDiffers
        \/ Rival!AskQresync \/ Rival!AskCondstore \/ Rival!AskFails \/ Rival!Apply
        \/ Rival!Vanish \/ Rival!Tally => pc2 # "idle"
  BY DEF Rival!Status, Rival!Invalidate, Rival!SkipUnchanged, Rival!CountDiffers,
     Rival!AskQresync, Rival!AskCondstore, Rival!AskFails, Rival!Apply, Rival!Vanish, Rival!Tally
<1>2. Rival!Sweep \/ Rival!SweepDb \/ Rival!MaxCached \/ Rival!FetchNew \/ Rival!StoreNew
        \/ Rival!MarkSynced \/ Rival!FullRead \/ Rival!FullEmpty \/ Rival!FullFetch
        \/ Rival!FullApply \/ Rival!Cut => pc2 # "idle"
  BY DEF Rival!Sweep, Rival!SweepDb, Rival!MaxCached, Rival!FetchNew, Rival!StoreNew,
     Rival!MarkSynced, Rival!FullRead, Rival!FullEmpty, Rival!FullFetch, Rival!FullApply, Rival!Cut
<1> QED BY <1>1, <1>2 DEF RivalAdvance, Rival!Cycle

\* The invariant holds at first.
LEMMA InitHolds == Init => MailboxInv
<1> SUFFICES ASSUME Init PROVE MailboxInv
  OBVIOUS
<1>1. Typed
  BY InitTyped
<1>2. Numbers
  BY DEF Init, CycleInit, Numbers, Known, Nothing, Applied, Reaching
<1>3. Reported
  BY DEF Init, CycleInit, Reported, ReportedDelta, ReportedNew, ReportedAll
<1>4. Covered /\ Fetching
  BY DEF Init, CycleInit, Covered, Wrong, Fetching, Missing, Differs, Nothing
<1>5. Painting
  BY DEF Init, Painting, RequestHolds, BackgroundHolds, NoReq, NoBg
<1>6. pc2 = "idle" /\ First
  BY DEF Init, Rival!CycleInit, First
<1> QED BY <1>1, <1>2, <1>3, <1>4, <1>5, <1>6 DEF MailboxInv, Holds

\* The invariant is inductive: as long as something is not leaked by the steps
\* above, and from then on because everything is.
LEMMA NextHolds == MailboxInv /\ [Next]_vars => MailboxInv'
<1> SUFFICES ASSUME MailboxInv, [Next]_vars PROVE MailboxInv'
  OBVIOUS
<1>1. Typed /\ Typed'
  BY NextTyped DEF MailboxInv
<1>2. leak \subseteq leak' /\ (sval' = sval \/ leak' = Uid)
  BY <1>1, LeakGrows
<1>3. ASSUME leak' # Uid PROVE First' /\ pc2' = "idle" /\ Holds'
  <2>0. leak' \subseteq Uid /\ leak \subseteq Uid
    BY <1>1 DEF Typed, RowsType
  <2>1. First /\ pc2 = "idle" /\ Holds
    BY <1>2, <1>3, <2>0 DEF MailboxInv
  <2>2. First'
    BY <1>2, <1>3, <2>1 DEF First
  <2>3. ~RivalAdvance /\ ~Overlap
    BY <1>3, <2>1, RivalSteps DEF Overlap
  <2>4. CASE UNCHANGED vars
    <3>1. Entrusted
      BY <2>4 DEF Entrusted, Behind, vars
    <3>2. /\ Numbers' /\ Reported' /\ Covered' /\ BackgroundHolds' /\ Fetching'
          /\ \A q : RequestHolds(q) => RequestHolds(q)'
      BY <1>1, <2>1, <2>4, <3>1, QuietKeeps DEF vars, folder, worker, server
    <3>3. Painting'
      BY <2>1, <2>4, <3>2 DEF vars, Painting, Holds, RequestHolds
    <3>4. pc2' = pc2
      BY <2>4 DEF vars, worker, rival
    <3> QED BY <2>1, <2>2, <3>2, <3>3, <3>4 DEF Holds
  <2>5. CASE Start \/ Advance
    <3>1. Holds'
      BY <1>1, <1>2, <2>1, <2>5, CycleHolds
    <3>2. pc2' = pc2
      BY <2>5 DEF Start, Advance, rival
    <3> QED BY <2>1, <2>2, <3>1, <3>2
  <2>6. CASE Server
    <3>1. Holds'
      BY <1>1, <2>1, <2>2, <2>6, ServerHolds
    <3>2. pc2' = pc2
      BY <2>6 DEF Server, Deliver, Reflag, Expunge, Rebuild, worker, rival
    <3> QED BY <2>1, <2>2, <3>1, <3>2
  <2>7. ASSUME NEW r \in Requests, Request(r) PROVE Holds' /\ pc2' = "idle"
    <3>1. Holds'
      BY <1>1, <1>2, <2>1, <2>2, <2>7, RequestStepHolds
    <3>2. pc2' = pc2
      BY <2>7 DEF Request, Proceed, FlagStore, FlagRows, FlagRead, FlagUpdate, AllStore,
         AllRows, RemoveMail, RemoveRows, OpenFails, ListCheck, ListSelect, ListDecide,
         ListHeaders, ListPaint, ListSpawn, Lost, worker, rival
    <3> QED BY <2>1, <3>1, <3>2
  <2>8. CASE OlderFetch \/ OlderStore
    <3>1. Holds'
      BY <1>1, <1>2, <2>1, <2>2, <2>8, BackgroundStepHolds
    <3>2. pc2' = pc2
      BY <2>8 DEF OlderFetch, OlderStore, worker, rival
    <3> QED BY <2>1, <2>2, <3>1, <3>2
  <2> QED BY <2>2, <2>3, <2>4, <2>5, <2>6, <2>7, <2>8 DEF Next
<1> QED BY <1>1, <1>3 DEF MailboxInv

\* It says of every difference what Accounted says.
LEMMA HoldsAccounted == MailboxInv => Accounted
<1> SUFFICES ASSUME MailboxInv, NEW u \in Uid, u \notin leak, Differs(u)
             PROVE  IF rows[u] = Absent THEN Fetched(u) ELSE Revisited(u) \/ Dropped(u)
  BY DEF Accounted
<1>1. Holds /\ Typed
  BY DEF MailboxInv
<1>2. CASE rows[u] = Absent
  <2>1. (\A v \in Cached : v < u) \/ Behind(u)
    BY <1>1, <1>2 DEF Holds, Fetching, Missing, Differs
  <2> QED BY <1>2, <2>1 DEF Fetched, Behind
<1>3. CASE rows[u] # Absent
  <2>1. CoveredAt(u)
    BY <1>1, <1>3 DEF Holds, Covered, Wrong
  <2> QED BY <1>1, <1>3, <2>1 DEF CoveredAt, Revisited, Horizon, Max2, FullTier, Typed,
             ServerType, FolderType, WorkerType, StatusSet, Differs, Wrong
<1> QED BY <1>2, <1>3

\* Every difference between a folder and its cache is one the sync still has in
\* hand, or one that `leak' has collected: a refused statement, a cut answer, a
\* dropped page, two cycles at once (realtime/sync.rs:98, sync.rs:480).
THEOREM MailboxAccounted == Spec => []Accounted
<1>1. Init => MailboxInv
  BY InitHolds
<1>2. MailboxInv /\ [Next]_vars => MailboxInv'
  BY NextHolds
<1>3. MailboxInv => Accounted
  BY HoldsAccounted
<1> QED BY <1>1, <1>2, <1>3, PTL DEF Spec

-----------------------------------------------------------------------------
(* The stored number, whatever is leaked and with any cycle beside another *)

\* Numbers lie below the server's; a server without them leaves none.
ServerMarks ==
    /\ \A u \in Uid : smod[u] <= top
    /\ cmod <= top
    /\ cap = "plain" => cmod = 0

\* A cycle at l that began with the number n, will store m after a delta, and k
\* after sync_full, stores neither more than the server's nor less than n.
CycleMarks(l, n, m, k) ==
    /\ n <= top /\ m <= top
    /\ cap = "plain" => n = 0
    /\ l \notin {"idle", "status"} =>
          /\ n <= k /\ k <= top
          /\ cap = "plain" => k = 0
    /\ l \in {"count", "delta", "apply"} \cup Applied => cap # "plain"
    /\ l \in {"apply"} \cup Applied => n <= m

Marks ==
    /\ ServerMarks
    /\ CycleMarks(pc, since, mark, stat.mod)
    /\ CycleMarks(pc2, since2, mark2, stat2.mod)

\* The numbers are numbers.
LEMMA MarkTypes ==
    ASSUME Typed
    PROVE  /\ top \in Nat \ {0} /\ cmod \in Nat /\ \A u \in Uid : smod[u] \in Nat
           /\ since \in Nat /\ mark \in Nat /\ stat.mod \in Nat
           /\ since2 \in Nat /\ mark2 \in Nat /\ stat2.mod \in Nat
BY DEF Typed, ServerType, FolderType, WorkerType, RivalType, StatusSet, Copies

\* A step of the first cycle.
LEMMA CycleMarked ==
    ASSUME Typed, Typed', Marks, Start \/ Advance
    PROVE  /\ Marks'
           /\ cmod' # cmod => cmod' <= top' /\ pc' # pc /\ since <= cmod'
<1> USE MarkTypes
<1>0. /\ UNCHANGED <<cap, smod, top, sval, msgs>>
      /\ UNCHANGED <<pc2, since2, mark2, stat2>>
  BY DEF Start, Advance, server, rival, locals
<1>1. CycleMarks(pc2, since2, mark2, stat2.mod)'
  BY <1>0 DEF Marks, CycleMarks
<1>2. /\ ServerMarks /\ CycleMarks(pc, since, mark, stat.mod)
  BY DEF Marks
\* Enough of a step: where it leaves the cycle, and what it leaves there.
<1>a. ASSUME cmod' = cmod, CycleMarks(pc, since, mark, stat.mod)'
      PROVE  Marks' /\ cmod' = cmod
  BY <1>0, <1>1, <1>2, <1>a DEF Marks, ServerMarks
<1>b. ASSUME cmod' = cmod, Finish PROVE Marks' /\ cmod' = cmod
  <2>1. CycleMarks(pc, since, mark, stat.mod)'
    BY <1>b, <1>0, MarkTypes DEF Finish, NoStat, CycleMarks, Applied
  <2> QED BY <1>a, <1>b, <2>1
<1>c. ASSUME cmod' = cmod, pc' \notin {"count", "delta", "apply"} \cup Applied,
             pc \notin {"idle", "status"},
             since' = since, mark' = mark, stat' = stat
      PROVE  Marks' /\ cmod' = cmod
  <2>1. CycleMarks(pc, since, mark, stat.mod)'
    BY <1>c, <1>0, <1>2 DEF CycleMarks
  <2> QED BY <1>a, <1>c, <2>1
<1>d. ASSUME cmod' = cmod, pc \in {"apply"} \cup Applied, pc' \in {"apply"} \cup Applied,
             since' = since, mark' = mark, stat' = stat
      PROVE  Marks' /\ cmod' = cmod
  <2>1. CycleMarks(pc, since, mark, stat.mod)'
    BY <1>d, <1>0, <1>2 DEF CycleMarks, Applied
  <2> QED BY <1>a, <1>d, <2>1
<1>3. CASE Start
  <2>1. /\ cmod' = cmod /\ pc' = "status" /\ since' = cmod /\ mark' = mark /\ stat' = stat
    BY <1>3 DEF Start, Wake, Goto, folder
  <2>2. CycleMarks(pc, since, mark, stat.mod)'
    BY <1>0, <1>2, <2>1 DEF CycleMarks, ServerMarks, Applied
  <2> QED BY <1>a, <2>1, <2>2
<1>4. CASE Status
  <2>1. cmod' = cmod /\ pc = "status"
    BY <1>4 DEF Status, folder
  <2>2. CASE Finish
    BY <1>b, <2>1, <2>2
  <2>3. CASE ~Finish
    <3>1. /\ since' = since /\ mark' = mark /\ stat' = StatusAnswer
          /\ pc' = Tier(StatusAnswer)
      BY <1>4, <2>3 DEF Status, Goto
    <3>2. stat'.mod = IF cap = "plain" THEN 0 ELSE top
      BY <3>1 DEF StatusAnswer
    <3>3. /\ pc' \in {"rebuilt", "count", "delta", "full"}
          /\ pc' \in {"count", "delta"} => stat'.mod > 0
      BY <3>1 DEF Tier
    <3>4. CycleMarks(pc, since, mark, stat.mod)'
      BY <1>0, <1>2, <3>1, <3>2, <3>3 DEF CycleMarks, Applied
    <3> QED BY <1>a, <2>1, <3>4
  <2> QED BY <2>2, <2>3
<1>5. CASE Invalidate \/ SkipUnchanged
  <2>1. cmod' = cmod /\ Finish
    BY <1>5 DEF Invalidate, SkipUnchanged, folder
  <2> QED BY <1>b, <2>1
<1>6. CASE CountDiffers
  <2>1. /\ cmod' = cmod /\ pc = "count" /\ pc' = "delta"
        /\ since' = since /\ mark' = mark /\ stat' = stat
    BY <1>6 DEF CountDiffers, Goto, folder
  <2>2. CycleMarks(pc, since, mark, stat.mod)'
    BY <1>0, <1>2, <2>1 DEF CycleMarks, Applied
  <2> QED BY <1>a, <2>1, <2>2
<1>7. CASE AskQresync
  <2>1. /\ cmod' = cmod /\ pc = "delta" /\ pc' = "apply" /\ since' = since /\ stat' = stat
    BY <1>7 DEF AskQresync, Goto, folder
  <2>2. mark' = stat.mod \/ \E u \in ChangedSince : mark' = smod[u]
    BY <1>7 DEF AskQresync
  <2>3. \A u \in ChangedSince : u \in Uid /\ smod[u] > since
    BY DEF ChangedSince
  <2>4. since <= mark' /\ mark' <= top
    BY <1>2, <2>1, <2>2, <2>3 DEF CycleMarks, ServerMarks
  <2>5. CycleMarks(pc, since, mark, stat.mod)'
    BY <1>0, <1>2, <2>1, <2>4 DEF CycleMarks, Applied
  <2> QED BY <1>a, <2>1, <2>5
<1>8. CASE AskCondstore
  <2>1. /\ cmod' = cmod /\ pc = "delta" /\ pc' = "apply" /\ since' = since /\ stat' = stat
        /\ mark' = top
    BY <1>8 DEF AskCondstore, Goto, folder
  <2>2. CycleMarks(pc, since, mark, stat.mod)'
    BY <1>0, <1>2, <2>1 DEF CycleMarks, Applied
  <2> QED BY <1>a, <2>1, <2>2
<1>9. CASE AskFails
  <2>1. /\ cmod' = cmod /\ pc = "delta" /\ pc' = "full" /\ since' = since /\ stat' = stat
        /\ mark' = mark
    BY <1>9 DEF AskFails, Goto, folder
  <2> QED BY <1>c, <2>1 DEF Applied
<1>10. CASE Apply \/ Vanish \/ SweepDb \/ StoreNew
  <2>1. cmod' = cmod
    BY <1>10 DEF Apply, Vanish, SweepDb, StoreNew, folder
  <2>2. CASE Finish
    BY <1>b, <2>1, <2>2
  <2>3. CASE ~Finish
    <3>1. /\ pc \in {"apply", "vanish", "sweepdb", "store"}
          /\ pc' \in {"vanish", "tally", "max", "mark"}
          /\ since' = since /\ mark' = mark /\ stat' = stat
      BY <1>10, <2>3 DEF Apply, Vanish, SweepDb, StoreNew, Onward, Goto
    <3> QED BY <1>d, <2>1, <3>1 DEF Applied
  <2> QED BY <2>2, <2>3
<1>11. CASE Tally \/ Sweep \/ MaxCached
  <2>1. /\ cmod' = cmod /\ pc \in {"tally", "sweep", "max"}
        /\ pc' \in {"sweep", "max", "sweepdb", "fetch", "mark"}
        /\ since' = since /\ mark' = mark /\ stat' = stat
    BY <1>11 DEF Tally, Sweep, MaxCached, Goto, folder
  <2> QED BY <1>d, <2>1 DEF Applied
<1>12. CASE FetchNew
  <2>1. cmod' = cmod
    BY <1>12 DEF FetchNew, folder
  <2>2. CASE Finish
    BY <1>b, <2>1, <2>2
  <2>3. CASE ~Finish
    <3>1. /\ \/ pc = "fetch" /\ pc' \in {"store", "mark"}
             \/ pc = "fullnew" /\ pc' = "fullstore"
          /\ since' = since /\ mark' = mark /\ stat' = stat
      BY <1>12, <2>3 DEF FetchNew, Onward, Goto
    <3> QED BY <1>c, <1>d, <2>1, <3>1 DEF Applied
  <2> QED BY <2>2, <2>3
<1>13. CASE MarkSynced \/ FullEmpty
  <2>1. Finish /\ pc \in {"mark", "emptymark"}
    BY <1>13 DEF MarkSynced, FullEmpty
  <2>2. CASE cmod' = cmod
    BY <1>b, <2>1, <2>2
  <2>3. CASE cmod' # cmod
    <3>1. \/ pc = "mark" /\ cmod' = mark
          \/ pc = "emptymark" /\ cmod' = stat.mod
      BY <1>13, <2>3 DEF MarkSynced, FullEmpty, folder
    <3>2. since <= cmod' /\ cmod' <= top /\ (cap = "plain" => cmod' = 0)
      BY <1>2, <3>1 DEF CycleMarks, Applied
    <3>3. CycleMarks(pc, since, mark, stat.mod)' /\ pc' = "idle"
      BY <1>0, <2>1 DEF Finish, NoStat, CycleMarks, Applied
    <3> QED BY <1>0, <1>1, <1>2, <2>1, <3>2, <3>3 DEF Marks, ServerMarks
  <2> QED BY <2>2, <2>3
<1>14. CASE FullRead
  <2>1. /\ cmod' = cmod /\ pc = "full" /\ pc' \in {"emptymark", "fullfetch"}
        /\ since' = since /\ mark' = mark /\ stat' = stat
    BY <1>14 DEF FullRead, Goto, folder
  <2> QED BY <1>c, <2>1 DEF Applied
<1>15. CASE FullFetch
  <2>1. cmod' = cmod
    BY <1>15 DEF FullFetch, folder
  <2>2. CASE Finish
    BY <1>b, <2>1, <2>2
  <2>3. CASE ~Finish
    <3>1. /\ pc = "fullfetch" /\ pc' = "fullapply"
          /\ since' = since /\ mark' = mark /\ stat' = stat
      BY <1>15, <2>3 DEF FullFetch, Goto
    <3> QED BY <1>c, <2>1, <3>1 DEF Applied
  <2> QED BY <2>2, <2>3
<1>16. CASE FullApply
  <2>1. /\ pc = "fullapply" /\ pc' \in {"idle", "fullnew"}
        /\ Finish \/ (since' = since /\ mark' = mark /\ stat' = stat)
    BY <1>16 DEF FullApply, Onward, Goto, Finish
  <2>2. CASE cmod' = cmod
    <3>1. CASE Finish
      BY <1>b, <2>2, <3>1
    <3>2. CASE ~Finish
      BY <1>c, <2>1, <2>2, <3>2 DEF Applied
    <3> QED BY <3>1, <3>2
  <2>3. CASE cmod' # cmod
    <3>1. cmod' = stat.mod
      BY <1>16, <2>3 DEF FullApply, folder
    <3>2. since <= cmod' /\ cmod' <= top /\ (cap = "plain" => cmod' = 0)
      BY <1>2, <2>1, <3>1 DEF CycleMarks
    <3>3. CycleMarks(pc, since, mark, stat.mod)'
      <4>1. CASE Finish
        BY <1>0, <4>1 DEF Finish, NoStat, CycleMarks, Applied
      <4>2. CASE ~Finish
        BY <1>0, <1>2, <2>1, <4>2 DEF CycleMarks, Applied
      <4> QED BY <4>1, <4>2
    <3> QED BY <1>0, <1>1, <1>2, <2>1, <3>2, <3>3 DEF Marks, ServerMarks
  <2> QED BY <2>2, <2>3
<1>17. CASE Cut
  <2>1. cmod' = cmod
    BY <1>17 DEF Cut, folder
  <2>2. CASE Finish
    BY <1>b, <2>1, <2>2
  <2>3. CASE ~Finish
    <3>1. pc' = pc /\ since' = since /\ mark' = mark /\ stat' = stat
      BY <1>17, <2>3 DEF Cut
    <3>2. CycleMarks(pc, since, mark, stat.mod)'
      BY <1>0, <1>2, <3>1 DEF CycleMarks
    <3> QED BY <1>a, <2>1, <3>2
  <2> QED BY <2>2, <2>3
<1> QED BY <1>3, <1>4, <1>5, <1>6, <1>7, <1>8, <1>9, <1>10, <1>11, <1>12, <1>13, <1>14,
           <1>15, <1>16, <1>17 DEF Cycle, Advance

\* A step of the second.
LEMMA RivalMarked ==
    ASSUME Typed, Typed', Marks, Overlap \/ RivalAdvance
    PROVE  /\ Marks'
           /\ cmod' # cmod => cmod' <= top' /\ pc2' # pc2 /\ since2 <= cmod'
<1> USE MarkTypes
<1>0. /\ UNCHANGED <<cap, smod, top, sval, msgs>>
      /\ UNCHANGED <<pc, since, mark, stat>>
  BY DEF Overlap, RivalAdvance, server, rival, locals
<1>1. CycleMarks(pc, since, mark, stat.mod)'
  BY <1>0 DEF Marks, CycleMarks
<1>2. /\ ServerMarks /\ CycleMarks(pc2, since2, mark2, stat2.mod)
  BY DEF Marks
<1> USE RivalSame
\* Enough of a step: where it leaves the cycle, and what it leaves there.
<1>a. ASSUME cmod' = cmod, CycleMarks(pc2, since2, mark2, stat2.mod)'
      PROVE  Marks' /\ cmod' = cmod
  BY <1>0, <1>1, <1>2, <1>a DEF Marks, ServerMarks
<1>b. ASSUME cmod' = cmod, Rival!Finish PROVE Marks' /\ cmod' = cmod
  <2>1. CycleMarks(pc2, since2, mark2, stat2.mod)'
    BY <1>b, <1>0, MarkTypes DEF Rival!Finish, Rival!NoStat, CycleMarks, Applied
  <2> QED BY <1>a, <1>b, <2>1
<1>c. ASSUME cmod' = cmod, pc2' \notin {"count", "delta", "apply"} \cup Applied,
             pc2 \notin {"idle", "status"},
             since2' = since2, mark2' = mark2, stat2' = stat2
      PROVE  Marks' /\ cmod' = cmod
  <2>1. CycleMarks(pc2, since2, mark2, stat2.mod)'
    BY <1>c, <1>0, <1>2 DEF CycleMarks
  <2> QED BY <1>a, <1>c, <2>1
<1>d. ASSUME cmod' = cmod, pc2 \in {"apply"} \cup Applied, pc2' \in {"apply"} \cup Applied,
             since2' = since2, mark2' = mark2, stat2' = stat2
      PROVE  Marks' /\ cmod' = cmod
  <2>1. CycleMarks(pc2, since2, mark2, stat2.mod)'
    BY <1>d, <1>0, <1>2 DEF CycleMarks, Applied
  <2> QED BY <1>a, <1>d, <2>1
<1>3. CASE Overlap
  <2>1. /\ cmod' = cmod /\ pc2' = "status" /\ since2' = cmod /\ mark2' = mark2 /\ stat2' = stat2
    BY <1>3 DEF Overlap, Rival!Wake, Rival!Goto, folder, Rival!folder
  <2>2. CycleMarks(pc2, since2, mark2, stat2.mod)'
    BY <1>0, <1>2, <2>1 DEF CycleMarks, ServerMarks, Applied
  <2> QED BY <1>a, <2>1, <2>2
<1>4. CASE Rival!Status
  <2>1. cmod' = cmod /\ pc2 = "status"
    BY <1>4 DEF Rival!Status, folder, Rival!folder
  <2>2. CASE Rival!Finish
    BY <1>b, <2>1, <2>2
  <2>3. CASE ~Rival!Finish
    <3>1. /\ since2' = since2 /\ mark2' = mark2 /\ stat2' = Rival!StatusAnswer
          /\ pc2' = Rival!Tier(Rival!StatusAnswer)
      BY <1>4, <2>3 DEF Rival!Status, Rival!Goto
    <3>2. stat2'.mod = IF cap = "plain" THEN 0 ELSE top
      BY <3>1 DEF Rival!StatusAnswer
    <3>3. /\ pc2' \in {"rebuilt", "count", "delta", "full"}
          /\ pc2' \in {"count", "delta"} => stat2'.mod > 0
      BY <3>1 DEF Rival!Tier
    <3>4. CycleMarks(pc2, since2, mark2, stat2.mod)'
      BY <1>0, <1>2, <3>1, <3>2, <3>3 DEF CycleMarks, Applied
    <3> QED BY <1>a, <2>1, <3>4
  <2> QED BY <2>2, <2>3
<1>5. CASE Rival!Invalidate \/ Rival!SkipUnchanged
  <2>1. cmod' = cmod /\ Rival!Finish
    BY <1>5 DEF Rival!Invalidate, Rival!SkipUnchanged, folder, Rival!folder
  <2> QED BY <1>b, <2>1
<1>6. CASE Rival!CountDiffers
  <2>1. /\ cmod' = cmod /\ pc2 = "count" /\ pc2' = "delta"
        /\ since2' = since2 /\ mark2' = mark2 /\ stat2' = stat2
    BY <1>6 DEF Rival!CountDiffers, Rival!Goto, folder, Rival!folder
  <2>2. CycleMarks(pc2, since2, mark2, stat2.mod)'
    BY <1>0, <1>2, <2>1 DEF CycleMarks, Applied
  <2> QED BY <1>a, <2>1, <2>2
<1>7. CASE Rival!AskQresync
  <2>1. /\ cmod' = cmod /\ pc2 = "delta" /\ pc2' = "apply" /\ since2' = since2 /\ stat2' = stat2
    BY <1>7 DEF Rival!AskQresync, Rival!Goto, folder, Rival!folder
  <2>2. mark2' = stat2.mod \/ \E u \in Rival!ChangedSince : mark2' = smod[u]
    BY <1>7 DEF Rival!AskQresync
  <2>3. \A u \in Rival!ChangedSince : u \in Uid /\ smod[u] > since2
    BY DEF Rival!ChangedSince
  <2>4. since2 <= mark2' /\ mark2' <= top
    BY <1>2, <2>1, <2>2, <2>3 DEF CycleMarks, ServerMarks
  <2>5. CycleMarks(pc2, since2, mark2, stat2.mod)'
    BY <1>0, <1>2, <2>1, <2>4 DEF CycleMarks, Applied
  <2> QED BY <1>a, <2>1, <2>5
<1>8. CASE Rival!AskCondstore
  <2>1. /\ cmod' = cmod /\ pc2 = "delta" /\ pc2' = "apply" /\ since2' = since2 /\ stat2' = stat2
        /\ mark2' = top
    BY <1>8 DEF Rival!AskCondstore, Rival!Goto, folder, Rival!folder
  <2>2. CycleMarks(pc2, since2, mark2, stat2.mod)'
    BY <1>0, <1>2, <2>1 DEF CycleMarks, Applied
  <2> QED BY <1>a, <2>1, <2>2
<1>9. CASE Rival!AskFails
  <2>1. /\ cmod' = cmod /\ pc2 = "delta" /\ pc2' = "full" /\ since2' = since2 /\ stat2' = stat2
        /\ mark2' = mark2
    BY <1>9 DEF Rival!AskFails, Rival!Goto, folder, Rival!folder
  <2> QED BY <1>c, <2>1 DEF Applied
<1>10. CASE Rival!Apply \/ Rival!Vanish \/ Rival!SweepDb \/ Rival!StoreNew
  <2>1. cmod' = cmod
    BY <1>10 DEF Rival!Apply, Rival!Vanish, Rival!SweepDb, Rival!StoreNew, folder, Rival!folder
  <2>2. CASE Rival!Finish
    BY <1>b, <2>1, <2>2
  <2>3. CASE ~Rival!Finish
    <3>1. /\ pc2 \in {"apply", "vanish", "sweepdb", "store"}
          /\ pc2' \in {"vanish", "tally", "max", "mark"}
          /\ since2' = since2 /\ mark2' = mark2 /\ stat2' = stat2
      BY <1>10, <2>3 DEF Rival!Apply, Rival!Vanish, Rival!SweepDb, Rival!StoreNew, Rival!Onward, Rival!Goto
    <3> QED BY <1>d, <2>1, <3>1 DEF Applied
  <2> QED BY <2>2, <2>3
<1>11. CASE Rival!Tally \/ Rival!Sweep \/ Rival!MaxCached
  <2>1. /\ cmod' = cmod /\ pc2 \in {"tally", "sweep", "max"}
        /\ pc2' \in {"sweep", "max", "sweepdb", "fetch", "mark"}
        /\ since2' = since2 /\ mark2' = mark2 /\ stat2' = stat2
    BY <1>11 DEF Rival!Tally, Rival!Sweep, Rival!MaxCached, Rival!Goto, folder, Rival!folder
  <2> QED BY <1>d, <2>1 DEF Applied
<1>12. CASE Rival!FetchNew
  <2>1. cmod' = cmod
    BY <1>12 DEF Rival!FetchNew, folder, Rival!folder
  <2>2. CASE Rival!Finish
    BY <1>b, <2>1, <2>2
  <2>3. CASE ~Rival!Finish
    <3>1. /\ \/ pc2 = "fetch" /\ pc2' \in {"store", "mark"}
             \/ pc2 = "fullnew" /\ pc2' = "fullstore"
          /\ since2' = since2 /\ mark2' = mark2 /\ stat2' = stat2
      BY <1>12, <2>3 DEF Rival!FetchNew, Rival!Onward, Rival!Goto
    <3> QED BY <1>c, <1>d, <2>1, <3>1 DEF Applied
  <2> QED BY <2>2, <2>3
<1>13. CASE Rival!MarkSynced \/ Rival!FullEmpty
  <2>1. Rival!Finish /\ pc2 \in {"mark", "emptymark"}
    BY <1>13 DEF Rival!MarkSynced, Rival!FullEmpty
  <2>2. CASE cmod' = cmod
    BY <1>b, <2>1, <2>2
  <2>3. CASE cmod' # cmod
    <3>1. \/ pc2 = "mark" /\ cmod' = mark2
          \/ pc2 = "emptymark" /\ cmod' = stat2.mod
      BY <1>13, <2>3 DEF Rival!MarkSynced, Rival!FullEmpty, folder, Rival!folder
    <3>2. since2 <= cmod' /\ cmod' <= top /\ (cap = "plain" => cmod' = 0)
      BY <1>2, <3>1 DEF CycleMarks, Applied
    <3>3. CycleMarks(pc2, since2, mark2, stat2.mod)' /\ pc2' = "idle"
      BY <1>0, <2>1 DEF Rival!Finish, Rival!NoStat, CycleMarks, Applied
    <3> QED BY <1>0, <1>1, <1>2, <2>1, <3>2, <3>3 DEF Marks, ServerMarks
  <2> QED BY <2>2, <2>3
<1>14. CASE Rival!FullRead
  <2>1. /\ cmod' = cmod /\ pc2 = "full" /\ pc2' \in {"emptymark", "fullfetch"}
        /\ since2' = since2 /\ mark2' = mark2 /\ stat2' = stat2
    BY <1>14 DEF Rival!FullRead, Rival!Goto, folder, Rival!folder
  <2> QED BY <1>c, <2>1 DEF Applied
<1>15. CASE Rival!FullFetch
  <2>1. cmod' = cmod
    BY <1>15 DEF Rival!FullFetch, folder, Rival!folder
  <2>2. CASE Rival!Finish
    BY <1>b, <2>1, <2>2
  <2>3. CASE ~Rival!Finish
    <3>1. /\ pc2 = "fullfetch" /\ pc2' = "fullapply"
          /\ since2' = since2 /\ mark2' = mark2 /\ stat2' = stat2
      BY <1>15, <2>3 DEF Rival!FullFetch, Rival!Goto
    <3> QED BY <1>c, <2>1, <3>1 DEF Applied
  <2> QED BY <2>2, <2>3
<1>16. CASE Rival!FullApply
  <2>1. /\ pc2 = "fullapply" /\ pc2' \in {"idle", "fullnew"}
        /\ Rival!Finish \/ (since2' = since2 /\ mark2' = mark2 /\ stat2' = stat2)
    BY <1>16 DEF Rival!FullApply, Rival!Onward, Rival!Goto, Rival!Finish
  <2>2. CASE cmod' = cmod
    <3>1. CASE Rival!Finish
      BY <1>b, <2>2, <3>1
    <3>2. CASE ~Rival!Finish
      BY <1>c, <2>1, <2>2, <3>2 DEF Applied
    <3> QED BY <3>1, <3>2
  <2>3. CASE cmod' # cmod
    <3>1. cmod' = stat2.mod
      BY <1>16, <2>3 DEF Rival!FullApply, folder, Rival!folder
    <3>2. since2 <= cmod' /\ cmod' <= top /\ (cap = "plain" => cmod' = 0)
      BY <1>2, <2>1, <3>1 DEF CycleMarks
    <3>3. CycleMarks(pc2, since2, mark2, stat2.mod)'
      <4>1. CASE Rival!Finish
        BY <1>0, <4>1 DEF Rival!Finish, Rival!NoStat, CycleMarks, Applied
      <4>2. CASE ~Rival!Finish
        BY <1>0, <1>2, <2>1, <4>2 DEF CycleMarks, Applied
      <4> QED BY <4>1, <4>2
    <3> QED BY <1>0, <1>1, <1>2, <2>1, <3>2, <3>3 DEF Marks, ServerMarks
  <2> QED BY <2>2, <2>3
<1>17. CASE Rival!Cut
  <2>1. cmod' = cmod
    BY <1>17 DEF Rival!Cut, folder, Rival!folder
  <2>2. CASE Rival!Finish
    BY <1>b, <2>1, <2>2
  <2>3. CASE ~Rival!Finish
    <3>1. pc2' = pc2 /\ since2' = since2 /\ mark2' = mark2 /\ stat2' = stat2
      BY <1>17, <2>3 DEF Rival!Cut
    <3>2. CycleMarks(pc2, since2, mark2, stat2.mod)'
      BY <1>0, <1>2, <3>1 DEF CycleMarks
    <3> QED BY <1>a, <2>1, <3>2
  <2> QED BY <2>2, <2>3
<1> QED BY <1>3, <1>4, <1>5, <1>6, <1>7, <1>8, <1>9, <1>10, <1>11, <1>12, <1>13, <1>14,
           <1>15, <1>16, <1>17 DEF Rival!Cycle, RivalAdvance

\* Everybody else lets the stored number and the cycles be, and the server's numbers grow.
LEMMA OthersMark ==
    ASSUME Typed, Typed', First', Marks, UNCHANGED <<worker, cmod, cap>>, top <= top',
           \A u \in Uid : smod'[u] = smod[u] \/ smod'[u] <= top'
    PROVE  Marks'
<1>1. /\ UNCHANGED <<pc, since, mark, stat>> /\ UNCHANGED <<pc2, since2, mark2, stat2>>
  BY DEF worker, locals, rival
<1>t. /\ top' \in Nat /\ cmod' \in Nat /\ \A u \in Uid : smod'[u] \in Nat
  BY DEF Typed, ServerType, FolderType
<1>2. ServerMarks'
  BY <1>t, MarkTypes DEF Marks, ServerMarks
<1>3. CycleMarks(pc, since, mark, stat.mod)' /\ CycleMarks(pc2, since2, mark2, stat2.mod)'
  <2>1. \A n \in Nat : n <= top => n <= top'
    BY <1>t, MarkTypes
  <2>2. ASSUME NEW l, NEW n \in Nat, NEW m \in Nat, NEW k \in Nat, CycleMarks(l, n, m, k),
               NEW L, NEW N \in Nat, NEW M \in Nat, NEW K \in Nat,
               L = l, N = n, M = m, K = k
        PROVE  /\ N <= top' /\ M <= top'
               /\ cap' = "plain" => N = 0
               /\ L \notin {"idle", "status"} =>
                     /\ N <= K /\ K <= top'
                     /\ cap' = "plain" => K = 0
               /\ L \in {"count", "delta", "apply"} \cup Applied => cap' # "plain"
               /\ L \in {"apply"} \cup Applied => N <= M
    BY <2>1, <2>2 DEF CycleMarks
  <2> QED BY <1>1, <2>2, MarkTypes DEF Marks, CycleMarks
<1> QED BY <1>2, <1>3 DEF Marks

\* The server's step that is no new UIDVALIDITY.
LEMMA ServerMarked ==
    ASSUME Typed, Typed', First', Marks, Server
    PROVE  Marks' /\ cmod' = cmod
<1>1. ~Rebuild
  BY DEF Rebuild, First, Typed, ServerType
<1>2. UNCHANGED <<worker, cmod, cap>>
  BY <1>1 DEF Server, Deliver, Reflag, Expunge, folder
<1>3. /\ top <= top'
      /\ \A u \in Uid : smod'[u] = smod[u] \/ smod'[u] <= top'
  <2>1. CASE Deliver
    BY <2>1, MarkTypes DEF Deliver, Typed, ServerType
  <2>2. ASSUME NEW u \in Uid, NEW f \in FlagSets, Reflag(u, f)
        PROVE  /\ top <= top'
               /\ \A v \in Uid : smod'[v] = smod[v] \/ smod'[v] <= top'
    BY <2>2, MarkTypes DEF Reflag, Store
  <2>3. ASSUME NEW u \in Uid, Expunge(u)
        PROVE  /\ top <= top'
               /\ \A v \in Uid : smod'[v] = smod[v] \/ smod'[v] <= top'
    BY <2>3, MarkTypes DEF Expunge, Remove
  <2> QED BY <1>1, <2>1, <2>2, <2>3 DEF Server
<1> QED BY <1>2, <1>3, OthersMark

\* A request leaves the stored number alone.
LEMMA RequestMarked ==
    ASSUME Typed, Typed', First', Marks, NEW r \in Requests, Request(r)
    PROVE  Marks' /\ cmod' = cmod
<1>1. UNCHANGED <<worker, cmod, cap>>
  <2>1. FlagStore(r) \/ AllStore(r) \/ RemoveMail(r) \/ (\E u \in Uid : OpenFails(r, u))
          => UNCHANGED <<worker, cmod, cap>>
    BY DEF FlagStore, AllStore, RemoveMail, OpenFails, folder, server
  <2>2. ListCheck(r) \/ Lost(r) \/ Proceed(r) => UNCHANGED <<worker, cmod, cap>>
    BY DEF ListCheck, Lost, Proceed, FlagRows, FlagRead, FlagUpdate, AllRows, RemoveRows,
       ListSelect, ListDecide, ListHeaders, ListPaint, ListSpawn, folder, server
  <2> QED BY <2>1, <2>2 DEF Request
<1>2. /\ top <= top'
      /\ \A u \in Uid : smod'[u] = smod[u] \/ smod'[u] <= top'
  <2>1. CASE FlagStore(r) \/ AllStore(r) \/ RemoveMail(r)
    <3>1. ASSUME NEW S, NEW f, Store(S, f)
          PROVE  /\ top <= top'
                 /\ \A u \in Uid : smod'[u] = smod[u] \/ smod'[u] <= top'
      BY <3>1, MarkTypes DEF Store
    <3>2. ASSUME NEW S, Remove(S)
          PROVE  /\ top <= top'
                 /\ \A u \in Uid : smod'[u] = smod[u] \/ smod'[u] <= top'
      BY <3>2, MarkTypes DEF Remove
    <3>3. (\E S, f : Store(S, f)) \/ (\E S : Remove(S))
      BY <2>1, Zenon DEF FlagStore, AllStore, RemoveMail
    <3> QED BY <3>1, <3>2, <3>3
  <2>2. CASE ~(FlagStore(r) \/ AllStore(r) \/ RemoveMail(r))
    <3>1. UNCHANGED server
      BY <2>2 DEF Request, Proceed, OpenFails, ListCheck, Lost, FlagRows, FlagRead,
         FlagUpdate, AllRows, RemoveRows, ListSelect, ListDecide, ListHeaders, ListPaint,
         ListSpawn
    <3> QED BY <3>1, MarkTypes DEF server
  <2> QED BY <2>1, <2>2
<1> QED BY <1>1, <1>2, OthersMark

\* What MarkSound says of a step, with what it takes to say it of the next.
LEMMA MarkStep ==
    ASSUME Typed, Typed', Marks, [Next]_vars, sval' = 1
    PROVE  /\ Marks'
           /\ cmod' # cmod => /\ cmod' <= top'
                              /\ \/ pc' # pc /\ since <= cmod'
                                 \/ pc2' # pc2 /\ since2 <= cmod'
<1>0. First'
  BY DEF First
<1>1. CASE Start \/ Advance
  BY <1>1, CycleMarked
<1>2. CASE Overlap \/ RivalAdvance
  BY <1>2, RivalMarked
<1>3. CASE Server
  BY <1>0, <1>3, ServerMarked
<1>4. ASSUME NEW r \in Requests, Request(r) PROVE Marks' /\ cmod' = cmod
  BY <1>0, <1>4, RequestMarked
<1>5. CASE OlderFetch \/ OlderStore
  <2>1. UNCHANGED <<worker, cmod, server>>
    BY <1>5 DEF OlderFetch, OlderStore, folder
  <2> QED BY <1>0, <2>1, OthersMark, MarkTypes DEF server
<1>6. CASE UNCHANGED vars
  BY <1>0, <1>6, OthersMark, MarkTypes DEF vars, folder, server
<1> QED BY <1>1, <1>2, <1>3, <1>4, <1>5, <1>6 DEF Next

\* Under one UIDVALIDITY the stored number never passes the server's, and no cycle
\* stores one below that which it began with, also beside another cycle and after
\* whatever was refused or cut (realtime/sync.rs:504-512).
THEOREM MailboxMarkSound == Spec => MarkSound
<1> DEFINE MarksInv == Typed /\ (First => Marks)
<1>1. Init => MarksInv
  <2>1. Init => Typed
    BY InitTyped
  <2>2. Init => Marks
    BY DEF Init, CycleInit, Rival!CycleInit, Rival!NoStat, NoStat, Marks, ServerMarks,
       CycleMarks, Applied
  <2> QED BY <2>1, <2>2
<1>2. MarksInv /\ [Next]_vars => MarksInv'
  <2> SUFFICES ASSUME MarksInv, [Next]_vars PROVE MarksInv'
    OBVIOUS
  <2>1. Typed /\ Typed'
    BY NextTyped
  <2>2. ASSUME First' PROVE Marks'
    <3>1. First
      BY <2>1, <2>2, LeakGrows DEF First
    <3> QED BY <2>1, <2>2, <3>1, MarkStep DEF First
  <2> QED BY <2>1, <2>2
<1>3. MarksInv /\ MarksInv' /\ [Next]_vars
        => [sval' = 1 /\ cmod' # cmod =>
              /\ cmod' <= top'
              /\ \/ pc' # pc /\ since <= cmod'
                 \/ pc2' # pc2 /\ since2 <= cmod']_vars
  <2> SUFFICES ASSUME MarksInv, MarksInv', [Next]_vars, sval' = 1, cmod' # cmod
               PROVE  /\ cmod' <= top'
                      /\ \/ pc' # pc /\ since <= cmod'
                         \/ pc2' # pc2 /\ since2 <= cmod'
    OBVIOUS
  <2>1. First
    BY LeakGrows DEF First
  <2> QED BY <2>1, MarkStep
<1> HIDE DEF MarksInv
<1> QED BY <1>1, <1>2, <1>3, PTL DEF Spec, MarkSound

-----------------------------------------------------------------------------
(* Tier 1: equal counts, and what they were counts of                       *)

\* What the STATUS answer counted and is still there or has changed since.
Early == {u \in Uid : u < stat.next /\ (msgs[u] # Absent \/ smod[u] > stat.mod)}

\* That of the answer is the number of these, and whatever came later has a later number.
CountedAt ==
    /\ stat.exists = Cardinality(Early)
    /\ \A u \in Uid : u >= stat.next /\ msgs[u] # Absent => smod[u] > stat.mod

\* This is so while the cycle compares the counts.
Counted == pc = "count" /\ leak = {} /\ leak # Uid => CountedAt

\* No cycle compares counts at first.
LEMMA CountedInit == Init => Counted
BY DEF Init, CycleInit, Counted

\* The server may take from what was counted only with a new number.
LEMMA CountedNext == MailboxInv /\ MailboxInv' /\ Counted /\ [Next]_vars => Counted'
<1> SUFFICES ASSUME MailboxInv, MailboxInv', Counted, [Next]_vars,
                    pc' = "count", leak' = {}, leak' # Uid
             PROVE  CountedAt'
  BY DEF Counted
<1>0. Typed /\ Typed' /\ leak = {} /\ leak # Uid
  BY LeakGrows DEF MailboxInv
<1>1. Typed /\ Typed' /\ First /\ First' /\ Holds /\ Holds' /\ pc2 = "idle"
  BY <1>0 DEF MailboxInv
<1>2. /\ top \in Nat /\ next \in Nat /\ stat.mod \in Nat /\ stat.next \in Nat
      /\ \A u \in Uid : smod[u] \in Nat /\ smod'[u] \in Nat /\ u \in Nat
  <2>1. top \in Nat /\ next \in Nat /\ smod \in [Uid -> Nat] /\ smod' \in [Uid -> Nat]
    BY <1>0 DEF Typed, ServerType
  <2>2. stat.mod \in Nat /\ stat.next \in Nat
    BY <1>0 DEF Typed, WorkerType, StatusSet
  <2>3. \A u \in Uid : u \in Nat
    BY DEF Uid
  <2> QED BY <2>1, <2>2, <2>3
<1>3. CASE Status /\ UNCHANGED server
  <2>1. stat' = StatusAnswer /\ UNCHANGED <<msgs, smod, cap>>
    BY <1>3 DEF Status, Finish, server
  <2>2. cap # "plain"
    BY <1>1, <2>1 DEF Holds, Numbers
  <2>3. stat'.next = next /\ stat'.mod = top /\ stat'.exists = Cardinality(Present)
    BY <2>1, <2>2 DEF StatusAnswer
  <2>4. \A u \in Uid : smod[u] <= top /\ (msgs[u] # Absent => u < next)
    BY <1>1 DEF Holds, Numbers
  <2>5. Early' = Present
    BY <1>2, <2>1, <2>3, <2>4 DEF Early, Present
  <2> QED BY <1>2, <2>1, <2>3, <2>4, <2>5 DEF CountedAt
<1>4. ASSUME Drift, stat' = stat, pc = "count" PROVE CountedAt'
  <2>1. stat.next <= next /\ stat.mod <= top
    BY <1>1, <1>4 DEF Holds, Numbers, Known
  <2>2. CountedAt
    BY <1>0, <1>4 DEF Counted
  <2>3. \A u \in Uid :
          /\ \/ smod'[u] = smod[u] /\ msgs'[u] = msgs[u]
             \/ top < smod'[u]
          /\ msgs'[u] # Absent => u < next' /\ (msgs[u] # Absent \/ next <= u)
          /\ next <= u /\ u < next' => top < smod'[u]
          /\ msgs[u] # Absent \/ next <= u \/ smod'[u] = smod[u]
    BY <1>4 DEF Drift
  <2>4. \A u \in Uid : u < stat.next => (u \in Early' <=> u \in Early)
    BY <1>2, <1>4, <2>1, <2>3 DEF Early
  <2>5. Early' = Early
    BY <1>4, <2>4 DEF Early
  <2>6. \A u \in Uid : u >= stat.next /\ msgs'[u] # Absent => smod'[u] > stat.mod
    BY <1>2, <2>1, <2>2, <2>3 DEF CountedAt
  <2> QED BY <1>4, <2>2, <2>5, <2>6 DEF CountedAt
<1>5. ASSUME UNCHANGED <<server, locals>> PROVE CountedAt'
  <2>1. msgs' = msgs /\ smod' = smod /\ stat' = stat /\ pc' = pc
    BY <1>5 DEF server, locals
  <2>2. Early' = Early
    BY <2>1 DEF Early
  <2> QED BY <1>0, <2>1, <2>2 DEF Counted, CountedAt
<1>6. CASE Server
  <2>1. Drift
    BY <1>1, <1>6, ServerDrifts
  <2>2. worker' = worker
    BY <1>6 DEF Server, Deliver, Reflag, Expunge, Rebuild
  <2> QED BY <1>4, <2>1, <2>2 DEF worker, locals
<1>7. CASE (Start \/ Advance) /\ ~Status
  <2>1. ~Start
    BY DEF Start, Wake, Goto
  <2>2. UNCHANGED server
    BY <1>7 DEF Start, Advance
  <2>3. CASE Cut
    <3>1. locals' = locals
      BY <2>3 DEF Cut, Finish, locals
    <3> QED BY <1>5, <2>2, <3>1
  <2>4. CASE ~Cut
    BY <1>7, <2>1, <2>4 DEF Advance, Cycle, Invalidate, SkipUnchanged, CountDiffers,
       AskQresync, AskCondstore, AskFails, Apply, Vanish, Tally, Sweep, SweepDb, MaxCached,
       FetchNew, StoreNew, MarkSynced, FullRead, FullEmpty, FullFetch, FullApply, Finish, Goto,
       Onward
  <2> QED BY <2>3, <2>4
<1>8. ASSUME NEW r \in Requests, Request(r) PROVE CountedAt'
  <2>1. worker' = worker
    BY <1>8 DEF Request, Proceed, FlagStore, FlagRows, FlagRead, FlagUpdate, AllStore, AllRows,
       RemoveMail, RemoveRows, OpenFails, ListCheck, ListSelect, ListDecide, ListHeaders,
       ListPaint, ListSpawn, Lost
  <2>2. CASE FlagStore(r) \/ AllStore(r) \/ RemoveMail(r)
    BY <1>1, <1>4, <2>1, <2>2, RequestDrifts DEF worker, locals
  <2>3. CASE UNCHANGED server
    BY <1>5, <2>1, <2>3 DEF worker
  <2>4. (FlagStore(r) \/ AllStore(r) \/ RemoveMail(r)) \/ UNCHANGED server
    BY <1>8 DEF Request, Proceed, FlagRows, FlagRead, FlagUpdate, AllRows, RemoveRows,
       OpenFails, ListCheck, ListSelect, ListDecide, ListHeaders, ListPaint, ListSpawn, Lost
  <2> QED BY <2>2, <2>3, <2>4
<1>9. CASE OlderFetch \/ OlderStore \/ UNCHANGED vars
  BY <1>5, <1>9 DEF OlderFetch, OlderStore, vars, worker
<1>10. ~RivalAdvance /\ ~Overlap
  BY <1>1, RivalSteps DEF Overlap
<1>11. Start \/ Advance => UNCHANGED server
  BY DEF Start, Advance
<1> QED BY <1>3, <1>6, <1>7, <1>8, <1>9, <1>10, <1>11 DEF Next

\* Rows that are as many as the answer counted, none of them unaccounted for, are
\* those messages.
LEMMA SkipStep ==
    ASSUME MailboxInv, Counted, [Next]_vars, pc = "count", pc' = "idle", leak = {}, bg = NoBg,
           \A r \in Requests : req[r].op # "spawn", left' = left, NEW u \in Uid, Differs(u)
    PROVE  smod[u] > stat.mod
<1>0. leak # Uid
  OBVIOUS
<1>1. SkipUnchanged /\ Cardinality(Cached) = stat.exists
  <2>1. \A k \in {"fault"} : left[k] > 0 => left[k] - 1 # left[k]
    BY DEF MailboxInv, Typed, BudgetType, BudgetSet
  <2>2. \A k : ~Fault(k)
    BY <2>1 DEF Fault, Spend, MailboxInv, Typed, BudgetType, BudgetSet
  <2>3. locals' # locals /\ worker' # worker
    BY DEF worker, locals
  <2>4. ~Server /\ ~OlderFetch /\ ~OlderStore /\ ~(vars' = vars)
    BY <2>3 DEF Server, Deliver, Reflag, Expunge, Rebuild, OlderFetch, OlderStore, vars
  <2>5. \A r \in Requests : ~Request(r)
    BY <2>3 DEF Request, Proceed, FlagStore, FlagRows, FlagRead, FlagUpdate, AllStore, AllRows,
       RemoveMail, RemoveRows, OpenFails, ListCheck, ListSelect, ListDecide, ListHeaders,
       ListPaint, ListSpawn, Lost
  <2>6. ~Overlap /\ ~RivalAdvance
    BY <2>3 DEF Overlap, RivalAdvance
  <2>7. ~Start
    BY DEF Start, Wake, Goto
  <2>8. Cycle
    BY <2>2, <2>4, <2>5, <2>6, <2>7 DEF Next, Advance, Cut
  <2>9. SkipUnchanged
    BY <2>8 DEF Cycle, Status, Invalidate, CountDiffers, AskQresync,
       AskCondstore, AskFails, Apply, Vanish, Tally, Sweep, SweepDb, MaxCached, FetchNew,
       StoreNew, MarkSynced, FullRead, FullEmpty, FullFetch, FullApply, Goto
  <2> QED BY <2>2, <2>9 DEF SkipUnchanged
<1>3. Typed /\ Holds
  BY <1>0 DEF MailboxInv
<1>4. /\ stat.mod \in Nat /\ stat.next \in Nat /\ cmod = stat.mod
      /\ \A v \in Uid : smod[v] \in Nat /\ v \in Nat
  BY <1>3 DEF Typed, ServerType, WorkerType, StatusSet, Uid, Holds, Numbers
<1>5. CASE rows[u] # Absent
  BY <1>3, <1>4, <1>5 DEF Holds, Covered, CoveredAt, Wrong
<1>6. CASE rows[u] = Absent
  <2> SUFFICES ASSUME ~(smod[u] > stat.mod) PROVE FALSE
    OBVIOUS
  <2>a. Missing(u) /\ ~Behind(u)
    BY <1>6 DEF Missing, Behind, Differs
  <2>1. msgs[u] # Absent /\ \A v \in Cached : v < u
    BY <1>3, <2>a DEF Holds, Fetching, Missing
  <2>2. /\ stat.exists = Cardinality(Early)
        /\ u < stat.next
    BY <1>0, <1>4, <2>1 DEF Counted, CountedAt
  <2>3. u \in Early /\ u \notin Cached
    BY <1>6, <2>1, <2>2 DEF Early, Cached
  <2>4. \A v \in Cached : v \in Early
    <3> SUFFICES ASSUME NEW v \in Uid, rows[v] # Absent
                 PROVE  v < stat.next /\ (msgs[v] # Absent \/ smod[v] > stat.mod)
      BY DEF Early, Cached
    <3>1. v < stat.next
      BY <1>4, <2>1, <2>2 DEF Cached
    <3>2. msgs[v] = Absent => smod[v] > stat.mod
      BY <1>3, <1>4 DEF Holds, Covered, CoveredAt, Wrong, Differs
    <3> QED BY <3>1, <3>2
  <2>5. Cached \subseteq Early \ {u}
    BY <2>3, <2>4
  <2>6. IsFiniteSet(Early) /\ IsFiniteSet(Early \ {u})
    BY UidFinite DEF Early
  <2>7. Cardinality(Early \ {u}) = Cardinality(Early) - 1
    BY <2>3, <2>6, FS_RemoveElement
  <2>8. Cardinality(Cached) <= Cardinality(Early \ {u})
    BY <2>5, <2>6, FS_Subset
  <2>9. Cardinality(Cached) = Cardinality(Early)
    BY <1>1, <2>2
  <2> QED BY <2>6, <2>7, <2>8, <2>9, FS_CardinalityType
<1> QED BY <1>5, <1>6

\* A folder that is skipped because number and count agree has no difference that
\* is older than the STATUS answer, unless something was leaked or is still being
\* fetched for a request (realtime/sync.rs:98).
THEOREM MailboxSkipSound == Spec => SkipSound
<1>1. MailboxInv /\ Counted /\ [Next]_vars
        => [/\ pc = "count" /\ pc' = "idle" /\ left' = left
            /\ leak = {} /\ bg = NoBg /\ \A r \in Requests : req[r].op # "spawn"
            => \A u \in Uid : Differs(u) => smod[u] > stat.mod]_vars
  BY SkipStep
<1>2. Init => MailboxInv /\ Counted
  BY InitHolds, CountedInit
<1>3. MailboxInv /\ [Next]_vars => MailboxInv'
  BY NextHolds
<1>4. MailboxInv /\ MailboxInv' /\ Counted /\ [Next]_vars => Counted'
  BY CountedNext
<1> QED BY <1>1, <1>2, <1>3, <1>4, PTL DEF Spec, SkipSound
=============================================================================
