------------------------- MODULE SessionStoreProofs -------------------------
(***************************************************************************)
(* Proofs about SessionStore for any number of accounts, browsers and      *)
(* request handlers.                                                       *)
(*                                                                         *)
(* SessionInv is inductive.  Its heart, Responsible, names for every entry *)
(* that does not fit the process that is going to remove it.  Most steps   *)
(* concern one account and only shrink the maps: ShrinkKeeps says what of  *)
(* the invariant is left to prove for such a step of p on an account x,    *)
(* namely what is about p and what is about x.  QuietKeeps is the case     *)
(* where no map changes.                                                   *)
(***************************************************************************)
EXTENDS SessionStore, TLAPS

(***************************************************************************)
(* How a step changes the processes.                                       *)
(***************************************************************************)
ProcsOK ==
    /\ op \in [Tasks -> Ops] /\ pc \in [Tasks -> PCs]
    /\ acct \in [Tasks -> Accounts \cup {None}]
    /\ todo \in [Tasks -> SUBSET Accounts] /\ scan \in [Tasks -> SUBSET Browsers]
    /\ jar \in [Tasks -> SUBSET Accounts]

Same(q) ==
    /\ op'[q] = op[q] /\ pc'[q] = pc[q] /\ acct'[q] = acct[q]
    /\ todo'[q] = todo[q] /\ scan'[q] = scan[q] /\ jar'[q] = jar[q]

Only(p) == ProcsOK' /\ \A q \in Tasks : q # p => Same(q)

Moves(p, l) ==
    /\ pc'[p] = l /\ op'[p] = op[p] /\ acct'[p] = acct[p]
    /\ todo'[p] = todo[p] /\ scan'[p] = scan[p] /\ jar'[p] = jar[p]

Ends(p) == pc'[p] = "idle" /\ op'[p] = "none" /\ acct'[p] = None /\ todo'[p] = {}

Loops(p, s) ==
    \/ s = {} /\ Ends(p)
    \/ /\ s # {} /\ pc'[p] = "next" /\ op'[p] = op[p] /\ acct'[p] = None
       /\ todo'[p] = s /\ jar'[p] = jar[p]

\* What Goto does to the processes.
LEMMA GotoMoves ==
    ASSUME TypeOK, NEW p \in Tasks, NEW l \in PCs, Goto(p, l)
    PROVE  Only(p) /\ Moves(p, l)
BY DEF TypeOK, ProcsOK, Goto, Only, Same, Moves

\* What End does to the processes.
LEMMA EndEnds ==
    ASSUME TypeOK, NEW p \in Tasks, End(p)
    PROVE  Only(p) /\ Ends(p)
BY DEF TypeOK, ProcsOK, End, Only, Same, Ends, PCs, Ops

\* What Loop does to the processes.
LEMMA LoopLoops ==
    ASSUME TypeOK, NEW p \in Tasks, NEW s \in SUBSET Accounts, Loop(p, s)
    PROVE  Only(p) /\ Loops(p, s)
BY EndEnds DEF TypeOK, ProcsOK, Loop, Only, Same, Loops, PCs, Ops

(***************************************************************************)
(* What a step of p leaves alone.                                          *)
(***************************************************************************)
\* The labels at which a process answers for an entry of its account.
InCharge == {"ra_sess", "ra_a2b", "ra_list", "lo_a2b", "lo_a2s", "lo_sess", "ev_a2s", "ev_a2b"}

Charged(p, a) == acct[p] = a /\ (pc[p] \in InCharge \/ (pc[p] = "retain" /\ home[a] \in scan[p]))

KeepsTodo(p, a) ==
    op[p] \in {"logout", "purge"} /\ a \in todo[p] => op'[p] = op[p] /\ a \in todo'[p]

SameEntries(a) ==
    /\ a \in sessions' <=> a \in sessions
    /\ a \in a2s' <=> a \in a2s
    /\ a2b'[a] = a2b[a] /\ home'[a] = home[a]
    /\ a \in list'[home[a]] <=> a \in list[home[a]]
    /\ a \in revoked' <=> a \in revoked

\* Who answered for an account still does, unless it is the process that moves;
\* and that process may be the one from now on.
LEMMA ChargeKept ==
    ASSUME NEW p \in Tasks, Only(p), NEW a, KeepsTodo(p, a), home'[a] = home[a]
    PROVE  /\ \A ls : Busy(a, ls) => Busy(a, ls)' \/ At(p, a, ls)
           /\ \A ls : acct'[p] = a /\ pc'[p] \in ls => Busy(a, ls)'
           /\ Taken(a) => Taken(a)' \/ At(p, a, {"lo_a2b"})
           /\ Purged(a) => Purged(a)'
           /\ Scanned(a) => Scanned(a)' \/ (At(p, a, {"retain"}) /\ home[a] \in scan[p])
BY DEF Only, Same, KeepsTodo, Busy, Taken, Purged, Scanned, At

\* An account stays accounted for when its entries stay and the process that
\* moves does not answer for it.
LEMMA AccountedKept ==
    ASSUME NEW p \in Tasks, Only(p), NEW a, KeepsTodo(p, a),
           Accounted(a), SameEntries(a), ~Charged(p, a)
    PROVE  Accounted(a)'
BY ChargeKept DEF SameEntries, Charged, InCharge, At, Accounted, SessionNamed, NameValid, ListedNamed, ListedBound,
   BoundNamed, BoundListed, RevokedTaken

\* The accounts being opened stay as they are when the process that moves opens
\* none and no entry of theirs changes.
LEMMA OpeningKept ==
    ASSUME OpeningShape, NEW p \in Tasks, Only(p), op[p] # "login", op'[p] # "login",
           Jar' = Jar,
           \A a \in Accounts \ Jar :
               /\ a \in sessions' <=> a \in sessions
               /\ a \in a2s' <=> a \in a2s
               /\ a2b'[a] = a2b[a]
    PROVE  OpeningShape'
<1>. SUFFICES ASSUME NEW a \in Accounts \ Jar, NEW ls
              PROVE  AddedBy(a, ls)' <=> AddedBy(a, ls)
  BY DEF OpeningShape
<1>. QED
  BY DEF AddedBy, At, Only, Same

\* The maps lose entries of x, and of nothing else.
Shrinks(x) ==
    /\ UNCHANGED <<status, home, expired>>
    /\ sessions' \subseteq sessions /\ sessions \subseteq sessions' \cup {x}
    /\ a2s' \subseteq a2s /\ a2s \subseteq a2s' \cup {x}
    /\ a2b' \in [Accounts -> Browsers \cup {None}]
    /\ \A a \in Accounts : a2b'[a] = a2b[a] \/ (a = x /\ a2b'[a] = None)
    /\ list' \in [Browsers -> SUBSET Accounts]
    /\ \A b \in Browsers : list'[b] \subseteq list[b] /\ list[b] \subseteq list'[b] \cup {x}
    /\ browsers' \subseteq browsers
    /\ \A b \in browsers \ browsers' : list'[b] = {}
    /\ revoked \subseteq revoked' /\ revoked' \subseteq revoked \cup {x}
    /\ swept \subseteq swept' /\ swept' \subseteq swept \cup {x}

\* A step of p that takes entries of x away preserves SessionInv if what the
\* invariant says of p and of x holds again.
LEMMA ShrinkKeeps ==
    ASSUME SessionInv, NEW p \in Tasks, NEW x \in Jar, Shrinks(x), x \in Touched' \/ UNCHANGED maps,
           Only(p), op[p] # "login", op'[p] # "login", \A a : KeepsTodo(p, a),
           acct[p] = x \/ pc[p] = "idle",
           WellPlaced(p)', KeepsOut(p)', HasReason(p)', Accounted(x)'
    PROVE  SessionInv'
<1>. USE DEF SessionInv
<1>1. Jar' = Jar
  BY DEF Shrinks, Jar
<1>2. TypeOK'
  BY <1>1 DEF TypeOK, Shrinks, Only, ProcsOK
<1>3. ProcShape'
  BY <1>1 DEF ProcShape, WellPlaced, LabelsOK, Only, Same, Shrinks
<1>4. OpeningShape'
  BY <1>1, OpeningKept DEF Shrinks
<1>5. HomeShape'
  BY <1>1 DEF HomeShape, Shrinks, TypeOK
<1>6. Responsible'
  <2>. SUFFICES ASSUME NEW a \in Jar, a # x PROVE Accounted(a)'
    BY <1>1 DEF Responsible
  <2>1. SameEntries(a)
    BY DEF SameEntries, Shrinks, Jar, HomeShape
  <2>. QED
    BY <2>1, AccountedKept DEF Responsible, Charged, InCharge
<1>7. StaysOut' /\ WithReason'
  <2>. SUFFICES ASSUME NEW q \in Tasks, q # p PROVE KeepsOut(q)' /\ HasReason(q)'
    BY DEF StaysOut, WithReason
  <2>1. Same(q) /\ WellPlaced(q) /\ KeepsOut(q) /\ HasReason(q)
    BY DEF Only, ProcShape, StaysOut, WithReason
  <2>2. HasReason(q)'
    BY <2>1 DEF Same, HasReason, Touched, Shrinks
  <2>3. KeepsOut(q)'
    BY <2>1 DEF Same, KeepsOut, WellPlaced, LabelsOK, HomeShape, Shrinks, TypeOK, Ops, Jar,
       Adding, Guarding, Evicting, Removing, Clearing
  <2>. QED
    BY <2>2, <2>3
<1>8. LoginHolds'
  BY <1>1 DEF LoginHolds, Usable, Touched, Shrinks, HomeShape, Jar, maps
<1>. QED
  BY <1>2, <1>3, <1>4, <1>5, <1>6, <1>7, <1>8

\* A step of p that changes no map, and at which p does not answer for x.
LEMMA QuietKeeps ==
    ASSUME SessionInv, NEW p \in Tasks, NEW x \in Jar, UNCHANGED <<maps, client>>,
           Only(p), op[p] # "login", op'[p] # "login", \A a : KeepsTodo(p, a),
           acct[p] = x \/ pc[p] = "idle", ~Charged(p, x),
           WellPlaced(p)', KeepsOut(p)', HasReason(p)'
    PROVE  SessionInv'
<1>1. Shrinks(x)
  BY DEF Shrinks, maps, client, SessionInv, TypeOK
<1>2. Accounted(x)'
  BY AccountedKept DEF SessionInv, Responsible, SameEntries, maps, client
<1>. QED
  BY <1>1, <1>2, ShrinkKeeps DEF maps

\* The step changes nothing but the account x, whose login is not answered yet,
\* and x has the entries its login has reached.
Opens(p, x) ==
    /\ status' \in [Accounts -> Statuses] /\ home' \in [Accounts -> Browsers \cup {None}]
    /\ \A a \in Accounts \ {x} : status'[a] = status[a] /\ home'[a] = home[a] /\ a2b'[a] = a2b[a]
    /\ sessions' \in {sessions, sessions \cup {x}} /\ a2s' \in {a2s, a2s \cup {x}}
    /\ a2b' \in [Accounts -> Browsers \cup {None}] /\ a2b'[x] \in {None, home'[x]}
    /\ browsers \subseteq browsers' /\ browsers' \subseteq Browsers
    /\ UNCHANGED <<list, expired, revoked, swept>>
    /\ status'[x] # "answered" /\ home'[x] \in Browsers
    /\ x \in sessions' <=> pc'[p] \in {"a2s", "a2b", "push"}
    /\ x \in a2s' <=> pc'[p] \in {"a2b", "push"}
    /\ a2b'[x] # None <=> pc'[p] = "push"

\* A step of a login that only its own account can tell preserves SessionInv.
LEMMA OpenKeeps ==
    ASSUME SessionInv, NEW p \in Tasks, NEW x \in Accounts \ Jar, Only(p), Opens(p, x),
           op[p] = "none" \/ (op[p] = "login" /\ acct[p] = x),
           op'[p] = "none" \/ (op'[p] = "login" /\ acct'[p] = x),
           \A q \in Tasks : q # p => acct[q] # x,
           WellPlaced(p)'
    PROVE  SessionInv'
<1>. USE SessionAssumption DEF SessionInv
<1>1. Jar' = Jar /\ UNCHANGED Touched
  BY DEF Jar, Opens, Touched
<1>2. TypeOK'
  BY <1>1 DEF TypeOK, Opens, Only, ProcsOK
<1>3. ProcShape'
  BY <1>1 DEF ProcShape, WellPlaced, LabelsOK, Only, Same, Opens
<1>4. OpeningShape'
  <2>. SUFFICES ASSUME NEW a \in Accounts \ Jar
                PROVE  /\ a \in sessions' <=> AddedBy(a, {"a2s", "a2b", "push"})'
                       /\ a \in a2s' <=> AddedBy(a, {"a2b", "push"})'
                       /\ a2b'[a] # None <=> AddedBy(a, {"push"})'
    BY <1>1 DEF OpeningShape
  <2>1. CASE a = x
    <3>1. \A ls : "idle" \notin ls => (AddedBy(a, ls)' <=> pc'[p] \in ls)
      BY <2>1 DEF AddedBy, At, Only, Same, WellPlaced, LabelsOK
    <3>. QED
      BY <2>1, <3>1 DEF Opens
  <2>2. CASE a # x
    <3>1. \A ls : AddedBy(a, ls)' <=> AddedBy(a, ls)
      BY <2>2 DEF AddedBy, At, Only, Same
    <3>. QED
      BY <2>2, <3>1 DEF Opens, OpeningShape
  <2>. QED
    BY <2>1, <2>2
<1>5. HomeShape'
  <2>1. \A a \in Accounts : status'[a] # "new" => home'[a] \in Browsers
    BY DEF HomeShape, Opens
  <2>2. \A a \in Accounts : a2b'[a] \in {None, home'[a]}
    BY DEF HomeShape, Opens
  <2>3. ASSUME NEW b \in Browsers, NEW a \in list[b]
        PROVE  a \in Jar /\ home'[a] = b /\ b \in browsers'
    <3>1. a \in Jar /\ a \in Accounts \ {x} /\ home[a] = b /\ b \in browsers
      BY DEF HomeShape, Jar
    <3>. QED
      BY <3>1 DEF Opens
  <2>. QED
    BY <1>1, <2>1, <2>2, <2>3 DEF HomeShape, Opens
<1>6. Responsible'
  <2>. SUFFICES ASSUME NEW a \in Jar PROVE Accounted(a)'
    BY <1>1 DEF Responsible
  <2>1. SameEntries(a)
    BY DEF SameEntries, Opens, Jar
  <2>2. KeepsTodo(p, a) /\ ~Charged(p, a)
    BY DEF KeepsTodo, Charged, InCharge, ProcShape, WellPlaced, LabelsOK, Adding
  <2>. QED
    BY <2>1, <2>2, AccountedKept DEF Responsible
<1>7. StaysOut'
  <2>. SUFFICES ASSUME NEW q \in Tasks PROVE KeepsOut(q)'
    BY DEF StaysOut
  <2>1. CASE q = p
    BY <2>1 DEF KeepsOut, WellPlaced, LabelsOK, Adding, Clearing
  <2>2. CASE q # p
    <3>1. Same(q) /\ WellPlaced(q) /\ KeepsOut(q) /\ acct[q] # x
      BY <2>2 DEF Only, ProcShape, StaysOut
    <3>2. x \notin todo[q]
      BY <3>1 DEF WellPlaced
    <3>. QED
      BY <3>1, <3>2 DEF Same, KeepsOut, WellPlaced, LabelsOK, TypeOK, Ops, Opens, Jar,
         Adding, Guarding, Evicting, Removing, Clearing
  <2>. QED
    BY <2>1, <2>2
<1>8. WithReason'
  BY <1>1 DEF WithReason, HasReason, Only, Same, WellPlaced, LabelsOK, Adding, Evicting, Clearing, Removing
<1>9. LoginHolds'
  BY <1>1 DEF LoginHolds, Usable, Opens, Jar
<1>. QED
  BY <1>2, <1>3, <1>4, <1>5, <1>6, <1>7, <1>8, <1>9

\* get_account_session looks its token up.
LEMMA CheckTokenKeeps ==
    ASSUME SessionInv, NEW p \in Tasks, NEW x, x = acct[p], CheckToken(p)
    PROVE  SessionInv'
<1>. USE SessionAssumption DEF SessionInv, CheckToken, maps, client
<1>1. x \in Jar /\ home[x] \in Browsers /\ op[p] \in {"request", "logout"}
  BY DEF TypeOK, ProcShape, WellPlaced, LabelsOK, HomeShape, Ops, Jar, Adding, Guarding, Evicting, Removing, Clearing
<1>2. Only(p) /\ (Moves(p, "get") \/ Ends(p))
  BY <1>1, GotoMoves, EndEnds DEF TypeOK, Jar, PCs, Ops, Adding, Guarding, Evicting, Removing, Clearing
<1>3. WellPlaced(p)' /\ KeepsOut(p)' /\ HasReason(p)'
  BY <1>1, <1>2 DEF Moves, Ends, ProcShape, StaysOut, WithReason, WellPlaced, LabelsOK, KeepsOut, HasReason,
     Touched, Jar, Adding, Guarding, Evicting, Removing, Clearing
<1>4. op'[p] # "login" /\ (\A a : KeepsTodo(p, a)) /\ ~Charged(p, x)
  BY <1>1, <1>2 DEF Moves, Ends, KeepsTodo, Charged, InCharge, ProcShape, WellPlaced, Clearing
<1>. QED
  BY <1>1, <1>2, <1>3, <1>4, QuietKeeps

\* get finds no session.
LEMMA GetMissingKeeps ==
    ASSUME SessionInv, NEW p \in Tasks, NEW x, x = acct[p], GetMissing(p)
    PROVE  SessionInv'
<1>. USE SessionAssumption DEF SessionInv, GetMissing, NoSession, maps, client
<1>1. x \in Jar /\ home[x] \in Browsers /\ op[p] \in {"request", "logout", "list"} /\ x \notin sessions
  BY DEF TypeOK, ProcShape, WellPlaced, LabelsOK, HomeShape, Ops, Jar, Adding, Guarding, Evicting, Removing, Clearing
<1>2. Only(p) /\ (IF op[p] = "list" THEN Moves(p, "ra_a2s") ELSE Ends(p))
  BY <1>1, GotoMoves, EndEnds DEF TypeOK, Jar, PCs, Ops, Adding, Guarding, Evicting, Removing, Clearing
<1>3. WellPlaced(p)' /\ KeepsOut(p)' /\ HasReason(p)'
  BY <1>1, <1>2 DEF Moves, Ends, ProcShape, StaysOut, WithReason, WellPlaced, LabelsOK, KeepsOut, HasReason,
     Touched, Jar, Adding, Guarding, Evicting, Removing, Clearing, LoginHolds, Usable
<1>4. op'[p] # "login" /\ (\A a : KeepsTodo(p, a)) /\ ~Charged(p, x)
  BY <1>1, <1>2 DEF Moves, Ends, KeepsTodo, Charged, InCharge, ProcShape, WellPlaced, Clearing
<1>. QED
  BY <1>1, <1>2, <1>3, <1>4, QuietKeeps

\* get finds an expired session.
LEMMA GetExpiredKeeps ==
    ASSUME SessionInv, NEW p \in Tasks, NEW x, x = acct[p], GetExpired(p)
    PROVE  SessionInv'
<1>. USE SessionAssumption DEF SessionInv, GetExpired, maps, client
<1>1. x \in Jar /\ home[x] \in Browsers /\ op[p] \in {"request", "logout", "list"}
  BY DEF TypeOK, ProcShape, WellPlaced, LabelsOK, HomeShape, Ops, Jar, Adding, Guarding, Evicting, Removing, Clearing
<1>2. Only(p) /\ Moves(p, "drop")
  BY <1>1, GotoMoves DEF TypeOK, Jar, PCs, Ops, Adding, Guarding, Evicting, Removing, Clearing
<1>3. WellPlaced(p)' /\ KeepsOut(p)' /\ HasReason(p)'
  BY <1>1, <1>2 DEF Moves, ProcShape, StaysOut, WithReason, WellPlaced, LabelsOK, KeepsOut, HasReason,
     Touched, Jar, Adding, Guarding, Evicting, Removing, Clearing
<1>4. op'[p] # "login" /\ (\A a : KeepsTodo(p, a)) /\ ~Charged(p, x)
  BY <1>1, <1>2 DEF Moves, KeepsTodo, Charged, InCharge, ProcShape, WellPlaced, Clearing
<1>. QED
  BY <1>1, <1>2, <1>3, <1>4, QuietKeeps

\* get returns the session.
LEMMA GetServedKeeps ==
    ASSUME SessionInv, NEW p \in Tasks, NEW x, x = acct[p], GetServed(p)
    PROVE  SessionInv'
<1>. USE SessionAssumption DEF SessionInv, GetServed, maps, client
<1>1. x \in Jar /\ home[x] \in Browsers /\ op[p] \in {"request", "logout", "list"}
  BY DEF TypeOK, ProcShape, WellPlaced, LabelsOK, HomeShape, Ops, Jar, Adding, Guarding, Evicting, Removing, Clearing
<1>2. Only(p) /\
      (\/ op[p] = "logout" /\ Moves(p, "take")
       \/ op[p] = "list" /\ Loops(p, todo[p])
       \/ op[p] = "request" /\ Ends(p))
  BY <1>1, GotoMoves, EndEnds, LoopLoops DEF TypeOK, Jar, PCs, Ops, Adding, Guarding, Evicting, Removing, Clearing
<1>3. WellPlaced(p)' /\ KeepsOut(p)' /\ HasReason(p)'
  BY <1>1, <1>2 DEF Moves, Ends, Loops, ProcShape, StaysOut, WithReason, WellPlaced, LabelsOK, KeepsOut, HasReason,
     Touched, Jar, Adding, Guarding, Evicting, Removing, Clearing
<1>4. op'[p] # "login" /\ (\A a : KeepsTodo(p, a)) /\ ~Charged(p, x)
  BY <1>1, <1>2 DEF Moves, Ends, Loops, KeepsTodo, Charged, InCharge, ProcShape, WellPlaced, Clearing
<1>. QED
  BY <1>1, <1>2, <1>3, <1>4, QuietKeeps

\* retain has visited every browser.
LEMMA EvictedKeeps ==
    ASSUME SessionInv, NEW p \in Tasks, NEW x, x = acct[p], Evicted(p)
    PROVE  SessionInv'
<1>. USE SessionAssumption DEF SessionInv, Evicted, NoSession, maps, client
<1>1. x \in Jar /\ home[x] \in Browsers /\ op[p] \in {"request", "logout", "list", "purge"} /\ scan[p] = {}
  BY DEF TypeOK, ProcShape, WellPlaced, LabelsOK, HomeShape, Ops, Jar, Adding, Guarding, Evicting, Removing, Clearing
<1>2. Only(p) /\
      (\/ op[p] = "purge" /\ Loops(p, todo[p])
       \/ op[p] = "list" /\ Moves(p, "ra_a2s")
       \/ op[p] \in {"request", "logout"} /\ Ends(p))
  BY <1>1, GotoMoves, EndEnds, LoopLoops DEF TypeOK, Jar, PCs, Ops, Adding, Guarding, Evicting, Removing, Clearing
<1>3. WellPlaced(p)' /\ KeepsOut(p)' /\ HasReason(p)'
  BY <1>1, <1>2 DEF Moves, Ends, Loops, ProcShape, StaysOut, WithReason, WellPlaced, LabelsOK, KeepsOut, HasReason,
     Touched, Jar, Adding, Guarding, Evicting, Removing, Clearing
<1>4. op'[p] # "login" /\ (\A a : KeepsTodo(p, a)) /\ ~Charged(p, x)
  BY <1>1, <1>2 DEF Moves, Ends, Loops, KeepsTodo, Charged, InCharge, ProcShape, WellPlaced, Clearing
<1>. QED
  BY <1>1, <1>2, <1>3, <1>4, QuietKeeps

\* list_accounts loops over the sessions it found.
LEMMA FilterListKeeps ==
    ASSUME SessionInv, NEW p \in Tasks, NEW x, x = acct[p], FilterList(p)
    PROVE  SessionInv'
<1>. USE SessionAssumption DEF SessionInv, FilterList, Seen, maps, client
<1>1. x \in Jar /\ home[x] \in Browsers /\ op[p] = "list"
  BY DEF TypeOK, ProcShape, WellPlaced, LabelsOK, HomeShape, Ops, Jar, Adding, Guarding, Evicting, Removing, Clearing
<1>2. Only(p) /\ Loops(p, Seen(p))
  BY <1>1, LoopLoops DEF TypeOK, Jar, PCs, Ops, Adding, Guarding, Evicting, Removing, Clearing
<1>3. WellPlaced(p)' /\ KeepsOut(p)' /\ HasReason(p)'
  BY <1>1, <1>2 DEF Ends, Loops, ProcShape, StaysOut, WithReason, WellPlaced, LabelsOK, KeepsOut, HasReason,
     Touched, Jar, Adding, Guarding, Evicting, Removing, Clearing
<1>4. op'[p] # "login" /\ (\A a : KeepsTodo(p, a)) /\ ~Charged(p, x)
  BY <1>1, <1>2 DEF Ends, Loops, KeepsTodo, Charged, InCharge, ProcShape, WellPlaced, Clearing
<1>. QED
  BY <1>1, <1>2, <1>3, <1>4, QuietKeeps

\* list_accounts clones the list.
LEMMA CloneListKeeps ==
    ASSUME SessionInv, NEW p \in Tasks, NEW x, x = acct[p], CloneList(p)
    PROVE  SessionInv'
<1>. USE SessionAssumption DEF SessionInv, CloneList, Clone, maps, client
<1>1. x \in Jar /\ home[x] \in Browsers /\ op[p] = "list"
  BY DEF TypeOK, ProcShape, WellPlaced, LabelsOK, HomeShape, Ops, Jar, Adding, Guarding, Evicting, Removing, Clearing
<1>2. /\ Only(p)
      /\ pc'[p] = "filter" /\ op'[p] = op[p] /\ acct'[p] = x
      /\ todo'[p] = list[home[x]] /\ jar'[p] = jar[p]
  BY <1>1 DEF TypeOK, Jar, PCs, Ops, Adding, Guarding, Evicting, Removing, Clearing, Only, Same, ProcsOK
<1>3. WellPlaced(p)' /\ KeepsOut(p)' /\ HasReason(p)'
  BY <1>1, <1>2 DEF ProcShape, StaysOut, WithReason, WellPlaced, LabelsOK, KeepsOut, HasReason,
     Touched, Jar, Adding, Guarding, Evicting, Removing, Clearing, HomeShape
<1>4. op'[p] # "login" /\ (\A a : KeepsTodo(p, a)) /\ ~Charged(p, x)
  BY <1>1, <1>2 DEF KeepsTodo, Charged, InCharge, ProcShape, WellPlaced, Clearing
<1>. QED
  BY <1>1, <1>2, <1>3, <1>4, QuietKeeps

\* remove_account looks for the account in the clone.
LEMMA FilterRemoveKeeps ==
    ASSUME SessionInv, NEW p \in Tasks, NEW x, x = acct[p], FilterRemove(p)
    PROVE  SessionInv'
<1>. USE SessionAssumption DEF SessionInv, FilterRemove, maps, client
<1>1. x \in Jar /\ home[x] \in Browsers /\ op[p] = "remove"
  BY DEF TypeOK, ProcShape, WellPlaced, LabelsOK, HomeShape, Ops, Jar, Adding, Guarding, Evicting, Removing, Clearing
<1>2. Only(p) /\
      (\/ Ends(p)
       \/ pc'[p] = "ra_a2s" /\ op'[p] = op[p] /\ acct'[p] = x /\ todo'[p] = {})
  BY <1>1, EndEnds DEF TypeOK, Jar, PCs, Ops, Adding, Guarding, Evicting, Removing, Clearing, Only, Same, ProcsOK
<1>3. WellPlaced(p)' /\ KeepsOut(p)' /\ HasReason(p)'
  BY <1>1, <1>2 DEF Ends, ProcShape, StaysOut, WithReason, WellPlaced, LabelsOK, KeepsOut, HasReason,
     Touched, Jar, Adding, Guarding, Evicting, Removing, Clearing
<1>4. op'[p] # "login" /\ (\A a : KeepsTodo(p, a)) /\ ~Charged(p, x)
  BY <1>1, <1>2 DEF Ends, KeepsTodo, Charged, InCharge, ProcShape, WellPlaced, Clearing
<1>. QED
  BY <1>1, <1>2, <1>3, <1>4, QuietKeeps

\* A removal arrives.
LEMMA RemoveKeeps ==
    ASSUME SessionInv, NEW p \in Tasks, NEW x \in Accounts, Remove(p, x)
    PROVE  SessionInv'
<1>. USE SessionAssumption DEF SessionInv, Remove, Start, Clone, maps, client
<1>1. x \in Jar /\ home[x] \in Browsers /\ op[p] = "none" /\ pc[p] = "idle"
  BY DEF TypeOK, ProcShape, WellPlaced, LabelsOK, HomeShape, Ops, Jar, Adding, Guarding, Evicting, Removing, Clearing
<1>2. Only(p) /\ pc'[p] = "filter" /\ op'[p] = "remove" /\ acct'[p] = x /\ todo'[p] = list[home[x]]
  BY <1>1 DEF TypeOK, Jar, PCs, Ops, Adding, Guarding, Evicting, Removing, Clearing, Only, Same, ProcsOK
<1>3. WellPlaced(p)' /\ KeepsOut(p)' /\ HasReason(p)'
  BY <1>1, <1>2 DEF ProcShape, StaysOut, WithReason, WellPlaced, LabelsOK, KeepsOut, HasReason,
     Touched, Jar, Adding, Guarding, Evicting, Removing, Clearing, HomeShape
<1>4. op'[p] # "login" /\ (\A a : KeepsTodo(p, a)) /\ ~Charged(p, x)
  BY <1>1, <1>2 DEF KeepsTodo, Charged, InCharge, ProcShape, WellPlaced, Clearing
<1>. QED
  BY <1>1, <1>2, <1>3, <1>4, QuietKeeps

\* A request for the accounts arrives.
LEMMA ListAccountsKeeps ==
    ASSUME SessionInv, NEW p \in Tasks, NEW x \in Accounts, ListAccounts(p, x)
    PROVE  SessionInv'
<1>. USE SessionAssumption DEF SessionInv, ListAccounts, Start, maps, client
<1>1. x \in Jar /\ home[x] \in Browsers /\ op[p] = "none" /\ pc[p] = "idle" /\ todo[p] = {}
  BY DEF TypeOK, ProcShape, WellPlaced, LabelsOK, HomeShape, Ops, Jar, Adding, Guarding, Evicting, Removing, Clearing
<1>2. Only(p) /\ pc'[p] = "clone" /\ op'[p] = "list" /\ acct'[p] = x /\ todo'[p] = {}
  BY <1>1 DEF TypeOK, Jar, PCs, Ops, Adding, Guarding, Evicting, Removing, Clearing, Only, Same, ProcsOK
<1>3. WellPlaced(p)' /\ KeepsOut(p)' /\ HasReason(p)'
  BY <1>1, <1>2 DEF ProcShape, StaysOut, WithReason, WellPlaced, LabelsOK, KeepsOut, HasReason,
     Touched, Jar, Adding, Guarding, Evicting, Removing, Clearing
<1>4. op'[p] # "login" /\ (\A a : KeepsTodo(p, a)) /\ ~Charged(p, x)
  BY <1>1, <1>2 DEF KeepsTodo, Charged, InCharge, ProcShape, WellPlaced, Clearing
<1>. QED
  BY <1>1, <1>2, <1>3, <1>4, QuietKeeps

\* A protected request or a logout arrives.
LEMMA RequestKeeps ==
    ASSUME SessionInv, NEW p \in Tasks, NEW x \in Accounts,
           NEW o \in {"request", "logout"}, Request(p, x, o)
    PROVE  SessionInv'
<1>. USE SessionAssumption DEF SessionInv, Request, Start, procs, maps, client
<1>1. x \in Jar /\ home[x] \in Browsers /\ op[p] = "none" /\ pc[p] = "idle" /\ todo[p] = {}
  BY DEF TypeOK, ProcShape, WellPlaced, LabelsOK, HomeShape, Ops, Jar, Adding, Guarding, Evicting, Removing, Clearing
<1>2. Only(p) /\
      (\/ Same(p)
       \/ pc'[p] = "token" /\ op'[p] = o /\ acct'[p] = x /\ todo'[p] = {})
  BY <1>1 DEF TypeOK, Jar, PCs, Ops, Adding, Guarding, Evicting, Removing, Clearing, Only, Same, ProcsOK
<1>3. WellPlaced(p)' /\ KeepsOut(p)' /\ HasReason(p)'
  BY <1>1, <1>2 DEF ProcShape, StaysOut, WithReason, WellPlaced, LabelsOK, KeepsOut, HasReason,
     Touched, Jar, Adding, Guarding, Evicting, Removing, Clearing, Same
<1>4. op'[p] # "login" /\ (\A a : KeepsTodo(p, a)) /\ ~Charged(p, x)
  BY <1>1, <1>2 DEF KeepsTodo, Charged, InCharge, ProcShape, WellPlaced, Clearing, Same
<1>. QED
  BY <1>1, <1>2, <1>3, <1>4, QuietKeeps

\* get removes an expired session.
LEMMA DropSessionKeeps ==
    ASSUME SessionInv, NEW p \in Tasks, NEW x, x = acct[p], DropSession(p)
    PROVE  SessionInv'
<1>. USE SessionAssumption DEF SessionInv, DropSession, client
<1>1. x \in Jar /\ home[x] \in Browsers /\ op[p] \in {"request", "logout", "list"}
  BY DEF TypeOK, ProcShape, WellPlaced, LabelsOK, HomeShape, Ops, Jar, Adding, Guarding, Evicting, Removing, Clearing
<1>2. Only(p) /\ Moves(p, "ev_a2s")
  BY <1>1, GotoMoves DEF TypeOK, Jar, PCs, Ops, Adding, Guarding, Evicting, Removing, Clearing
<1>3. Shrinks(x) /\ x \in Touched'
  BY <1>1 DEF Shrinks, TypeOK, Jar, Touched, WithReason, HasReason, Adding, Guarding, Evicting, Removing, Clearing
<1>4. WellPlaced(p)' /\ KeepsOut(p)' /\ HasReason(p)'
  BY <1>1, <1>2, <1>3 DEF Shrinks, Moves, ProcShape, StaysOut, WithReason, WellPlaced, LabelsOK, KeepsOut,
     HasReason, TypeOK, HomeShape, Touched, Jar, Adding, Guarding, Evicting, Removing, Clearing
<1>5. op'[p] # "login" /\ \A a : KeepsTodo(p, a)
  BY <1>1, <1>2 DEF Moves, KeepsTodo, ProcShape, WellPlaced, Clearing
<1>6. Accounted(x)'
  BY <1>1, <1>2, <1>5, ChargeKept DEF At, Moves, TypeOK, Jar, StaysOut, KeepsOut, Responsible, Accounted,
     SessionNamed, NameValid, ListedNamed, ListedBound, BoundNamed,
     BoundListed, RevokedTaken, Clearing
<1>. QED
  BY <1>1, <1>2, <1>3, <1>4, <1>5, <1>6, ShrinkKeeps

\* evict_account removes the token.
LEMMA EvictTokenKeeps ==
    ASSUME SessionInv, NEW p \in Tasks, NEW x, x = acct[p], EvictToken(p)
    PROVE  SessionInv'
<1>. USE SessionAssumption DEF SessionInv, EvictToken, client
<1>1. x \in Jar /\ home[x] \in Browsers /\ op[p] \in {"request", "logout", "list", "purge"}
  BY DEF TypeOK, ProcShape, WellPlaced, LabelsOK, HomeShape, Ops, Jar, Adding, Guarding, Evicting, Removing, Clearing
<1>2. Only(p) /\ Moves(p, "ev_a2b")
  BY <1>1, GotoMoves DEF TypeOK, Jar, PCs, Ops, Adding, Guarding, Evicting, Removing, Clearing
<1>3. Shrinks(x) /\ x \in Touched'
  BY <1>1 DEF Shrinks, TypeOK, Jar, Touched, WithReason, HasReason, Adding, Guarding, Evicting, Removing, Clearing
<1>4. WellPlaced(p)' /\ KeepsOut(p)' /\ HasReason(p)'
  BY <1>1, <1>2, <1>3 DEF Shrinks, Moves, ProcShape, StaysOut, WithReason, WellPlaced, LabelsOK, KeepsOut,
     HasReason, TypeOK, HomeShape, Touched, Jar, Adding, Guarding, Evicting, Removing, Clearing
<1>5. op'[p] # "login" /\ \A a : KeepsTodo(p, a)
  BY <1>1, <1>2 DEF Moves, KeepsTodo, ProcShape, WellPlaced, Clearing
<1>6. Accounted(x)'
  BY <1>1, <1>2, <1>5, ChargeKept DEF At, Moves, TypeOK, Jar, StaysOut, KeepsOut, Responsible, Accounted,
     SessionNamed, NameValid, ListedNamed, ListedBound, BoundNamed,
     BoundListed, RevokedTaken, Clearing
<1>. QED
  BY <1>1, <1>2, <1>3, <1>4, <1>5, <1>6, ShrinkKeeps

\* evict_account removes the browser binding.
LEMMA EvictBrowserKeeps ==
    ASSUME SessionInv, NEW p \in Tasks, NEW x, x = acct[p], EvictBrowser(p)
    PROVE  SessionInv'
<1>. USE SessionAssumption DEF SessionInv, EvictBrowser, client
<1>1. x \in Jar /\ home[x] \in Browsers /\ op[p] \in {"request", "logout", "list", "purge"}
  BY DEF TypeOK, ProcShape, WellPlaced, LabelsOK, HomeShape, Ops, Jar, Adding, Guarding, Evicting, Removing, Clearing
<1>2. /\ Only(p)
      /\ pc'[p] = "retain" /\ op'[p] = op[p] /\ acct'[p] = x
      /\ todo'[p] = todo[p] /\ scan'[p] = Browsers
  BY <1>1 DEF TypeOK, Jar, PCs, Ops, Adding, Guarding, Evicting, Removing, Clearing, Only, Same, ProcsOK
<1>3. Shrinks(x) /\ x \in Touched'
  BY <1>1 DEF Shrinks, TypeOK, Jar, Touched, WithReason, HasReason, Adding, Guarding, Evicting, Removing, Clearing
<1>4. WellPlaced(p)' /\ KeepsOut(p)' /\ HasReason(p)'
  BY <1>1, <1>2, <1>3 DEF Shrinks, ProcShape, StaysOut, WithReason, WellPlaced, LabelsOK, KeepsOut,
     HasReason, TypeOK, HomeShape, Touched, Jar, Adding, Guarding, Evicting, Removing, Clearing
<1>5. op'[p] # "login" /\ \A a : KeepsTodo(p, a)
  BY <1>1, <1>2 DEF KeepsTodo, ProcShape, WellPlaced, Clearing
<1>6. Accounted(x)'
  <2>1. Scanned(x)'
    BY <1>1, <1>2 DEF Scanned, At
  <2>. QED
    BY <1>1, <1>2, <1>5, <2>1, ChargeKept DEF At, TypeOK, Jar, StaysOut, KeepsOut, Responsible, Accounted,
       SessionNamed, NameValid, ListedNamed, ListedBound, BoundNamed, BoundListed, RevokedTaken
<1>. QED
  BY <1>1, <1>2, <1>3, <1>4, <1>5, <1>6, ShrinkKeeps

\* retain visits a browser.
LEMMA RetainKeeps ==
    ASSUME SessionInv, NEW p \in Tasks, NEW x, x = acct[p], NEW b \in Browsers, Retain(p, b)
    PROVE  SessionInv'
<1>. USE SessionAssumption DEF SessionInv, Retain, client
<1>1. x \in Jar /\ home[x] \in Browsers /\ op[p] \in {"request", "logout", "list", "purge"}
  BY DEF TypeOK, ProcShape, WellPlaced, LabelsOK, HomeShape, Ops, Jar, Adding, Guarding, Evicting, Removing, Clearing
<1>2. /\ Only(p)
      /\ pc'[p] = "retain" /\ op'[p] = op[p] /\ acct'[p] = x
      /\ todo'[p] = todo[p] /\ scan'[p] = scan[p] \ {b}
  BY <1>1 DEF TypeOK, Jar, PCs, Ops, Adding, Guarding, Evicting, Removing, Clearing, Only, Same, ProcsOK
<1>3. Shrinks(x) /\ x \in Touched'
  BY <1>1 DEF Shrinks, TypeOK, Jar, Touched, WithReason, HasReason, Adding, Guarding, Evicting, Removing, Clearing
<1>4. WellPlaced(p)' /\ KeepsOut(p)' /\ HasReason(p)'
  BY <1>1, <1>2, <1>3 DEF Shrinks, ProcShape, StaysOut, WithReason, WellPlaced, LabelsOK, KeepsOut,
     HasReason, TypeOK, HomeShape, Touched, Jar, Adding, Guarding, Evicting, Removing, Clearing
<1>5. op'[p] # "login" /\ \A a : KeepsTodo(p, a)
  BY <1>1, <1>2 DEF KeepsTodo, ProcShape, WellPlaced, Clearing
<1>6. Accounted(x)'
  <2>1. b # home[x] => (Scanned(x) => Scanned(x)')
    BY <1>1, <1>2, ChargeKept, <1>5 DEF Scanned, At
  <2>2. x \notin a2s /\ x \notin sessions /\ a2b[x] = None
    BY DEF StaysOut, KeepsOut
  <2>3. b = home[x] => x \notin list'[home[x]]
    BY <1>1 DEF TypeOK
  <2>4. b # home[x] => list'[home[x]] = list[home[x]]
    BY <1>1 DEF TypeOK
  <2>. QED
    BY <1>1, <1>2, <1>5, <2>1, <2>2, <2>3, <2>4, ChargeKept DEF At, Responsible, Accounted,
       SessionNamed, NameValid, ListedNamed, ListedBound, BoundNamed, BoundListed, RevokedTaken
<1>. QED
  BY <1>1, <1>2, <1>3, <1>4, <1>5, <1>6, ShrinkKeeps

\* remove_browser removes the browser binding.
LEMMA ClearBrowserKeeps ==
    ASSUME SessionInv, NEW p \in Tasks, NEW x, x = acct[p], ClearBrowser(p)
    PROVE  SessionInv'
<1>. USE SessionAssumption DEF SessionInv, ClearBrowser, client
<1>1. x \in Jar /\ home[x] \in Browsers /\ op[p] = "logout"
  BY DEF TypeOK, ProcShape, WellPlaced, LabelsOK, HomeShape, Ops, Jar, Adding, Guarding, Evicting, Removing, Clearing
<1>2. Only(p) /\ Moves(p, "lo_a2s")
  BY <1>1, GotoMoves DEF TypeOK, Jar, PCs, Ops, Adding, Guarding, Evicting, Removing, Clearing
<1>3. Shrinks(x) /\ x \in Touched'
  BY <1>1 DEF Shrinks, TypeOK, Jar, Touched, WithReason, HasReason, Adding, Guarding, Evicting, Removing, Clearing
<1>4. WellPlaced(p)' /\ KeepsOut(p)' /\ HasReason(p)'
  BY <1>1, <1>2, <1>3 DEF Shrinks, Moves, ProcShape, StaysOut, WithReason, WellPlaced, LabelsOK, KeepsOut,
     HasReason, TypeOK, HomeShape, Touched, Jar, Adding, Guarding, Evicting, Removing, Clearing
<1>5. op'[p] # "login" /\ \A a : KeepsTodo(p, a)
  BY <1>1, <1>2 DEF Moves, KeepsTodo, ProcShape, WellPlaced, Clearing
<1>6. Accounted(x)'
  BY <1>1, <1>2, <1>5, ChargeKept DEF At, Moves, TypeOK, Jar, StaysOut, KeepsOut, Responsible, Accounted,
     SessionNamed, NameValid, ListedNamed, ListedBound, BoundNamed,
     BoundListed, RevokedTaken, Clearing
<1>. QED
  BY <1>1, <1>2, <1>3, <1>4, <1>5, <1>6, ShrinkKeeps

\* remove_browser removes the token.
LEMMA ClearTokenKeeps ==
    ASSUME SessionInv, NEW p \in Tasks, NEW x, x = acct[p], ClearToken(p)
    PROVE  SessionInv'
<1>. USE SessionAssumption DEF SessionInv, ClearToken, client
<1>1. x \in Jar /\ home[x] \in Browsers /\ op[p] = "logout"
  BY DEF TypeOK, ProcShape, WellPlaced, LabelsOK, HomeShape, Ops, Jar, Adding, Guarding, Evicting, Removing, Clearing
<1>2. Only(p) /\ (IF x \in a2s THEN Moves(p, "lo_sess") ELSE Loops(p, todo[p]))
  BY <1>1, GotoMoves, LoopLoops DEF TypeOK, Jar, PCs, Ops, Adding, Guarding, Evicting, Removing, Clearing
<1>3. Shrinks(x) /\ x \in Touched'
  BY <1>1 DEF Shrinks, TypeOK, Jar, Touched, WithReason, HasReason, Adding, Guarding, Evicting, Removing, Clearing
<1>4. WellPlaced(p)' /\ KeepsOut(p)' /\ HasReason(p)'
  BY <1>1, <1>2, <1>3 DEF Shrinks, Moves, Ends, Loops, ProcShape, StaysOut, WithReason, WellPlaced, LabelsOK, KeepsOut,
     HasReason, TypeOK, HomeShape, Touched, Jar, Adding, Guarding, Evicting, Removing, Clearing
<1>5. op'[p] # "login" /\ \A a : KeepsTodo(p, a)
  BY <1>1, <1>2 DEF Moves, Ends, Loops, KeepsTodo, ProcShape, WellPlaced, Clearing
<1>6. Accounted(x)'
  BY <1>1, <1>2, <1>5, ChargeKept DEF At, Moves, Ends, Loops, TypeOK, Jar, StaysOut, KeepsOut, Responsible, Accounted,
     SessionNamed, NameValid, ListedNamed, ListedBound, BoundNamed,
     BoundListed, RevokedTaken, Clearing
<1>. QED
  BY <1>1, <1>2, <1>3, <1>4, <1>5, <1>6, ShrinkKeeps

\* remove_browser removes the session.
LEMMA ClearSessionKeeps ==
    ASSUME SessionInv, NEW p \in Tasks, NEW x, x = acct[p], ClearSession(p)
    PROVE  SessionInv'
<1>. USE SessionAssumption DEF SessionInv, ClearSession, client
<1>1. x \in Jar /\ home[x] \in Browsers /\ op[p] = "logout"
  BY DEF TypeOK, ProcShape, WellPlaced, LabelsOK, HomeShape, Ops, Jar, Adding, Guarding, Evicting, Removing, Clearing
<1>2. Only(p) /\ Loops(p, todo[p])
  BY <1>1, LoopLoops DEF TypeOK, Jar, PCs, Ops, Adding, Guarding, Evicting, Removing, Clearing
<1>3. Shrinks(x) /\ x \in Touched'
  BY <1>1 DEF Shrinks, TypeOK, Jar, Touched, WithReason, HasReason, Adding, Guarding, Evicting, Removing, Clearing
<1>4. WellPlaced(p)' /\ KeepsOut(p)' /\ HasReason(p)'
  BY <1>1, <1>2, <1>3 DEF Shrinks, Ends, Loops, ProcShape, StaysOut, WithReason, WellPlaced, LabelsOK, KeepsOut,
     HasReason, TypeOK, HomeShape, Touched, Jar, Adding, Guarding, Evicting, Removing, Clearing
<1>5. op'[p] # "login" /\ \A a : KeepsTodo(p, a)
  BY <1>1, <1>2 DEF Ends, Loops, KeepsTodo, ProcShape, WellPlaced, Clearing
<1>6. Accounted(x)'
  BY <1>1, <1>2, <1>5, ChargeKept DEF At, Ends, Loops, TypeOK, Jar, StaysOut, KeepsOut, Responsible, Accounted,
     SessionNamed, NameValid, ListedNamed, ListedBound, BoundNamed,
     BoundListed, RevokedTaken, Clearing
<1>. QED
  BY <1>1, <1>2, <1>3, <1>4, <1>5, <1>6, ShrinkKeeps

\* remove_account removes the token.
LEMMA RemoveTokenKeeps ==
    ASSUME SessionInv, NEW p \in Tasks, NEW x, x = acct[p], RemoveToken(p)
    PROVE  SessionInv'
<1>. USE SessionAssumption DEF SessionInv, RemoveToken, Removed, client
<1>1. x \in Jar /\ home[x] \in Browsers /\ op[p] \in {"remove", "list"}
  BY DEF TypeOK, ProcShape, WellPlaced, LabelsOK, HomeShape, Ops, Jar, Adding, Guarding, Evicting, Removing, Clearing
<1>2. Only(p) /\
      (\/ x \in a2s /\ Moves(p, "ra_sess")
       \/ x \notin a2s /\ op[p] = "list" /\ Loops(p, todo[p])
       \/ x \notin a2s /\ op[p] = "remove" /\ Ends(p))
  BY <1>1, GotoMoves, EndEnds, LoopLoops DEF TypeOK, Jar, PCs, Ops, Adding, Guarding, Evicting, Removing, Clearing
<1>3. Shrinks(x) /\ x \in Touched'
  BY <1>1 DEF Shrinks, TypeOK, Jar, Touched, WithReason, HasReason, Adding, Guarding, Evicting, Removing, Clearing
<1>4. WellPlaced(p)' /\ KeepsOut(p)' /\ HasReason(p)'
  BY <1>1, <1>2, <1>3 DEF Shrinks, Moves, Ends, Loops, ProcShape, StaysOut, WithReason, WellPlaced, LabelsOK, KeepsOut,
     HasReason, TypeOK, HomeShape, Touched, Jar, Adding, Guarding, Evicting, Removing, Clearing
<1>5. op'[p] # "login" /\ \A a : KeepsTodo(p, a)
  BY <1>1, <1>2 DEF Moves, Ends, Loops, KeepsTodo, ProcShape, WellPlaced, Clearing
<1>6. Accounted(x)'
  BY <1>1, <1>2, <1>5, ChargeKept DEF At, Moves, Ends, Loops, TypeOK, Jar, StaysOut, KeepsOut, Responsible, Accounted,
     SessionNamed, NameValid, ListedNamed, ListedBound, BoundNamed,
     BoundListed, RevokedTaken, Clearing
<1>. QED
  BY <1>1, <1>2, <1>3, <1>4, <1>5, <1>6, ShrinkKeeps

\* remove_account removes the session.
LEMMA RemoveSessionKeeps ==
    ASSUME SessionInv, NEW p \in Tasks, NEW x, x = acct[p], RemoveSession(p)
    PROVE  SessionInv'
<1>. USE SessionAssumption DEF SessionInv, RemoveSession, client
<1>1. x \in Jar /\ home[x] \in Browsers /\ op[p] \in {"remove", "list"}
  BY DEF TypeOK, ProcShape, WellPlaced, LabelsOK, HomeShape, Ops, Jar, Adding, Guarding, Evicting, Removing, Clearing
<1>2. Only(p) /\ Moves(p, "ra_a2b")
  BY <1>1, GotoMoves DEF TypeOK, Jar, PCs, Ops, Adding, Guarding, Evicting, Removing, Clearing
<1>3. Shrinks(x) /\ x \in Touched'
  BY <1>1 DEF Shrinks, TypeOK, Jar, Touched, WithReason, HasReason, Adding, Guarding, Evicting, Removing, Clearing
<1>4. WellPlaced(p)' /\ KeepsOut(p)' /\ HasReason(p)'
  BY <1>1, <1>2, <1>3 DEF Shrinks, Moves, ProcShape, StaysOut, WithReason, WellPlaced, LabelsOK, KeepsOut,
     HasReason, TypeOK, HomeShape, Touched, Jar, Adding, Guarding, Evicting, Removing, Clearing
<1>5. op'[p] # "login" /\ \A a : KeepsTodo(p, a)
  BY <1>1, <1>2 DEF Moves, KeepsTodo, ProcShape, WellPlaced, Clearing
<1>6. Accounted(x)'
  BY <1>1, <1>2, <1>5, ChargeKept DEF At, Moves, TypeOK, Jar, StaysOut, KeepsOut, Responsible, Accounted,
     SessionNamed, NameValid, ListedNamed, ListedBound, BoundNamed,
     BoundListed, RevokedTaken, Clearing
<1>. QED
  BY <1>1, <1>2, <1>3, <1>4, <1>5, <1>6, ShrinkKeeps

\* remove_account removes the browser binding.
LEMMA RemoveBrowserOfKeeps ==
    ASSUME SessionInv, NEW p \in Tasks, NEW x, x = acct[p], RemoveBrowserOf(p)
    PROVE  SessionInv'
<1>. USE SessionAssumption DEF SessionInv, RemoveBrowserOf, Removed, client
<1>1. x \in Jar /\ home[x] \in Browsers /\ op[p] \in {"remove", "list"}
  BY DEF TypeOK, ProcShape, WellPlaced, LabelsOK, HomeShape, Ops, Jar, Adding, Guarding, Evicting, Removing, Clearing
<1>2. Only(p) /\
      (\/ a2b[x] # None /\ Moves(p, "ra_list")
       \/ a2b[x] = None /\ op[p] = "list" /\ Loops(p, todo[p])
       \/ a2b[x] = None /\ op[p] = "remove" /\ Ends(p))
  BY <1>1, GotoMoves, EndEnds, LoopLoops DEF TypeOK, Jar, PCs, Ops, Adding, Guarding, Evicting, Removing, Clearing
<1>3. Shrinks(x) /\ x \in Touched'
  BY <1>1 DEF Shrinks, TypeOK, Jar, Touched, WithReason, HasReason, Adding, Guarding, Evicting, Removing, Clearing
<1>4. WellPlaced(p)' /\ KeepsOut(p)' /\ HasReason(p)'
  BY <1>1, <1>2, <1>3 DEF Shrinks, Moves, Ends, Loops, ProcShape, StaysOut, WithReason, WellPlaced, LabelsOK, KeepsOut,
     HasReason, TypeOK, HomeShape, Touched, Jar, Adding, Guarding, Evicting, Removing, Clearing
<1>5. op'[p] # "login" /\ \A a : KeepsTodo(p, a)
  BY <1>1, <1>2 DEF Moves, Ends, Loops, KeepsTodo, ProcShape, WellPlaced, Clearing
<1>6. Accounted(x)'
  BY <1>1, <1>2, <1>5, ChargeKept DEF At, Moves, Ends, Loops, TypeOK, Jar, StaysOut, KeepsOut, Responsible, Accounted,
     SessionNamed, NameValid, ListedNamed, ListedBound, BoundNamed,
     BoundListed, RevokedTaken, Clearing
<1>. QED
  BY <1>1, <1>2, <1>3, <1>4, <1>5, <1>6, ShrinkKeeps

\* remove_account removes the account from its list.
LEMMA RemoveFromListKeeps ==
    ASSUME SessionInv, NEW p \in Tasks, NEW x, x = acct[p], RemoveFromList(p)
    PROVE  SessionInv'
<1>. USE SessionAssumption DEF SessionInv, RemoveFromList, Removed, client
<1>1. x \in Jar /\ home[x] \in Browsers /\ op[p] \in {"remove", "list"}
  BY DEF TypeOK, ProcShape, WellPlaced, LabelsOK, HomeShape, Ops, Jar, Adding, Guarding, Evicting, Removing, Clearing
<1>2. Only(p) /\ (IF op[p] = "list" THEN Loops(p, todo[p]) ELSE Ends(p))
  BY <1>1, EndEnds, LoopLoops DEF TypeOK, Jar, PCs, Ops, Adding, Guarding, Evicting, Removing, Clearing
<1>3. Shrinks(x) /\ x \in Touched'
  BY <1>1 DEF Shrinks, TypeOK, Jar, Touched, WithReason, HasReason, Adding, Guarding, Evicting, Removing, Clearing
<1>4. WellPlaced(p)' /\ KeepsOut(p)' /\ HasReason(p)'
  BY <1>1, <1>2, <1>3 DEF Shrinks, Ends, Loops, ProcShape, StaysOut, WithReason, WellPlaced, LabelsOK, KeepsOut,
     HasReason, TypeOK, HomeShape, Touched, Jar, Adding, Guarding, Evicting, Removing, Clearing
<1>5. op'[p] # "login" /\ \A a : KeepsTodo(p, a)
  BY <1>1, <1>2 DEF Ends, Loops, KeepsTodo, ProcShape, WellPlaced, Clearing
<1>6. Accounted(x)'
  BY <1>1, <1>2, <1>5, ChargeKept DEF At, Ends, Loops, TypeOK, Jar, StaysOut, KeepsOut, Responsible, Accounted,
     SessionNamed, NameValid, ListedNamed, ListedBound, BoundNamed,
     BoundListed, RevokedTaken, Clearing
<1>. QED
  BY <1>1, <1>2, <1>3, <1>4, <1>5, <1>6, ShrinkKeeps

\* A login with the browser id of earlier logins arrives.
LEMMA LoginKeeps ==
    ASSUME SessionInv, NEW p \in Tasks, NEW x \in Accounts, NEW b \in Browsers, Login(p, x, b)
    PROVE  SessionInv'
<1>. USE SessionAssumption DEF SessionInv, Login, Start, Clone, Open, maps
<1>1. /\ op[p] = "none" /\ x \in Accounts \ Jar /\ status[x] = "new"
      /\ todo[p] = {} /\ \A q \in Tasks : acct[q] # x
  BY DEF TypeOK, ProcShape, WellPlaced, LabelsOK, Ops, Jar, Adding, Guarding, Evicting, Removing, Clearing
<1>2. x \notin sessions /\ x \notin a2s /\ a2b[x] = None
  BY <1>1 DEF OpeningShape, AddedBy, At
<1>3. Only(p) /\ pc'[p] = "filter" /\ op'[p] = "login" /\ acct'[p] = x /\ todo'[p] = list[b]
  BY <1>1 DEF TypeOK, PCs, Ops, Adding, Guarding, Evicting, Removing, Clearing, Only, Same, ProcsOK
<1>4. Opens(p, x) /\ status'[x] = "opening" /\ Jar' = Jar
  BY <1>1, <1>2, <1>3 DEF Opens, TypeOK, Statuses, Jar
<1>5. WellPlaced(p)'
  BY <1>1, <1>3, <1>4 DEF WellPlaced, LabelsOK, Only, Same, ProcShape, Adding, HomeShape
<1>. QED
  BY <1>1, <1>3, <1>4, <1>5, OpenKeeps

\* The first login of a browser arrives.
LEMMA FirstLoginKeeps ==
    ASSUME SessionInv, NEW p \in Tasks, NEW x \in Accounts, NEW b \in Browsers, FirstLogin(p, x, b)
    PROVE  SessionInv'
<1>. USE SessionAssumption DEF SessionInv, FirstLogin, Start, Open, maps
<1>1. /\ op[p] = "none" /\ x \in Accounts \ Jar /\ status[x] = "new"
      /\ todo[p] = {} /\ \A q \in Tasks : acct[q] # x
  BY DEF TypeOK, ProcShape, WellPlaced, LabelsOK, Ops, Jar, Adding, Guarding, Evicting, Removing, Clearing
<1>2. x \notin sessions /\ x \notin a2s /\ a2b[x] = None
  BY <1>1 DEF OpeningShape, AddedBy, At
<1>3. Only(p) /\ pc'[p] = "sess" /\ op'[p] = "login" /\ acct'[p] = x /\ todo'[p] = todo[p]
  BY <1>1 DEF TypeOK, PCs, Ops, Adding, Guarding, Evicting, Removing, Clearing, Only, Same, ProcsOK
<1>4. Opens(p, x) /\ status'[x] = "opening" /\ Jar' = Jar
  BY <1>1, <1>2, <1>3 DEF Opens, TypeOK, Statuses, Jar
<1>5. WellPlaced(p)'
  BY <1>1, <1>3, <1>4 DEF WellPlaced, LabelsOK, Only, Same, ProcShape, Adding
<1>. QED
  BY <1>1, <1>3, <1>4, <1>5, OpenKeeps

\* A passkey login arrives.
LEMMA PasskeyLoginKeeps ==
    ASSUME SessionInv, NEW p \in Tasks, NEW x \in Accounts, NEW b \in Browsers, PasskeyLogin(p, x, b)
    PROVE  SessionInv'
<1>. USE SessionAssumption DEF SessionInv, PasskeyLogin, Start, Open, maps
<1>1. /\ op[p] = "none" /\ x \in Accounts \ Jar /\ status[x] = "new"
      /\ todo[p] = {} /\ \A q \in Tasks : acct[q] # x
  BY DEF TypeOK, ProcShape, WellPlaced, LabelsOK, Ops, Jar, Adding, Guarding, Evicting, Removing, Clearing
<1>2. x \notin sessions /\ x \notin a2s /\ a2b[x] = None
  BY <1>1 DEF OpeningShape, AddedBy, At
<1>3. Only(p) /\ pc'[p] = "a2s" /\ op'[p] = "login" /\ acct'[p] = x /\ todo'[p] = todo[p]
  BY <1>1 DEF TypeOK, PCs, Ops, Adding, Guarding, Evicting, Removing, Clearing, Only, Same, ProcsOK
<1>4. Opens(p, x) /\ status'[x] = "opening" /\ Jar' = Jar
  BY <1>1, <1>2, <1>3 DEF Opens, TypeOK, Statuses, Jar
<1>5. WellPlaced(p)'
  BY <1>1, <1>3, <1>4 DEF WellPlaced, LabelsOK, Only, Same, ProcShape, Adding
<1>. QED
  BY <1>1, <1>3, <1>4, <1>5, OpenKeeps

\* The login looks for its mailbox in the clone.
LEMMA FilterLoginKeeps ==
    ASSUME SessionInv, NEW p \in Tasks, NEW x, x = acct[p], FilterLogin(p)
    PROVE  SessionInv'
<1>. USE SessionAssumption DEF SessionInv, FilterLogin, maps, client
<1>1. /\ op[p] = "login" /\ x \in Accounts \ Jar /\ home[x] \in Browsers /\ status[x] = "opening"
      /\ \A q \in Tasks : q # p => acct[q] # x
  BY DEF TypeOK, ProcShape, WellPlaced, LabelsOK, HomeShape, Ops, Jar, Adding, Guarding, Evicting, Removing, Clearing
<1>2. /\ x \in sessions <=> pc[p] \in {"a2s", "a2b", "push"}
      /\ x \in a2s <=> pc[p] \in {"a2b", "push"}
      /\ a2b[x] # None <=> pc[p] = "push"
  BY <1>1 DEF OpeningShape, AddedBy, At
<1>3. Only(p) /\
      (\/ Ends(p) /\ status'[x] = "refused"
       \/ /\ pc'[p] = "sess" /\ op'[p] = op[p] /\ acct'[p] = x /\ todo'[p] = {}
          /\ status'[x] = "opening")
  BY <1>1, EndEnds DEF TypeOK, PCs, Adding, Guarding, Evicting, Removing, Clearing, Only, Same, ProcsOK
<1>4. Opens(p, x) /\ Jar' = Jar
  BY <1>1, <1>2, <1>3 DEF Opens, TypeOK, HomeShape, Statuses, Jar, Moves, Ends
<1>5. WellPlaced(p)'
  BY <1>1, <1>3, <1>4 DEF WellPlaced, LabelsOK, Only, Same, ProcShape, Moves, Ends, Adding, Guarding, Evicting, Removing, Clearing
<1>. QED
  BY <1>1, <1>3, <1>4, <1>5, OpenKeeps DEF Moves, Ends

\* add_account_to_browser inserts the session.
LEMMA InsertSessionKeeps ==
    ASSUME SessionInv, NEW p \in Tasks, NEW x, x = acct[p], InsertSession(p)
    PROVE  SessionInv'
<1>. USE SessionAssumption DEF SessionInv, InsertSession, maps, client
<1>1. /\ op[p] = "login" /\ x \in Accounts \ Jar /\ home[x] \in Browsers /\ status[x] = "opening"
      /\ \A q \in Tasks : q # p => acct[q] # x
  BY DEF TypeOK, ProcShape, WellPlaced, LabelsOK, HomeShape, Ops, Jar, Adding, Guarding, Evicting, Removing, Clearing
<1>2. /\ x \in sessions <=> pc[p] \in {"a2s", "a2b", "push"}
      /\ x \in a2s <=> pc[p] \in {"a2b", "push"}
      /\ a2b[x] # None <=> pc[p] = "push"
  BY <1>1 DEF OpeningShape, AddedBy, At
<1>3. Only(p) /\ Moves(p, "a2s")
  BY <1>1, GotoMoves DEF TypeOK, PCs, Adding, Guarding, Evicting, Removing, Clearing
<1>4. Opens(p, x) /\ Jar' = Jar
  BY <1>1, <1>2, <1>3 DEF Opens, TypeOK, HomeShape, Statuses, Jar, Moves, Ends
<1>5. WellPlaced(p)'
  BY <1>1, <1>3, <1>4 DEF WellPlaced, LabelsOK, Only, Same, ProcShape, Moves, Ends, Adding, Guarding, Evicting, Removing, Clearing
<1>. QED
  BY <1>1, <1>3, <1>4, <1>5, OpenKeeps DEF Moves, Ends

\* add_account_to_browser inserts the token.
LEMMA InsertTokenKeeps ==
    ASSUME SessionInv, NEW p \in Tasks, NEW x, x = acct[p], InsertToken(p)
    PROVE  SessionInv'
<1>. USE SessionAssumption DEF SessionInv, InsertToken, maps, client
<1>1. /\ op[p] = "login" /\ x \in Accounts \ Jar /\ home[x] \in Browsers /\ status[x] = "opening"
      /\ \A q \in Tasks : q # p => acct[q] # x
  BY DEF TypeOK, ProcShape, WellPlaced, LabelsOK, HomeShape, Ops, Jar, Adding, Guarding, Evicting, Removing, Clearing
<1>2. /\ x \in sessions <=> pc[p] \in {"a2s", "a2b", "push"}
      /\ x \in a2s <=> pc[p] \in {"a2b", "push"}
      /\ a2b[x] # None <=> pc[p] = "push"
  BY <1>1 DEF OpeningShape, AddedBy, At
<1>3. Only(p) /\ Moves(p, "a2b")
  BY <1>1, GotoMoves DEF TypeOK, PCs, Adding, Guarding, Evicting, Removing, Clearing
<1>4. Opens(p, x) /\ Jar' = Jar
  BY <1>1, <1>2, <1>3 DEF Opens, TypeOK, HomeShape, Statuses, Jar, Moves, Ends
<1>5. WellPlaced(p)'
  BY <1>1, <1>3, <1>4 DEF WellPlaced, LabelsOK, Only, Same, ProcShape, Moves, Ends, Adding, Guarding, Evicting, Removing, Clearing
<1>. QED
  BY <1>1, <1>3, <1>4, <1>5, OpenKeeps DEF Moves, Ends

\* add_account_to_browser inserts the browser binding.
LEMMA InsertBrowserKeeps ==
    ASSUME SessionInv, NEW p \in Tasks, NEW x, x = acct[p], InsertBrowser(p)
    PROVE  SessionInv'
<1>. USE SessionAssumption DEF SessionInv, InsertBrowser, maps, client
<1>1. /\ op[p] = "login" /\ x \in Accounts \ Jar /\ home[x] \in Browsers /\ status[x] = "opening"
      /\ \A q \in Tasks : q # p => acct[q] # x
  BY DEF TypeOK, ProcShape, WellPlaced, LabelsOK, HomeShape, Ops, Jar, Adding, Guarding, Evicting, Removing, Clearing
<1>2. /\ x \in sessions <=> pc[p] \in {"a2s", "a2b", "push"}
      /\ x \in a2s <=> pc[p] \in {"a2b", "push"}
      /\ a2b[x] # None <=> pc[p] = "push"
  BY <1>1 DEF OpeningShape, AddedBy, At
<1>3. Only(p) /\ Moves(p, "push")
  BY <1>1, GotoMoves DEF TypeOK, PCs, Adding, Guarding, Evicting, Removing, Clearing
<1>4. Opens(p, x) /\ Jar' = Jar
  BY <1>1, <1>2, <1>3 DEF Opens, TypeOK, HomeShape, Statuses, Jar, Moves, Ends
<1>5. WellPlaced(p)'
  BY <1>1, <1>3, <1>4 DEF WellPlaced, LabelsOK, Only, Same, ProcShape, Moves, Ends, Adding, Guarding, Evicting, Removing, Clearing
<1>. QED
  BY <1>1, <1>3, <1>4, <1>5, OpenKeeps DEF Moves, Ends

\* The login is answered: it is in the list of its browser, and so usable.
LEMMA PushKeeps ==
    ASSUME SessionInv, NEW p \in Tasks, NEW x, x = acct[p], Push(p)
    PROVE  SessionInv'
<1>. USE SessionAssumption DEF SessionInv
<1>1. op[p] = "login" /\ x \in Accounts \ Jar /\ home[x] \in Browsers /\ status[x] = "opening"
  BY DEF Push, TypeOK, ProcShape, WellPlaced, LabelsOK, HomeShape, Ops, Tasks, Jar,
     Adding, Guarding, Evicting, Removing, Clearing
<1>2. Only(p) /\ Ends(p)
  BY EndEnds DEF Push
<1>3. \A a \in Accounts : status'[a] = IF a = x THEN "answered" ELSE status[a]
  BY <1>1 DEF Push, Answer, TypeOK
<1>4. Jar' = Jar \cup {x}
  BY <1>1, <1>3 DEF Jar
<1>5. \A b \in Browsers : list'[b] = IF b = home[x] THEN list[b] \cup {x} ELSE list[b]
  BY <1>1 DEF Push, TypeOK
<1>6. x \in sessions /\ x \in a2s /\ a2b[x] = home[x]
  <2>1. AddedBy(x, {"a2s", "a2b", "push"}) /\ AddedBy(x, {"a2b", "push"}) /\ AddedBy(x, {"push"})
    BY <1>1 DEF Push, AddedBy, At
  <2>. QED
    BY <1>1, <2>1 DEF OpeningShape, HomeShape
<1>7. TypeOK'
  BY <1>1, <1>2, <1>4 DEF Push, Answer, TypeOK, Only, ProcsOK, Statuses
<1>8. ProcShape'
  BY <1>1, <1>2, <1>3, <1>4 DEF Push, ProcShape, WellPlaced, LabelsOK, TypeOK, Only, Same, Ends
<1>9. OpeningShape'
  <2>. SUFFICES ASSUME NEW a \in Accounts \ Jar, a # x, NEW ls
                PROVE  AddedBy(a, ls)' <=> AddedBy(a, ls)
    BY <1>4 DEF Push, OpeningShape
  <2>. QED
    BY <1>1, <1>2 DEF AddedBy, At, Only, Same, Ends
<1>10. HomeShape'
  BY <1>1, <1>3, <1>4, <1>5 DEF Push, Answer, HomeShape, TypeOK, Statuses
<1>11. Responsible'
  <2>. SUFFICES ASSUME NEW a \in Jar \cup {x} PROVE Accounted(a)'
    BY <1>4 DEF Responsible
  <2>1. CASE a = x
    BY <2>1, <1>1, <1>3, <1>4, <1>5, <1>6 DEF Push, Answer, TypeOK, Accounted, SessionNamed, NameValid, ListedNamed,
       ListedBound, BoundNamed, BoundListed, RevokedTaken
  <2>2. CASE a \in Jar
    <3>1. SameEntries(a)
      BY <2>2, <1>1, <1>5 DEF SameEntries, Push, Answer, Jar, HomeShape
    <3>2. KeepsTodo(p, a) /\ ~Charged(p, a)
      BY <1>1 DEF KeepsTodo, Charged, InCharge, Push
    <3>. QED
      BY <2>2, <3>1, <3>2, <1>2, AccountedKept DEF Responsible
  <2>. QED
    BY <2>1, <2>2
<1>12. StaysOut' /\ WithReason'
  BY <1>1, <1>2, <1>5 DEF Push, Answer, StaysOut, KeepsOut, WithReason, HasReason, Touched, HomeShape,
     ProcShape, WellPlaced, LabelsOK, TypeOK, Jar, Adding, Guarding, Evicting, Removing, Clearing, Only, Same, Ends
<1>13. LoginHolds'
  <2>. SUFFICES ASSUME NEW a \in (Jar \cup {x}) \ Touched
                PROVE  Usable(a)'
    BY <1>4 DEF LoginHolds, Push, Answer, Touched
  <2>1. CASE a = x
    BY <2>1, <1>1, <1>5, <1>6 DEF Usable, Push, Answer
  <2>2. CASE a \in Jar
    BY <2>2, <1>1, <1>5 DEF LoginHolds, Usable, Push, Answer, HomeShape, Jar
  <2>. QED
    BY <2>1, <2>2
<1>. QED
  BY <1>7, <1>8, <1>9, <1>10, <1>11, <1>12, <1>13

\* A loop goes on to its next account: the process that had it in its Vec now
\* works on it.
LEMMA NextAccountKeeps ==
    ASSUME SessionInv, NEW p \in Tasks, NEW x \in Accounts, NextAccount(p, x)
    PROVE  SessionInv'
<1>. USE SessionAssumption DEF SessionInv, NextAccount, maps, client
<1>1. op[p] \in {"logout", "list", "purge"} /\ x \in Jar /\ home[x] \in Browsers
  BY DEF TypeOK, ProcShape, WellPlaced, LabelsOK, HomeShape, Ops, Jar,
     Adding, Guarding, Evicting, Removing, Clearing
<1>2. /\ Only(p)
      /\ op'[p] = op[p] /\ acct'[p] = x /\ todo'[p] = todo[p] \ {x} /\ jar'[p] = jar[p]
      /\ op[p] = "logout" => pc'[p] = "lo_a2b"
      /\ op[p] = "purge" => pc'[p] = "ev_a2s"
      /\ op[p] = "list" => pc'[p] = IF x \in jar[p] THEN "get" ELSE "ra_a2s"
  BY <1>1 DEF TypeOK, Only, Same, ProcsOK, PCs, Ops, Adding, Guarding, Evicting, Removing, Clearing
<1>3. Jar' = Jar /\ Touched' = Touched
  BY DEF Jar, Touched
<1>4. TypeOK'
  BY <1>2, <1>3 DEF TypeOK, Only, ProcsOK
<1>5. ProcShape'
  BY <1>1, <1>2, <1>3 DEF ProcShape, WellPlaced, LabelsOK, Only, Same, Jar, Guarding, Evicting, Removing, Clearing
<1>6. OpeningShape'
  BY <1>1, <1>2, <1>3, OpeningKept
<1>7. HomeShape'
  BY <1>3 DEF HomeShape
<1>8. Responsible'
  <2>. SUFFICES ASSUME NEW a \in Jar PROVE Accounted(a)'
    BY <1>3 DEF Responsible
  <2>1. CASE a # x
    BY <2>1, <1>2, AccountedKept DEF Responsible, SameEntries, KeepsTodo, Charged, InCharge
  <2>2. CASE a = x
    <3>1. \A ls : Busy(x, ls) => Busy(x, ls)' \/ pc[p] \in ls
      BY <1>2 DEF Busy, At, Only, Same
    <3>2. (Taken(x) => Taken(x)') /\ (Purged(x) => Purged(x)' \/ Busy(x, {"ev_a2s"})')
      BY <1>2 DEF Taken, Purged, Busy, At, Only, Same
    <3>3. Scanned(x) => Scanned(x)'
      BY <1>2 DEF Scanned, At, Only, Same
    <3>. QED
      BY <2>2, <1>1, <3>1, <3>2, <3>3 DEF Responsible, Accounted, SessionNamed, NameValid, ListedNamed, ListedBound,
         BoundNamed, BoundListed, RevokedTaken
  <2>. QED
    BY <2>1, <2>2
<1>9. StaysOut' /\ WithReason'
  BY <1>1, <1>2, <1>3 DEF StaysOut, KeepsOut, WithReason, HasReason, Only, Same,
     Guarding, Evicting, Removing, Clearing
<1>10. LoginHolds'
  BY <1>3 DEF LoginHolds, Usable
<1>. QED
  BY <1>4, <1>5, <1>6, <1>7, <1>8, <1>9, <1>10

\* A logout takes the list of its browser: it answers for every account in it.
LEMMA TakeBrowserKeeps ==
    ASSUME SessionInv, NEW p \in Tasks, NEW b, b = home[acct[p]], TakeBrowser(p)
    PROVE  SessionInv'
<1>. USE SessionAssumption DEF SessionInv, TakeBrowser
<1>1. op[p] = "logout" /\ b \in Browsers /\ todo[p] = {} /\ list[b] \in SUBSET Accounts /\ list[b] \subseteq Jar
  BY DEF TypeOK, ProcShape, WellPlaced, LabelsOK, HomeShape, Ops, Jar, Adding, Guarding, Evicting, Removing, Clearing
<1>2. Only(p) /\ Loops(p, list[b])
  BY <1>1, LoopLoops
<1>3. Jar' = Jar /\ Touched' = Touched \cup list[b]
  BY DEF Jar, Touched
<1>4. \A c \in Browsers : list'[c] = IF c = b THEN {} ELSE list[c]
  BY <1>1 DEF TypeOK
<1>5. TypeOK'
  BY <1>1, <1>2, <1>3 DEF TypeOK, Only, ProcsOK
<1>6. ProcShape'
  BY <1>1, <1>2, <1>3 DEF ProcShape, WellPlaced, LabelsOK, Only, Same, Loops, Ends
<1>7. OpeningShape'
  BY <1>1, <1>2, <1>3, OpeningKept DEF Loops, Ends
<1>8. HomeShape'
  BY <1>3, <1>4 DEF HomeShape
<1>9. Responsible'
  <2>. SUFFICES ASSUME NEW a \in Jar PROVE Accounted(a)'
    BY <1>3 DEF Responsible
  <2>1. KeepsTodo(p, a)
    BY <1>1 DEF KeepsTodo
  <2>2. CASE a \notin list[b]
    <3>1. SameEntries(a)
      BY <2>2, <1>4 DEF SameEntries, HomeShape, Jar
    <3>. QED
      BY <2>1, <2>2, <3>1, <1>2, AccountedKept DEF Responsible, Charged, InCharge
  <2>3. CASE a \in list[b]
    <3>1. home[a] = b /\ a \notin list'[b] /\ Taken(a)'
      BY <2>3, <1>1, <1>2, <1>4 DEF HomeShape, Taken, Loops
    <3>. QED
      BY <3>1, <2>1, <1>2, ChargeKept DEF At, Responsible, Accounted, SessionNamed, NameValid, ListedNamed,
         ListedBound, BoundNamed, BoundListed, RevokedTaken
  <2>. QED
    BY <2>2, <2>3
<1>10. StaysOut'
  BY <1>1, <1>2, <1>4 DEF StaysOut, KeepsOut, ProcShape, WellPlaced, LabelsOK, Only, Same, Loops, Ends, HomeShape,
     TypeOK, Ops, Jar, Adding, Guarding, Evicting, Removing, Clearing
<1>11. WithReason'
  BY <1>1, <1>2, <1>3 DEF WithReason, HasReason, Only, Same, Loops, Ends, Evicting, Removing, Clearing
<1>12. LoginHolds'
  BY <1>1, <1>3, <1>4 DEF LoginHolds, Usable, HomeShape, Jar, TypeOK
<1>. QED
  BY <1>5, <1>6, <1>7, <1>8, <1>9, <1>10, <1>11, <1>12

\* The purge removes the expired sessions: it answers for the rest of them.
LEMMA PurgeKeeps ==
    ASSUME SessionInv, NEW p \in Tasks, p = Purger, Purge
    PROVE  SessionInv'
<1>. USE SessionAssumption DEF SessionInv, Purge, client
<1>. DEFINE found == sessions \cap expired
<1>1. op[p] = "none" /\ todo[p] = {} /\ found \subseteq Jar /\ found \subseteq Touched
  BY DEF Start, TypeOK, ProcShape, WellPlaced, LabelsOK, Ops, Touched, Adding, Guarding, Evicting, Removing, Clearing
<1>2. Only(p) /\ pc'[p] = "next" /\ op'[p] = "purge" /\ acct'[p] = None /\ todo'[p] = found
  BY <1>1 DEF Start, Only, Same, ProcsOK, TypeOK, PCs, Ops
<1>3. Jar' = Jar /\ Touched' = Touched
  BY DEF Jar, Touched
<1>4. TypeOK'
  BY <1>2, <1>3 DEF TypeOK, Only, ProcsOK
<1>5. ProcShape'
  BY <1>1, <1>2, <1>3 DEF ProcShape, WellPlaced, LabelsOK, Only, Same
<1>6. OpeningShape'
  BY <1>1, <1>2, <1>3, OpeningKept DEF TypeOK
<1>7. HomeShape'
  BY <1>3 DEF HomeShape
<1>8. Responsible'
  <2>. SUFFICES ASSUME NEW a \in Jar PROVE Accounted(a)'
    BY <1>3 DEF Responsible
  <2>1. KeepsTodo(p, a) /\ ~Charged(p, a)
    BY <1>1 DEF KeepsTodo, Charged, InCharge, Start
  <2>2. CASE a \notin found
    BY <2>1, <2>2, <1>2, AccountedKept DEF Responsible, SameEntries
  <2>3. CASE a \in found
    <3>1. Purged(a)'
      BY <2>3, <1>2 DEF Purged
    <3>. QED
      BY <2>1, <3>1, <1>2, ChargeKept DEF Start, At, Responsible, Accounted, SessionNamed, NameValid, ListedNamed,
         ListedBound, BoundNamed, BoundListed, RevokedTaken
  <2>. QED
    BY <2>2, <2>3
<1>9. StaysOut' /\ WithReason'
  BY <1>1, <1>2, <1>3 DEF StaysOut, KeepsOut, WithReason, HasReason, Only, Same, Evicting, Removing, Clearing
<1>10. LoginHolds'
  BY <1>3 DEF LoginHolds, Usable, Touched
<1>. QED
  BY <1>4, <1>5, <1>6, <1>7, <1>8, <1>9, <1>10

\* A session passes its timeout.
LEMMA ExpireKeeps ==
    ASSUME SessionInv, NEW x \in Accounts, Expire(x)
    PROVE  SessionInv'
<1>. USE DEF SessionInv, Expire, maps, procs
<1>1. Jar' = Jar /\ x \in Jar /\ Touched \subseteq Touched'
  BY DEF Jar, Touched
<1>2. TypeOK'
  BY <1>1 DEF TypeOK
<1>3. ProcShape' /\ OpeningShape' /\ HomeShape'
  BY <1>1 DEF ProcShape, WellPlaced, LabelsOK, OpeningShape, AddedBy, At, HomeShape
<1>4. Responsible'
  BY <1>1 DEF Responsible, Accounted, SessionNamed, NameValid, ListedNamed, ListedBound, BoundNamed, BoundListed,
     RevokedTaken, Busy, Taken, Purged, Scanned, At
<1>5. StaysOut' /\ WithReason'
  BY <1>1 DEF StaysOut, KeepsOut, WithReason, HasReason
<1>6. LoginHolds'
  BY <1>1 DEF LoginHolds, Usable
<1>. QED
  BY <1>2, <1>3, <1>4, <1>5, <1>6

\* The empty store satisfies the invariant.
LEMMA InitEstablishes ==
    ASSUME Init
    PROVE  SessionInv
<1>. USE SessionAssumption DEF SessionInv, Init
<1>1. Jar = {}
  BY DEF Jar
<1>2. TypeOK
  BY DEF TypeOK, Statuses, Ops, PCs
<1>3. ProcShape /\ OpeningShape /\ HomeShape
  BY <1>1 DEF ProcShape, WellPlaced, LabelsOK, OpeningShape, AddedBy, At, HomeShape, Clearing
<1>4. Responsible /\ LoginHolds
  BY <1>1 DEF Responsible, LoginHolds
<1>5. StaysOut /\ WithReason
  BY DEF StaysOut, KeepsOut, WithReason, HasReason, Evicting, Clearing, Removing
<1>. QED
  BY <1>2, <1>3, <1>4, <1>5

\* Every step preserves the invariant.
LEMMA StepPreserves ==
    ASSUME SessionInv, [Next]_vars
    PROVE  SessionInv'
<1>1. ASSUME NEW p \in Procs, NEW a \in Accounts, Arrive(p, a)
      PROVE  SessionInv'
  <2>1. p \in Tasks
    BY DEF Tasks
  <2>2. CASE \E b \in Browsers : Login(p, a, b) \/ PasskeyLogin(p, a, b) \/ FirstLogin(p, a, b)
    BY <2>1, <2>2, LoginKeeps, PasskeyLoginKeeps, FirstLoginKeeps
  <2>3. CASE \E o \in {"request", "logout"} : Request(p, a, o)
    BY <2>1, <2>3, RequestKeeps
  <2>4. CASE Remove(p, a) \/ ListAccounts(p, a)
    BY <2>1, <2>4, RemoveKeeps, ListAccountsKeeps
  <2>. QED
    BY <1>1, <2>2, <2>3, <2>4 DEF Arrive
<1>2. ASSUME NEW p \in Tasks, Step(p)
      PROVE  SessionInv'
  <2>1. CASE Add(p)
    BY <2>1, InsertSessionKeeps, InsertTokenKeeps, InsertBrowserKeeps, PushKeeps DEF Add
  <2>2. CASE Look(p)
    BY <2>2, CloneListKeeps, FilterLoginKeeps, FilterRemoveKeeps, FilterListKeeps,
       CheckTokenKeeps, GetMissingKeeps, GetExpiredKeeps, GetServedKeeps DEF Look
  <2>3. CASE Evict(p)
    BY <2>3, DropSessionKeeps, EvictTokenKeeps, EvictBrowserKeeps, EvictedKeeps, RetainKeeps DEF Evict
  <2>4. CASE Take(p)
    BY <2>4, NextAccountKeeps, TakeBrowserKeeps, ClearBrowserKeeps, ClearTokenKeeps, ClearSessionKeeps,
       RemoveTokenKeeps, RemoveSessionKeeps, RemoveBrowserOfKeeps, RemoveFromListKeeps DEF Take
  <2>. QED
    BY <1>2, <2>1, <2>2, <2>3, <2>4 DEF Step
<1>3. CASE Purge
  BY <1>3, PurgeKeeps DEF Tasks
<1>4. CASE \E a \in Accounts : Expire(a)
  BY <1>4, ExpireKeeps
<1>5. CASE UNCHANGED vars
  <2>. USE <1>5 DEF vars, maps, client, procs, SessionInv
  <2>1. Jar' = Jar /\ Touched' = Touched
    BY DEF Jar, Touched
  <2>2. TypeOK' /\ ProcShape' /\ OpeningShape' /\ HomeShape'
    BY <2>1 DEF TypeOK, ProcShape, WellPlaced, LabelsOK, OpeningShape, AddedBy, At, HomeShape
  <2>3. Responsible'
    BY <2>1 DEF Responsible, Accounted, SessionNamed, NameValid, ListedNamed, ListedBound, BoundNamed, BoundListed,
       RevokedTaken, Busy, Taken, Purged, Scanned, At
  <2>4. StaysOut' /\ WithReason' /\ LoginHolds'
    BY <2>1 DEF StaysOut, KeepsOut, WithReason, HasReason, LoginHolds, Usable
  <2>. QED
    BY <2>2, <2>3, <2>4
<1>. QED
  BY <1>1, <1>2, <1>3, <1>4, <1>5 DEF Next

\* SessionInv holds throughout: for every entry of the four maps that does not fit
\* the others, some operation under way is going to remove it.
THEOREM SessionInvariant == Spec => []SessionInv
<1>1. Init => SessionInv
  BY InitEstablishes
<1>2. SessionInv /\ [Next]_vars => SessionInv'
  BY StepPreserves
<1>. QED
  BY <1>1, <1>2, PTL DEF Spec

\* With no operation under way, Responsible leaves no entry that does not fit.
LEMMA RestIsConsistent ==
    ASSUME SessionInv
    PROVE  ConsistentAtRest
<1>. SUFFICES ASSUME AtRest
              PROVE  /\ sessions = a2s
                     /\ \A b \in Browsers : list[b] \subseteq a2s
                     /\ \A a \in Accounts : a2b[a] # None => a \in a2s /\ a2b[a] \in browsers
  BY DEF ConsistentAtRest
<1>. USE DEF SessionInv
<1>1. \A p \in Tasks : op[p] = "none" /\ todo[p] = {} /\ pc[p] = "idle"
  BY DEF AtRest, TypeOK, Ops, ProcShape, WellPlaced, LabelsOK, Adding, Guarding, Evicting, Removing, Clearing
<1>2. \A a \in Accounts \ Jar : a \notin sessions /\ a \notin a2s /\ a2b[a] = None
  BY <1>1 DEF OpeningShape, AddedBy
<1>3. \A a \in Jar : /\ a \in sessions <=> a \in a2s
                     /\ a \in list[home[a]] => a \in a2s
                     /\ a2b[a] # None => a \in a2s /\ a \in list[home[a]]
  BY <1>1 DEF Responsible, Accounted, SessionNamed, NameValid, ListedNamed, ListedBound, BoundNamed, BoundListed,
     Busy, At, Taken, Purged, Scanned
<1>4. sessions = a2s
  BY <1>2, <1>3 DEF TypeOK
<1>5. ASSUME NEW b \in Browsers PROVE list[b] \subseteq a2s
  BY <1>3 DEF HomeShape
<1>6. ASSUME NEW a \in Accounts, a2b[a] # None PROVE a \in a2s /\ a2b[a] \in browsers
  <2>1. a \in Jar /\ home[a] \in Browsers /\ a2b[a] = home[a]
    BY <1>2, <1>6 DEF HomeShape, Jar
  <2>. QED
    BY <1>3, <1>6, <2>1 DEF HomeShape
<1>. QED
  BY <1>4, <1>5, <1>6

\* check_consistency finds nothing whenever no operation is under way, however
\* logins, removals, logouts, requests and purges overlapped before.
THEOREM SessionsConsistent == Spec => []ConsistentAtRest
BY SessionInvariant, RestIsConsistent, PTL

\* An answered login can be used until it expires or is taken out on purpose: no
\* eviction, removal or deletion of an empty browser costs it an entry.
THEOREM SessionsHold == Spec => []LoginHolds
<1>1. SessionInv => LoginHolds
  BY DEF SessionInv
<1>. QED
  BY <1>1, SessionInvariant, PTL

\* A revoked account that nobody works on has no token (RevokedTaken), so no
\* session, no browser binding and no place in a list.
LEMMA RevokedForgotten ==
    ASSUME SessionInv
    PROVE  RevokedIsForgotten
<1>. USE DEF SessionInv
<1>. SUFFICES ASSUME NEW a \in revoked, ~Leaving(a)
              PROVE  a \notin sessions \cup a2s \cup list[home[a]] /\ a2b[a] = None
  BY DEF RevokedIsForgotten
<1>1. a \in Jar
  BY DEF TypeOK
<1>2. ~Busy(a, Evicting \cup Removing \cup Clearing) /\ ~Taken(a)
  BY DEF Leaving, Busy, Taken, Holds, At, Clearing
<1>3. \A ls \in SUBSET (Evicting \cup Removing \cup Clearing) : ~Busy(a, ls)
  BY <1>2 DEF Busy, At
<1>4. a \notin a2s
  BY <1>1, <1>2, <1>3 DEF Responsible, Accounted, RevokedTaken, Clearing
<1>5. a \notin sessions
  BY <1>1, <1>3, <1>4 DEF Responsible, Accounted, SessionNamed, Removing, Clearing
<1>6. a2b[a] = None
  BY <1>1, <1>3, <1>4 DEF Responsible, Accounted, BoundNamed, Evicting, Removing
<1>7. a \notin list[home[a]]
  BY <1>1, <1>2, <1>3, <1>6 DEF Responsible, Accounted, ListedBound, Scanned, Busy, At, Evicting, Removing
<1>. QED
  BY <1>4, <1>5, <1>6, <1>7

\* Once whoever works on it is through, an account that was logged out or removed
\* is in none of the maps.
THEOREM RevokedSessionsForgotten == Spec => []RevokedIsForgotten
BY SessionInvariant, RevokedForgotten, PTL
=============================================================================
