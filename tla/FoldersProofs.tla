---------------------------- MODULE FoldersProofs ----------------------------
(***************************************************************************)
(* The folder list is accounted for, and mail stays as long as its folder: *)
(* each request under way knows the truth of every name that nobody has    *)
(* changed since it asked the server (Knows), whoever writes in between.   *)
(***************************************************************************)
EXTENDS Folders, TLAPS

\* A message's folder is cached, and all names are names.
RowsHere ==
    /\ folders \subseteq Names /\ server \subseteq Names
    /\ \A r \in rows : r[1] \in folders

\* A request is a record of what it is about to do.
JobOK(t) ==
    task[t] # None =>
        \/ /\ DOMAIN task[t] = {"do", "names", "todo"}
           /\ task[t].do \in {"insert", "prune", "touch"}
           /\ task[t].names \subseteq Names /\ task[t].todo \subseteq task[t].names
        \/ /\ DOMAIN task[t] = {"do", "name", "to"}
           /\ task[t].do \in {"rename_rows", "rename"}
           /\ task[t].name \in Names /\ task[t].to \in Names /\ task[t].name # task[t].to
        \/ /\ DOMAIN task[t] = {"do", "name"}
           /\ task[t].do \in {"cache", "delete_rows", "delete", "upsert"}
           /\ task[t].name \in Names

\* What t is about to write of n is what the server has.
KnowsOf(t, n) ==
    LET j == task[t] IN
    /\ j.do = "insert" => /\ n \in j.names <=> n \in server
                          /\ n \in j.names \ j.todo => n \in folders
    /\ j.do = "prune" => /\ n \in j.names <=> n \in server
                         /\ n \in j.names => n \in folders
    /\ j.do = "touch" => (n \in folders <=> n \in server)
    /\ j.do = "cache" /\ n = j.name => n \in server
    /\ j.do \in {"rename_rows", "rename"} =>
          /\ n = j.name => n \notin server
          /\ n = j.to => n \in server
    /\ j.do \in {"delete_rows", "delete"} /\ n = j.name => n \notin server

Knows(t) == task[t] # None => \A n \in Names \ since[t] : KnowsOf(t, n)

Shape ==
    /\ task = [u \in Tasks |-> task[u]] /\ DOMAIN since = Tasks
    /\ \A t \in Tasks : JobOK(t) /\ since[t] \subseteq Names

FolderInv == RowsHere /\ Shape /\ FoldersAccounted /\ \A t \in Tasks : Knows(t)

-----------------------------------------------------------------------------

\* What a step of t tells the others: the names it changed.
Told(t, N) ==
    \A u \in Tasks : /\ task[u] = None /\ u # t => since'[u] \in {{}, since[u]}
                     /\ task[u] # None /\ u # t => since'[u] = since[u] \cup N

\* What the request t knows of stays true for the others, if every name that is
\* written otherwise than the server has it is told them.
LEMMA OthersKnow ==
    ASSUME FolderInv, NEW t, NEW u \in Tasks, u # t, task'[u] = task[u], NEW N, Told(t, N),
           \A n \in Names \ N : /\ n \in server' <=> n \in server
                                /\ (n \in folders' <=> n \in folders) \/ (n \in folders' <=> n \in server)
    PROVE  Knows(u)'
<1> SUFFICES ASSUME task[u] # None, NEW n \in Names \ since'[u] PROVE KnowsOf(u, n)'
  BY DEF Knows
<1>1. n \in Names \ N /\ n \in Names \ since[u]
  BY DEF Told
<1>2. KnowsOf(u, n)
  BY <1>1 DEF FolderInv, Knows
<1>3. n \in server' <=> n \in server
  BY <1>1
<1>4. (n \in folders' <=> n \in folders) \/ (n \in folders' <=> n \in server)
  BY <1>1
<1> QED
  BY <1>2, <1>3, <1>4 DEF KnowsOf

\* Who is told keeps the shape.
LEMMA OthersShape ==
    ASSUME FolderInv, NEW t, NEW u \in Tasks, u # t, task'[u] = task[u],
           NEW N \in SUBSET Names, Told(t, N)
    PROVE  JobOK(u)' /\ since'[u] \subseteq Names
  BY DEF Told, FolderInv, Shape, JobOK

LEMMA OlderTells ==
    ASSUME NEW t, NEW N, since' = Older(t, N)
    PROVE  Told(t, N) /\ DOMAIN since' = Tasks /\ (t \in Tasks => since'[t] = {})
  BY DEF Told, Older

LEMMA WroteTells ==
    ASSUME NEW t \in Tasks, NEW N, Wrote(t, N)
    PROVE  /\ Told(t, N \cap since[t]) /\ DOMAIN since' = Tasks /\ since'[t] = since[t]
           /\ unsettled' = unsettled \cup (N \cap since[t])
  BY DEF Told, Older, Wrote

LEMMA BecomeKeeps ==
    ASSUME Shape, NEW t \in Tasks, NEW job, Become(t, job)
    PROVE  /\ task' = [u \in Tasks |-> task'[u]]
           /\ task'[t] = job /\ \A u \in Tasks : u # t => task'[u] = task[u]
<1>1. task' = [u \in Tasks |-> IF u = t THEN job ELSE task[u]]
  BY DEF Shape, Become
<1> QED
  BY <1>1

\* A step of the request t, with all that has to be said of it.
LEMMA StepOf ==
    ASSUME FolderInv, NEW t \in Tasks, NEW job, Become(t, job), RowsHere',
           NEW N \in SUBSET Names, Told(t, N), DOMAIN since' = Tasks,
           \A n \in Names \ N : /\ n \in server' <=> n \in server
                                /\ (n \in folders' <=> n \in folders) \/ (n \in folders' <=> n \in server),
           JobOK(t)', since'[t] \subseteq Names, Knows(t)',
           FoldersAccounted'
    PROVE  FolderInv'
<1>1. /\ task' = [u \in Tasks |-> task'[u]]
      /\ task'[t] = job /\ \A u \in Tasks : u # t => task'[u] = task[u]
  BY BecomeKeeps DEF FolderInv
<1>2. \A u \in Tasks \ {t} : JobOK(u)' /\ since'[u] \subseteq Names
  BY <1>1, OthersShape
<1>3. \A u \in Tasks \ {t} : Knows(u)'
  BY <1>1, OthersKnow
<1>4. Shape'
  BY <1>1, <1>2 DEF Shape
<1> QED
  BY <1>3, <1>4 DEF FolderInv

-----------------------------------------------------------------------------
(* The list: each insert, the pruning and the end.                         *)

LEMMA ListKeeps ==
    ASSUME FolderInv, NEW t \in Tasks, List(t) \/ ListInsert(t) \/ ListPrune(t) \/ ListTouch(t)
    PROVE  FolderInv'
<1> DEFINE j == task[t]
<1>1. JobOK(t) /\ Knows(t) /\ since[t] \subseteq Names /\ RowsHere /\ FoldersAccounted
  BY DEF FolderInv, Shape
<1>2. CASE List(t)
  <2> PICK answer \in SUBSET server :
         /\ Become(t, [do |-> "insert", names |-> answer, todo |-> answer])
         /\ since' = [since EXCEPT ![t] = server \ answer]
    BY <1>2 DEF List
  <2> DEFINE job == [do |-> "insert", names |-> answer, todo |-> answer]
  <2>1. /\ Become(t, job) /\ task[t] = None /\ UNCHANGED <<server, folders, rows, unsettled>>
        /\ since' = [since EXCEPT ![t] = server \ answer]
    BY <1>2 DEF List
  <2>2. task'[t] = job
    BY <2>1, BecomeKeeps DEF FolderInv
  <2>3. Told(t, {}) /\ DOMAIN since' = Tasks /\ since'[t] = server \ answer
    BY <2>1 DEF Told, FolderInv, Shape
  <2>4. RowsHere' /\ FoldersAccounted'
    BY <1>1, <2>1 DEF RowsHere, FoldersAccounted
  <2>5. JobOK(t)'
    BY <1>1, <2>1, <2>2 DEF JobOK, RowsHere
  <2>6. Knows(t)'
    BY <2>1, <2>2, <2>3 DEF Knows, KnowsOf
  <2>7. since'[t] \subseteq Names
    BY <1>1, <2>3 DEF RowsHere
  <2> HIDE DEF job
  <2> QED
    BY <2>1, <2>3, <2>4, <2>5, <2>6, <2>7, StepOf
<1>3. CASE ListInsert(t)
  <2> PICK n \in j.todo :
         /\ insert_folder_if_new(n) /\ Wrote(t, {n})
         /\ Become(t, [j EXCEPT !.todo = @ \ {n}, !.do = IF j.todo = {n} THEN "prune" ELSE @])
    BY <1>3 DEF ListInsert
  <2> DEFINE job == [j EXCEPT !.todo = @ \ {n}, !.do = IF j.todo = {n} THEN "prune" ELSE @]
             N == {n} \cap since[t]
  <2>1. task[t] # None /\ j.do = "insert" /\ server' = server
    BY <1>3 DEF ListInsert
  <2>2. DOMAIN j = {"do", "names", "todo"} /\ j.names \subseteq Names /\ j.todo \subseteq j.names
    BY <1>1, <2>1 DEF JobOK
  <2>3. folders' = folders \cup {n} /\ rows' = rows
    BY DEF insert_folder_if_new
  <2>4. task'[t] = job
    BY BecomeKeeps DEF FolderInv
  <2>5. /\ DOMAIN job = DOMAIN j /\ job.names = j.names /\ job.todo = j.todo \ {n}
        /\ job.do = IF j.todo = {n} THEN "prune" ELSE "insert"
    BY <2>1, <2>2
  <2>6. Told(t, N) /\ DOMAIN since' = Tasks /\ since'[t] = since[t] /\ unsettled' = unsettled \cup N
    BY WroteTells
  <2>7. n \notin since[t] => n \in server
    BY <1>1, <2>1, <2>2 DEF Knows, KnowsOf
  <2>8. N \in SUBSET Names
    BY <1>1
  <2>9. \A x \in Names \ N : /\ x \in server' <=> x \in server
                             /\ (x \in folders' <=> x \in folders) \/ (x \in folders' <=> x \in server)
    BY <2>1, <2>3, <2>7
  <2>10. RowsHere'
    BY <1>1, <2>1, <2>2, <2>3 DEF RowsHere
  <2>11. FoldersAccounted'
    BY <1>1, <2>6, <2>9 DEF FoldersAccounted
  <2>12. JobOK(t)'
    BY <2>2, <2>4, <2>5 DEF JobOK
  <2>13. Knows(t)'
    <3> SUFFICES ASSUME NEW x \in Names \ since[t] PROVE KnowsOf(t, x)'
      BY <2>6 DEF Knows
    <3>1. (x \in j.names <=> x \in server) /\ (x \in j.names \ j.todo => x \in folders)
      BY <1>1, <2>1 DEF Knows, KnowsOf
    <3> HIDE DEF job
    <3> QED
      BY <2>1, <2>2, <2>3, <2>4, <2>5, <3>1 DEF KnowsOf
  <2> HIDE DEF job, N
  <2>14. Become(t, job)
    BY DEF job
  <2> QED
    BY <1>1, <2>6, <2>8, <2>9, <2>10, <2>11, <2>12, <2>13, <2>14, StepOf
<1>4. CASE ListPrune(t)
  <2> DEFINE job == [j EXCEPT !.do = "touch"]
             N == Names \cap since[t]
  <2>1. /\ task[t] # None /\ j.do = "prune" /\ server' = server
        /\ remove_stale_folders(j.names) /\ Wrote(t, Names) /\ Become(t, job)
    BY <1>4 DEF ListPrune
  <2>2. DOMAIN j = {"do", "names", "todo"} /\ j.names \subseteq Names /\ j.todo \subseteq j.names
    BY <1>1, <2>1 DEF JobOK
  <2>3. folders' = folders \cap j.names /\ rows' = {r \in rows : r[1] \in j.names}
    BY <2>1 DEF remove_stale_folders, Of
  <2>4. task'[t] = job
    BY <2>1, BecomeKeeps DEF FolderInv
  <2>5. DOMAIN job = DOMAIN j /\ job.names = j.names /\ job.todo = j.todo /\ job.do = "touch"
    BY <2>1, <2>2
  <2>6. Told(t, N) /\ DOMAIN since' = Tasks /\ since'[t] = since[t] /\ unsettled' = unsettled \cup N
    BY <2>1, WroteTells
  <2>7. \A x \in Names \ since[t] : (x \in j.names <=> x \in server) /\ (x \in j.names => x \in folders)
    BY <1>1, <2>1 DEF Knows, KnowsOf
  <2>8. N \in SUBSET Names
    BY <1>1
  <2>9. \A x \in Names \ N : /\ x \in server' <=> x \in server
                             /\ (x \in folders' <=> x \in folders) \/ (x \in folders' <=> x \in server)
    BY <2>1, <2>3, <2>7
  <2>10. RowsHere'
    BY <1>1, <2>1, <2>2, <2>3 DEF RowsHere
  <2>11. FoldersAccounted'
    BY <1>1, <2>6, <2>9 DEF FoldersAccounted
  <2>12. JobOK(t)'
    BY <2>2, <2>4, <2>5 DEF JobOK
  <2>13. Knows(t)'
    <3> SUFFICES ASSUME NEW x \in Names \ since[t] PROVE KnowsOf(t, x)'
      BY <2>6 DEF Knows
    <3> HIDE DEF job
    <3> QED
      BY <2>1, <2>3, <2>4, <2>5, <2>7 DEF KnowsOf
  <2> HIDE DEF job, N
  <2> QED
    BY <1>1, <2>1, <2>6, <2>8, <2>9, <2>10, <2>11, <2>12, <2>13, StepOf
<1>5. CASE ListTouch(t)
  <2> DEFINE N == Names \cap since[t]
  <2>1. /\ task[t] # None /\ j.do = "touch" /\ UNCHANGED <<server, folders, rows>>
        /\ since' = Older(t, N) /\ unsettled' = (unsettled \ Names) \cup N /\ Become(t, None)
    BY <1>5 DEF ListTouch, Settled
  <2>2. Told(t, N) /\ DOMAIN since' = Tasks /\ since'[t] = {}
    BY <2>1, OlderTells
  <2>3. task'[t] = None
    BY <2>1, BecomeKeeps DEF FolderInv
  <2>4. RowsHere' /\ JobOK(t)' /\ Knows(t)'
    BY <1>1, <2>1, <2>3 DEF RowsHere, JobOK, Knows
  <2>5. FoldersAccounted'
    BY <1>1, <2>1 DEF FoldersAccounted, Knows, KnowsOf
  <2> HIDE DEF N
  <2>6. N \in SUBSET Names
    BY DEF N
  <2> QED
    BY <2>1, <2>2, <2>4, <2>5, <2>6, StepOf
<1> QED
  BY <1>2, <1>3, <1>4, <1>5

-----------------------------------------------------------------------------
(* Creating, renaming and deleting: the server first, the rows afterwards. *)

\* The server has changed the names N for t, which is about to write them.
LEMMA ServerChanged ==
    ASSUME FolderInv, NEW t \in Tasks, NEW job, Become(t, job), NEW N \in SUBSET Names,
           Changed(t, N), UNCHANGED <<folders, rows>>, server' \subseteq Names,
           \A n \in Names \ N : n \in server' <=> n \in server,
           JobOK(t)', Knows(t)'
    PROVE  FolderInv'
<1>1. Told(t, N) /\ DOMAIN since' = Tasks /\ since'[t] = {} /\ unsettled' = unsettled \cup N
  BY OlderTells DEF Changed
<1>2. RowsHere'
  BY DEF FolderInv, RowsHere
<1>3. FoldersAccounted'
  BY <1>1 DEF FolderInv, FoldersAccounted
<1> QED
  BY <1>1, <1>2, <1>3, StepOf

LEMMA AskingKeeps ==
    ASSUME FolderInv, NEW t \in Tasks,
           (\E n \in Names : create_folder(t, n) \/ delete_folder(t, n))
           \/ (\E a, b \in Names : rename_folder(t, a, b))
    PROVE  FolderInv'
<1>1. ASSUME NEW n \in Names, create_folder(t, n) PROVE FolderInv'
  <2>1. /\ task[t] = None /\ server' = server \cup {n} /\ Changed(t, {n})
        /\ UNCHANGED <<folders, rows>>
    BY <1>1 DEF create_folder, imap_create
  <2>2. server' \subseteq Names /\ {n} \in SUBSET Names
    BY <2>1 DEF FolderInv, RowsHere
  <2>3. CASE Become(t, [do |-> "cache", name |-> n])
    <3>1. task'[t] = [do |-> "cache", name |-> n]
      BY <2>3, BecomeKeeps DEF FolderInv
    <3>2. JobOK(t)' /\ Knows(t)'
      BY <2>1, <3>1 DEF JobOK, Knows, KnowsOf
    <3> QED
      BY <2>1, <2>2, <2>3, <3>2, ServerChanged
  <2>4. CASE UNCHANGED task
    <3>1. Become(t, None) /\ task'[t] = None
      BY <2>1, <2>4, [task EXCEPT ![t] = None] = [u \in Tasks |-> task[u]] DEF Become, FolderInv, Shape
    <3>2. JobOK(t)' /\ Knows(t)'
      BY <3>1 DEF JobOK, Knows
    <3> QED
      BY <2>1, <2>2, <3>1, <3>2, ServerChanged
  <2> QED
    BY <1>1, <2>3, <2>4 DEF create_folder
<1>2. ASSUME NEW n \in Names, delete_folder(t, n) PROVE FolderInv'
  <2> DEFINE job == [do |-> "delete_rows", name |-> n]
  <2>1. /\ server' = server \ {n} /\ Changed(t, {n}) /\ Become(t, job)
        /\ UNCHANGED <<folders, rows>>
    BY <1>2 DEF delete_folder, imap_delete
  <2>2. server' \subseteq Names /\ {n} \in SUBSET Names
    BY <2>1 DEF FolderInv, RowsHere
  <2>3. task'[t] = job
    BY <2>1, BecomeKeeps DEF FolderInv
  <2>4. JobOK(t)' /\ Knows(t)'
    BY <2>1, <2>3 DEF JobOK, Knows, KnowsOf
  <2> QED
    BY <2>1, <2>2, <2>4, ServerChanged
<1>3. ASSUME NEW a \in Names, NEW b \in Names, rename_folder(t, a, b) PROVE FolderInv'
  <2> DEFINE job == [do |-> "rename_rows", name |-> a, to |-> b]
  <2>1. /\ a \in server /\ b \notin server /\ server' = (server \ {a}) \cup {b}
        /\ Changed(t, {a, b}) /\ Become(t, job) /\ UNCHANGED <<folders, rows>>
    BY <1>3 DEF rename_folder, imap_rename
  <2>2. server' \subseteq Names /\ {a, b} \in SUBSET Names
    BY <2>1 DEF FolderInv, RowsHere
  <2>3. task'[t] = job
    BY <2>1, BecomeKeeps DEF FolderInv
  <2>4. JobOK(t)' /\ Knows(t)'
    BY <2>1, <2>3 DEF JobOK, Knows, KnowsOf
  <2> QED
    BY <2>1, <2>2, <2>4, ServerChanged
<1> QED
  BY <1>1, <1>2, <1>3

\* The last write of a request: what it settles is so.
LEMMA SettlingKeeps ==
    ASSUME FolderInv, NEW t \in Tasks, Become(t, None), NEW N \in SUBSET Names,
           Settled(t, N), server' = server, RowsHere',
           \A n \in Names \ since[t] :
               (n \in folders' <=> n \in folders) \/ (n \in folders' <=> n \in server),
           \A n \in Names \ N : n \in folders' <=> n \in folders,
           \A n \in N \ since[t] : n \in folders' <=> n \in server
    PROVE  FolderInv'
<1>1. /\ Told(t, N \cap since[t]) /\ DOMAIN since' = Tasks /\ since'[t] = {}
      /\ unsettled' = (unsettled \ N) \cup (N \cap since[t])
  BY OlderTells DEF Settled
<1>2. task'[t] = None
  BY BecomeKeeps DEF FolderInv
<1>3. JobOK(t)' /\ Knows(t)'
  BY <1>2 DEF JobOK, Knows
<1>4. FoldersAccounted'
  BY <1>1 DEF FolderInv, FoldersAccounted
<1>5. \A n \in Names \ (N \cap since[t]) :
         /\ n \in server' <=> n \in server
         /\ (n \in folders' <=> n \in folders) \/ (n \in folders' <=> n \in server)
  OBVIOUS
<1>6. N \cap since[t] \in SUBSET Names
  OBVIOUS
<1> QED
  BY <1>1, <1>3, <1>4, <1>5, <1>6, StepOf

\* A request that fails has written nothing more.
LEMMA FailingKeeps ==
    ASSUME FolderInv, NEW t \in Tasks, Become(t, None), Failed(t), UNCHANGED <<server, folders, rows>>
    PROVE  FolderInv'
<1>1. Told(t, {}) /\ DOMAIN since' = Tasks /\ since'[t] = {} /\ unsettled' = unsettled
  BY OlderTells DEF Failed
<1>2. task'[t] = None
  BY BecomeKeeps DEF FolderInv
<1>3. JobOK(t)' /\ Knows(t)' /\ RowsHere' /\ FoldersAccounted'
  BY <1>1, <1>2 DEF JobOK, Knows, FolderInv, RowsHere, FoldersAccounted
<1> QED
  BY <1>1, <1>3, StepOf

\* Rows are moved or deleted; the folders stay as they are.
LEMMA RowsOnlyKeeps ==
    ASSUME FolderInv, NEW t \in Tasks, task[t] # None, NEW d \in {"rename", "delete"},
           task[t].do = (IF d = "rename" THEN "rename_rows" ELSE "delete_rows"),
           Become(t, [task[t] EXCEPT !.do = d]), NEW N \in SUBSET Names, Wrote(t, N),
           UNCHANGED <<server, folders>>, RowsHere'
    PROVE  FolderInv'
<1> DEFINE job == [task[t] EXCEPT !.do = d]
<1>1. JobOK(t) /\ Knows(t) /\ since[t] \subseteq Names
  BY DEF FolderInv, Shape
<1>2. /\ Told(t, N \cap since[t]) /\ DOMAIN since' = Tasks /\ since'[t] = since[t]
      /\ unsettled' = unsettled \cup (N \cap since[t])
  BY WroteTells
<1>3. task'[t] = job
  BY BecomeKeeps DEF FolderInv
<1>4. /\ d = "rename" => DOMAIN job = {"do", "name", "to"} /\ job.do = "rename" /\ job.name = task[t].name
                        /\ job.to = task[t].to
      /\ d = "delete" => DOMAIN job = {"do", "name"} /\ job.do = "delete" /\ job.name = task[t].name
  BY <1>1 DEF JobOK
<1>5. JobOK(t)'
  BY <1>1, <1>3, <1>4 DEF JobOK
<1>6. Knows(t)'
  <2> SUFFICES ASSUME NEW x \in Names \ since[t] PROVE KnowsOf(t, x)'
    BY <1>2 DEF Knows
  <2>1. KnowsOf(t, x)
    BY <1>1 DEF Knows
  <2> HIDE DEF job
  <2> QED
    BY <1>3, <1>4, <2>1 DEF KnowsOf
<1>7. FoldersAccounted'
  BY <1>2 DEF FolderInv, FoldersAccounted
<1>8. N \cap since[t] \in SUBSET Names
  OBVIOUS
<1> QED
  BY <1>1, <1>2, <1>5, <1>6, <1>7, <1>8, StepOf

LEMMA WritingKeeps ==
    ASSUME FolderInv, NEW t \in Tasks,
           CreateCached(t) \/ RenameRows(t) \/ rename_folder_in_cache(t)
           \/ DeleteRows(t) \/ delete_folder_and_messages(t)
    PROVE  FolderInv'
<1> DEFINE j == task[t]
<1>1. task[t] # None => JobOK(t) /\ \A n \in Names \ since[t] : KnowsOf(t, n)
  BY DEF FolderInv, Shape, Knows
<1>2. CASE CreateCached(t)
  <2>1. /\ j # None /\ j.do = "cache" /\ folders' = folders \cup {j.name} /\ rows' = rows
        /\ Settled(t, {j.name}) /\ Become(t, None) /\ server' = server
    BY <1>2 DEF CreateCached, insert_folder_if_new
  <2>2. j.name \in Names /\ (j.name \notin since[t] => j.name \in server)
    BY <1>1, <2>1 DEF JobOK, KnowsOf
  <2>3. RowsHere'
    BY <2>1, <2>2 DEF FolderInv, RowsHere
  <2>4. {j.name} \in SUBSET Names
    BY <2>2
  <2>5. /\ \A n \in Names \ since[t] : (n \in folders' <=> n \in folders) \/ (n \in folders' <=> n \in server)
        /\ \A n \in Names \ {j.name} : n \in folders' <=> n \in folders
        /\ \A n \in {j.name} \ since[t] : n \in folders' <=> n \in server
    BY <2>1, <2>2
  <2> QED
    BY <2>1, <2>3, <2>4, <2>5, SettlingKeeps
<1>3. CASE RenameRows(t)
  <2> DEFINE a == task[t].name  b == task[t].to
  <2>1. /\ j # None /\ j.do = "rename_rows" /\ UNCHANGED <<server, folders>>
        /\ \/ /\ MoveAllowed(a, b) /\ rows' = (rows \ Of({a})) \cup MessagesMove(a, b)
              /\ Wrote(t, {a, b}) /\ Become(t, [task[t] EXCEPT !.do = "rename"])
           \/ UNCHANGED rows /\ Failed(t) /\ Become(t, None)
    BY <1>3 DEF RenameRows
  <2>2. a \in Names /\ b \in Names
    BY <1>1, <2>1 DEF JobOK
  <2>3. CASE /\ MoveAllowed(a, b) /\ rows' = (rows \ Of({a})) \cup MessagesMove(a, b)
             /\ Wrote(t, {a, b}) /\ Become(t, [task[t] EXCEPT !.do = "rename"])
    <3>1. \A r \in MessagesMove(a, b) : r[1] = b /\ b \in folders
      BY <2>3 DEF MessagesMove, MoveAllowed
    <3>2. RowsHere'
      BY <2>1, <2>3, <3>1 DEF FolderInv, RowsHere
    <3>3. {a, b} \in SUBSET Names
      BY <2>2
    <3> HIDE DEF a, b
    <3> QED
      BY <2>1, <2>3, <3>2, <3>3, RowsOnlyKeeps
  <2>4. CASE UNCHANGED rows /\ Failed(t) /\ Become(t, None)
    BY <2>1, <2>4, FailingKeeps
  <2> QED
    BY <2>1, <2>3, <2>4
<1>4. CASE rename_folder_in_cache(t)
  <2> DEFINE a == task[t].name  b == task[t].to
  <2>1. /\ j # None /\ j.do = "rename" /\ UNCHANGED <<server, rows>> /\ Become(t, None)
        /\ \/ /\ RenameAllowed(a, b) /\ folders' = Renamed(folders, a, b)
              /\ Settled(t, IF a \in folders THEN {a, b} ELSE {a})
           \/ folders' = folders /\ Failed(t)
    BY <1>4 DEF rename_folder_in_cache
  <2>2. /\ a \in Names /\ b \in Names /\ a # b
        /\ a \notin since[t] => a \notin server
        /\ b \notin since[t] => b \in server
    BY <1>1, <2>1 DEF JobOK, KnowsOf
  <2>3. CASE a \in folders /\ RenameAllowed(a, b) /\ folders' = Renamed(folders, a, b) /\ Settled(t, {a, b})
    <3>1. folders' = (folders \ {a}) \cup {b} /\ Of({a}) = {}
      BY <2>3 DEF Renamed, RenameAllowed
    <3>2. \A r \in rows : r[1] # a
      BY <3>1 DEF Of
    <3>3. RowsHere'
      BY <2>1, <2>2, <3>1, <3>2 DEF FolderInv, RowsHere
    <3>4. {a, b} \in SUBSET Names
      BY <2>2
    <3>5. /\ \A n \in Names \ since[t] : (n \in folders' <=> n \in folders) \/ (n \in folders' <=> n \in server)
          /\ \A n \in Names \ {a, b} : n \in folders' <=> n \in folders
          /\ \A n \in {a, b} \ since[t] : n \in folders' <=> n \in server
      BY <2>2, <3>1
    <3> HIDE DEF a, b
    <3> QED
      BY <2>1, <2>3, <3>3, <3>4, <3>5, SettlingKeeps
  <2>4. CASE a \notin folders /\ folders' = Renamed(folders, a, b) /\ Settled(t, {a})
    <3>1. folders' = folders
      BY <2>4 DEF Renamed
    <3>2. RowsHere'
      BY <2>1, <3>1 DEF FolderInv, RowsHere
    <3>3. {a} \in SUBSET Names /\ \A n \in {a} \ since[t] : n \in folders' <=> n \in server
      BY <2>2, <2>4, <3>1
    <3> HIDE DEF a, b
    <3> QED
      BY <2>1, <2>4, <3>1, <3>2, <3>3, SettlingKeeps
  <2>5. CASE folders' = folders /\ Failed(t)
    BY <2>1, <2>5, FailingKeeps
  <2> QED
    BY <2>1, <2>3, <2>4, <2>5
<1>5. CASE DeleteRows(t)
  <2>1. /\ j # None /\ j.do = "delete_rows" /\ rows' \subseteq rows /\ Wrote(t, {j.name})
        /\ Become(t, [j EXCEPT !.do = "delete"]) /\ UNCHANGED <<server, folders>>
    BY <1>5 DEF DeleteRows
  <2>2. {j.name} \in SUBSET Names /\ RowsHere'
    BY <1>1, <2>1 DEF JobOK, FolderInv, RowsHere
  <2> QED
    BY <2>1, <2>2, RowsOnlyKeeps
<1>6. CASE delete_folder_and_messages(t)
  <2>1. /\ j # None /\ j.do = "delete" /\ remove_stale_folders(folders \ {j.name})
        /\ Settled(t, {j.name}) /\ Become(t, None) /\ server' = server
    BY <1>6 DEF delete_folder_and_messages
  <2>2. folders' = folders \ {j.name} /\ rows' = {r \in rows : r[1] \in folders \ {j.name}}
    BY <2>1 DEF remove_stale_folders, Of
  <2>3. j.name \in Names /\ (j.name \notin since[t] => j.name \notin server)
    BY <1>1, <2>1 DEF JobOK, KnowsOf
  <2>4. RowsHere' /\ {j.name} \in SUBSET Names
    BY <2>1, <2>2, <2>3 DEF FolderInv, RowsHere
  <2>5. /\ \A n \in Names \ since[t] : (n \in folders' <=> n \in folders) \/ (n \in folders' <=> n \in server)
        /\ \A n \in Names \ {j.name} : n \in folders' <=> n \in folders
        /\ \A n \in {j.name} \ since[t] : n \in folders' <=> n \in server
    BY <2>2, <2>3
  <2> QED
    BY <2>1, <2>4, <2>5, SettlingKeeps
<1> QED
  BY <1>2, <1>3, <1>4, <1>5, <1>6

-----------------------------------------------------------------------------
(* Everything else                                                         *)

LEMMA RestKeeps ==
    ASSUME FolderInv, None \notin Tasks, NEW t \in Tasks,
           list_messages(t) \/ EnsureFolder(t) \/ Drop(t)
    PROVE  FolderInv'
<1>1. ASSUME NEW n \in Names, list_messages(t), Become(t, [do |-> "upsert", name |-> n])
      PROVE  FolderInv'
  <2> DEFINE job == [do |-> "upsert", name |-> n]
  <2>1. task[t] = None /\ UNCHANGED <<server, folders, rows, since, unsettled>>
    BY <1>1 DEF list_messages
  <2>2. task'[t] = job
    BY <1>1, BecomeKeeps DEF FolderInv
  <2>3. Told(t, {}) /\ DOMAIN since' = Tasks
    BY <2>1 DEF Told, FolderInv, Shape
  <2>4. RowsHere' /\ FoldersAccounted' /\ since'[t] \subseteq Names
    BY <2>1 DEF RowsHere, FoldersAccounted, FolderInv, Shape
  <2>5. JobOK(t)' /\ Knows(t)'
    BY <2>2 DEF JobOK, Knows, KnowsOf
  <2> HIDE DEF job
  <2>6. Become(t, job)
    BY <1>1 DEF job
  <2> QED
    BY <2>1, <2>3, <2>4, <2>5, <2>6, StepOf
<1>2. CASE EnsureFolder(t)
  <2> DEFINE n == task[t].name
             N == IF n \in server THEN {} ELSE {n}
  <2>1. /\ task[t] # None /\ task[t].do = "upsert" /\ Become(t, None) /\ server' = server
        /\ folders' = folders \cup {n} /\ rows' \subseteq rows
        /\ since' = Older(t, N) /\ unsettled' = unsettled \cup N
    BY <1>2 DEF EnsureFolder, upsert_folder, Changed, Failed
  <2>2. n \in Names /\ N \in SUBSET Names
    BY <2>1 DEF FolderInv, Shape, JobOK
  <2>3. Told(t, N) /\ DOMAIN since' = Tasks /\ since'[t] = {}
    BY <2>1, OlderTells
  <2>4. task'[t] = None
    BY <2>1, BecomeKeeps DEF FolderInv
  <2>5. \A x \in Names \ N : /\ x \in server' <=> x \in server
                             /\ (x \in folders' <=> x \in folders) \/ (x \in folders' <=> x \in server)
    BY <2>1
  <2>6. RowsHere' /\ JobOK(t)' /\ Knows(t)'
    BY <2>1, <2>2, <2>4 DEF FolderInv, RowsHere, JobOK, Knows
  <2>7. FoldersAccounted'
    BY <2>1, <2>2 DEF FolderInv, FoldersAccounted
  <2> HIDE DEF n, N
  <2> QED
    BY <2>1, <2>2, <2>3, <2>5, <2>6, <2>7, StepOf
<1>3. CASE Drop(t)
  BY <1>3, FailingKeeps DEF Drop
<1> QED
  BY <1>1, <1>2, <1>3 DEF list_messages

\* Mail arrives, another client works, rows age: no request moves.
LEMMA WorldKeeps ==
    ASSUME FolderInv, None \notin Tasks, StoreMessage \/ Elsewhere \/ Expire \/ UNCHANGED vars
    PROVE  FolderInv'
<1>1. CASE UNCHANGED <<server, folders, task, since, unsettled>> /\ \A r \in rows' \ rows : r[1] \in folders
  BY <1>1 DEF FolderInv, RowsHere, Shape, JobOK, FoldersAccounted, Knows, KnowsOf
<1>2. CASE StoreMessage
  BY <1>1, <1>2 DEF StoreMessage
<1>3. CASE Elsewhere
  <2> PICK n \in Names \ {Inbox} :
         /\ server' = IF n \in server THEN server \ {n} ELSE server \cup {n}
         /\ Changed(None, {n})
    BY <1>3 DEF Elsewhere
  <2>1. UNCHANGED <<folders, rows, task>>
    BY <1>3 DEF Elsewhere
  <2>2. Told(None, {n}) /\ DOMAIN since' = Tasks /\ unsettled' = unsettled \cup {n}
    BY OlderTells DEF Changed
  <2>3. RowsHere' /\ FoldersAccounted'
    BY <2>1, <2>2 DEF FolderInv, RowsHere, FoldersAccounted
  <2>4. \A u \in Tasks : JobOK(u)' /\ since'[u] \subseteq Names
    BY <2>1, <2>2, OthersShape
  <2>5. \A x \in Names \ {n} : /\ x \in server' <=> x \in server
                              /\ x \in folders' <=> x \in folders
    BY <2>1
  <2>6. \A u \in Tasks : Knows(u)'
    BY <2>1, <2>2, <2>5, OthersKnow
  <2> QED
    BY <2>1, <2>2, <2>3, <2>4, <2>6 DEF FolderInv, Shape
<1>4. CASE Expire \/ UNCHANGED vars
  BY <1>1, <1>4 DEF Expire, vars
<1> QED
  BY <1>2, <1>3, <1>4

-----------------------------------------------------------------------------
(* The theorems                                                            *)

LEMMA FoldersInit ==
    ASSUME Init PROVE FolderInv
  BY DEF Init, FolderInv, RowsHere, Shape, FoldersAccounted, JobOK, Knows

LEMMA FoldersStep ==
    ASSUME FolderInv, None \notin Tasks, [Next]_vars PROVE FolderInv'
<1>1. ASSUME NEW t \in Tasks, Step(t) PROVE FolderInv'
  BY <1>1, ListKeeps, AskingKeeps, WritingKeeps, RestKeeps DEF Step
<1> QED
  BY <1>1, WorldKeeps DEF Next

\* What a request under way is about to write is what the server has, except
\* for the names that were changed since it asked (routes/folder_mgmt.rs).
THEOREM FoldersInvariant ==
    ASSUME None \notin Tasks PROVE Spec => []FolderInv
  BY FoldersInit, FoldersStep, PTL DEF Spec

\* The cached folders are the server's, but for the names whose last change no
\* request has cached (routes/folders.rs:105).
THEOREM FoldersStayAccounted ==
    ASSUME None \notin Tasks PROVE Spec => []FoldersAccounted
<1>1. FolderInv => FoldersAccounted
  BY DEF FolderInv
<1> QED
  BY <1>1, FoldersInvariant, PTL

\* What is removed of the cache is of folders that are gone, or whose last
\* change no request has cached.
LEMMA RemovedByList ==
    ASSUME FolderInv, NEW t \in Tasks, ListPrune(t), NEW r \in rows \ rows'
    PROVE  r[1] \notin server \/ r[1] \in unsettled'
<1>1. /\ task[t] # None /\ task[t].do = "prune" /\ remove_stale_folders(task[t].names)
      /\ Wrote(t, Names)
  BY DEF ListPrune
<1>2. r[1] \in Names /\ r[1] \notin task[t].names
  BY <1>1 DEF FolderInv, RowsHere, remove_stale_folders, Of
<1>3. r[1] \notin since[t] => r[1] \notin server
  BY <1>1, <1>2 DEF FolderInv, Knows, KnowsOf
<1>4. unsettled' = unsettled \cup (Names \cap since[t])
  BY <1>1, WroteTells
<1> QED
  BY <1>2, <1>3, <1>4

LEMMA RemovedByWriting ==
    ASSUME FolderInv, NEW t \in Tasks,
           RenameRows(t) \/ DeleteRows(t) \/ delete_folder_and_messages(t),
           NEW r \in rows \ rows'
    PROVE  r[1] \notin server \/ r[1] \in unsettled'
<1> DEFINE n == task[t].name
<1>1. /\ JobOK(t) /\ since[t] \subseteq Names
      /\ task[t] # None => \A x \in Names \ since[t] : KnowsOf(t, x)
  BY DEF FolderInv, Shape, Knows
<1>2. CASE RenameRows(t)
  <2>1. /\ task[t] # None /\ task[t].do = "rename_rows" /\ r \in Of({n})
        /\ Wrote(t, {n, task[t].to})
    BY <1>2 DEF RenameRows
  <2>2. r[1] = n /\ n \in Names
    BY <1>1, <2>1 DEF Of, JobOK
  <2>3. n \in since[t] => n \in unsettled'
    BY <2>1 DEF Wrote
  <2> QED
    BY <1>1, <2>1, <2>2, <2>3 DEF KnowsOf
<1>3. CASE DeleteRows(t)
  <2>1. /\ task[t] # None /\ task[t].do = "delete_rows" /\ r \in Of({n}) /\ Wrote(t, {n})
    BY <1>3 DEF DeleteRows
  <2>2. r[1] = n /\ n \in Names
    BY <1>1, <2>1 DEF Of, JobOK
  <2>3. n \in since[t] => n \in unsettled'
    BY <2>1 DEF Wrote
  <2> QED
    BY <1>1, <2>1, <2>2, <2>3 DEF KnowsOf
<1>4. CASE delete_folder_and_messages(t)
  <2>1. /\ task[t] # None /\ task[t].do = "delete" /\ r \notin Of(folders \ {n})
        /\ unsettled' = (unsettled \ {n}) \cup ({n} \cap since[t])
    BY <1>4 DEF delete_folder_and_messages, remove_stale_folders, Settled
  <2>2. r[1] = n /\ n \in Names
    BY <1>1, <2>1 DEF Of, JobOK, FolderInv, RowsHere
  <2> QED
    BY <1>1, <2>1, <2>2 DEF KnowsOf
<1> QED
  BY <1>2, <1>3, <1>4

\* What the second of two first pages deletes is of the folder it opens.
LEMMA RemovedByReplacing ==
    ASSUME NEW t \in Tasks, EnsureFolder(t), NEW r \in rows \ rows'
    PROVE  task[t].name = r[1]
  BY DEF EnsureFolder, upsert_folder, Of

\* What a step may take from a message.
Lost(r) ==
    \/ r[1] \notin server \/ r[1] \in unsettled'
    \/ \E t \in Tasks : EnsureFolder(t) /\ task[t].name = r[1]

LEMMA MailStep ==
    ASSUME FolderInv, [Next]_vars
    PROVE  [\A r \in rows \ rows' : Lost(r)]_vars
<1> SUFFICES ASSUME Next, NEW r \in rows \ rows' PROVE Lost(r)
  BY DEF vars
<1>1. ASSUME NEW t \in Tasks, Step(t) PROVE Lost(r)
  <2>1. CASE ListPrune(t)
    BY <2>1, RemovedByList DEF Lost
  <2>2. CASE RenameRows(t) \/ DeleteRows(t) \/ delete_folder_and_messages(t)
    BY <2>2, RemovedByWriting DEF Lost
  <2>3. CASE EnsureFolder(t)
    BY <2>3, RemovedByReplacing DEF Lost
  <2>4. CASE rows' = rows
    BY <2>4
  <2> QED
    BY <1>1, <2>1, <2>2, <2>3, <2>4 DEF Step, List, ListInsert, insert_folder_if_new, ListTouch,
       create_folder, delete_folder, rename_folder, CreateCached, rename_folder_in_cache,
       list_messages, Drop
<1> QED
  BY <1>1 DEF Next, StoreMessage, Elsewhere, Expire

\* "INSERT OR IGNORE to create new folders without triggering CASCADE": a
\* cached message stays as long as its folder does, but for the names of which
\* somebody wrote the wrong thing, an answer cut short among it, and for the
\* second of two first pages (db/folders.rs:54).
THEOREM MailStays ==
    ASSUME None \notin Tasks PROVE Spec => MailKept
<1>1. FolderInv /\ [Next]_vars => [\A r \in rows \ rows' : Lost(r)]_vars
  BY MailStep
<1> QED
  BY <1>1, FoldersInvariant, PTL DEF Spec, MailKept, Lost

-----------------------------------------------------------------------------
(* The types: who has a row of a message has one of its folder             *)

LEMMA FolderTypesStart ==
    ASSUME Requests \in Nat, Init PROVE TypeOK
  BY DEF Init, TypeOK

LEMMA TaskTyped ==
    ASSUME TypeOK, NEW t \in Tasks, NEW job \in Jobs \cup {None}, Become(t, job)
    PROVE  \A u \in Tasks : task'[u] \in Jobs \cup {None}
<1>1. \A u \in Tasks : task'[u] = task[u] \/ task'[u] = job
  BY DEF Become
<1> QED
  BY <1>1 DEF TypeOK

\* What the history says is of names.
LEMMA HistoryTyped ==
    ASSUME FolderInv, TypeOK, NEW t, NEW N \in SUBSET Names,
           \/ Changed(t, N) \/ Failed(t)
           \/ t \in Tasks /\ (Wrote(t, N) \/ Settled(t, N))
    PROVE  unsettled' \subseteq Names /\ \A u \in Tasks : since'[u] \subseteq Names
<1>1. unsettled' \subseteq Names
  BY DEF Changed, Failed, Wrote, Settled, TypeOK
<1>2. \A u \in Tasks : since[u] \subseteq Names
  BY DEF TypeOK
<1>3. ASSUME NEW K \in SUBSET Names, NEW u \in Tasks
      PROVE  Older(t, K)[u] \subseteq Names
  BY <1>2 DEF Older
<1>4. CASE \E K \in SUBSET Names : since' = Older(t, K)
  BY <1>1, <1>3, <1>4
<1>5. CASE t \in Tasks /\ since' = [Older(t, N \cap since[t]) EXCEPT ![t] = since[t]]
  <2>1. \A u \in Tasks : since'[u] = since[u] \/ since'[u] = Older(t, N \cap since[t])[u]
    BY <1>5 DEF Older
  <2> QED
    BY <1>1, <1>2, <1>3, <2>1
<1> QED
  BY <1>4, <1>5 DEF Changed, Failed, Wrote, Settled

LEMMA Spent == ASSUME Requests \in Nat, TypeOK, Spend PROVE left' \in 0..Requests
  BY DEF Spend, TypeOK

\* What a statement leaves in the cache.
LEMMA StoreTypes ==
    ASSUME TypeOK,
           \/ UNCHANGED <<folders, fresh, rows>>
           \/ \E n \in Names : insert_folder_if_new(n) \/ upsert_folder(n)
           \/ \E N : remove_stale_folders(N)
           \/ touch_all_folders /\ UNCHANGED <<folders, rows>>
           \/ \E n \in fresh : fresh' = fresh \ {n} /\ UNCHANGED <<folders, rows>>
           \/ \E n \in folders, u \in Uids : rows' = rows \cup {<<n, u>>} /\ UNCHANGED <<folders, fresh>>
    PROVE  folders' \subseteq Names /\ fresh' \subseteq folders' /\ rows' \subseteq folders' \X Uids
  BY DEF TypeOK, insert_folder_if_new, upsert_folder, remove_stale_folders, touch_all_folders, Of

\* Answers to the folder list.
LEMMA ListTypes ==
    ASSUME Requests \in Nat, FolderInv, TypeOK, NEW t \in Tasks,
           List(t) \/ ListInsert(t) \/ ListPrune(t) \/ ListTouch(t) \/ list_messages(t) \/ Drop(t)
    PROVE  TypeOK'
<1>1. CASE List(t)
  <2>1. \A answer \in SUBSET server : [do |-> "insert", names |-> answer, todo |-> answer] \in Jobs
    BY DEF TypeOK, Jobs
  <2>2. \A u \in Tasks : since'[u] \subseteq Names
    <3>1. \A u \in Tasks : since'[u] = since[u] \/ since'[u] \subseteq server
      BY <1>1 DEF List, FolderInv, Shape
    <3> QED
      BY <3>1 DEF TypeOK
  <2>3. \A u \in Tasks : task'[u] \in Jobs \cup {None}
    BY <1>1, <2>1, TaskTyped DEF List
  <2> QED
    BY <1>1, <2>2, <2>3, Spent DEF List, TypeOK
<1>2. CASE ListInsert(t)
  <2> DEFINE job(n) == [task[t] EXCEPT !.todo = @ \ {n},
                            !.do = IF task[t].todo = {n} THEN "prune" ELSE @]
  <2>1. PICK n \in task[t].todo : insert_folder_if_new(n) /\ Wrote(t, {n}) /\ Become(t, job(n))
    BY <1>2 DEF ListInsert
  <2>2. n \in Names /\ job(n) \in Jobs
    <3>1. JobOK(t) /\ task[t] # None /\ task[t].do = "insert"
      BY <1>2 DEF FolderInv, Shape, ListInsert
    <3>2. task[t] \in [do : {"insert", "prune", "touch"}, names : SUBSET Names, todo : SUBSET Names]
      <4>1. task[t] \in Jobs
        BY <3>1 DEF TypeOK
      <4> QED
        BY <3>1, <4>1 DEF Jobs
    <3> QED
      BY <3>1, <3>2 DEF Jobs
  <2> HIDE DEF job
  <2>3. UNCHANGED <<server, left>>
    BY <1>2 DEF ListInsert
  <2> QED
    BY <2>1, <2>2, <2>3, TaskTyped, HistoryTyped, StoreTypes DEF TypeOK
<1>3. CASE ListPrune(t)
  <2>1. [task[t] EXCEPT !.do = "touch"] \in Jobs
    <3>1. task[t] \in Jobs /\ task[t].do = "prune"
      BY <1>3 DEF ListPrune, TypeOK
    <3> QED
      BY <3>1 DEF Jobs
  <2>2. /\ remove_stale_folders(task[t].names) /\ Wrote(t, Names)
        /\ Become(t, [task[t] EXCEPT !.do = "touch"]) /\ UNCHANGED <<server, left>>
    BY <1>3 DEF ListPrune
  <2> QED
    BY <2>1, <2>2, TaskTyped, HistoryTyped, StoreTypes DEF TypeOK
<1>4. CASE ListTouch(t)
  BY <1>4, TaskTyped, HistoryTyped, StoreTypes DEF ListTouch, TypeOK
<1>5. CASE list_messages(t)
  <2>1. \A n \in Names : [do |-> "upsert", name |-> n] \in Jobs
    BY DEF Jobs
  <2> QED
    BY <1>5, <2>1, TaskTyped, Spent DEF list_messages, TypeOK
<1>6. CASE Drop(t)
  BY <1>6, TaskTyped, HistoryTyped DEF Drop, TypeOK
<1> QED
  BY <1>1, <1>2, <1>3, <1>4, <1>5, <1>6

\* Folders that are made and deleted.
LEMMA FolderTypes ==
    ASSUME Requests \in Nat, FolderInv, TypeOK, Inbox \in System, NEW t \in Tasks,
           \/ \E n \in Names : create_folder(t, n) \/ delete_folder(t, n)
           \/ CreateCached(t) \/ DeleteRows(t) \/ delete_folder_and_messages(t) \/ EnsureFolder(t)
    PROVE  TypeOK'
<1>1. ASSUME NEW n \in Names, create_folder(t, n) PROVE TypeOK'
  <2>1. [do |-> "cache", name |-> n] \in Jobs
    BY DEF Jobs
  <2>2. \A u \in Tasks : task'[u] \in Jobs \cup {None}
    BY <1>1, <2>1, TaskTyped DEF create_folder, TypeOK
  <2> QED
    BY <1>1, <2>2, HistoryTyped, Spent DEF create_folder, imap_create, TypeOK
<1>2. ASSUME NEW n \in Names, delete_folder(t, n) PROVE TypeOK'
  <2>1. [do |-> "delete_rows", name |-> n] \in Jobs
    BY DEF Jobs
  <2>2. n # Inbox
    BY <1>2 DEF delete_folder, is_system_folder
  <2> QED
    BY <1>2, <2>1, <2>2, TaskTyped, HistoryTyped, Spent DEF delete_folder, imap_delete, TypeOK
<1>3. ASSUME NEW what \in {"cache", "delete_rows", "delete", "upsert"}, task[t] # None, task[t].do = what
      PROVE  task[t].name \in Names /\ [task[t] EXCEPT !.do = "delete"] \in Jobs
  <2>1. task[t] \in Jobs
    BY <1>3 DEF TypeOK
  <2> QED
    BY <1>3, <2>1 DEF Jobs
<1>4. CASE CreateCached(t)
  <2>1. task[t].name \in Names
    BY <1>3, <1>4 DEF CreateCached
  <2> QED
    BY <1>4, <2>1, TaskTyped, HistoryTyped, StoreTypes DEF CreateCached, TypeOK
<1>5. CASE DeleteRows(t)
  <2>1. task[t].name \in Names /\ [task[t] EXCEPT !.do = "delete"] \in Jobs
    BY <1>3, <1>5 DEF DeleteRows
  <2>2. rows' \subseteq rows
    BY <1>5 DEF DeleteRows
  <2> QED
    BY <1>5, <2>1, <2>2, TaskTyped, HistoryTyped DEF DeleteRows, TypeOK
<1>6. CASE delete_folder_and_messages(t)
  <2>1. task[t].name \in Names
    BY <1>3, <1>6 DEF delete_folder_and_messages
  <2> QED
    BY <1>6, <2>1, TaskTyped, HistoryTyped, StoreTypes DEF delete_folder_and_messages, TypeOK
<1>7. CASE EnsureFolder(t)
  <2>1. task[t].name \in Names
    BY <1>3, <1>7 DEF EnsureFolder
  <2> QED
    BY <1>7, <2>1, TaskTyped, HistoryTyped, StoreTypes DEF EnsureFolder, TypeOK
<1> QED
  BY <1>1, <1>2, <1>4, <1>5, <1>6, <1>7

\* Folders that are renamed: the cache keeps the reference of each message.
LEMMA RenameTypes ==
    ASSUME Requests \in Nat, FolderInv, TypeOK, Inbox \in System, NEW t \in Tasks,
           \/ \E a, b \in Names : rename_folder(t, a, b)
           \/ RenameRows(t) \/ rename_folder_in_cache(t)
    PROVE  TypeOK'
<1>1. ASSUME NEW a \in Names, NEW b \in Names, rename_folder(t, a, b) PROVE TypeOK'
  <2>1. [do |-> "rename_rows", name |-> a, to |-> b] \in Jobs
    BY DEF Jobs
  <2>2. a # Inbox
    BY <1>1 DEF rename_folder, is_system_folder
  <2>3. server' \subseteq Names /\ Inbox \in server'
    BY <1>1, <2>2 DEF rename_folder, imap_rename, TypeOK
  <2>4. /\ Changed(t, {a, b}) /\ Become(t, [do |-> "rename_rows", name |-> a, to |-> b])
        /\ Spend /\ UNCHANGED <<folders, fresh, rows>>
    BY <1>1 DEF rename_folder
  <2>5. {a, b} \in SUBSET Names
    OBVIOUS
  <2>6. unsettled' \subseteq Names /\ \A u \in Tasks : since'[u] \subseteq Names
    BY <2>4, <2>5, HistoryTyped
  <2>7. \A u \in Tasks : task'[u] \in Jobs \cup {None}
    BY <2>1, <2>4, TaskTyped
  <2> QED
    BY <2>3, <2>4, <2>6, <2>7, Spent DEF TypeOK
<1>2. ASSUME NEW what \in {"rename_rows", "rename"}, task[t] # None, task[t].do = what
      PROVE  /\ task[t].name \in Names /\ task[t].to \in Names
             /\ [task[t] EXCEPT !.do = "rename"] \in Jobs
  <2>1. task[t] \in Jobs
    BY <1>2 DEF TypeOK
  <2> QED
    BY <1>2, <2>1 DEF Jobs
<1>3. CASE RenameRows(t)
  <2> DEFINE a == task[t].name
             b == task[t].to
  <2>1. a \in Names /\ b \in Names /\ [task[t] EXCEPT !.do = "rename"] \in Jobs
    BY <1>2, <1>3 DEF RenameRows
  <2>2. /\ UNCHANGED <<server, folders, fresh, left>>
        /\ \/ /\ MoveAllowed(a, b) /\ rows' = (rows \ Of({a})) \cup MessagesMove(a, b)
              /\ Wrote(t, {a, b}) /\ Become(t, [task[t] EXCEPT !.do = "rename"])
           \/ UNCHANGED rows /\ Failed(t) /\ Become(t, None)
    BY <1>3 DEF RenameRows
  <2> HIDE DEF a, b
  <2>3. rows' \subseteq folders \X Uids
    <3>1. CASE MoveAllowed(a, b) /\ rows' = (rows \ Of({a})) \cup MessagesMove(a, b)
      <4>1. MessagesMove(a, b) \subseteq folders \X Uids
        BY <3>1 DEF MoveAllowed, MessagesMove, Of, TypeOK
      <4> QED
        BY <3>1, <4>1 DEF TypeOK
    <3> QED
      BY <2>2, <3>1 DEF TypeOK
  <2>4. {a, b} \in SUBSET Names /\ {} \in SUBSET Names
    BY <2>1
  <2>5. unsettled' \subseteq Names /\ \A u \in Tasks : since'[u] \subseteq Names
    BY <2>2, <2>4, HistoryTyped
  <2>6. \A u \in Tasks : task'[u] \in Jobs \cup {None}
    BY <2>1, <2>2, TaskTyped
  <2> QED
    BY <2>2, <2>3, <2>5, <2>6 DEF TypeOK
<1>4. CASE rename_folder_in_cache(t)
  <2> DEFINE a == task[t].name
             b == task[t].to
  <2>1. a \in Names /\ b \in Names
    BY <1>2, <1>4 DEF rename_folder_in_cache
  <2>2. /\ UNCHANGED <<server, rows, left>> /\ Become(t, None)
        /\ \/ /\ RenameAllowed(a, b) /\ folders' = Renamed(folders, a, b) /\ fresh' = Renamed(fresh, a, b)
              /\ Settled(t, IF a \in folders THEN {a, b} ELSE {a})
           \/ UNCHANGED <<folders, fresh>> /\ Failed(t)
    BY <1>4 DEF rename_folder_in_cache
  <2> HIDE DEF a, b
  <2>3. folders' \subseteq Names /\ fresh' \subseteq folders' /\ rows' \subseteq folders' \X Uids
    <3>1. CASE RenameAllowed(a, b) /\ folders' = Renamed(folders, a, b) /\ fresh' = Renamed(fresh, a, b)
      <4>1. CASE a \notin folders
        BY <2>2, <3>1, <4>1 DEF Renamed, TypeOK
      <4>2. CASE a \in folders
        <5>1. \A r \in rows : r \in folders \X Uids /\ r[1] # a
          BY <3>1, <4>2 DEF RenameAllowed, Of, TypeOK
        <5>2. folders' = (folders \ {a}) \cup {b}
          BY <3>1, <4>2 DEF Renamed
        <5>3. fresh' = IF a \in fresh THEN (fresh \ {a}) \cup {b} ELSE fresh
          BY <3>1 DEF Renamed
        <5>4. rows' \subseteq folders' \X Uids
          <6>1. \A r \in rows : r \in folders' \X Uids
            BY <5>1, <5>2
          <6> QED
            BY <2>2, <6>1
        <5>5. fresh' \subseteq folders'
          BY <5>2, <5>3 DEF TypeOK
        <5> QED
          BY <2>1, <5>2, <5>4, <5>5 DEF TypeOK
      <4> QED
        BY <4>1, <4>2
    <3> QED
      BY <2>2, <3>1 DEF TypeOK
  <2>4. {a, b} \in SUBSET Names /\ {a} \in SUBSET Names /\ {} \in SUBSET Names
    BY <2>1
  <2>5. unsettled' \subseteq Names /\ \A u \in Tasks : since'[u] \subseteq Names
    BY <2>2, <2>4, HistoryTyped
  <2>6. \A u \in Tasks : task'[u] \in Jobs \cup {None}
    BY <2>2, TaskTyped
  <2> QED
    BY <2>2, <2>3, <2>5, <2>6 DEF TypeOK
<1> QED
  BY <1>1, <1>3, <1>4

LEMMA WorldTypes ==
    ASSUME Requests \in Nat, FolderInv, TypeOK, None \notin Tasks, StoreMessage \/ Elsewhere \/ Expire \/ UNCHANGED vars
    PROVE  TypeOK'
<1>1. CASE StoreMessage
  BY <1>1, StoreTypes, Spent DEF StoreMessage, TypeOK
<1>2. CASE Elsewhere
  <2>1. unsettled' \subseteq Names /\ \A u \in Tasks : since'[u] \subseteq Names
    BY <1>2, HistoryTyped DEF Elsewhere
  <2>2. server' \subseteq Names /\ Inbox \in server'
    BY <1>2 DEF Elsewhere, TypeOK
  <2> QED
    BY <1>2, <2>1, <2>2, Spent DEF Elsewhere, TypeOK
<1>3. CASE Expire
  BY <1>3 DEF Expire, TypeOK
<1>4. CASE UNCHANGED vars
  BY <1>4 DEF vars, TypeOK
<1> QED
  BY <1>1, <1>2, <1>3, <1>4

LEMMA FolderTypesStep ==
    ASSUME Requests \in Nat, FolderInv, TypeOK, None \notin Tasks, Inbox \in System, [Next]_vars PROVE TypeOK'
<1>1. ASSUME NEW t \in Tasks, Step(t) PROVE TypeOK'
  BY <1>1, ListTypes, FolderTypes, RenameTypes DEF Step
<1> QED
  BY <1>1, WorldTypes DEF Next

\* The inbox stays, only rows that are there are fresh, and a message of the cache
\* has its folder, renamed or not (db/folders.rs:333).
THEOREM FoldersTypeCorrect ==
    ASSUME None \notin Tasks, Inbox \in System, Requests \in Nat PROVE Spec => []TypeOK
  BY FoldersInit, FoldersStep, FolderTypesStart, FolderTypesStep, PTL DEF Spec

=============================================================================
