------------------------------- MODULE Folders -------------------------------
(***************************************************************************)
(* The folder list: the folders of the mail server and their cached rows,  *)
(* which the messages of the cache refer to (ON DELETE CASCADE).           *)
(*                                                                         *)
(*   backend/src/routes/folder_mgmt.rs   create, rename, delete, subscribe *)
(*   backend/src/routes/folders.rs       the list, refreshed when stale    *)
(*   backend/src/db/folders.rs           the rows                          *)
(*   backend/src/imap/client.rs          the calls                         *)
(*                                                                         *)
(* A request asks the server first and writes the rows afterwards; each    *)
(* statement is a step, and a request may be dropped between two of them.  *)
(* A refusal of the server ends a request that has changed nothing.        *)
(* Names are flat: what a RENAME does to the folders below the renamed one *)
(* is a change by somebody else.                                           *)
(***************************************************************************)
EXTENDS Naturals, FiniteSets

CONSTANTS
    Names,      \* names of folders
    Inbox,      \* the folder that is always there
    System,     \* names that are neither renamed nor deleted
    Refused,    \* names that are no valid names
    Uids,       \* of messages
    Tasks, None,
    Requests    \* bound: requests, changes by other clients, messages stored

VARIABLES
    server,     \* the folders there are
    folders,    \* cached rows
    fresh,      \* those whose updated_at is less than 30 seconds old
    rows,       \* cached messages, <<folder, uid>>
    task,       \* what each request is about to do
    since,      \* history: since[t], names of which t knows the wrong thing: changed
                \* since it asked the server, or lost from the answer
    unsettled,  \* history: names whose last change no request has cached
    left        \* history: what is left of the bound

vars == <<server, folders, fresh, rows, task, since, unsettled, left>>

Jobs == [do : {"insert", "prune", "touch"}, names : SUBSET Names, todo : SUBSET Names]
   \cup [do : {"cache", "delete_rows", "delete", "upsert"}, name : Names]
   \cup [do : {"rename_rows", "rename"}, name : Names, to : Names]

Init ==
    /\ server \in {S \in SUBSET Names : Inbox \in S} /\ folders = {} /\ fresh = {}
    /\ rows = {} /\ task = [t \in Tasks |-> None] /\ since = [t \in Tasks |-> {}]
    /\ unsettled = Names /\ left = Requests

Spend == left > 0 /\ left' = left - 1
Become(t, job) == task' = [task EXCEPT ![t] = job]

-----------------------------------------------------------------------------
(* What the history says                                                   *)

\* Requests under way, other than t, learn that what they know of N is old.
Older(t, N) ==
    [u \in Tasks |-> IF task[u] = None \/ u = t THEN {} ELSE since[u] \cup N]

\* The server changed: an answer that another request has got is older.
Changed(t, N) == since' = Older(t, N) /\ unsettled' = unsettled \cup N

\* t writes the names N, what it knows of some of them being out of date.
Wrote(t, N) ==
    /\ since' = [Older(t, N \cap since[t]) EXCEPT ![t] = since[t]]
    /\ unsettled' = unsettled \cup (N \cap since[t])

\* t has written all it knows of the names N.
Settled(t, N) ==
    /\ since' = Older(t, N \cap since[t])
    /\ unsettled' = (unsettled \ N) \cup (N \cap since[t])

\* t ends and has told the cache nothing that is wrong.
Failed(t) == since' = Older(t, {}) /\ UNCHANGED unsettled

-----------------------------------------------------------------------------
(* The rows                                                                *)

Of(N) == {r \in rows : r[1] \in N}

\* INSERT OR IGNORE; as INSERT OR REPLACE it would delete the row that is
\* there, and its messages with it.
insert_folder_if_new_or_replace(n) ==
    folders' = folders \cup {n} /\ fresh' = fresh \cup {n} /\ rows' = rows \ Of({n})
insert_folder_if_new(n) ==
    /\ folders' = folders \cup {n} /\ UNCHANGED rows
    /\ fresh' = IF n \in folders THEN fresh ELSE fresh \cup {n}

upsert_folder(n) ==
    folders' = folders \cup {n} /\ fresh' = fresh \cup {n} /\ rows' = rows \ Of({n})

\* WHERE name NOT IN the names
remove_none_stale(N) == UNCHANGED <<folders, fresh, rows>>
remove_stale_folders(N) ==
    folders' = folders \cap N /\ fresh' = fresh \cap N /\ rows' = Of(N)

touch_all_folders == fresh' = folders
is_folder_cache_fresh == fresh # {}

\* A message refers to a folder: its rows move only to one that is cached,
\* which must not have one of that number.
MessagesMove(a, b) == {<<b, r[2]>> : r \in Of({a})}
MoveAllowed(a, b) ==
    MessagesMove(a, b) # {} => b \in folders /\ MessagesMove(a, b) \cap rows = {}
\* ... and a folder with messages keeps its name; no two have the same.
RenameAllowed(a, b) == a \in folders => b \notin folders /\ Of({a}) = {}
Renamed(S, a, b) == IF a \in S THEN (S \ {a}) \cup {b} ELSE S

-----------------------------------------------------------------------------
(* Requests to the folder list                                             *)

is_system_folder(n) == n \in System
validate_folder_name(n) == n \notin Refused

\* The server's names.  No name at all comes from a connection that is dead; an
\* answer that ends after the first one is taken for the whole of it.
list_folders(answer) == IF answer = {} THEN None ELSE answer

imap_create(n) == n \notin server /\ server' = server \cup {n}
imap_rename(a, b) ==
    a \in server /\ b \notin server /\ server' = (server \ {a}) \cup {b}
imap_delete(n) == n \in server /\ server' = server \ {n}

\* A list that is fresh is answered from the cache, which changes nothing.
List(t) ==
    /\ Spend /\ task[t] = None /\ ~is_folder_cache_fresh
    /\ \E answer \in SUBSET server :
          /\ list_folders(answer) # None
          /\ Become(t, [do |-> "insert", names |-> answer, todo |-> answer])
          /\ since' = [since EXCEPT ![t] = server \ answer]
    /\ UNCHANGED <<server, folders, fresh, rows, unsettled>>

ListInsert(t) ==
    /\ task[t] # None /\ task[t].do = "insert"
    /\ \E n \in task[t].todo :
          /\ insert_folder_if_new(n) /\ Wrote(t, {n})
          /\ Become(t, [task[t] EXCEPT !.todo = @ \ {n},
                            !.do = IF task[t].todo = {n} THEN "prune" ELSE @])
    /\ UNCHANGED <<server, left>>

ListPrune(t) ==
    /\ task[t] # None /\ task[t].do = "prune"
    /\ remove_stale_folders(task[t].names) /\ Wrote(t, Names)
    /\ Become(t, [task[t] EXCEPT !.do = "touch"])
    /\ UNCHANGED <<server, left>>

ListTouch(t) ==
    /\ task[t] # None /\ task[t].do = "touch"
    /\ touch_all_folders /\ Settled(t, Names) /\ Become(t, None)
    /\ UNCHANGED <<server, folders, rows, left>>

\* CREATE, then SUBSCRIBE; when the second one fails nothing is cached.
create_folder(t, n) ==
    /\ Spend /\ task[t] = None /\ validate_folder_name(n)
    /\ imap_create(n) /\ Changed(t, {n})
    /\ \/ Become(t, [do |-> "cache", name |-> n])
       \/ UNCHANGED task
    /\ UNCHANGED <<folders, fresh, rows>>

CreateCached(t) ==
    /\ task[t] # None /\ task[t].do = "cache"
    /\ insert_folder_if_new(task[t].name)
    /\ Settled(t, {task[t].name}) /\ Become(t, None)
    /\ UNCHANGED <<server, left>>

rename_folder(t, a, b) ==
    /\ Spend /\ task[t] = None /\ ~is_system_folder(a) /\ validate_folder_name(b)
    /\ imap_rename(a, b) /\ Changed(t, {a, b})
    /\ Become(t, [do |-> "rename_rows", name |-> a, to |-> b])
    /\ UNCHANGED <<folders, fresh, rows>>

\* "Updating both folders and messages tables", each refusing when the other
\* still has the old name: a folder with messages is never renamed in the cache.
RenameRows(t) ==
    /\ task[t] # None /\ task[t].do = "rename_rows"
    /\ LET a == task[t].name b == task[t].to IN
          IF MoveAllowed(a, b)
          THEN /\ rows' = (rows \ Of({a})) \cup MessagesMove(a, b)
               /\ Wrote(t, {a, b}) /\ Become(t, [task[t] EXCEPT !.do = "rename"])
          ELSE UNCHANGED rows /\ Failed(t) /\ Become(t, None)
    /\ UNCHANGED <<server, folders, fresh, left>>

rename_folder_in_cache(t) ==
    /\ task[t] # None /\ task[t].do = "rename"
    /\ LET a == task[t].name b == task[t].to IN
          IF RenameAllowed(a, b)
          THEN /\ folders' = Renamed(folders, a, b) /\ fresh' = Renamed(fresh, a, b)
               /\ Settled(t, IF a \in folders THEN {a, b} ELSE {a})
          ELSE UNCHANGED <<folders, fresh>> /\ Failed(t)
    /\ Become(t, None) /\ UNCHANGED <<server, rows, left>>

delete_folder(t, n) ==
    /\ Spend /\ task[t] = None /\ ~is_system_folder(n)
    /\ imap_delete(n) /\ Changed(t, {n})
    /\ Become(t, [do |-> "delete_rows", name |-> n])
    /\ UNCHANGED <<folders, fresh, rows>>

DeleteRows(t) ==
    /\ task[t] # None /\ task[t].do = "delete_rows"
    /\ rows' = rows \ Of({task[t].name}) /\ Wrote(t, {task[t].name})
    /\ Become(t, [task[t] EXCEPT !.do = "delete"])
    /\ UNCHANGED <<server, folders, fresh, left>>

delete_folder_and_messages(t) ==
    /\ task[t] # None /\ task[t].do = "delete"
    /\ remove_stale_folders(folders \ {task[t].name})
    /\ Settled(t, {task[t].name}) /\ Become(t, None)
    /\ UNCHANGED <<server, left>>

-----------------------------------------------------------------------------
(* Everything else that meets the list                                     *)

\* A page that still shows a folder opens it: a name that is not cached gets a
\* row, whether the server has it or not.  It is written with INSERT OR REPLACE:
\* of two pages that open one folder, the second deletes what the first stored.
list_messages(t) ==
    /\ Spend /\ task[t] = None
    /\ \E n \in Names \ folders : Become(t, [do |-> "upsert", name |-> n])
    /\ UNCHANGED <<server, folders, fresh, rows, since, unsettled>>
EnsureFolder(t) ==
    /\ task[t] # None /\ task[t].do = "upsert" /\ Become(t, None)
    /\ LET n == task[t].name IN
          /\ upsert_folder(n)
          /\ IF n \in server THEN Failed(t) ELSE Changed(t, {n})
    /\ UNCHANGED <<server, left>>

\* A sync of the folder stores a message; the reference must be there.
StoreMessage ==
    /\ Spend /\ \E n \in folders, u \in Uids : rows' = rows \cup {<<n, u>>}
    /\ UNCHANGED <<server, folders, fresh, task, since, unsettled>>

\* Another client creates or deletes a folder.
Elsewhere ==
    /\ Spend
    /\ \E n \in Names \ {Inbox} :
          /\ server' = IF n \in server THEN server \ {n} ELSE server \cup {n}
          /\ Changed(None, {n})
    /\ UNCHANGED <<folders, fresh, rows, task>>

Expire ==
    /\ \E n \in fresh : fresh' = fresh \ {n}
    /\ UNCHANGED <<server, folders, rows, task, since, unsettled, left>>

\* A request ends between two steps: its connection closes, or a call fails.
Drop(t) ==
    /\ task[t] # None /\ Become(t, None) /\ Failed(t)
    /\ UNCHANGED <<server, folders, fresh, rows, left>>

Step(t) ==
    \/ List(t) \/ ListInsert(t) \/ ListPrune(t) \/ ListTouch(t)
    \/ \E n \in Names : create_folder(t, n) \/ delete_folder(t, n)
    \/ \E a, b \in Names : rename_folder(t, a, b)
    \/ CreateCached(t) \/ RenameRows(t) \/ rename_folder_in_cache(t)
    \/ DeleteRows(t) \/ delete_folder_and_messages(t)
    \/ list_messages(t) \/ EnsureFolder(t) \/ Drop(t)

Next == (\E t \in Tasks : Step(t)) \/ StoreMessage \/ Elsewhere \/ Expire

Spec == Init /\ [][Next]_vars

-----------------------------------------------------------------------------

\* Every cached message has its folder, and only rows that are there are fresh.
TypeOK ==
    /\ server \subseteq Names /\ Inbox \in server
    /\ folders \subseteq Names /\ fresh \subseteq folders
    /\ rows \subseteq folders \X Uids
    /\ \A t \in Tasks : task[t] \in Jobs \cup {None} /\ since[t] \subseteq Names
    /\ unsettled \subseteq Names /\ left \in 0..Requests

\* A name is cached if and only if the server has it, whatever the order in
\* which lists, creations, renamings and deletions write what they know
\* (routes/folders.rs:105); except the names whose last change was made by
\* somebody else or by a request that failed, was met by an answer from before
\* it, or that were lost from a LIST cut short and pruned for it
\* (imap/client.rs:403).
FoldersAccounted == \A n \in Names \ unsettled : n \in folders <=> n \in server

\* "INSERT OR IGNORE to create new folders without triggering CASCADE": what
\* becomes of the list, a cached message stays as long as its folder does
\* (db/folders.rs:54); except that a name of which somebody wrote the wrong
\* thing, as above, may lose its messages, and that the second of two first
\* pages does trigger the CASCADE (routes/messages/mod.rs:148).
MailKept ==
    [][\A r \in rows \ rows' :
          \/ r[1] \notin server \/ r[1] \in unsettled'
          \/ \E t \in Tasks : EnsureFolder(t) /\ task[t].name = r[1]]_vars

=============================================================================
