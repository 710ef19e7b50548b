------------------------------- MODULE Search -------------------------------
(***************************************************************************)
(* Searching the mail: the rows of the cache by their headers, and the     *)
(* full-text index by what it was given of the bodies.                     *)
(*                                                                         *)
(*   backend/src/search/engine.rs       the index of one user              *)
(*   backend/src/routes/search.rs       a search: rows, index, rows again  *)
(*   backend/src/realtime/sync.rs       headers and bodies are indexed     *)
(*   backend/src/routes/messages/mod.rs opening a message indexes its body *)
(*                                                                         *)
(* The index has one writer at a time, and who finds it taken gives up:    *)
(* every caller ignores the error.  A search opens the index anew, so it   *)
(* reads the last commit.  What a message says is a member of Contents;    *)
(* the filters of a search are the contents that pass them.                *)
(***************************************************************************)
EXTENDS Naturals, FiniteSets, Functions

CONSTANTS
    Keys,       \* <<folder, uid>>
    Excluded,   \* those in a folder named trash, junk or spam, at any depth
    TopLevel,   \* those in a folder of just that name
    Contents,
    InHead, InBody, \* InHead[c], InBody[c]: the words of the header, of the text
    Date,       \* Date[c]
    Words, Filters,
    Limit, DEEP_INDEX_BATCH,
    Tasks, None,
    Budget      \* bound: how often each thing happens in one behaviour

VARIABLES
    mailbox,    \* what the server has: key -> content
    rows,       \* the cache: key -> message, cached body, \Seen
    docs,       \* the index: key -> the contents its header and body are of
    writer,     \* the task that holds the lock of the index
    task,       \* what each task is about to do
    touched,    \* history: touched[t], keys that changed since t began
    left        \* history: what is left of the bound

vars == <<mailbox, rows, docs, writer, task, touched, left>>

MaybeContents == Contents \cup {None}
Rows == [msg : Contents, body : MaybeContents, seen : BOOLEAN]
Docs == [head : Contents, body : MaybeContents]

Init ==
    /\ mailbox = [k \in Keys |-> None] /\ rows = <<>> /\ docs = <<>> /\ writer = None
    /\ task = [t \in Tasks |-> None] /\ touched = [t \in Tasks |-> {}] /\ left \in Budget

Spend(what) == left[what] > 0 /\ left' = [left EXCEPT ![what] = @ - 1]
Is(t, what) == task[t] # None /\ task[t].do = what
Become(t, job) == task' = [task EXCEPT ![t] = job]
Put(f, k, v) == [x \in DOMAIN f \cup {k} |-> IF x = k THEN v ELSE f[x]]
Drop(f, k) == Restrict(f, DOMAIN f \ {k})

\* The searches under way meet a key that has changed.
Touch(k) == touched' = [t \in Tasks |-> IF task[t] = None THEN {} ELSE touched[t] \cup {k}]
Begin(t) == touched' = [touched EXCEPT ![t] = {}]
Quiet == UNCHANGED touched

-----------------------------------------------------------------------------
(* The rows                                                                *)

\* INSERT OR REPLACE: the body that was cached is gone.
upsert_message(k, c, s) == rows' = Put(rows, k, [msg |-> c, body |-> None, seen |-> s])
delete_message(k) == rows' = Drop(rows, k)

\* UPDATE ... WHERE: a row that is gone stays gone.
cache_message_body(k, c) ==
    rows' = IF k \in DOMAIN rows THEN [rows EXCEPT ![k].body = c] ELSE rows
get_cached_body(k) == IF k \in DOMAIN rows THEN rows[k].body ELSE None
get_single_message(k) == IF k \in DOMAIN rows THEN rows[k].msg ELSE None

\* The newest of S; among messages of one date, any.
Newest(S, n) ==
    {T \in SUBSET S : /\ Cardinality(T) = IF Cardinality(S) < n THEN Cardinality(S) ELSE n
                      /\ \A k \in T, x \in S \ T : Date[rows[k].msg] >= Date[rows[x].msg]}

get_unindexed_messages(n) == Newest({k \in DOMAIN rows : rows[k].body = None}, n)

\* By header, filters and flags; the folders of deleted mail only by their name
search_messages_sqlite(q) ==
    {k \in DOMAIN rows \ TopLevel :
        /\ q.word = None \/ q.word \in InHead[rows[k].msg]
        /\ rows[k].msg \in q.filter
        /\ q.seen = None \/ rows[k].seen = q.seen}

-----------------------------------------------------------------------------
(* The index                                                               *)

is_excluded_folder_by_name(k) == k \in TopLevel
is_excluded_folder(k) == k \in Excluded

build_document(c, text) == [head |-> c, body |-> text]
Text(c) == IF InBody[c] = {} THEN None ELSE c

\* The words of a document; it is found by those, and by what its header says.
DocWords(d) == InHead[d.head] \cup (IF d.body = None THEN {} ELSE InBody[d.body])
search(q) == {k \in DOMAIN docs : q.word \in DocWords(docs[k]) /\ docs[k].head \in q.filter}

\* A task goes to write one document, then does what is left for it.
Write(k, doc, next) == [do |-> "writer", key |-> k, doc |-> doc, next |-> next]

OpenWriter(t) ==
    /\ Is(t, "writer")
    /\ IF writer = None THEN writer' = t /\ Become(t, [task[t] EXCEPT !.do = "commit"])
       ELSE UNCHANGED writer /\ Become(t, task[t].next)
    /\ Quiet /\ UNCHANGED <<mailbox, rows, docs, left>>

\* Delete what there is under that key, add, commit, and let the writer go.
Commit(t) ==
    /\ Is(t, "commit")
    /\ LET k == task[t].key IN
          /\ docs' = IF task[t].doc = None THEN Drop(docs, k) ELSE Put(docs, k, task[t].doc)
          /\ Touch(k)
    /\ writer' = None /\ Become(t, task[t].next)
    /\ UNCHANGED <<mailbox, rows, left>>

-----------------------------------------------------------------------------
(* Headers arrive: both syncs and the first page                           *)

Fetch(t) ==
    /\ Spend("sync") /\ task[t] = None /\ Begin(t)
    /\ \E k \in Keys : /\ mailbox[k] # None
                       /\ Become(t, [do |-> "store", key |-> k, msg |-> mailbox[k]])
    /\ UNCHANGED <<mailbox, rows, docs, writer>>

upsert_and_index_headers(t) ==
    /\ Is(t, "store")
    /\ LET k == task[t].key c == task[t].msg IN
          /\ \E s \in BOOLEAN : upsert_message(k, c, s)
          /\ Become(t, IF is_excluded_folder(k) THEN None
                       ELSE Write(k, build_document(c, None), None))
          /\ Touch(k)
    /\ UNCHANGED <<mailbox, docs, writer, left>>

-----------------------------------------------------------------------------
(* A message is opened                                                     *)

\* Header and body for the index are read at two times.
Reindex(t, k, body, next) ==
    [do |-> "header", key |-> k, body |-> body, next |-> next]

get_message(t) ==
    /\ Spend("open") /\ task[t] = None /\ Begin(t)
    /\ \E k \in Keys :
          Become(t, IF get_cached_body(k) = None THEN [do |-> "fetch", key |-> k]
                    ELSE Reindex(t, k, get_cached_body(k), None))
    /\ UNCHANGED <<mailbox, rows, docs, writer>>

fetch_body(t) ==
    /\ Is(t, "fetch") /\ mailbox[task[t].key] # None
    /\ Become(t, [do |-> "cache", key |-> task[t].key, body |-> mailbox[task[t].key],
                  next |-> None])
    /\ Quiet /\ UNCHANGED <<mailbox, rows, docs, writer, left>>

\* Not there, or the mail server cannot be reached: the row goes, the entry too.
FetchFails(t) ==
    /\ Is(t, "fetch")
    /\ LET k == task[t].key IN
          /\ delete_message(k) /\ Touch(k) /\ Become(t, Write(k, None, None))
    /\ UNCHANGED <<mailbox, docs, writer, left>>

CacheBody(t) ==
    /\ Is(t, "cache") /\ cache_message_body(task[t].key, task[t].body)
    /\ Touch(task[t].key)
    /\ Become(t, Reindex(t, task[t].key, task[t].body, task[t].next))
    /\ UNCHANGED <<mailbox, docs, writer, left>>

\* A message that has no row is shown from its raw headers; the indexing of
\* bodies passes it over.  A body without text leaves the index alone.
build_synthetic_message(c) == c
ReadHeader(t) ==
    /\ Is(t, "header")
    /\ LET k == task[t].key c == task[t].body next == task[t].next
           msg == IF get_single_message(k) = None /\ next = None
                  THEN build_synthetic_message(c) ELSE get_single_message(k)
       IN Become(t, IF msg = None \/ Text(c) = None \/ is_excluded_folder(k) THEN next
                    ELSE Write(k, build_document(msg, Text(c)), next))
    /\ Quiet /\ UNCHANGED <<mailbox, rows, docs, writer, left>>

-----------------------------------------------------------------------------
(* The bodies are indexed after every cycle, a batch at a time             *)

Deep(todo) == [do |-> "deep", todo |-> todo]

index_message_bodies(t) ==
    /\ Spend("deep") /\ task[t] = None /\ Begin(t)
    /\ \E T \in get_unindexed_messages(DEEP_INDEX_BATCH) : Become(t, Deep(T))
    /\ UNCHANGED <<mailbox, rows, docs, writer>>

\* Messages of excluded folders are passed over, like those that cannot be
\* fetched: nothing tells the next batch, which starts with them again.
DeepNext(t) ==
    /\ Is(t, "deep")
    /\ IF task[t].todo = {} THEN Become(t, None)
       ELSE \E k \in task[t].todo :
               LET rest == Deep(task[t].todo \ {k}) IN
               \/ Become(t, rest)
               \/ /\ ~is_excluded_folder(k) /\ mailbox[k] # None
                  /\ Become(t, [do |-> "cache", key |-> k, body |-> mailbox[k], next |-> rest])
    /\ Quiet /\ UNCHANGED <<mailbox, rows, docs, writer, left>>

-----------------------------------------------------------------------------
(* A search                                                                *)

Query == [word : Words \cup {None}, filter : Filters, seen : BOOLEAN \cup {None}]

search_messages(t) ==
    /\ Spend("search") /\ task[t] = None /\ Begin(t)
    /\ \E q \in Query : \E F \in Newest(search_messages_sqlite(q), Limit) :
          Become(t, [do |-> IF q.word = None \/ Cardinality(F) = Limit THEN "answer" ELSE "index",
                     query |-> q, found |-> F, more |-> {}])
    /\ UNCHANGED <<mailbox, rows, docs, writer>>

\* The best hits, at most as many as the search may show; what is best depends
\* on the words alone.
SearchIndex(t) ==
    /\ Is(t, "index")
    /\ LET hits == search(task[t].query) IN
          \E H \in SUBSET hits :
             /\ Cardinality(H) = IF Cardinality(hits) < Limit THEN Cardinality(hits) ELSE Limit
             /\ Become(t, [task[t] EXCEPT !.do = "resolve", !.more = H])
    /\ Quiet /\ UNCHANGED <<mailbox, rows, docs, writer, left>>

\* The hits that still have a row, as many as there is room for, less those
\* that are in the answer already.
Unseen_all(found, items) == items
Unseen(found, items) == items \ found
Resolve(t) ==
    /\ Is(t, "resolve")
    /\ LET there == {k \in task[t].more : get_single_message(k) # None}
           room == Limit - Cardinality(task[t].found)
       IN \E I \in SUBSET there :
             /\ Cardinality(I) = IF Cardinality(there) < room THEN Cardinality(there) ELSE room
             /\ Become(t, [task[t] EXCEPT !.do = "answer", !.more = Unseen(task[t].found, I)])
    /\ Quiet /\ UNCHANGED <<mailbox, rows, docs, writer, left>>

Answered(t) ==
    /\ Is(t, "answer") /\ Become(t, None)
    /\ Quiet /\ UNCHANGED <<mailbox, rows, docs, writer, left>>

-----------------------------------------------------------------------------

\* The server's mailbox changes: mail comes, goes, or is numbered anew.
Elsewhere ==
    /\ Spend("mail") /\ Quiet
    /\ \E k \in Keys, c \in MaybeContents : mailbox' = [mailbox EXCEPT ![k] = c]
    /\ UNCHANGED <<rows, docs, writer, task>>

\* A sync, a move or a deletion takes a row away; the index is not told.
RowGone ==
    /\ Spend("mail")
    /\ \E k \in DOMAIN rows : delete_message(k) /\ Touch(k)
    /\ UNCHANGED <<mailbox, docs, writer, task>>

Next ==
    \/ \E t \in Tasks :
          \/ OpenWriter(t) \/ Commit(t) \/ Fetch(t) \/ upsert_and_index_headers(t)
          \/ get_message(t) \/ fetch_body(t) \/ FetchFails(t) \/ CacheBody(t)
          \/ ReadHeader(t) \/ index_message_bodies(t) \/ DeepNext(t)
          \/ search_messages(t) \/ SearchIndex(t) \/ Resolve(t) \/ Answered(t)
    \/ Elsewhere \/ RowGone

Spec == Init /\ [][Next]_vars

-----------------------------------------------------------------------------

TypeOK ==
    /\ mailbox \in [Keys -> MaybeContents]
    /\ DOMAIN rows \subseteq Keys /\ \A k \in DOMAIN rows : rows[k] \in Rows
    /\ DOMAIN docs \subseteq Keys \ Excluded /\ \A k \in DOMAIN docs : docs[k] \in Docs
    /\ \A t \in Tasks : writer = t <=> Is(t, "commit")
    /\ touched \in [Tasks -> SUBSET Keys]

(***************************************************************************)
(* An answer names no message twice; none that the index gave it is of a   *)
(* folder of deleted mail at any depth, and none that the rows gave it of  *)
(* one at the top (the rows of nested ones are answered, against           *)
(* "Exclude Trash/Spam/Junk from search results (same as tantivy)",        *)
(* db/messages.rs:779); it names only messages of the cache; and when it   *)
(* is not full it leaves out no row whose header fits: except where a row  *)
(* changed while the search was under way (routes/search.rs:424).          *)
(***************************************************************************)
SearchSound ==
    \A t \in Tasks : Is(t, "answer") =>
        LET q == task[t].query found == task[t].found more == task[t].more IN
        /\ found \cap more = {} /\ Cardinality(found \cup more) <= Limit
        /\ more \cap Excluded = {} /\ found \cap TopLevel = {}
        /\ (found \cup more) \ touched[t] \subseteq DOMAIN rows
        /\ Cardinality(found \cup more) < Limit =>
              search_messages_sqlite(q) \ touched[t] \subseteq found

=============================================================================
