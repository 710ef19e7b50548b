# Verification of the rav backend

rav is a webmail server in Rust (`src/backend`) with a browser client
(`src/frontend`). The backend talks to the user's IMAP and SMTP servers, keeps
one SQLite database per user, and runs background tasks per user. This
directory holds TLA+ modules of its stateful parts, TLC runs that check them on
small instances, and TLAPS proofs for every size.

## 1. Inventory

Paths are relative to `src/backend/src`.

| Component | State | Operations | Interacts with |
|---|---|---|---|
| **Outbox** `db/outbox.rs`, `realtime/outbox_worker.rs`, `routes/outbox.rs`, `routes/send.rs` | table `outbox` (state, `send_after`, attempts); per user one task and one `Notify` | enqueue, list, undo (DELETE), retry; worker: list due, mark, send, settle, sleep, exit | SMTP, the Sent folder, drafts (cleanup), the event bus, `get_session` (starts the worker) |
| **Drafts and attachments** `routes/drafts.rs`, `db/drafts.rs`, `routes/attachments.rs` | `DraftLocks` (map of mutexes), `draft_staging`, `draft_attachments`, a directory per draft, copies in the IMAP Drafts folder | save, discard, upload, remove attachment, cleanup after a send | IMAP, the file system, the outbox |
| **Session store** `auth/session.rs` | four concurrent maps: sessions, browsers, account→session, account→browser | create browser, add, get (sliding expiry), remove account, remove browser, purge | every handler, through `auth/middleware.rs` |
| **Login and MFA** `routes/auth.rs`, `routes/mfa.rs`, `mfa/*`, `db/mfa.rs` | TOTP secret, used steps, lockout, passkeys, passkey-only mode; pending ceremonies in memory | login (password, code), confirm and remove TOTP, register, use and delete a passkey, change the mode | session store, IMAP (the password check) |
| **Mailbox** `realtime/sync.rs`, `db/messages.rs`, `db/folders.rs`, `routes/messages/*` | cached messages and their flags, UIDVALIDITY, highest mod-sequence | sync a folder (full, by mod-sequence, QRESYNC); list, open, flag, move, delete, mark all read | IMAP, the event bus, search |
| **Realtime** `realtime/worker.rs`, `idle.rs`, `events.rs`, `ws.rs` | per user: sync task and bell in two maps, IDLE tasks by folder, a broadcast channel of 64 events | ensure worker, keepalive, start and stop IDLE, subscribe, publish, clean up | mailbox, sessions, push, the browser |
| **New mail** `realtime/idle.rs`, `db/filters.rs`, `db/vacation.rs`, `sieve/*` | filter rules, vacation settings, replies recorded, the script on the mail server | reply and filter new messages; edit rules and responder; upload the script; apply the filters on request | mailbox, IMAP, SMTP, ManageSieve |
| **Push** `push/*`, `db/push.rs`, `routes/push.rs` | subscriptions, a sealed credential and its mark, the user's task | subscribe, store and delete a credential, rescan, probe, notify | IMAP, push services, realtime |
| **Folders** `routes/folders.rs`, `routes/folder_mgmt.rs`, `db/folders.rs` | cached folder rows, which messages refer to | list (refreshed when stale), create, rename, delete | IMAP, mailbox |
| **Search** `routes/search.rs`, `search/*`, `db/messages.rs` | index documents and their one writer, cached rows and bodies | index headers and bodies, search in two steps | mailbox, IMAP |
| **IMAP client** `imap/client.rs`, `imap/session_cache.rs` | pool of connections, permits to connect | take and give back a connection; move, expunge, size, quota, list | every component that uses IMAP |
| **Contacts and groups** `routes/contacts.rs`, `db/contacts.rs` | contacts, groups, members | edit, import, suggest | |
| **Calendar** `routes/calendar.rs`, `db/calendar.rs` | events and their recurrences | edit, import, list a window | |
| **Labels** tags, identities, stickers, preferences | their tables | edit, default identity, tag a message | mailbox (cached rows) |
| Others | the assistant's loop; pure text code; single remote calls; the browser client | | |

What is hard in this system, and so what the models are about:

* *Interleaving.* A handler's database work is a sequence of statements on a
  pool of connections, not a transaction; the workers run between them. Maps
  are changed one at a time.
* *Failure.* Results of a send are written with `let _ =`; a dropped connection
  drops the handler's future at its next await, but a closure on the blocking
  pool runs on. A sync cycle is cut off after 120 s wherever it is. A streamed
  IMAP answer that ends early counts as whole. The process may stop anywhere;
  only the databases survive.
* *Wake-ups.* Workers sleep until a deadline, a bell or an idle timeout, and end
  by themselves; `ensure_worker` must notice.
* *Two stores.* A draft is in IMAP and SQLite, an attachment in SQLite and a
  directory, a message on the server, in the cache and in the index, a filter
  in SQLite and in the mail server's script.
* *Stale answers.* What a server, a settings row or a list said is used after
  an await, when it may no longer be so.

What makes each part correct: the outbox sends each message at most once after
it was acknowledged, gives up after a bounded number of attempts, says so,
honours an undo in time and keeps the draft until then; a draft has one copy,
and its saves exclude each other; the session maps agree; a login is let in by a
gate that was open while it ran; the cache converges to the server and no
difference is hidden by the stored number; a page that is open hears of changes;
new mail is looked at once; a rejected password is not retried; lists, searches
and suggestions neither repeat nor invent. PROJECT.json lists the hazards line
by line.

## 2. Plan, and where it stands

All modules of the plan are written: `Outbox`, `Drafts`, `SessionStore`,
`Mailbox`, `Realtime`, `NewMail`, `Login`, `Push`, then the tables of `UserData`
and the IMAP client. `Mutex` is the abstract specification that `Drafts`
implements. Every invariant and every action property that a run checks, except
`StraysCounted`, is proved (section 6); the liveness properties are
model-checked. What is left for whoever
goes on: abstract specifications of the session store and of the cache of a
folder, which their modules would implement; the assistant's confirmation of
actions.

## 3. Modules

### Outbox

One user; users share nothing in this code. `row` is the table, and every
operator in small letters (`list_due`, `mark_sending`, ...) is one SQL statement
of `db/outbox.rs`. `pend` and `del` say where the POST and DELETE handlers of an
entry are between two of their statements. `pc`, `due`, `cur`, `wait`, `creds`
are the local state of `worker_loop`; `bell` is its `Notify` (one permit).
`submitted`, `accepted`, `filed`, `drafts`, `cancelled` record what the outside
world has seen. `unseen` stands for the event bus: entries changed since the
last event, at which every client reloads.

Each handler is one action per statement, each `select!` branch and each result of
`perform_send` an action of its own. The worker writes the result of a send and
publishes it in two steps (`MarkSending`, `MarkFailed`, ... and then `Publish`),
so that it may stop in between, or write nothing and publish all the same. A
timestamp is the number of ticks left until it, so the state space is finite
without bounding a clock. Faults: failing statements where the worker reads and
writes, a dropped request, a changed password, a crash; `MaxFaults` bounds their
number.

Abstractions: message contents and the order of `list_due` (the model takes any
order); the user id; `Logout`, which does not touch the queue or its worker; a
failing read in a handler before its first write, which changes nothing.

### Drafts, Mutex

One draft; lock, row, Message-ID and directory are keyed by its uuid. A request
has a `phase` in `with_lock` and a position in `Body(kind)`, the sequence of
statements and IMAP commands of its operation. `locks`, `ref`, `owner` are the
map entry, the `Arc` clones and the guards; `strong_count` counts references as
`Arc` does. A dropped request releases guard and `Arc` without `remove_if`; its
closure on the blocking pool goes on as a `ghost`. An IMAP command whose
request was dropped either took effect or did not before the drop; effects that
arrive later than that are not modelled. UIDs are never reused, as IMAP
demands. Message bodies, sizes and MIME types are data and left out.

A staging row that cannot be read counts as no row (`ReadFails`), and a file that
cannot be removed is logged and its row deleted (`RemoveFileFails`).
`AttachmentsReadable` lets a recorded attachment lack its file only where the code
itself goes that way: a removal or a cleanup that is between the file and the
row, or was dropped there (`Unlinked`), and an upload that overlaps a removal of
the whole draft, which takes its file and not its record (`crossed`). With faults an
answer may be untrue; `StraysCounted` says by how much: one copy in the Drafts
folder for each failure.

`Mutex` is what `DraftLocks` promises: clients are out, waiting or in, one at a
time. `Drafts` maps each request's phase to such a stage (`Turn`) and implements
it (`OneAtATime`), although map entries are removed and made again under the
requests' feet.

### SessionStore

The store is four `DashMap`s that synchronous functions change one access at a
time, so an action is one access and a request handler or the purge task is a
process with a label: `sess`, `a2s`, `a2b`, `push` are the inserts of
`add_account_to_browser`, `drop` and `ev_a2s` to `retain` the removals of `get` and
`evict_account`, `ra_*` those of `remove_account`, `lo_*` those of
`remove_browser`. `browsers.retain` visits one browser per step. A token belongs
to one account for ever and the model uses the account for both. The cookies a
request carries (`jar`) are those the client had when it was sent, which may be
before what the handler reads. Cookies a client was told to clear may still
arrive, from another tab. The functions have no await and cannot be cut off;
a crash loses all four maps at once and is the initial state again.

`status`, `expired`, `revoked` and `swept` are history: whether a login was
answered, and why an account may be on its way out.

Abstractions: the clock (`Expire` lets the sliding window of an idle session run
out; nothing revives an expired one, so `last_accessed` needs no value); the
shards of `sessions` during a purge; the lookups of `get_browser_accounts` after
its clone are one step.

### Mailbox

Two modules. `SyncCycle` is one cycle of the worker over one folder: the server,
the cache and `run_sync`. `Mailbox` adds who else changes them: the server's
other clients, the requests of `routes/messages` and a second cycle. A cycle
visits folders one after the other and shares nothing between them, so one folder
is enough; a move is an expunge here and a delivery in the other folder.

`msgs`, `smod`, `top`, `next`, `sval` are the server, which may or may not support
CONDSTORE and QRESYNC; `rows`, `cval`, `cmod`, `null` the cache; `pc` to `late` the
cycle between two of its calls. Each IMAP call and each `with_user_db` closure is
one step, and the 120 s limit can cut the cycle at any of them; a closure already
on the blocking pool then lands later (`late`). A message is the set of its flags.

What can go wrong is a set of kinds: a call that fails ("imap"), an answer that
ends half-way and is taken for the whole ("eof": `client.rs:473`, `1255`, `1329`), one
statement in a closure that is refused while the rest goes on ("row": `sync.rs:388`,
`419`, `450`, `589`, `603`), a cycle that is cut, a request that is dropped, an open
that meets an error, a background fetch that fails.

`Rival` is a second instance of `SyncCycle` with locals of its own, because
`ensure_worker` can start a second worker beside one that is ending (see
Realtime). Each of two cycles goes by what it read for itself, and the slower may
undo what the faster did; from the moment they overlap `leak` is every UID, and
only `MarkSound` and `Relabelled` still promise something.

`req` is a request (list, open, flag, move, delete, mark all read, single and in
bulk), which asks the server first and writes rows afterwards. One message's flags
are read and written in two statements (`FlagRead`, `FlagUpdate`), those of many in
one transaction (`FlagRows`). A first paint stores its page, and spawns the fetch
of the older headers (`bg`) only in the next step (`ListPaint`, `ListSpawn`); a
request dropped between the two never does. One background fetch at a time is a
bound of the model.

`leak` is history and the core of the properties: the UIDs whose difference
between server and cache no stored number covers, because a fault, or one of the
gaps listed in section 5, passed over them. `Accounted` says that there are no
others. A gap enters `leak` only in the action of the code that makes it.
`foreign` is history too: the rows that stood when the folder was rebuilt under a
new UIDVALIDITY. Somebody who began when the folder had no number at all cannot
notice the change, and gives those rows the new number; `Relabelled` says that
nobody else does.

### Realtime

The same user's tasks, with Mailbox's cycle reduced to its effect: the server is
a number of changes, the cache the number it covers. `call` is an
`ensure_worker` under way, which looks at and writes two maps one after the
other; `idle` and `idleMap` are the IDLE tasks and their map; `chan` and `rcv` the
broadcast channel with its capacity, lagging receivers and its removal by
`cleanup`. Push is a page of its own kind that never closes. A socket that
closes and opens again is the same element of `Conns`.

A view rings the worker only when it finds another number of messages or an
invalidated folder (`needs_sync`; `exists` is the number of messages after each
change, `stale` the NULL of `messages_updated_at`). A change of flags that IDLE
missed is not found by looking: it waits for a keepalive, and a socket that was
given the bell of a worker about to end rings in vain. `Served` promises no more
than that.

### Login

Every statement of `auth.rs` and `mfa.rs` is a step, on a connection of its own;
`seen` is history: what each gate was at some moment since the request began. A
code is the secret and the time step it was made from. Errors of the database
fail open or closed as each handler has it.

### NewMail

Cycles and the tasks they spawn to reply and filter: the mark before (`max_uid`),
the awaited `run_sync`, the mark after and the spawn are steps of their own, a
cycle may be cut and its row land later (`late`), and the process may end between
any two (`Restart`). Beside them the handlers that edit rules and responder; the
upload of the script and what the mail server runs of it. A message is its UID,
and `Hits` says which rule meets which message: what conditions compare is data. A
task takes its messages in the order of their UIDs, which is that of the query, so
that it needs to keep only the set of those that are left (`First`, `Rest`).
`Among` is the one operator on sequences the filters need, a recursive function so
that it can be proved about. `handed` and `lost` say which messages some task was
given and which none was told of: a read failed, the process ended, a cut cycle's
row landed late, a later cycle's mark passed over it, or the first page had stored
it already.

### Push

The rescan loop with its label `at`, the credential with its mark, the user's
IDLE task and its deliveries, over restarts. A password is the number of the
request that stored it, so that the model can tell a mark meant for one from a
mark that hits another. `pooled` is a session of the account in the pool, which is
keyed by email and host: while one stands, the probe is answered without asking
the server. The IDLE connection reconnects for ever, with whatever password it
was given (`IdleBreaks`). `NeverRetried` is what remains of `worker.rs:171`: a
password rejected *to the loop* is neither probed nor given to IDLE again.

### Folders, Search, AddressBook, Calendar, Labels

One table group each, one statement a step where a handler has several. `Folders`
keeps, for every request under way, the names that changed since it asked the
server (`since`): `FoldersAccounted` holds but for names whose last writer knew
something out of date. A LIST answer may be cut to any part of the server's names
that is not empty; the names it lacks are pruned for it. Names are flat: a RENAME
of a parent renames its children on the server, which this model shows as changes
made elsewhere. `MailKept` excepts, besides, the upsert of a second first page,
which replaces the row and with it the messages (`EnsureFolder`). `Search` has
rows, documents and the writer lock apart, and relates hits to the words a message
contains. `AddressBook` models the foreign keys with their cascades and the merge
of suggestions, whose two queries are two steps (`asked`), with contacts stored
and deleted in between; `Calendar` the selection of events by text comparison,
their expansion and the dates' four formats (an event that starts on a date and
ends at a time cannot be expanded: `CanExpand`); `Labels` tags, identities and
preferences.

### ImapClient

The pool (`slots`, `heard`: how long a connection has been silent), the permits to
connect, and the calls that are several commands: a move with its fallback of
copy, flag and expunge, deletions, sizes, quotas and lists. The network may cut
a connection between any two commands. `spoilt` records connections a call gave
back with an answer unread.

### UserData

`Login`, `NewMail`, `Push`, `AddressBook`, `Calendar`, `Labels`, `Folders`, `Search`
and `ImapClient` touch no state in common, so their product shows nothing their
sum does not. `UserData` is that sum: a behaviour is one of theirs (`part`), and
the variables of the others are 0. Its constants are those of the parts; as no two
parts ever run together, they share the sets that are only told apart from each
other. `UserDataAssumption` has what a proof needs of them, and `MCUserData` gives
them the values of the run.

## 4. Runs

| Run | Instance | What it shows |
|---|---|---|
| `outbox_safety` | 2 messages, 2 attempts, delays {0,1}, 1 fault, symmetric ids | the worker acts on current rows, attempts are bounded, no resend after an acknowledgement, an undo in time is final, the draft survives every failure, failures are announced |
| `outbox_liveness` | 1 message, 2 faults, fair | a queued message is sent, fails visibly or is left `sending` by a fault |
| `outbox_undo` | 1 message | **violated**: a DELETE answered "cancelled" for a message that is sent |
| `drafts` | 3 requests of 5 kinds, 2 mutexes, 1 fault, fair | the lock implements `Mutex`, no leak of entries, true answers without failures and at most one stray copy for each failure, attachments that keep their files, every request ends |
| `drafts_upload` | 2 requests, no fault | **violated**: an upload makes the staging row forget the copy |
| `session_store` | 2 accounts, 2 browsers, 2 handlers and the purge, symmetric | the maps agree at rest, an answered login keeps its entries, a revoked one leaves none |
| `session_expiry` | 2 accounts, 2 browsers, 1 handler and the purge, fair | an expired session leaves every map |
| `mailbox` | 2 UIDs, 1 flag, 3 kinds of server, 8 kinds of fault, 1 request, a second cycle, 4 budgets | differences are accounted for, the number never runs ahead and goes back only to undo a cycle beside it, a folder is skipped only when nothing is missed, no row of an old mailbox keeps its place under the new number, cache and folder agree in the end |
| `realtime` | 2 sockets, push, 3 workers, 2 IDLE tasks, channel of 1, 5 budgets | all listen to the published channel, the cache comes to the server's number of messages and, while a keepalive rings a running worker, to every change, an open page gets the last event |
| `realtime_push` | 1 socket and push | **violated**: closing a tab stops the IDLE push relies on |
| `login_mode` | 1 deletion, 1 change of mode | **violated**: passkey-only mode without a passkey |
| `userdata` | nine parts, each with budgets of its own, symmetric | see the properties of each part below |

*Properties of the parts in `userdata`.* `PasswordLoginAllowed`,
`DeletedKeyRefused` (Login), `FirstReplyKept`, `Noticed` (NewMail), `NeverRetried`
(Push), `SuggestedOnce` (AddressBook), `ListSound` (Calendar), `FoldersAccounted`,
`MailKept` (Folders), `SearchSound` (Search), `NothingLost`, `HandedOutAlive`
(ImapClient).

*Outbox and draft bounds.* Two messages are enough for a batch in which one is
sent while the other is cancelled or fails; more only repeat this, as rows are
independent except for the shared worker. Two attempts reach the retry and the
limit; the backoff's shape is data. One fault with two messages and two faults
with one cover a crash after a failed write. Three requests on a draft are a
holder, a waiter and a latecomer, which is what the removal of a lock entry
needs; a second mutex is the one a wrongly removed entry would create. The
proofs remove these bounds for the safety properties they cover.

*Session store bounds.* Every property concerns one account, what removes it and
what else changes its browser: a second account that empties or fills the list,
and a second browser for `retain` to visit in either order. Two handlers and the
purge overlap three removals of one account.

*Budgets.* `Mailbox`, `Realtime` and the parts of `UserData` bound how often each
thing happens in one behaviour by a record, and a run checks a set of records:
the combinations in which two or three causes meet, rather than their product:
in `mailbox` two changes and a fault; one, a fault and a request; one and a rebuild;
one, a fault and two cycles that overlap.
Two UIDs let one message be deleted while another is delivered, which leaves the
count as it was; a first paint of one header and a range limit of one make both
limits bite. A channel of one event makes a receiver lag on the second. Three
workers are the two that a race can start and one that ended. The constants of
Login let a lock set in, expire and count again; those of Calendar are a day of
two instants, values in all four formats, and windows that meet, miss and
cut an event. The search has three messages: of a folder, of the folder of deleted
mail, and of one nested in it. New mail has two cycles that overlap, with a
failure, a cut or a restart; notifications three requests with a revoked password
and a restart.

*Symmetry* is used where no formula names an element of the set, and never in a
run with a liveness property.

*Deadlock* is checked for the outbox and the session store, where somebody may
always come back; in the other runs budgets are spent or requests all ended.

*Fairness.* `BackendFairness` of `Outbox`: tokio polls a spawned task and a
handler whose client stays (weak fairness of each), and time passes (strong
fairness of `Tick`: a bell rung again and again disables it only for the moment
until the worker is polled). `UserReturns`: the user logs in again after a
restart and opens the mailbox, which calls `get_session`; nothing else restarts
a worker after a crash, so `EventuallyLeavesQueue` needs it. In `Drafts` every
handler is polled and every command ends. `FairSpec` of `SessionStore` says that
a function that started goes on, and that the interval of `main` ticks.
`WatchedSpec` of `Mailbox`: cycles go on while somebody has the folder open and
the user lists it again; budgets make faults finite, and `Converges` asks for
equality only where `leak` is empty. `FairSpec` of `Realtime`: spawned tasks are
polled, keepalives fire, IDLE connections that broke are opened again.

## 5. Findings

The violated runs are disagreements of the code with its own comments;
PROJECT.json quotes both sides of each.

* `delete_handler` and `process_entry` each check and write in two statements,
  so "cancelled" may be answered for a message being sent.
* `add_draft_attachment` sets the staging row's `imap_uid` to NULL.
* `stop_all`, called when any tab closes, stops the IDLE task that push relies
  on, and nothing starts it again.
* `passkey_delete` and `passkey_only_set` each read what the other writes.

Met while modelling and built into the models, where the properties leave room
for exactly them:

* *Outbox.* A crash or a failed write leaves a row `sending` for ever; an enqueue
  at the moment of the idle exit rings a bell nobody hears, until the next
  `get_session`.
* *Drafts.* A save whose APPEND failed answers "saved" after the old copy is gone.
* *Sessions.* `list_accounts` removes accounts that have no cookie in the request,
  a login answered meanwhile included; `passkey_login_complete` does not look for
  a duplicate account.
* *Mailbox.* The result of nearly every statement in a cycle's closures is ignored
  (`sync.rs:388`, `419`, `450`, `589`, `603`) and a FETCH that ends at EOF counts as
  whole (`client.rs:473`, `1255`, `1329`), and the new number is stored all the same;
  a first page that is dropped before it spawns the fetch of the older headers
  (`mod.rs:265`) loses them; two cycles at once may store an older number; a VANISHED range over the limit drops the whole list; opening a
  message deletes its row on any IMAP error (`mod.rs:716`); the header fetch of a
  first paint is never repeated (`mod.rs:462`); a message that failed to store is
  passed over; one deletion and one delivery look like no change to a server
  without CONDSTORE; a change of UIDVALIDITY keeps the old mod-sequence; flag
  changes found by mod-sequence leave the unread count as it was.
* *Realtime.* Two `ensure_worker` calls can start two workers (`worker.rs:28`:
  "exactly one"); a socket may be given the bell of a worker that is ending, which
  its keepalives then ring in vain (`ws.rs:130-150`); looking at a folder does not
  find a change of flags (`mod.rs:203-227`).
* *New mail.* The first cycle of an empty cache, or a failed read
  (`unwrap_or(0)`), takes the whole inbox for new; messages that the list request
  stored first are never filtered, nor those whose cycle was cut or whose process
  ended before the spawn; rules the script cannot express are skipped by
  both sides when the host is configured; two edits may upload in the wrong order.
* *Login.* The gates fail open on a database error (`auth.rs:285`); the second
  statement of the lockout may lock after a success; ceremonies are never purged.
* *Push.* "A password the server rejects is marked invalid and never retried"
  (`worker.rs:171`), but the probe is content with a pooled session that another
  password opened (`session_cache.rs:56-79`), and the IDLE task tries one that was
  revoked later again and again (`idle.rs:106-128`). A wake-up while the loop is busy is lost for 5 minutes; a task whose
  credential was deleted keeps its old password.
* *Folders.* A LIST cut after its first name counts as whole (`client.rs:403-415`)
  and real folders are pruned for it, with their messages (`folders.rs:109`); the
  upsert of a second first page replaces the row and deletes its messages
  (`mod.rs:148-153`); a stale LIST answer prunes a folder just created; a rename in the
  cache always fails for a folder with messages.
* *Search.* Filters on flags are not applied to index hits; a locked writer is
  ignored and the message not indexed; the SQL half excludes only top-level trash,
  where `db/messages.rs:779` says "same as tantivy".
* *Contacts and tags.* INSERT OR REPLACE cascades: editing a contact drops its group
  memberships, storing a cached message again drops its tags and body.
* *Calendar.* A recurring event is not listed in windows after its first occurrence,
  and its first may be missing from a window it began before, where `calendar.rs:239`
  says "replaced by their individual occurrences inside the window"; one that starts
  on a date and ends at a time stays unexpanded (`calendar.rs:283-286`);
  text and instants are compared as text.
* *IMAP client.* `get_quota` and `fetch_folder_size` give back a connection with an
  answer unread; the fallback's EXPUNGE takes what other clients flagged.

## 6. Proofs

`OutboxProofs` proves `Spec => []OutboxInv` for every set of ids, every limit,
every delay and any number of faults, from `OutboxAssumption` alone (naturals,
at least one attempt, `None` is no id). The properties are not inductive by
themselves. `AttemptsBounded` needs to know that what was spent is on record in
the row or in the worker's snapshot (`AttemptsOnRecord`), which needs snapshots
to be current (`SnapshotCurrent`), which needs at most one snapshot per entry
and none of the current one (`WorkerShape`) and that a posted id is fresh
(`NewIsUntouched`). `NoResendAfterAck` follows because an accepted entry is in
no batch and its row is never `scheduled` again (`AcceptedIsLeaving`);
`UndoIsFinal` because a cancelled row stays absent (`CancelledIsGone`);
`FailureAnnounced` because after the write of a failure the worker is at the
publication of it (`Settled`) until it publishes or is gone, and it writes nothing
else in between; only a crash there leaves a failure unannounced, and then there
is no session until the user logs in again and loads the list. One lemma per group of actions (handlers, session,
worker, time, faults), one step per action.

`DraftsProofs` has four inductive invariants, all for any number of requests,
mutexes and faults. `LockInv`: every live reference is to the mutex in the map,
since an entry is removed only when no request holds a reference
(`strong_count`), and a guard belongs to exactly the request inside; from it
mutual exclusion, and that `Drafts` implements `Mutex` (`ImplementsMutex`: initial
states map to initial states, every step to a step of the mutex or a stutter).
With `EntryUsed` (an entry has a request that is going to try to remove it) the
map is empty in the end. `Typed` gives the types and that no body runs past its
end; it also says that a waiting request is at its first step, which `CopyInv`
needs: while nothing failed and nobody bypassed the lock, `SoFar` relates copy,
row and the UID in hand at each of the four steps of a save and of a discard,
and `Answered` holds whenever nobody is inside, so `LastAnswerHolds`. `FileInv`: a
removal of the draft that has its files still to go has written down in `crossed`
every record and upload it leaves behind; an upload past its write has its file,
unless it is one of those; and a recorded attachment was uploaded by a request
that is over, so the removal of a single one never meets an upload in progress.
`AttachmentsReadable` follows, with every failure in the model.

`SessionStoreProofs` proves `Spec => []SessionInv` and from it `ConsistentAtRest`,
`LoginHolds` and `RevokedIsForgotten`, from `SessionAssumption` alone (the purge
task is no handler, `None` is no account and no browser). None of the three is
inductive: in the middle of an operation the maps disagree. `Responsible` says for
each way they can (a session without a token, a token without a session, a list
entry without a binding, ...) which process is about to remove the rest;
`StaysOut` that what it removed is not put back, because an account is added
once (`OpeningShape`); `WithReason` that it only removes what expired, was logged
out, removed or swept. With nobody at work, `Responsible` is consistency. Two
lemmas carry most of the 34 actions: `ShrinkKeeps` for a step that takes entries of
one account away, `OpenKeeps` for a step of a login nobody knows of yet;
`QuietKeeps` is the first for a step that changes no map.

`MailboxProofs` proves `TypeOK`, `Accounted`, `MarkSound` and `SkipSound`, from
`SyncAssumption` and `MailboxAssumption` alone. `Accounted` speaks of the rows and
says nothing of what the cycle, the requests and the background fetch carry with
them and will write; `Holds` adds it: what was reported to them is still so, or has
changed after the number they are going to store (`Reported`), a row that is wrong
lies above every number that is stored or about to be (`Covered`), pages are
painted below UIDNEXT with gaps only where an answer was cut (`Painting`), and what
is missing is above the cache or behind the background fetch or a request that is
about to spawn it (`Fetching`). A step of the server or of a request is a drift:
numbers grow, and what changes gets a new one, or leaks. The inductive invariant is
`MailboxInv`: as long as not every UID leaked, the UIDVALIDITY is the first, one
cycle runs and `Holds`; a rebuild and an overlap of cycles leak everything.
`MarkSound` has an invariant of its own, `Marks`, which does not look at `leak`: it
holds of the numbers in both cycles, whatever they do to each other's rows.
`SkipSound` needs besides `MailboxInv` that a cycle that has counted knows how many
messages there were (`Counted`).

`RealtimeProofs` proves `TypeOK` and `ChannelShared` through `RealtimeInv`: the type of
the receivers is part of it, because a queue that overflows is cut at its other
end, and so is that the channel goes when the last receiver has gone. `LastKept`
adds that a receiver loses its oldest events only: the last one sent waits in its
queue or was given to the page, which is the safety half of `LastEventArrives`.

`FoldersProofs` proves `FoldersAccounted` and `MailKept` through `Knows`: what a
request under way is about to write of a name (to insert it, to prune what is not
in its list, to rename or delete the rows) is what the server has, unless the
name is in `since`, the names changed after it asked. Whoever changes the server,
or writes a name otherwise than the server has it, adds the name to the `since` of
all others (`Told`), so `OthersKnow` keeps `Knows` for them; a request that ends has
written what it knew, so the names it takes out of `unsettled` are accounted for
(`SettlingKeeps`). Of a LIST answer that was cut it knows only the names that are
in it; those it prunes for being absent become `unsettled`. It needs `None` to be no task.

`LoginProofs` proves `PasswordLoginAllowed` and `DeletedKeyRefused` through `Gate` and
`Key`: at each statement of a login, what it has passed so far held at some time
since it began, which later changes by others cannot undo (`Remembered`). A login
of a user without a directory skips the gate; `HomeFirst` says that such a user has
no secret and no passkey-only mode, because only a request of somebody who has the
directory writes them. It needs `None` to be no passkey.

Both modules also prove their `TypeOK`. In `Login` it says that nothing is stored
for a user without a directory, which needs `Registering`: only somebody who has
one is given a key to register. In `Folders` it says that a cached message has its
folder cached and that INBOX stays, for which INBOX has to be one of the folders
that are neither renamed nor deleted.

`UserDataProofs` proves the other parts of `UserData`, each for its own instance, and
carries the results on all nine over to `UserData`, whose run checks them: a
behaviour that begins as one part's stays with it (`PartFixed`), and is a behaviour
of that part's specification (`LoginBehaviour`, ...); in all other behaviours the
property says nothing. `UserTypeCorrect` puts the nine `TypeOK` together.

- *Push*: `NeverRetried` through `PushMarked`: a rejected password that is stored
  carries the mark or the loop is about to write it, and the loop never holds a
  marked one; the IDLE task never holds a rejected one, whichever session of the
  pool answered the probe. A mark that could not be written is the exception
  (`unmarked`).
- *ImapClient*: `NothingLost` through `CallInv`: whatever carries the \Deleted flag
  was asked to be deleted or has its copy, and only such messages are about to be
  flagged, so an EXPUNGE at any moment, by anybody, loses nothing. `HandedOutAlive`
  through `PoolInv`: a connection is in one place (`OnePlace`), an idle one was last
  heard of when it was put back and stands until the server logs it out (`Rested`),
  and one in use was heard of too short a time ago for that (`Working`).
- *NewMail*: `Noticed` through `NoticeInv`: a row was given to a task, lies above the
  mark of a cycle or a task that will read it, or is in `lost`. The steps that
  break this chain (a mark or a read that fails, a restart, a cut whose row lands
  later, a mark taken above what an overlapping cycle has yet to store, a first
  page) are exactly those that write to `lost`. `FirstReplyKept` through `ReplyInv`: a record lies between the first
  answer and now, one that was purged was of an earlier hour, and a task about to
  overwrite a record read one that old. `MailTypes` adds the types.
- *Search*: `SearchSound` through `SearchInv`: what a search holds in each of its
  phases was true of a row that is still there, unless the row was touched since
  (`Looking`); the two halves of an answer stay apart and within the limit.
  `WorkInv` gives the types of what the tasks are about to write.
- *AddressBook*: `SuggestedOnce` through `BookInv`: the rows of an import under way
  are of their type, no address is two contacts', and what a request has from its
  first query covers every contact but those stored since (`AskedInv`).
- *Calendar*: `ListSound` likewise from `EventsInv`, with the lemmas about the
  comparison of text values and the arithmetic of occurrences.
- *Labels*: `LabelInv`: no link outlives its tag or its message.

`UserDataAssumption` is what these need of the constants: `None` is none of the
things it stands for the absence of; sets of tasks, sockets and ids are finite;
bounds are naturals, at least one for time and passwords; the texts, rules and
files of the calendar are of their types; INBOX is a system folder
(`routes/folder_mgmt.rs:44`). Of the pool it says that its limit of 25 minutes is not
longer than the 30 after which the server logs out (`imap/session_cache.rs:22`), and
that there is always another socket to open, as many as there are calls and idle
slots: a set of names that runs out would be a bound of the model, not of the code.

None of the proofs uses induction over data: where something is proved of a
recursive function (`Among`) or of the greatest of a set of numbers, it is by a
least counterexample (`LeastExists`), which the library's theorem on well-founded
sets gives without an operator parameter of ours to instantiate.

Only model-checked: `StraysCounted`, which counts; liveness (`EventuallyLeavesQueue`, `EveryRequestEnds`,
`ExpiredIsForgotten`, `Converges`, `Relabelled`, `Served`, `LastEventArrives`), which
TLAPS cannot prove under fairness; and the violations, which are counterexamples.

## 7. Not modelled

PROJECT.json names every component with its reason. The assistant is a loop
around an external model, and what it does to mail goes through the calls
modelled here. PGP keys, stickers' pictures, Mailcow, spam reports, rendering and
the link proxy, configuration and routing have no behaviour worth a model, or
none that changes state. Cryptography, MIME, MODSEQ parsing, tokenising and
ranking are data. Of the IMAP client, parsing and attachment downloads are left
out; of SMTP, everything but the outcome. The browser appears as the requests it
may send, in any order. Each user's database is accessed through a pool of four
connections; a single SQL statement is taken to be atomic, which SQLite
guarantees, and a handler's statements are steps of their own.
