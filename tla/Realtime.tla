------------------------------ MODULE Realtime ------------------------------
(***************************************************************************)
(* The tasks that keep one user's INBOX cache fresh and tell the pages.    *)
(*                                                                         *)
(*   backend/src/realtime/ws.rs      one socket per page (pc, bellOf)      *)
(*   backend/src/realtime/worker.rs  the sync worker (worker .. tasks)     *)
(*   backend/src/realtime/idle.rs    IDLE connections (idle, idleMap)      *)
(*   backend/src/realtime/events.rs  the event bus (chan, rcv)             *)
(*   backend/src/push/worker.rs      the push task, a page of its own kind *)
(*                                                                         *)
(* The server is a number of changes, the cache the number of those it     *)
(* covers; Mailbox says what a cycle does.  DashMap accesses and awaits    *)
(* are steps.  A socket that is closed and opened again is the same        *)
(* element of Conns; workers, IDLE tasks and channels are reused once      *)
(* nothing refers to them.                                                 *)
(***************************************************************************)
EXTENDS Naturals, Sequences, FiniteSets

CONSTANTS
    Conns,       \* web sockets
    Push,        \* the push task of the user
    View,        \* a page that lists the folder
    Workers,     \* sync worker tasks, each with its bell
    Idles,       \* IDLE tasks
    Channels,    \* broadcast channels
    None,
    Capacity,    \* events a broadcast channel holds: 64
    MaxChanges,  \* bound: changes on the server
    Budgets      \* bound: changes, sockets and push tasks started, faults (failed
                 \* cycles, broken IDLE connections, invalidations), and calls of
                 \* ensure_worker others see half done, in one behaviour

Pages == Conns \cup {Push}
Callers == Pages \cup {View} \cup Idles

ASSUME RealtimeAssumption ==
    /\ Capacity \in Nat \ {0}
    /\ MaxChanges \in Nat
    /\ Budgets \subseteq [change : 0..MaxChanges, open : Nat, push : Nat,
                             fault : Nat, split : Nat]
    /\ IsFiniteSet(Conns) /\ Channels # {}
    /\ None \notin Workers \cup Idles \cup Channels

VARIABLES
    ver,      \* server: changes so far
    exists,   \* server: EXISTS after each of them
    stale,    \* database: messages_updated_at is NULL
    cache,    \* database: changes the cache covers
    worker,   \* Workers -> what the task does
    base,     \* Workers -> the changes its cycle saw
    permit,   \* Workers -> its bell has been rung
    bells,    \* SyncWorkerManager.bells: the user's entry
    tasks,    \* SyncWorkerManager.tasks: the user's entry
    call,     \* Callers -> the ensure_worker under way
    idle,     \* Idles -> what the task does
    idleMap,  \* IdleManager.tasks: the entry of the user's INBOX
    pc,       \* Pages -> what the socket or the push task does
    bellOf,   \* Conns -> the bell its keepalive rings
    chan,     \* EventBus.channels: the user's entry
    rcv,      \* Pages -> its receiver
    got,      \* Pages -> the last event it was given
    left      \* history: what is left of the budget

work == <<worker, base, permit>>
maps == <<bells, tasks, call>>
idling == <<idle, idleMap>>
bus == <<chan, rcv, got>>
vars == <<ver, exists, stale, cache, work, maps, idling, pc, bellOf, bus, left>>

\* EXISTS of a folder that is not empty; the first paint of one is Mailbox's.
Counts == 1..2

NoCall == [at |-> "no", w |-> None]
NoReceiver == [ch |-> None, q |-> <<>>, lagged |-> FALSE, last |-> 0]

Init ==
    /\ ver = 0 /\ cache = 0 /\ exists = [v \in 0..MaxChanges |-> 1] /\ stale = FALSE
    /\ worker = [w \in Workers |-> "done"]
    /\ base = [w \in Workers |-> 0] /\ permit = [w \in Workers |-> FALSE]
    /\ bells = None /\ tasks = None /\ call = [k \in Callers |-> NoCall]
    /\ idle = [i \in Idles |-> "none"] /\ idleMap = None
    /\ pc = [p \in Pages |-> "closed"] /\ bellOf = [c \in Conns |-> None]
    /\ chan = None /\ rcv = [p \in Pages |-> NoReceiver]
    /\ got = [p \in Pages |-> 0]
    /\ left \in Budgets

Spend(k) == left[k] > 0 /\ left' = [left EXCEPT ![k] = @ - 1]

-----------------------------------------------------------------------------
(* The server, and what the IDLE connections hear of it.                   *)

\* A change of flags leaves EXISTS as it is.
Change ==
    /\ Spend("change")
    /\ ver' = ver + 1
    /\ \E n \in Counts : exists' = [v \in 0..MaxChanges |-> IF v > ver THEN n ELSE exists[v]]
    /\ idle' = [i \in Idles |-> IF idle[i] = "listen" THEN "told" ELSE idle[i]]
    /\ UNCHANGED <<stale, cache, work, maps, idleMap, pc, bellOf, bus>>

\* invalidate_folder_freshness: after a move into the folder, or by a cycle that
\* found it rebuilt.
Invalidate ==
    /\ Spend("fault")
    /\ stale' = TRUE
    /\ UNCHANGED <<ver, exists, cache, work, maps, idling, pc, bellOf, bus>>

-----------------------------------------------------------------------------
(* ensure_worker: look into both maps; otherwise a new bell goes into the  *)
(* one and the new task into the other.                                    *)

Return(k) == [call EXCEPT ![k] = NoCall]

Unused(w) ==
    /\ worker[w] = "done" /\ bells # w /\ tasks # w
    /\ \A c \in Conns : bellOf[c] # w
    /\ \A k \in Callers : call[k].w # w

\* Mutant: an entry in the map is taken for a running worker.
is_finished_never(w) == FALSE

is_finished(w) == worker[w] = "done"

Registered ==
    tasks # None /\ bells # None /\ ~is_finished(tasks)

Calling(k, at, w) == call' = [call EXCEPT ![k] = [at |-> at, w |-> w]]

EnsureCheck(k) ==
    /\ call[k].at = "no"
    /\ \/ /\ Registered
          /\ Calling(k, "got", bells)
          /\ UNCHANGED <<bells, tasks, worker, left>>
       \/ /\ ~Registered
          /\ \E w \in Workers : Unused(w)
          /\ LET w == CHOOSE w \in Workers : Unused(w)
             IN  /\ bells' = w
                 /\ \/ /\ tasks' = w /\ worker' = [worker EXCEPT ![w] = "wait"]
                       /\ Calling(k, "got", w) /\ left' = left
                    \/ /\ tasks' = tasks /\ worker' = [worker EXCEPT ![w] = "new"]
                       /\ Calling(k, "spawn", w) /\ Spend("split")

SpawnWorker(k) ==
    /\ call[k].at = "spawn"
    /\ tasks' = call[k].w
    /\ worker' = [worker EXCEPT ![call[k].w] = "wait"]
    /\ Calling(k, "got", call[k].w)
    /\ UNCHANGED <<ver, exists, stale, cache, base, permit, bells, idling, pc, bellOf, bus, left>>

\* Notify::notify_one: the permit stays until the worker takes it, and is of no
\* use once there is no worker.
Ring(w) == permit' = [permit EXCEPT ![w] = worker[w] # "done"]

-----------------------------------------------------------------------------
(* The worker.  "due" is a worker whose 600 s are almost over; a keepalive *)
(* rings every 30 s, so none becomes due while it has one, but a socket    *)
(* may be given the bell of one that is.                                   *)

SyncStart(w) ==
    /\ worker[w] \in {"wait", "due"} /\ permit[w]
    /\ worker' = [worker EXCEPT ![w] = "sync"]
    /\ permit' = [permit EXCEPT ![w] = FALSE]
    /\ base' = [base EXCEPT ![w] = ver]
    /\ UNCHANGED <<ver, exists, stale, cache, maps, idling, pc, bellOf, bus, left>>

\* broadcast::Sender::send: a full receiver loses its oldest event.
Latest == ver
\* Mutant: the channel grows.
Append1_growing(r) == [r EXCEPT !.q = Append(@, Latest), !.last = Latest]

Append1(r) ==
    IF Len(r.q) < Capacity THEN [r EXCEPT !.q = Append(@, Latest), !.last = Latest]
    ELSE [r EXCEPT !.q = Append(Tail(@), Latest), !.lagged = TRUE, !.last = Latest]

publish ==
    rcv' = [p \in Pages |->
              IF chan # None /\ rcv[p].ch = chan THEN Append1(rcv[p]) ELSE rcv[p]]

\* run_sync ends: with what it saw, or with an error or the 120 s limit.
SyncEnd(w) ==
    /\ worker[w] = "sync"
    /\ worker' = [worker EXCEPT ![w] = "wait"]
    /\ base' = [base EXCEPT ![w] = 0]
    /\ \/ /\ cache' = IF base[w] > cache THEN base[w] ELSE cache
          /\ IF base[w] > cache THEN publish ELSE rcv' = rcv
          /\ stale' = FALSE
          /\ left' = left
       \/ Spend("fault") /\ UNCHANGED <<cache, rcv, stale>>
    /\ UNCHANGED <<ver, exists, permit, maps, idling, pc, bellOf, chan, got>>

AlmostOver(w) ==
    /\ worker[w] = "wait" /\ ~permit[w]
    /\ \A c \in Conns : pc[c] = "open" => bellOf[c] # w
    /\ \A k \in Callers : call[k].w # w
    /\ worker' = [worker EXCEPT ![w] = "due"]
    /\ UNCHANGED <<ver, exists, stale, cache, base, permit, maps, idling, pc, bellOf, bus, left>>

\* The timer wins the select!, also against a ring of the same instant.  The
\* time between the end of the loop and is_finished() is part of "due".
IdleExit(w) ==
    /\ worker[w] = "due"
    /\ worker' = [worker EXCEPT ![w] = "done"]
    /\ permit' = [permit EXCEPT ![w] = FALSE]
    /\ UNCHANGED <<ver, exists, stale, cache, base, maps, idling, pc, bellOf, bus, left>>

Work(w) ==
    SyncStart(w) \/ SyncEnd(w) \/ AlmostOver(w) \/ IdleExit(w)

-----------------------------------------------------------------------------
(* The stale poke of list_messages: a view that finds another number of    *)
(* messages on the server, or the folder invalidated.  Flags that changed  *)
(* are not found out by looking.  update_folder_status ends the NULL.      *)

\* Mutant: only an invalidated folder is synced.
needs_sync_invalidated == stale

needs_sync == exists[cache] # exists[ver] \/ stale

Look ==
    /\ needs_sync
    /\ EnsureCheck(View)
    /\ stale' = FALSE
    /\ UNCHANGED <<ver, exists, cache, base, permit, idling, pc, bellOf, bus>>

Poke ==
    /\ call[View].at = "got"
    /\ Ring(call[View].w)
    /\ call' = Return(View)
    /\ UNCHANGED <<ver, exists, stale, cache, worker, base, bells, tasks, idling, pc, bellOf, bus,
                   left>>

-----------------------------------------------------------------------------
(* An IDLE task.  "away": connecting, backing off, or between DONE and the *)
(* next IDLE, when a change goes unheard; "last": aborted inside a call.   *)

Listen(i) ==
    /\ idle[i] = "away"
    /\ idle' = [idle EXCEPT ![i] = "listen"]
    /\ UNCHANGED <<ver, exists, stale, cache, work, maps, idleMap, pc, bellOf, bus, left>>

IdleBreaks(i) ==
    /\ idle[i] \in {"listen", "told"} /\ Spend("fault")
    /\ idle' = [idle EXCEPT ![i] = "away"]
    /\ UNCHANGED <<ver, exists, stale, cache, work, maps, idleMap, pc, bellOf, bus>>

NewData(i) ==
    /\ idle[i] = "told"
    /\ idle' = [idle EXCEPT ![i] = "data"]
    /\ EnsureCheck(i)
    /\ UNCHANGED <<ver, exists, stale, cache, base, permit, idleMap, pc, bellOf, bus>>

IdleRing(i) ==
    /\ call[i].at = "got"
    /\ Ring(call[i].w)
    /\ call' = Return(i)
    /\ idle' = [idle EXCEPT ![i] = IF @ = "last" THEN "none" ELSE "away"]
    /\ UNCHANGED <<ver, exists, stale, cache, worker, base, bells, tasks, idleMap, pc, bellOf, bus,
                   left>>

IdleTask(i) == Listen(i) \/ NewData(i) \/ IdleRing(i)

-----------------------------------------------------------------------------
(* Pages.  A socket subscribes, starts IDLE and ensures a worker; the push *)
(* task ensures a worker, starts IDLE and subscribes.                      *)

After(p, step) ==
    CASE step = "subscribe" -> IF p = Push THEN "open" ELSE "idlecheck"
      [] step = "idle" -> IF p = Push THEN "subscribe" ELSE "ensure"
      [] step = "ensure" -> IF p = Push THEN "idlecheck" ELSE "open"

To(p, l) == pc' = [pc EXCEPT ![p] = l]
PageFrame == UNCHANGED <<ver, exists, stale, cache, worker, base>>

Open(p) ==
    /\ pc[p] = "closed" /\ rcv[p].ch = None
    /\ Spend(IF p = Push THEN "push" ELSE "open")
    /\ To(p, IF p = Push THEN "ensure" ELSE "subscribe")
    /\ PageFrame /\ UNCHANGED <<permit, maps, idling, bellOf, bus>>

\* EventBus::subscribe: the receiver is made under the lock that found or
\* inserted the sender.
Idle(ch) == chan # ch /\ \A q \in Pages : rcv[q].ch # ch

Subscribe(p) ==
    /\ pc[p] = "subscribe"
    /\ chan' = IF chan # None THEN chan ELSE CHOOSE ch \in Channels : Idle(ch)
    /\ rcv' = [rcv EXCEPT ![p] = [NoReceiver EXCEPT !.ch = chan']]
    /\ got' = [got EXCEPT ![p] = 0]
    /\ To(p, After(p, "subscribe"))
    /\ PageFrame /\ UNCHANGED <<permit, maps, idling, bellOf, left>>

\* start_idle: contains_key, then spawn and insert; a replaced handle is
\* dropped and its task runs on.
IdleCheck(p) ==
    /\ pc[p] = "idlecheck"
    /\ To(p, IF idleMap # None THEN After(p, "idle") ELSE "idleinsert")
    /\ PageFrame /\ UNCHANGED <<permit, maps, idling, bellOf, bus, left>>

IdleInsert(p) ==
    /\ pc[p] = "idleinsert"
    /\ \E i \in Idles : idle[i] = "none"
    /\ LET i == CHOOSE i \in Idles : idle[i] = "none"
       IN  idleMap' = i /\ idle' = [idle EXCEPT ![i] = "away"]
    /\ To(p, After(p, "idle"))
    /\ PageFrame /\ UNCHANGED <<permit, maps, bellOf, bus, left>>

Ensure(p) ==
    /\ pc[p] = "ensure"
    /\ EnsureCheck(p)
    /\ UNCHANGED <<ver, exists, stale, cache, base, permit, idling, pc, bellOf, bus>>

Ensured(p) ==
    /\ pc[p] = "ensure" /\ call[p].at = "got"
    /\ call' = Return(p)
    /\ bellOf' = IF p = Push THEN bellOf ELSE [bellOf EXCEPT ![p] = call[p].w]
    /\ To(p, After(p, "ensure"))
    /\ PageFrame /\ UNCHANGED <<permit, bells, tasks, idling, bus, left>>

\* The keepalive rings the bell it was started with.
Tick(c) ==
    /\ pc[c] = "open"
    /\ Ring(bellOf[c])
    /\ PageFrame /\ UNCHANGED <<maps, idling, pc, bellOf, bus, left>>

\* Mutant: the loop ends at the first error, lagged or closed.
Forward_until_lagged(p) ==
    /\ pc[p] = "open" /\ rcv[p].q # <<>>
    /\ IF rcv[p].lagged
       THEN rcv' = [rcv EXCEPT ![p].ch = None] /\ got' = got
       ELSE /\ rcv' = [rcv EXCEPT ![p].q = Tail(@)]
            /\ got' = [got EXCEPT ![p] = Head(rcv[p].q)]
    /\ PageFrame /\ UNCHANGED <<permit, maps, idling, pc, bellOf, chan, left>>

\* The forwarder, or the push task's own loop: after Lagged it goes on.
Forward(p) ==
    /\ pc[p] = "open" /\ rcv[p].q # <<>>
    /\ IF rcv[p].lagged
       THEN rcv' = [rcv EXCEPT ![p].lagged = FALSE] /\ got' = got
       ELSE /\ rcv' = [rcv EXCEPT ![p].q = Tail(@)]
            /\ got' = [got EXCEPT ![p] = Head(rcv[p].q)]
    /\ PageFrame /\ UNCHANGED <<permit, maps, idling, pc, bellOf, chan, left>>

\* The socket closes: keepalive and forwarder are aborted, the IDLE tasks of
\* the user stopped, the channel removed if nobody listens.  The aborted
\* forwarder drops its receiver at some later moment.
Disconnect(c) ==
    /\ pc[c] = "open"
    /\ To(c, "stop")
    /\ bellOf' = [bellOf EXCEPT ![c] = None]
    /\ PageFrame /\ UNCHANGED <<permit, maps, idling, bus, left>>

StopAll(c) ==
    /\ pc[c] = "stop"
    /\ idleMap' = None
    /\ idle' = [i \in Idles |-> IF i # idleMap THEN idle[i]
                                ELSE IF idle[i] = "data" THEN "last" ELSE "none"]
    /\ To(c, "cleanup")
    /\ PageFrame /\ UNCHANGED <<permit, maps, bellOf, bus, left>>

\* Mutant: the socket that closes counts as the last one.
receiver_count_zero == 0

receiver_count == Cardinality({p \in Pages : rcv[p].ch = chan})

Cleanup(c) ==
    /\ pc[c] = "cleanup"
    /\ chan' = IF receiver_count = 0 THEN None ELSE chan
    /\ To(c, "closed")
    /\ PageFrame /\ UNCHANGED <<permit, maps, idling, bellOf, rcv, got, left>>

ForwarderGone(c) ==
    /\ pc[c] \in {"stop", "cleanup", "closed"} /\ rcv[c].ch # None
    /\ rcv' = [rcv EXCEPT ![c] = NoReceiver]
    /\ PageFrame /\ UNCHANGED <<permit, maps, idling, pc, bellOf, chan, got, left>>

Start(p) ==
    Subscribe(p) \/ IdleCheck(p) \/ IdleInsert(p) \/ Ensure(p) \/ Ensured(p)

Close(c) == StopAll(c) \/ Cleanup(c)

Next ==
    \/ Change \/ Invalidate
    \/ \E k \in Callers : SpawnWorker(k)
    \/ \E w \in Workers : Work(w)
    \/ Look \/ Poke
    \/ \E i \in Idles : IdleTask(i) \/ IdleBreaks(i)
    \/ \E p \in Pages : Open(p) \/ Start(p) \/ Forward(p)
    \/ \E c \in Conns : Tick(c) \/ Disconnect(c) \/ Close(c) \/ ForwarderGone(c)

Spec == Init /\ [][Next]_vars

(***************************************************************************)
(* Fairness.  Tasks run, timers fire, and a page that is looked at asks    *)
(* again when the 30 s are over; sockets, mail and faults owe nothing.     *)
(***************************************************************************)
Fairness ==
    /\ \A k \in Callers : WF_vars(SpawnWorker(k))
    /\ \A w \in Workers : WF_vars(Work(w))
    /\ WF_vars(Look) /\ WF_vars(Poke)
    /\ \A i \in Idles : WF_vars(IdleTask(i))
    /\ \A p \in Pages : WF_vars(Start(p)) /\ WF_vars(Forward(p))
    /\ \A c \in Conns : WF_vars(Tick(c)) /\ WF_vars(Close(c)) /\ WF_vars(ForwarderGone(c))

FairSpec == Spec /\ Fairness

-----------------------------------------------------------------------------
(* Properties.                                                             *)

TypeOK ==
    /\ ver \in 0..MaxChanges /\ cache \in 0..ver
    /\ exists \in [0..MaxChanges -> Counts] /\ stale \in BOOLEAN
    /\ worker \in [Workers -> {"wait", "due", "sync", "new", "done"}]
    /\ base \in [Workers -> 0..MaxChanges] /\ permit \in [Workers -> BOOLEAN]
    /\ bells \in Workers \cup {None} /\ tasks \in Workers \cup {None}
    /\ call \in [Callers -> [at : {"no", "spawn", "got"},
                             w : Workers \cup {None}]]
    /\ idle \in [Idles -> {"none", "away", "listen", "told", "data", "last"}]
    /\ idleMap \in Idles \cup {None}
    /\ pc \in [Pages -> {"closed", "subscribe", "idlecheck", "idleinsert", "ensure",
                         "open", "stop", "cleanup"}]
    /\ bellOf \in [Conns -> Workers \cup {None}]
    /\ chan \in Channels \cup {None}
    /\ \A p \in Pages : /\ rcv[p].ch \in Channels \cup {None}
                        /\ Len(rcv[p].q) <= Capacity
                        /\ got[p] \in 0..MaxChanges
    /\ left \in [change : 0..MaxChanges, open : Nat, push : Nat,
                             fault : Nat, split : Nat]

(***************************************************************************)
(* Everybody who listens listens to the channel that is published to.  A   *)
(* cleanup that ran between somebody's lookup and his subscription, or     *)
(* counted wrong, would leave a page that never hears anything again.      *)
(***************************************************************************)
ChannelShared == \A p \in Pages : rcv[p].ch \in {None, chan}

(***************************************************************************)
(* Whatever is lost on the way - a ring on the bell of a worker that is    *)
(* ending, a change between DONE and IDLE, a failed cycle, an entry that   *)
(* names the wrong task - the cache comes to the number of messages of the *)
(* server, and while the keepalive of an open socket rings a worker that   *)
(* runs, to every change.  A change of flags that IDLE missed waits for    *)
(* one: looking does not find it, and a socket that was given the bell of  *)
(* a worker about to end rings in vain (ws.rs:130-150).                    *)
(***************************************************************************)
KeptAlive == \E c \in Conns : pc[c] = "open" /\ worker[bellOf[c]] # "done"

Served == <>[](exists[cache] = exists[ver] /\ (KeptAlive => cache = ver))

(***************************************************************************)
(* An open page that falls behind loses events, never the last one.        *)
(***************************************************************************)
LastEventArrives ==
    <>[](\A c \in Conns : pc[c] = "open" => got[c] = rcv[c].last)

(***************************************************************************)
(* routes/push.rs:22: "it is stored (sealed) so IDLE can outlive the tab". *)
(***************************************************************************)
PushKeepsIdle == pc[Push] = "open" => idleMap # None
=============================================================================
