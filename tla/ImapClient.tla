----------------------------- MODULE ImapClient -----------------------------
(***************************************************************************)
(* The connections of one account to its mail server, and the calls that   *)
(* take more than one command: each takes an idle connection or opens one, *)
(* talks, and puts it back; whoever fails drops it, which closes it.       *)
(*                                                                         *)
(*   backend/src/imap/pool.rs           idle connections, the last in first *)
(*   backend/src/imap/session_cache.rs  acquire and release                *)
(*   backend/src/imap/connection.rs     a new connection                   *)
(*   backend/src/imap/client.rs         the calls                          *)
(*                                                                         *)
(* The folder that is selected has messages, some of them flagged          *)
(* \Deleted; the server may lack MOVE and UIDPLUS.  A command takes less   *)
(* than a tick of the clock.                                               *)
(***************************************************************************)
EXTENDS Naturals, Sequences, FiniteSets, FiniteSetsExt

CONSTANTS
    Conns, Tasks, None,
    Uids,           \* of the messages of the folder
    max_idle,       \* imap_pool_size
    max_age,        \* SESSION_MAX_IDLE, 25 minutes
    Logout,         \* the server closes a connection that is silent so long
    MAX_CONCURRENT_CONNECTS_PER_ACCOUNT,
    MaxTime,
    Budgets         \* bound: how often each thing happens in one behaviour

VARIABLES
    now,
    slots,      \* the idle connections, with the time since when they are
    sock,       \* Conns -> "open", "behind" (an answer is unread) or "closed"
    heard,      \* Conns -> the time of its last command
    task,       \* what each call is about to do, on which connection
    caps,       \* what the server can do: "MOVE", "UIDPLUS"
    folder,     \* messages of the folder
    marked,     \* those flagged \Deleted
    target,     \* messages that are in the folder calls move to
    wanted,     \* history: messages somebody asked to delete
    spoilt,     \* history: connections the network cut, or put back unread
    left        \* history: what is left of the bound

mail == <<folder, marked, target>>
vars == <<now, slots, sock, heard, task, caps, mail, wanted, spoilt, left>>

Calls == {"move", "expunge", "size", "quota", "list"}

Init ==
    /\ now = 0 /\ slots = <<>> /\ sock = [c \in Conns |-> "closed"]
    /\ heard = [c \in Conns |-> 0] /\ task = [t \in Tasks |-> None]
    /\ caps \in SUBSET {"MOVE", "UIDPLUS"}
    /\ folder = Uids /\ marked = {} /\ target = {} /\ wanted = {} /\ spoilt = {}
    /\ left \in Budgets

Spend(what) == left[what] > 0 /\ left' = [left EXCEPT ![what] = @ - 1]
At(t, step) == task[t] # None /\ task[t].at = step
Goto(t, step) == task' = [task EXCEPT ![t].at = step]
Ended(t) == task' = [task EXCEPT ![t] = None]
Conn(t) == task[t].conn
Chosen(t) == task[t].uids \cap folder

Held == {task[t].conn : t \in {u \in Tasks : task[u] # None}} \ {None}
Kept == {slots[i].conn : i \in DOMAIN slots}

-----------------------------------------------------------------------------
(* Pool and SessionCache                                                   *)

take_any ==
    IF slots = <<>> THEN [conn |-> None, rest |-> <<>>]
    ELSE [conn |-> slots[Len(slots)].conn, rest |-> SubSeq(slots, 1, Len(slots) - 1)]

\* The last one that is not too old; what lies above it is dropped.
take ==
    LET young == {i \in DOMAIN slots : now - slots[i].since < max_age} IN
    IF young = {} THEN [conn |-> None, rest |-> <<>>]
    ELSE [conn |-> slots[Max(young)].conn, rest |-> SubSeq(slots, 1, Max(young) - 1)]

Close(S) == sock' = [c \in Conns |-> IF c \in S THEN "closed" ELSE sock[c]]

\* A connection the pool has no room for is dropped.
put(c) ==
    IF Len(slots) < max_idle
    THEN slots' = Append(slots, [conn |-> c, since |-> now]) /\ UNCHANGED sock
    ELSE Close({c}) /\ UNCHANGED slots

First(call) == IF call \in {"quota", "list"} THEN call ELSE "select"

acquire(t, call, S) ==
    /\ task[t] = None /\ Spend(call)
    /\ slots' = take.rest
    /\ Close(Kept \ ({slots'[i].conn : i \in DOMAIN slots'} \cup {take.conn}))
    /\ task' = [task EXCEPT ![t] =
          [call |-> call, uids |-> S, conn |-> take.conn,
           at |-> IF take.conn = None THEN "permit" ELSE First(call)]]
    /\ wanted' = IF call = "expunge" THEN wanted \cup S ELSE wanted
    /\ UNCHANGED <<now, heard, caps, mail, spoilt>>

\* The permit is held while a connection is opened, and by no one else.
connect_limit(t) ==
    /\ At(t, "permit")
    /\ Cardinality({u \in Tasks : At(u, "connect")}) < MAX_CONCURRENT_CONNECTS_PER_ACCOUNT
    /\ Goto(t, "connect")
    /\ UNCHANGED <<now, slots, sock, heard, caps, mail, wanted, spoilt, left>>

connect(t) ==
    /\ At(t, "connect")
    /\ LET c == CHOOSE x \in Conns : x \notin Held \cup Kept IN
          /\ sock' = [sock EXCEPT ![c] = "open"] /\ heard' = [heard EXCEPT ![c] = now]
          /\ task' = [task EXCEPT ![t].conn = c, ![t].at = First(task[t].call)]
          /\ spoilt' = spoilt \ {c}
    /\ UNCHANGED <<now, slots, caps, mail, wanted, left>>

classify_login_error(t) ==
    /\ At(t, "connect") /\ Ended(t)
    /\ UNCHANGED <<now, slots, sock, heard, caps, mail, wanted, spoilt, left>>

release(t) ==
    /\ At(t, "release") /\ put(Conn(t)) /\ Ended(t)
    /\ UNCHANGED <<now, heard, caps, mail, wanted, spoilt, left>>

-----------------------------------------------------------------------------
(* Commands                                                                *)

\* The server answers, and with it whatever was unread is read.
Talk(t, step) ==
    /\ sock[Conn(t)] # "closed"
    /\ sock' = [sock EXCEPT ![Conn(t)] = "open"] /\ heard' = [heard EXCEPT ![Conn(t)] = now]
    /\ spoilt' = spoilt \ {Conn(t)}
    /\ Goto(t, step) /\ UNCHANGED <<now, slots, caps, wanted, left>>

\* A refusal, a broken connection, a request that ends while it waits.
Steps == {"select", "mv", "copy", "store", "uid_expunge", "expunge", "size", "list"}
Dropped(t) ==
    /\ \E s \in Steps : At(t, s)
    /\ Close({Conn(t)}) /\ Ended(t)
    /\ UNCHANGED <<now, slots, heard, caps, mail, wanted, spoilt, left>>

select(t) ==
    /\ At(t, "select")
    /\ Talk(t, CASE task[t].call = "move" -> "mv"
                 [] task[t].call = "expunge" -> "store"
                 [] OTHER -> IF folder = {} THEN "release" ELSE "size")
    /\ UNCHANGED mail

move_message_bulk(t) ==
    /\ At(t, "mv")
    /\ IF "MOVE" \in caps
       THEN /\ folder' = folder \ task[t].uids /\ marked' = marked \ task[t].uids
            /\ target' = target \cup Chosen(t) /\ Talk(t, "release")
       ELSE Talk(t, "copy") /\ UNCHANGED mail

\* Mutant: goes on when the server refuses.
uid_copy_unchecked(t) ==
    /\ At(t, "copy") /\ Talk(t, "store")
    /\ target' \in {target, target \cup Chosen(t)} /\ UNCHANGED <<folder, marked>>

uid_copy(t) ==
    /\ At(t, "copy") /\ Talk(t, "store")
    /\ target' = target \cup Chosen(t) /\ UNCHANGED <<folder, marked>>

uid_store(t) ==
    /\ At(t, "store")
    /\ Talk(t, IF task[t].call = "move" THEN "expunge" ELSE "uid_expunge")
    /\ marked' = marked \cup Chosen(t) /\ UNCHANGED <<folder, target>>

Erase(S) == folder' = folder \ S /\ marked' = marked \ S /\ UNCHANGED target

\* A server without UIDPLUS refuses, and everything marked goes.
expunge_message_bulk(t) ==
    /\ At(t, "uid_expunge")
    /\ IF "UIDPLUS" \in caps
       THEN Erase(task[t].uids \cap marked) /\ Talk(t, "release")
       ELSE Talk(t, "expunge") /\ UNCHANGED mail

Expunge(t) == At(t, "expunge") /\ Erase(marked) /\ Talk(t, "release")

list_folders(t) == At(t, "list") /\ Talk(t, "release") /\ UNCHANGED mail

\* The answer of a streamed command ends when the connection does: the call
\* goes on as if it had been given all of it.
StreamEnds(t) ==
    /\ task[t] # None /\ Conn(t) # None /\ sock[Conn(t)] = "closed"
    /\ \/ At(t, "store") /\ Goto(t, IF task[t].call = "move" THEN "expunge" ELSE "uid_expunge")
       \/ \E s \in {"uid_expunge", "expunge", "size"} : At(t, s) /\ Goto(t, "release")
    /\ UNCHANGED <<now, slots, sock, heard, caps, mail, wanted, spoilt, left>>

\* After a timeout the rest of the answer stays unread.
Unread(t) ==
    /\ Goto(t, "release") /\ spoilt' = spoilt \cup {Conn(t)}
    /\ sock' = [sock EXCEPT ![Conn(t)] = IF @ = "closed" THEN @ ELSE "behind"]
    /\ UNCHANGED <<now, slots, heard, caps, mail, wanted, left>>

fetch_folder_size(t) ==
    /\ At(t, "size")
    /\ (Talk(t, "release") /\ UNCHANGED mail) \/ (sock[Conn(t)] # "closed" /\ Unread(t))

\* Its connection goes back whatever happened to it.
get_quota(t) ==
    /\ At(t, "quota")
    /\ (Talk(t, "release") /\ UNCHANGED mail) \/ Unread(t)

-----------------------------------------------------------------------------
(* The network, the server, other clients                                  *)

Cut(c) ==
    /\ Spend("cut") /\ sock[c] # "closed"
    /\ Close({c}) /\ spoilt' = spoilt \cup {c}
    /\ UNCHANGED <<now, slots, heard, task, caps, mail, wanted>>

LogOut(c) ==
    /\ sock[c] # "closed" /\ now - heard[c] >= Logout /\ Close({c})
    /\ UNCHANGED <<now, slots, heard, task, caps, mail, wanted, spoilt, left>>

Mark(u) ==
    /\ Spend("mark") /\ u \in folder
    /\ marked' = marked \cup {u} /\ wanted' = wanted \cup {u}
    /\ UNCHANGED <<now, slots, sock, heard, task, caps, folder, target, spoilt>>

Tick ==
    /\ now < MaxTime /\ Held = {} /\ now' = now + 1
    /\ UNCHANGED <<slots, sock, heard, task, caps, mail, wanted, spoilt, left>>

Step(t) ==
    \/ \E call \in {"size", "quota", "list"} : acquire(t, call, {})
    \/ \E call \in {"move", "expunge"}, S \in SUBSET Uids \ {{}} : acquire(t, call, S)
    \/ connect_limit(t) \/ connect(t) \/ classify_login_error(t) \/ release(t)
    \/ Dropped(t) \/ select(t) \/ move_message_bulk(t) \/ uid_copy(t) \/ uid_store(t)
    \/ expunge_message_bulk(t) \/ Expunge(t) \/ list_folders(t)
    \/ StreamEnds(t) \/ fetch_folder_size(t) \/ get_quota(t)

Next ==
    \/ \E t \in Tasks : Step(t)
    \/ \E c \in Conns : Cut(c) \/ LogOut(c)
    \/ \E u \in Uids : Mark(u)
    \/ Tick

Spec == Init /\ [][Next]_vars

-----------------------------------------------------------------------------

\* A connection is in one place, and no more of them are idle or being opened
\* than configured.
TypeOK ==
    /\ Len(slots) <= max_idle /\ Cardinality(Kept) = Len(slots) /\ Kept \cap Held = {}
    /\ \A t, u \in Tasks : task[t] # None /\ task[u] # None /\ Conn(t) # None =>
          (Conn(t) = Conn(u) => t = u)
    /\ Cardinality({t \in Tasks : At(t, "connect")}) <= MAX_CONCURRENT_CONNECTS_PER_ACCOUNT
    /\ sock \in [Conns -> {"open", "behind", "closed"}]
    /\ folder \cup target \cup wanted \subseteq Uids /\ marked \subseteq folder

\* A message that nobody asked to delete is in the folder it was in or in the
\* one it is moved to, however a move is cut short and whatever else is
\* expunged meanwhile (imap/client.rs:1040).
NothingLost == Uids \ wanted \subseteq folder \cup target

\* "... hands a closed socket to the next command": a connection that comes out
\* of the pool still stands, unless the network cut it or a call put it back
\* with an answer unread (imap/session_cache.rs:22).
HandedOutAlive ==
    [][\A t \in Tasks : task[t] = None /\ task'[t] # None /\ task'[t].conn # None =>
          sock[task'[t].conn] = "open" \/ task'[t].conn \in spoilt]_vars

=============================================================================
