------------------------------ MODULE NewMail ------------------------------
(***************************************************************************)
(* What happens to new messages: the out-of-office reply and the filters.  *)
(*                                                                         *)
(*   backend/src/realtime/worker.rs  worker_loop: a cycle and the mark it  *)
(*                                   takes before and after (Tasks)        *)
(*   backend/src/realtime/idle.rs    process_new_messages (Tasks)          *)
(*   backend/src/db/vacation.rs      the responder (vac, replied)          *)
(*   backend/src/db/filters.rs       the rules (rules)                     *)
(*   backend/src/routes/filters.rs, vacation.rs   their handlers, and the  *)
(*                                   filters applied on request            *)
(*   backend/src/sieve/              the script on the server (script)     *)
(*                                                                         *)
(* A message is its UID; which rule it meets is given by Hits.  What a     *)
(* rule tests and does is fixed by its name (Body, Acts, Stops): a change  *)
(* of those is a rule deleted and another created.  A cycle and the task   *)
(* it spawns are one of Tasks: cycles of two workers overlap, and those of *)
(* one worker with earlier tasks.  A statement, an IMAP command or a mail  *)
(* sent is one step.                                                       *)
(***************************************************************************)
EXTENDS Naturals, Sequences, FiniteSets, SequencesExt

CONSTANTS
    Tasks,      \* cycles with their tasks, and requests: a first page, or the
                \* filters applied
    Senders,
    From,       \* From[u]: the sender of message u; the messages arrive in order
    Mine,       \* senders that are not answered: oneself, and automated ones
    RuleIds,    \* filter rules
    InApp,      \* the rules that test the body, or tag: only the app runs them
    NoTest,     \* rules without a test that Sieve has: no condition, or a regex
    Acts,       \* Acts[r]: the actions of a rule: "flag", "tag", "move", "forward"
    Stops,      \* the rules that stop processing
    Hits,       \* <<r, u>>: rule r matches message u
    SieveHost,  \* a ManageSieve server is configured
    Never,      \* no reply recorded
    Budgets     \* bounds: hours, filter and responder edits, failures, cycles and
                \* first pages, restarts, and runs of the filters on request, in one
                \* behaviour

Uids == DOMAIN From

VARIABLES
    hour,     \* time
    inbox,    \* server: the UIDs in INBOX
    arrived,  \* messages delivered so far
    cached,   \* database: the rows of INBOX
    late,     \* messages a statement of a cycle that was cut will still store
    vac,      \* vacation_responder: enabled, reply_interval_hours
    replied,  \* vacation_replies: Senders -> replied_at
    rules,    \* filter_rules, in the order of creation: id, enabled, priority
    script,   \* the active Sieve script: its rules, in order, and its reply
    pushes,   \* uploads under way
    task,     \* Tasks -> what it is doing
    budget,   \* what is left of the budget
    answers,  \* history: Senders -> when the app recorded that it answers
    handed,   \* history: messages some task has read
    lost      \* history: messages no task was told of, see Noticed

mail == <<inbox, arrived, cached, late>>
settings == <<vac, rules>>
sieve == <<script, pushes>>
history == <<budget, answers, handed, lost>>
vars == <<hour, mail, settings, replied, sieve, task, history>>

Intervals == 1..2
Idle == [at |-> "idle", before |-> 0, msgs |-> {}, left |-> {}, todo |-> <<>>,
         vac |-> [on |-> FALSE, every |-> 1], filter |-> FALSE, app |-> FALSE]

Init ==
    /\ hour = 0 /\ inbox = {} /\ arrived = 0 /\ cached = {} /\ late = {}
    /\ vac = [on |-> TRUE, every |-> 1] /\ replied = [s \in Senders |-> Never]
    /\ rules \in {<<>>} \cup {<<[id |-> r, on |-> TRUE, prio |-> 0]>> : r \in RuleIds}
    /\ script = [rules |-> <<>>, reply |-> "off"] /\ pushes = {}
    /\ task = [t \in Tasks |-> Idle]
    /\ answers = [s \in Senders |-> <<>>] /\ handed = {} /\ lost = {}
    /\ budget \in Budgets

Spend(what) == budget[what] > 0 /\ budget' = [budget EXCEPT ![what] = @ - 1]
Fail == Spend("fail")
At(t, l) == task[t].at = l
Go(t, r) == task' = [task EXCEPT ![t] = r]

-----------------------------------------------------------------------------
(* db/filters.rs                                                           *)

Ids(list) == [i \in DOMAIN list |-> list[i].id]

\* Those of the list that are in R, in its order
Among(list, R) ==
    LET upto[n \in 0..Len(list)] == IF n = 0 THEN <<>>
                                   ELSE IF list[n] \in R THEN Append(upto[n - 1], list[n])
                                   ELSE upto[n - 1]
    IN  upto[Len(list)]

\* By priority, then in the order of creation
OfPriority(table, p) == Among(table, {r \in ToSet(table) : r.prio = p})
list_filters(table) == OfPriority(table, 0) \o OfPriority(table, 1)
eval_condition(r, u) == <<r, u>> \in Hits
matching_rules(u) ==
    Ids(Among(list_filters(rules), {r \in ToSet(rules) : r.on /\ eval_condition(r.id, u)}))
create_filter ==
    \E r \in RuleIds \ ToSet(Ids(rules)) :
        rules' = Append(rules, [id |-> r, on |-> TRUE, prio |-> 0])
update_filter(i) == rules' = [rules EXCEPT ![i].on = ~@]
delete_filter(i) == rules' = RemoveAt(rules, i)
\* One statement for each rule: what one of them leaves is what others may see.
reorder_filters(i) == \E prio \in 0..1 : rules' = [rules EXCEPT ![i].prio = prio]

-----------------------------------------------------------------------------
(* sieve/: the script                                                      *)

is_sieve_capable(r) == r \notin InApp
condition_to_sieve(r) == r \notin NoTest

\* Rules without a test in Sieve are left out: nobody runs them.
generate_sieve_script(table) ==
    Ids(Among(list_filters(table), {r \in ToSet(table) :
                  r.on /\ is_sieve_capable(r.id) /\ condition_to_sieve(r.id)}))
OnOff(v) == IF v.on THEN "on" ELSE "off"
generate_script(table, reply) == [rules |-> generate_sieve_script(table), reply |-> reply]

\* The rules are those the handler read; each upload is a task of its own.  The
\* one of a filter edit reads the responder by itself.
push_state(table, reply) ==
    pushes' = IF SieveHost THEN pushes \cup {generate_script(table, reply)} ELSE pushes

push_sieve_async ==
    \E p \in pushes :
        /\ p.reply = "unread"
        /\ pushes' = (pushes \ {p}) \cup {[p EXCEPT !.reply = OnOff(vac)]}
        /\ UNCHANGED <<hour, mail, settings, replied, script, task, history>>

\* PUTSCRIPT and SETACTIVE
set_active(p) == script' = p

\* A failure anywhere in the session is logged, and the old script stays.
push_script ==
    \E p \in pushes :
        /\ p.reply # "unread" /\ pushes' = pushes \ {p}
        /\ \/ set_active(p) /\ UNCHANGED budget
           \/ Fail /\ UNCHANGED script
        /\ UNCHANGED <<hour, mail, settings, replied, task, answers, handed, lost>>

-----------------------------------------------------------------------------
(* routes/filters.rs, routes/vacation.rs                                   *)

FilterEdit ==
    /\ Spend("filter")
    /\ \/ create_filter
       \/ \E i \in DOMAIN rules : update_filter(i) \/ delete_filter(i) \/ reorder_filters(i)
    /\ push_state(rules', "unread")
    /\ UNCHANGED <<hour, mail, vac, replied, script, task, answers, handed, lost>>

update_vacation ==
    /\ Spend("vac")
    /\ \E on \in BOOLEAN, every \in Intervals : vac' = [on |-> on, every |-> every]
    /\ push_state(rules, OnOff(vac'))
    /\ UNCHANGED <<hour, mail, rules, replied, script, task, answers, handed, lost>>

-----------------------------------------------------------------------------
(* The mail server, and the cycle that finds new messages                  *)

\* Dovecot runs the active script: a message it files elsewhere is not in INBOX.
Deliver ==
    /\ arrived < Len(From)
    /\ arrived' = arrived + 1
    /\ LET list == script.rules
           hit == {i \in 1..Len(list) : <<list[i], arrived + 1>> \in Hits}
           run == {i \in hit : \A j \in hit : list[j] \in Stops => i <= j}
       IN  inbox' = IF \E i \in run : "move" \in ToSet(Acts[list[i]])
                    THEN inbox ELSE inbox \cup {arrived + 1}
    /\ UNCHANGED <<hour, cached, late, settings, replied, sieve, task, history>>

MaxUid(S) == IF S = {} THEN 0 ELSE CHOOSE u \in S : \A v \in S : u >= v

Above_two(mark) == {u \in cached : u > mark + 1}
Above(mark) == {u \in cached : u > mark}

\* The mark before: a maximum that cannot be read counts as zero.
inbox_max_uid(t) ==
    /\ At(t, "idle") /\ Spend("cycle")
    /\ \E before \in {0, MaxUid(cached)} :
          Go(t, [Idle EXCEPT !.at = "sync", !.before = before, !.app = TRUE])
    /\ UNCHANGED <<hour, mail, settings, replied, sieve, answers, handed, lost>>

\* Rows of the cycle are written and deleted as the answers come; of an answer
\* that ends early, or a statement that fails, some stay for a later cycle.  Such
\* a row may lie at or below the mark of the cycle that brings it.
RunSync(t) ==
    /\ At(t, "sync")
    /\ \E new \in SUBSET (inbox \ cached), old \in SUBSET (cached \ inbox) :
          /\ new \cup old # {} /\ cached' = (cached \cup new) \ old
          /\ lost' = lost \cup {u \in new : u <= task[t].before}
    /\ UNCHANGED <<hour, inbox, arrived, late, settings, replied, sieve, task, budget,
                   answers, handed>>

\* The sync ends, or fails; or 120 seconds are over: a statement under way lands later.
SyncEnds(t) ==
    /\ At(t, "sync") /\ Go(t, [task[t] EXCEPT !.at = "after"])
    /\ \/ UNCHANGED <<late, budget>>
       \/ Fail /\ \E new \in SUBSET (inbox \ cached) : new # {} /\ late' = late \cup new
    /\ UNCHANGED <<hour, inbox, arrived, cached, settings, replied, sieve, answers, handed, lost>>

Land ==
    /\ late # {} /\ late' = {} /\ cached' = cached \cup late
    /\ lost' = lost \cup (late \ cached)
    /\ UNCHANGED <<hour, inbox, arrived, settings, replied, sieve, task, budget, answers, handed>>

\* The mark after, however the sync ended.  When it is higher, a task is spawned
\* for the messages above the mark before.
SpawnTask(t) ==
    /\ At(t, "after")
    /\ \/ /\ Go(t, IF MaxUid(cached) > task[t].before
                   THEN [task[t] EXCEPT !.at = "load"] ELSE Idle)
          /\ UNCHANGED <<budget, lost>>
       \/ Fail /\ Go(t, Idle) /\ lost' = lost \cup Above(task[t].before)
    /\ UNCHANGED <<hour, mail, settings, replied, sieve, answers, handed>>

\* The first page of an empty cache stores the newest messages itself, the older
\* ones in the background, and tells no task of them.
ListCold(t) ==
    /\ At(t, "idle") /\ cached = {} /\ inbox # {} /\ Spend("cycle")
    /\ Go(t, [Idle EXCEPT !.at = "paint"])
    /\ UNCHANGED <<hour, mail, settings, replied, sieve, answers, handed, lost>>

Paint(t) ==
    /\ At(t, "paint") /\ (Go(t, Idle) \/ UNCHANGED task)
    /\ \E page \in SUBSET inbox :
          cached' = cached \cup page /\ lost' = lost \cup (page \ cached)
    /\ UNCHANGED <<hour, inbox, arrived, late, settings, replied, sieve, budget, answers, handed>>

\* The task reads the messages above, the responder and the rules as they are by
\* now: another cycle may have stored more.  It takes them in the order of UIDs.
First(uids) == CHOOSE u \in uids : \A v \in uids : u <= v
This(t) == First(task[t].left)
Rest(r) == [r EXCEPT !.left = @ \ {First(@)}]

Load(t) ==
    /\ At(t, "load")
    /\ \/ LET new == Above(task[t].before)
          IN  /\ Go(t, IF new = {} THEN Idle
                       ELSE [task[t] EXCEPT !.at = "reply", !.msgs = new, !.vac = vac,
                              !.left = IF vac.on THEN new ELSE {}, !.filter = rules # <<>>])
              /\ handed' = handed \cup new /\ UNCHANGED <<budget, lost>>
       \/ Fail /\ lost' = lost \cup Above(task[t].before) /\ Go(t, Idle) /\ UNCHANGED handed
    /\ UNCHANGED <<hour, mail, settings, replied, sieve, answers>>

\* POST /api/filters/apply: every cached message, no reply, every rule
apply_filters(t) ==
    /\ At(t, "idle") /\ cached # {} /\ Spend("apply")
    /\ Go(t, [Idle EXCEPT !.at = "match", !.msgs = cached, !.left = cached,
              !.filter = TRUE])
    /\ UNCHANGED <<hour, mail, settings, replied, sieve, answers, handed, lost>>

-----------------------------------------------------------------------------
(* The responder                                                           *)

is_automated_sender(s) == s \in Mine

\* The first statement of should_reply_and_record
CheckReply(t) ==
    /\ At(t, "reply") /\ task[t].left # {}
    /\ LET s == From[This(t)]
       IN  Go(t, [task[t] EXCEPT !.at =
                    IF is_automated_sender(s) THEN "skip"
                    ELSE IF replied[s] = Never THEN "insert"
                    ELSE IF hour - replied[s] < task[t].vac.every THEN "skip" ELSE "update"])
    /\ UNCHANGED <<hour, mail, settings, replied, sieve, history>>

Skip(t) ==
    /\ At(t, "skip")
    /\ Go(t, Rest([task[t] EXCEPT !.at = "reply"]))
    /\ UNCHANGED <<hour, mail, settings, replied, sieve, history>>

\* The second one: an INSERT, which fails when a row is there by now, or an
\* UPDATE, which finds none when it was purged.
record_first_again(s) == TRUE
record_first(s) == replied[s] = Never

RecordReply(t) ==
    /\ task[t].left # {}
    /\ LET s == From[This(t)]
           Answer == /\ Go(t, [task[t] EXCEPT !.at = "send"])
                     /\ answers' = [answers EXCEPT ![s] = Append(@, hour)]
       IN  \/ /\ At(t, "insert") /\ record_first(s)
              /\ replied' = [replied EXCEPT ![s] = hour] /\ Answer
           \/ /\ At(t, "insert") /\ ~record_first(s)
              /\ Go(t, [task[t] EXCEPT !.at = "skip"]) /\ UNCHANGED <<replied, answers>>
           \/ /\ At(t, "update")
              /\ replied' = [replied EXCEPT ![s] = IF @ = Never THEN Never ELSE hour]
              /\ Answer
    /\ UNCHANGED <<hour, mail, settings, sieve, budget, handed, lost>>

\* A reply that cannot be sent is lost: it is recorded already.
SendReply(t) ==
    /\ At(t, "send")
    /\ Go(t, Rest([task[t] EXCEPT !.at = "reply"]))
    /\ UNCHANGED <<hour, mail, settings, replied, sieve, history>>

\* purge_old_replies, and on to the filters
Purge(t) ==
    /\ At(t, "reply") /\ task[t].left = {}
    /\ replied' = IF ~task[t].vac.on THEN replied
                  ELSE [s \in Senders |->
                          IF replied[s] # Never /\ hour - replied[s] > 2 * task[t].vac.every
                          THEN Never ELSE replied[s]]
    /\ Go(t, IF task[t].filter
             THEN [task[t] EXCEPT !.at = "match", !.left = task[t].msgs] ELSE Idle)
    /\ UNCHANGED <<hour, mail, settings, sieve, history>>

-----------------------------------------------------------------------------
(* The filters                                                             *)

\* Up to a rule that stops; the app leaves the capable ones to the server, and
\* does not stop at them.
Steps(t, matched) ==
    LET run == IF SieveHost /\ task[t].app
               THEN Among(matched, {r \in RuleIds : ~is_sieve_capable(r)}) ELSE matched
        last == {i \in 1..Len(run) : run[i] \in Stops}
        upto == IF last = {} THEN Len(run) ELSE CHOOSE i \in last : \A j \in last : i <= j
    IN  FlattenSeq([i \in 1..upto |-> Acts[run[i]]])

Match(t) ==
    /\ At(t, "match")
    /\ Go(t, IF task[t].left = {} THEN Idle
             ELSE [task[t] EXCEPT !.at = "act",
                                  !.todo = Steps(t, matching_rules(This(t)))])
    /\ UNCHANGED <<hour, mail, settings, replied, sieve, history>>

NextMessage(r) == Rest([r EXCEPT !.at = "match", !.todo = <<>>])

\* The command on the server.  A message that is not there any more, or a
\* connection that fails, is logged and the next action taken.
Act(t) ==
    /\ At(t, "act")
    /\ LET u == This(t)
           todo == task[t].todo
       IN  IF todo = <<>> THEN Go(t, NextMessage(task[t])) /\ UNCHANGED <<inbox, budget>>
           ELSE \/ /\ Head(todo) = "move" /\ u \in inbox
                   /\ inbox' = inbox \ {u}
                   /\ Go(t, [task[t] EXCEPT !.at = "forget"])
                   /\ UNCHANGED budget
                \/ /\ Head(todo) # "move" \/ u \notin inbox
                   /\ Go(t, [task[t] EXCEPT !.todo = Tail(@)])
                   /\ UNCHANGED <<inbox, budget>>
                \/ /\ Fail
                   /\ Go(t, [task[t] EXCEPT !.todo = Tail(@)])
                   /\ UNCHANGED inbox
    /\ UNCHANGED <<hour, arrived, cached, late, settings, replied, sieve, answers, handed, lost>>

\* The row of a message that was moved; the other actions are not taken.
Forget(t) ==
    /\ At(t, "forget")
    /\ cached' = cached \ {This(t)}
    /\ Go(t, NextMessage(task[t]))
    /\ UNCHANGED <<hour, inbox, arrived, late, settings, replied, sieve, history>>

\* The process starts anew: cycles, tasks and uploads are gone.
Restart ==
    /\ Spend("crash")
    /\ task' = [t \in Tasks |-> Idle] /\ late' = {} /\ pushes' = {}
    /\ lost' = lost \cup (cached \ handed)
    /\ UNCHANGED <<hour, inbox, arrived, cached, settings, replied, script, answers, handed>>

Tick ==
    /\ Spend("hour") /\ hour' = hour + 1
    /\ UNCHANGED <<mail, settings, replied, sieve, task, answers, handed, lost>>

Next ==
    \/ push_sieve_async \/ push_script \/ FilterEdit \/ update_vacation \/ Deliver \/ Tick
    \/ Land \/ Restart
    \/ \E t \in Tasks :
          \/ inbox_max_uid(t) \/ RunSync(t) \/ SyncEnds(t) \/ SpawnTask(t)
          \/ ListCold(t) \/ Paint(t) \/ Load(t) \/ apply_filters(t) \/ CheckReply(t) \/ Skip(t)
          \/ RecordReply(t) \/ SendReply(t) \/ Purge(t)
          \/ Match(t) \/ Act(t) \/ Forget(t)

Spec == Init /\ [][Next]_vars

-----------------------------------------------------------------------------

TypeOK ==
    /\ hour \in Nat /\ \A b \in DOMAIN budget : budget[b] \in Nat
    /\ inbox \subseteq Uids /\ arrived \in 0..Len(From)
    /\ cached \cup late \subseteq Uids /\ handed \cup lost \subseteq Uids
    /\ vac \in [on : BOOLEAN, every : Intervals]
    /\ replied \in [Senders -> {Never} \cup Nat]
    /\ \A i \in DOMAIN rules : rules[i] \in [id : RuleIds, on : BOOLEAN, prio : 0..1]
    /\ \A i, j \in DOMAIN rules : rules[i].id = rules[j].id => i = j
    /\ ToSet(script.rules) \subseteq RuleIds
    /\ \A p \in pushes : p.reply \in {"on", "off", "unread"}
    /\ \A s \in Senders : ToSet(answers[s]) \subseteq Nat
    /\ \A t \in Tasks : task[t].vac \in [on : BOOLEAN, every : Intervals]

\* The second answer to a sender is decided an interval after the first, although
\* the tasks of two cycles may look for a record at the same time: the primary
\* key lets one of them insert it.  (The interval is at least an hour.  Two tasks
\* that find the same record out of date both answer.)
FirstReplyKept ==
    \A s \in Senders : Len(answers[s]) > 1 => answers[s][2] > answers[s][1]

\* No message falls between two cycles, however they overlap: what a cycle stored
\* above its mark has been read by a task, or lies above the mark of a cycle under
\* way or of a task that will read it.  A message stays away from the filters only
\* when the read of a mark after, or of a task, failed, the process ended in
\* between, a cycle was cut and the row landed later, an earlier cycle left it out
\* and the one that brought it began above it, or the first page stored it.
Noticed ==
    \A u \in cached \ (handed \cup lost) :
        \E t \in Tasks : task[t].at \in {"sync", "after", "load"} /\ u > task[t].before

=============================================================================
