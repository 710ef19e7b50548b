------------------------------- MODULE Labels -------------------------------
(***************************************************************************)
(* What a user sets up around the mail: tags, identities, calendar         *)
(* stickers, preferences.                                                  *)
(*                                                                         *)
(*   backend/src/db/tags.rs, routes/tags.rs               tags             *)
(*   backend/src/db/identities.rs, routes/identities.rs   identities       *)
(*   backend/src/db/stickers.rs, routes/stickers.rs       stickers         *)
(*   backend/src/db/display_preferences.rs, notification_preferences.rs    *)
(*                                                                         *)
(* One statement is one step; only the tagging of several messages is a    *)
(* transaction.  A request whose statement fails changes nothing.          *)
(***************************************************************************)
EXTENDS Naturals, FiniteSets

CONSTANTS
    Messages,   \* <<folder, uid>> of messages, cached or not
    Tags,       \* ids of tags, random
    Names,      \* names of tags
    Idents,     \* ids of identities
    Dates, Pictures,
    Fields,     \* preferences
    Values,     \* their valid values
    Tasks,      \* requests that write an identity
    None,
    Requests    \* bound: requests and messages in one behaviour

VARIABLES
    cached,     \* messages in the cache
    tags,       \* id -> name
    tagged,     \* message_tags: <<tag, message>>
    idents,     \* id -> is_default
    task,       \* task[t]: an identity that is to be written, [id, default]
    stickers,   \* date -> sticker
    prefs,      \* preferences that are set: field -> value
    left        \* history: what is left of the bound

vars == <<cached, tags, tagged, idents, task, stickers, prefs, left>>

Jobs == [id : Idents, default : BOOLEAN \cup {None}, new : BOOLEAN]

Init ==
    /\ cached = {} /\ tags = <<>> /\ tagged = {} /\ idents = <<>>
    /\ task = [t \in Tasks |-> None] /\ stickers = <<>>
    /\ prefs = [f \in Fields |-> None] /\ left = Requests

Spend == left > 0 /\ left' = left - 1
Put(f, k, v) == [x \in DOMAIN f \cup {k} |-> IF x = k THEN v ELSE f[x]]
Drop(f, k) == [x \in DOMAIN f \ {k} |-> f[x]]

identVars == <<idents, task>>
tagVars == <<cached, tags, tagged>>

-----------------------------------------------------------------------------
(* Tags                                                                    *)

\* message_tags refers to messages, ON DELETE CASCADE.
Untag_never(m) == tagged
Untag(m) == {x \in tagged : x[2] # m}

\* The sync caches a message, again and again: INSERT OR REPLACE deletes the
\* row that is there, and with it its tags.
upsert_message ==
    /\ Spend /\ \E m \in Messages : /\ cached' = cached \cup {m}
                                    /\ tagged' = Untag(m)
    /\ UNCHANGED <<tags, identVars, stickers, prefs>>

delete_message ==
    /\ Spend /\ \E m \in cached : /\ cached' = cached \ {m}
                                  /\ tagged' = Untag(m)
    /\ UNCHANGED <<tags, identVars, stickers, prefs>>

\* The name is unique.
create_tag(i, n) == (\A j \in DOMAIN tags : tags[j] # n) /\ tags' = Put(tags, i, n)
update_tag(i, n) ==
    (\A j \in DOMAIN tags \ {i} : tags[j] # n) /\ tags' = [tags EXCEPT ![i] = n]
delete_tag(i) == tags' = Drop(tags, i) /\ tagged' = {x \in tagged : x[1] # i}

create_tag_handler ==
    /\ Spend /\ \E i \in Tags \ DOMAIN tags, n \in Names : create_tag(i, n)
    /\ UNCHANGED <<cached, tagged, identVars, stickers, prefs>>
update_tag_handler ==
    /\ Spend /\ \E i \in DOMAIN tags, n \in Names : update_tag(i, n)
    /\ UNCHANGED <<cached, tagged, identVars, stickers, prefs>>
delete_tag_handler ==
    /\ Spend /\ \E i \in DOMAIN tags : delete_tag(i)
    /\ UNCHANGED <<cached, identVars, stickers, prefs>>

\* Both ends of a new row must exist; the one that is not there is an error.
add_tag_to_message(i, M) ==
    i \in DOMAIN tags /\ M \subseteq cached /\ tagged' = tagged \cup ({i} \X M)

tag_message_handler ==
    /\ Spend /\ \E i \in DOMAIN tags, m \in cached : add_tag_to_message(i, {m})
    /\ UNCHANGED <<cached, tags, identVars, stickers, prefs>>

\* One transaction: all the messages or none
bulk_tag_handler ==
    /\ Spend /\ \E i \in DOMAIN tags, M \in SUBSET Messages : add_tag_to_message(i, M)
    /\ UNCHANGED <<cached, tags, identVars, stickers, prefs>>

remove_tag_from_message(x) == tagged' = tagged \ {x}
untag_message_handler ==
    /\ Spend /\ \E x \in tagged : remove_tag_from_message(x)
    /\ UNCHANGED <<cached, tags, identVars, stickers, prefs>>

-----------------------------------------------------------------------------
(* Identities                                                              *)

clear_default(d) == idents' = IF d = TRUE THEN [i \in DOMAIN idents |-> FALSE] ELSE idents

\* The statement that clears the flag of the others, then the one that writes.
\* An update that does not name the flag leaves it.
IdentityBegin(t) ==
    /\ Spend /\ task[t] = None
    /\ \E job \in Jobs : /\ job.new = (job.id \notin DOMAIN idents)
                         /\ job.new => job.default # None
                         /\ task' = [task EXCEPT ![t] = job]
                         /\ clear_default(job.default)
    /\ UNCHANGED <<tagVars, stickers, prefs>>

\* An id is given by the insertion; one that is deleted meanwhile stays deleted.
create_identity(t) ==
    /\ task[t] # None /\ task[t].new /\ task' = [task EXCEPT ![t] = None]
    /\ \E i \in Idents \ DOMAIN idents : idents' = Put(idents, i, task[t].default)
    /\ UNCHANGED <<tagVars, stickers, prefs, left>>
update_identity(t) ==
    /\ task[t] # None /\ ~task[t].new /\ task' = [task EXCEPT ![t] = None]
    /\ idents' = [i \in DOMAIN idents |->
                    IF i = task[t].id /\ task[t].default # None THEN task[t].default
                    ELSE idents[i]]
    /\ UNCHANGED <<tagVars, stickers, prefs, left>>

delete_identity ==
    /\ Spend /\ \E i \in DOMAIN idents : idents' = Drop(idents, i)
    /\ UNCHANGED <<tagVars, task, stickers, prefs>>

-----------------------------------------------------------------------------
(* Stickers and preferences                                                *)

put_sticker ==
    /\ Spend /\ \E d \in Dates, p \in Pictures : stickers' = Put(stickers, d, p)
    /\ UNCHANGED <<tagVars, identVars, prefs>>
delete_sticker ==
    /\ Spend /\ \E d \in DOMAIN stickers : stickers' = Drop(stickers, d)
    /\ UNCHANGED <<tagVars, identVars, prefs>>

\* Only the fields that are sent are changed, none if one of them is not valid.
update_preferences ==
    /\ Spend
    /\ \E F \in SUBSET Fields, v \in Values :
          prefs' = [f \in Fields |-> IF f \in F THEN v ELSE prefs[f]]
    /\ UNCHANGED <<tagVars, identVars, stickers>>

Next ==
    \/ upsert_message \/ delete_message \/ create_tag_handler \/ update_tag_handler
    \/ delete_tag_handler \/ tag_message_handler \/ bulk_tag_handler \/ untag_message_handler
    \/ \E t \in Tasks : IdentityBegin(t) \/ create_identity(t) \/ update_identity(t)
    \/ delete_identity \/ put_sticker \/ delete_sticker \/ update_preferences

Spec == Init /\ [][Next]_vars

-----------------------------------------------------------------------------

get_messages_by_tag(i) == {m \in cached : <<i, m>> \in tagged}
count_messages_by_tag(i) == Cardinality({x \in tagged : x[1] = i})

\* The count beside a tag, taken from the links alone, is that of the messages
\* listed under it, which are looked up in the cache: no link outlives either end.
TypeOK ==
    /\ cached \subseteq Messages /\ DOMAIN tags \subseteq Tags
    /\ \A i, j \in DOMAIN tags : tags[i] = tags[j] => i = j
    /\ \A x \in tagged : x[1] \in DOMAIN tags
    /\ \A i \in Tags : count_messages_by_tag(i) = Cardinality(get_messages_by_tag(i))
    /\ DOMAIN idents \subseteq Idents /\ \A t \in Tasks : task[t] \in Jobs \cup {None}
    /\ DOMAIN stickers \subseteq Dates /\ \A f \in Fields : prefs[f] \in Values \cup {None}
    /\ left \in 0..Requests

=============================================================================
