---------------------------- MODULE AddressBook ----------------------------
(***************************************************************************)
(* Contacts, their groups, and the addresses suggested while one types.    *)
(*                                                                         *)
(*   backend/src/db/contacts.rs         contacts, known_addresses (known)  *)
(*   backend/src/db/contact_groups.rs   contact_groups, ..._members        *)
(*   backend/src/routes/contacts.rs, contact_groups.rs   the requests      *)
(*                                                                         *)
(* Of the fields of a contact the name stands for all: empty, the user's,  *)
(* or from a file.  One statement is one step; an import takes two for     *)
(* each of its cards, a request for suggestions two queries, and other     *)
(* requests come in between.                                               *)
(***************************************************************************)
EXTENDS Naturals, Sequences, FiniteSets, FiniteSetsExt, SequencesExt

CONSTANTS
    Ids,      \* ids of contacts: client chosen, or random
    Emails,
    Lower,    \* Lower[e]: e in lower case
    Groups,   \* ids of groups
    Names,    \* names of groups
    Card,     \* the cards of the file that is imported: emails
    MaxAll,   \* contacts, and known addresses, in the list of all (50000)
    Requests  \* bound: requests and messages in one behaviour

VARIABLES
    contacts,  \* the rows
    known,     \* known_addresses
    groups,    \* contact_groups: id -> name
    members,   \* contact_group_members: <<group, contact>>
    cards,     \* import: cards still to come
    found,     \* import: what get_contact_by_email answered, <<>> before
    asked,     \* the request for suggestions that is between its two queries:
               \* what it has to show, how many more it asks for; and, for the
               \* properties, its limit, whether it has all the contacts, and
               \* the contacts stored since
    left       \* history: what is left of the bound

vars == <<contacts, known, groups, members, cards, found, asked, left>>

Texts == {"", "user", "file"}
Rows == [id : Ids, email : Emails, name : Texts]

Init ==
    /\ contacts = {} /\ known = {} /\ groups = <<>> /\ members = {}
    /\ cards = <<>> /\ found = <<>> /\ asked = {} /\ left = Requests

Spend == left > 0 /\ left' = left - 1

-----------------------------------------------------------------------------
(* db/contacts.rs, db/contact_groups.rs: each one statement                *)

\* INSERT OR REPLACE: rows with the same id or email are deleted, and with a
\* deleted row its memberships, those of the contact just stored included.
upsert_contact(c) ==
    LET replaced == {x \in contacts : x.id = c.id \/ x.email = c.email}
    IN  /\ contacts' = (contacts \ replaced) \cup {c}
        /\ members' = {m \in members : \A x \in replaced : m[2] # x.id}
        /\ asked' = {[a EXCEPT !.since = @ \cup {c.email}] : a \in asked}
get_contact_by_email(e) == {x \in contacts : x.email = e}
delete_contact(i) ==
    /\ contacts' = {x \in contacts : x.id # i}
    /\ members' = {m \in members : m[2] # i}
populate_known_addresses(S) == known' = known \cup S

create_group(g, n) ==
    /\ g \notin DOMAIN groups /\ \A h \in DOMAIN groups : groups[h] # n
    /\ groups' = [x \in DOMAIN groups \cup {g} |-> IF x = g THEN n ELSE groups[x]]
update_group(g, n) ==
    /\ \A h \in DOMAIN groups \ {g} : groups[h] # n
    /\ groups' = [groups EXCEPT ![g] = n]
delete_group(g) ==
    /\ groups' = [x \in DOMAIN groups \ {g} |-> groups[x]]
    /\ members' = {m \in members : m[1] # g}
\* A foreign key that does not hold is an error, not ignored.
add_member(g, i) ==
    /\ g \in DOMAIN groups /\ \E x \in contacts : x.id = i
    /\ members' = members \cup {<<g, i>>}
remove_member(g, i) == members' = members \ {<<g, i>>}

-----------------------------------------------------------------------------
(* The requests                                                            *)

create_contact_handler ==
    /\ Spend
    /\ \E c \in Rows : c.name # "file" /\ upsert_contact(c)
    /\ UNCHANGED <<known, groups, cards, found>>

delete_contact_handler ==
    /\ Spend /\ \E x \in contacts : delete_contact(x.id)
    /\ UNCHANGED <<known, groups, cards, found, asked>>

\* The sync stores the addresses of a message.
MessageStored ==
    /\ Spend /\ \E e \in Emails : populate_known_addresses({e})
    /\ UNCHANGED <<contacts, groups, members, cards, found, asked>>

create_group_handler ==
    /\ Spend /\ \E g \in Groups, n \in Names : create_group(g, n)
    /\ UNCHANGED <<contacts, known, members, cards, found, asked>>
update_group_handler ==
    /\ Spend /\ \E g \in DOMAIN groups, n \in Names : update_group(g, n)
    /\ UNCHANGED <<contacts, known, members, cards, found, asked>>
delete_group_handler ==
    /\ Spend /\ \E g \in DOMAIN groups : delete_group(g)
    /\ UNCHANGED <<contacts, known, cards, found, asked>>
add_member_handler ==
    /\ Spend /\ \E g \in Groups, i \in Ids : add_member(g, i)
    /\ UNCHANGED <<contacts, known, groups, cards, found, asked>>
remove_member_handler ==
    /\ Spend /\ \E m \in members : remove_member(m[1], m[2])
    /\ UNCHANGED <<contacts, known, groups, cards, found, asked>>

\* The cards that have an email
parse_vcards == Card

\* POST /api/contacts/import
import_contacts_handler ==
    /\ Spend /\ cards = <<>> /\ cards' = parse_vcards
    /\ UNCHANGED <<contacts, known, groups, members, found, asked>>

ImportRead ==
    /\ cards # <<>> /\ found = <<>>
    /\ found' = <<get_contact_by_email(Head(cards))>>
    /\ UNCHANGED <<contacts, known, groups, members, cards, asked, left>>

\* A name that is empty is filled in, and the whole row written as it was read.
ImportWrite ==
    /\ cards # <<>> /\ found # <<>> /\ cards' = Tail(cards) /\ found' = <<>>
    /\ \/ /\ found[1] = {}
          /\ \E i \in Ids : /\ \A x \in contacts : x.id # i
                            /\ upsert_contact([id |-> i, email |-> Head(cards), name |-> "file"])
       \/ \E x \in found[1] : x.name = "" /\ upsert_contact([x EXCEPT !.name = "file"])
       \/ (\E x \in found[1] : x.name # "") /\ UNCHANGED <<contacts, members, asked>>
    /\ UNCHANGED <<known, groups, left>>

-----------------------------------------------------------------------------
(* The suggestions                                                         *)

Cut(limit, S) == kSubset(IF limit < Cardinality(S) THEN limit ELSE Cardinality(S), S)

\* LIKE finds a letter in either case: a query is a set of folded addresses.
search_contacts(query, limit) ==
    Cut(limit, {e \in {x.email : x \in contacts} : Lower[e] \in query})
search_known_addresses(query, limit) ==
    Cut(limit, {e \in known : Lower[e] \in query} \ {x.email : x \in contacts})

\* A suggestion whose address is among those seen, in lower case, is passed over.
Fresh_as_is(seen, S) == S \ seen
Fresh(seen, S) ==
    {e \in S : /\ \A s \in seen : Lower[s] # Lower[e]
               /\ \A d \in S : Lower[d] = Lower[e] => e = CHOOSE f \in S : Lower[f] = Lower[e]}

\* The first query.  What it returned is shown, and the rest asked for.
AskMore(query, shown, rest, limit, all) ==
    asked' = {[query |-> query, shown |-> shown, rest |-> rest, limit |-> limit, all |-> all,
               since |-> {}]}

autocomplete_handler ==
    /\ Spend /\ asked = {}
    /\ \E query \in SUBSET {Lower[e] : e \in Emails}, limit \in 1..Cardinality(Emails) :
          \E S \in search_contacts(query, limit) :
              LET shown == Fresh({}, S)
              IN  AskMore(query, shown, limit - Cardinality(shown), limit, FALSE)
    /\ UNCHANGED <<contacts, known, groups, members, cards, found>>

autocomplete_all_handler ==
    /\ Spend /\ asked = {}
    /\ LET emails == {x.email : x \in contacts}
       IN  \E S \in Cut(MaxAll, emails) :
              AskMore({Lower[e] : e \in Emails}, Fresh({}, S), MaxAll, 2 * MaxAll, S = emails)
    /\ UNCHANGED <<contacts, known, groups, members, cards, found>>

\* The second query, and with it the answer, as it may turn out now
Suggestions(a) ==
    {a.shown \cup Fresh(a.shown, S) : S \in search_known_addresses(a.query, a.rest)}

Suggest ==
    /\ asked # {} /\ asked' = {}
    /\ UNCHANGED <<contacts, known, groups, members, cards, found, left>>

Next ==
    \/ create_contact_handler \/ delete_contact_handler \/ MessageStored
    \/ create_group_handler \/ update_group_handler \/ delete_group_handler
    \/ add_member_handler \/ remove_member_handler
    \/ import_contacts_handler \/ ImportRead \/ ImportWrite
    \/ autocomplete_handler \/ autocomplete_all_handler \/ Suggest

Spec == Init /\ [][Next]_vars

-----------------------------------------------------------------------------

TypeOK ==
    /\ contacts \subseteq Rows /\ known \subseteq Emails
    /\ \A x, y \in contacts : x.id = y.id \/ x.email = y.email => x = y
    /\ DOMAIN groups \subseteq Groups
    /\ \A m \in members : m[1] \in DOMAIN groups /\ \E x \in contacts : x.id = m[2]
    /\ \A a \in asked : a.shown \subseteq Emails /\ {a.rest, a.limit} \subseteq Nat
    /\ left \in 0..Requests

\* Whatever is stored and deleted between its two queries, a request answers with no
\* person twice, although a known address and a contact, or two contacts, may differ
\* in case, and with no more than were asked for.  The list of all, unless one of the
\* queries is cut at its limit, leaves no one out but those who became a contact
\* between the two: the first query came too early for them, and the second passes
\* over contacts.
SuggestedOnce ==
    \A a \in asked : \A S \in Suggestions(a) :
        /\ Cardinality(S) <= a.limit
        /\ \A d, e \in S : Lower[d] = Lower[e] => d = e
        /\ LET emails == {x.email : x \in contacts}
           IN  (a.all /\ Cardinality(known \ emails) <= MaxAll) =>
                  \A e \in (known \cup emails) \ a.since : \E d \in S : Lower[d] = Lower[e]

=============================================================================
