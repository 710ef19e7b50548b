------------------------------ MODULE Calendar ------------------------------
(***************************************************************************)
(* The calendar: events, their occurrences in a window, imports, settings. *)
(*                                                                         *)
(*   backend/src/db/calendar.rs       calendar_events, calendar_settings,  *)
(*                                    meeting_templates                    *)
(*   backend/src/calendar/ics.rs      what a file becomes                  *)
(*   backend/src/routes/calendar.rs   the requests                         *)
(*                                                                         *)
(* A time is kept as text in one of four forms and compared in two ways:   *)
(* SQL compares the text, the expansion the instant.  Here it is the       *)
(* instant and the form; a day has two instants.  The server's zone is UTC.*)
(***************************************************************************)
EXTENDS Integers, Sequences, FiniteSets

CONSTANTS
    Ids,          \* ids, random, never used twice
    Texts,        \* times as the pages and the files write them: [at, form]
    Rules,        \* recurrence rules: [every, count], every so many days
    Uids,         \* source_uid of imported events
    Windows,      \* <<start, end>> as the pages ask for them
    Imports,      \* tasks: an import under way
    Files,        \* what parse_ics makes of a file: sequences of events
    Templates,    \* names of meeting templates
    MaxListed,    \* occurrences of one event listed at most (500)
    None,
    Requests      \* bound: requests in one behaviour

VARIABLES
    events,     \* the rows
    settings,   \* the only row of calendar_settings: None, "default" or "set"
    templates,  \* names of the rows
    todo,       \* todo[i]: events of the file still to come
    known,      \* known[i]: whether the next one's source_uid was found; None before
    left        \* history: what is left of the bound

vars == <<events, settings, templates, todo, known, left>>

Forms == {"date", "local", "millis", "zulu"}
Datas == [start : Texts, end : Texts, rule : Rules \cup {None}, uid : Uids \cup {None}]

Init ==
    /\ events = {} /\ settings = None /\ templates = {} /\ left = Requests
    /\ todo = [i \in Imports |-> <<>>] /\ known = [i \in Imports |-> None]

Spend == left > 0 /\ left' = left - 1

-----------------------------------------------------------------------------
(* Times                                                                   *)

\* 2025-03-06 < 2025-03-06T00:00:00 < 2025-03-06T00:00:00.000Z < 2025-03-06T00:00:00Z
Rank(t) == CASE t.form = "date" -> 0 [] t.form = "local" -> 1
             [] t.form = "millis" -> 2 [] t.form = "zulu" -> 3
TextLeq(s, t) == s.at < t.at \/ (s.at = t.at /\ Rank(s) <= Rank(t))

parse_iso_as_utc(t) == t.at

iso_to_ical_dtstart(t) == IF t.form = "millis" THEN None ELSE t.at

-----------------------------------------------------------------------------
(* What is listed                                                          *)

\* The first instants of the rule in the window, at most MaxListed
Nth(e, k) == e.start.at + k * 2 * e.rule.every
Starts(e, from, to) ==
    LET all == {Nth(e, k) : k \in 0..(e.rule.count - 1)}
        in == {t \in all : from <= t /\ t <= to}
    IN  {t \in in : Cardinality({s \in in : s < t}) < MaxListed}

Occurrence(e, t) ==
    LET form == IF e.start.form = "date" THEN "date" ELSE "zulu"
        length == parse_iso_as_utc(e.end) - parse_iso_as_utc(e.start)
    IN  [e EXCEPT !.start = [at |-> t, form |-> form],
                  !.end = [at |-> t + length, form |-> form]]

\* The rule's parser takes no fraction of a second, and the length of an event that
\* starts on a date is not known unless it ends on one.
CanExpand(e) ==
    /\ e.rule # None /\ iso_to_ical_dtstart(e.start) # None
    /\ e.start.form = "date" => e.end.form = "date"

try_expand_on(e, window) ==
    IF ~CanExpand(e) THEN {e}
    ELSE LET last == Nth(e, e.rule.count)
             S == Starts(e, parse_iso_as_utc(window[1]), last)
         IN  IF S = {} THEN {e} ELSE {Occurrence(e, t) : t \in S}
\* An event that has no occurrence in the window, or cannot be expanded, is listed
\* as it is.
try_expand(e, window) ==
    IF ~CanExpand(e) THEN {e}
    ELSE LET S == Starts(e, parse_iso_as_utc(window[1]), parse_iso_as_utc(window[2]))
         IN  IF S = {} THEN {e} ELSE {Occurrence(e, t) : t \in S}

list_events(window) ==
    UNION {try_expand(e, window) :
           e \in {x \in events : TextLeq(window[1], x.end) /\ TextLeq(x.start, window[2])}}

-----------------------------------------------------------------------------
(* The requests                                                            *)

Row(i, d) == [id |-> i, start |-> d.start, end |-> d.end, rule |-> d.rule, uid |-> d.uid]
Event(i) == CHOOSE e \in events : e.id = i
Insert(d) == \E i \in Ids : /\ \A e \in events : e.id # i
                            /\ events' = events \cup {Row(i, d)}

create_event ==
    /\ Spend /\ \E d \in Datas : Insert(d)
    /\ UNCHANGED <<settings, templates, todo, known>>

\* A field that is not sent stays: a rule can be changed, never taken away.
update_event ==
    /\ Spend
    /\ \E e \in events, s, t \in Texts, r \in Rules \cup {None} :
          events' = (events \ {e}) \cup
            {[e EXCEPT !.start = s, !.end = t, !.rule = IF r = None THEN e.rule ELSE r]}
    /\ UNCHANGED <<settings, templates, todo, known>>

delete_event ==
    /\ Spend /\ \E e \in events : events' = events \ {e}
    /\ UNCHANGED <<settings, templates, todo, known>>

\* What the parser does to an event of a file: without an end it ends as it starts.
parse_ics(file) ==
    [k \in DOMAIN file |-> [file[k] EXCEPT !.end = IF @ = None THEN file[k].start ELSE @]]

import_ics(i) ==
    /\ Spend /\ todo[i] = <<>>
    /\ \E f \in Files : todo' = [todo EXCEPT ![i] = parse_ics(f)]
    /\ UNCHANGED <<events, settings, templates, known>>

find_event_by_source_uid(i) ==
    /\ todo[i] # <<>> /\ known[i] = None
    /\ LET uid == Head(todo[i]).uid
       IN  known' = [known EXCEPT ![i] = uid # None /\ \E e \in events : e.uid = uid]
    /\ UNCHANGED <<events, settings, templates, todo, left>>

ImportEvent(i) ==
    /\ todo[i] # <<>> /\ known[i] # None
    /\ IF known[i] THEN UNCHANGED events ELSE Insert(Head(todo[i]))
    /\ todo' = [todo EXCEPT ![i] = Tail(@)] /\ known' = [known EXCEPT ![i] = None]
    /\ UNCHANGED <<settings, templates, left>>

get_calendar_settings ==
    /\ Spend /\ settings = None /\ settings' = "default"
    /\ UNCHANGED <<events, templates, todo, known>>

update_calendar_settings ==
    /\ Spend /\ settings' = "set"
    /\ UNCHANGED <<events, templates, todo, known>>

create_meeting_template ==
    /\ Spend /\ \E t \in Templates \ templates : templates' = templates \cup {t}
    /\ UNCHANGED <<events, settings, todo, known>>

delete_meeting_template ==
    /\ Spend /\ \E t \in templates : templates' = templates \ {t}
    /\ UNCHANGED <<events, settings, todo, known>>

Next ==
    \/ create_event \/ update_event \/ delete_event
    \/ \E i \in Imports : import_ics(i) \/ find_event_by_source_uid(i) \/ ImportEvent(i)
    \/ get_calendar_settings \/ update_calendar_settings
    \/ create_meeting_template \/ delete_meeting_template

Spec == Init /\ [][Next]_vars

-----------------------------------------------------------------------------

TypeOK ==
    /\ \A e \in events : e.id \in Ids /\ [x \in DOMAIN e \ {"id"} |-> e[x]] \in Datas
    /\ \A x, y \in events : x.id = y.id => x = y
    /\ settings \in {None, "default", "set"} /\ templates \subseteq Templates
    /\ \A i \in Imports : known[i] \in BOOLEAN \cup {None} /\ Len(todo[i]) \in Nat
    /\ left \in 0..Requests

\* Whatever window a page asks for, what it gets takes place in it, is as long as
\* the event it stands for, and lacks nothing: neither an event whose stored times
\* reach into it nor, of one that can be expanded and began in it, an occurrence.
\* Text and instants agree but for the very instants where the window begins and
\* ends.  Not promised, whatever "replaced by their individual occurrences inside
\* the window" says (db/calendar.rs:239): the query goes by the stored times, so of
\* an event that began before the window the first may be missing, and one that
\* ended before it is not listed at all; one that starts on a date and ends at a
\* time stays unexpanded.  (An event that ends before it starts, which nothing
\* refuses, is left out.)
ListSound ==
    \A w \in Windows :
        LET listed == {o \in list_events(w) : o.start.at <= o.end.at}
        IN  /\ \A o \in listed :
                  /\ o.end.at >= w[1].at /\ o.start.at <= w[2].at
                  /\ o.end.at - o.start.at = Event(o.id).end.at - Event(o.id).start.at
            /\ \A e \in events :
                  (e.start.at <= e.end.at /\ w[1].at < e.end.at /\ e.start.at < w[2].at) =>
                     /\ \E o \in listed : o.id = e.id
                     /\ (CanExpand(e) /\ w[1].at <= e.start.at) =>
                           \A k \in 0..(e.rule.count - 1) :
                              (k < MaxListed /\ Nth(e, k) <= w[2].at) =>
                                 \E o \in listed : o.id = e.id /\ o.start.at = Nth(e, k)

=============================================================================
