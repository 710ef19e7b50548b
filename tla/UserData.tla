------------------------------ MODULE UserData ------------------------------
(***************************************************************************)
(* The parts of one user's database that share no table, side by side:     *)
(* signing in, new mail, push, contacts, the calendar, tags and the like,  *)
(* folders, searches and the connections to the mail server.              *)
(* They do not interact; a behaviour is one of theirs, and each state      *)
(* keeps 0 in the variables of the others.  Each part is a module of its   *)
(* own; as no two of them ever run together, they share the sets that are  *)
(* only told apart from each other (tasks, ids, names).                    *)
(***************************************************************************)
EXTENDS Integers, Sequences, FiniteSets

CONSTANTS
    None,
    \* Login
    Requests, Secrets, Creds, Nonces, MaxFailures, LockTime, MaxTime, MaxMail, LoginBudgets,
    \* NewMail
    Tasks, Senders, From, Mine, RuleIds, InApp, NoTest, Acts, Stops, Hits, SieveHost,
    Never, MailBudgets,
    \* Push
    Endpoints, MaxEvents, PushBudgets,
    \* AddressBook: its ids are Tasks, its names Secrets
    Emails, Lower, Groups, Card, MaxRequests,
    \* Calendar: its ids are Nonces, its imports Tasks
    DateTexts, Rules, SourceUids, Windows, Files, Templates, MaxListed, CalRequests,
    \* Labels: its messages are Nonces, its tags Creds, their names Secrets, its
    \* identities RuleIds, its preferences Senders
    Dates, Pictures, Values,
    \* Folders
    FolderNames, Inbox, System, Refused, FiledUids,
    \* Search
    Keys, Excluded, TopLevel, Contents, InHead, InBody, Date, Words, Filters, Limit,
    DEEP_INDEX_BATCH, SearchBudgets,
    \* ImapClient: its connections are Emails
    MailUids, max_idle, max_age, Logout, MAX_CONCURRENT_CONNECTS_PER_ACCOUNT, CallBudgets

ASSUME UserDataAssumption ==
    \* None is no task, no passkey, no socket, nothing that is put off and no bound.
    /\ None \notin Creds \cup Tasks \cup Emails \cup Int
    /\ None \notin [do : {"commit"}, key : Keys,
                   doc : {None} \cup [head : Contents, body : {None} \cup Contents],
                   next : {None} \cup [do : {"deep"}, todo : SUBSET Keys]]
    /\ IsFiniteSet(Tasks) /\ IsFiniteSet(Emails) /\ IsFiniteSet(Nonces)
    \* Login: time, the passwords and the lock
    /\ {MaxTime, MaxMail} \subseteq Nat \ {0} /\ LockTime \in Nat
    \* NewMail: who the messages are from; a reply at no time
    /\ From \in Seq(Senders) /\ Never \notin Nat
    /\ \A b \in MailBudgets : \A what \in DOMAIN b : b[what] \in Nat
    \* Push, AddressBook, Labels and Search: the bounds
    /\ {MaxEvents, MaxRequests, CalRequests, Limit} \subseteq Nat
    /\ Card \in Seq(Emails)
    \* Calendar: a time is an instant in one of the forms it is written in.
    /\ LET Times == [at : Int, form : {"date", "local", "millis", "zulu"}] IN
          DateTexts \subseteq Times /\ Windows \subseteq Times \X Times
    /\ Rules \subseteq [every : Nat \ {0}, count : Nat] /\ MaxListed \in Nat
    /\ Files \subseteq Seq([start : DateTexts, end : DateTexts \cup {None},
                           rule : Rules \cup {None}, uid : SourceUids \cup {None}])
    \* Folders: INBOX is one of the folders that cannot be changed
    \* (routes/folder_mgmt.rs:44).
    /\ Inbox \in System
    \* ImapClient: there is always another socket, and a connection is given up
    \* (25 minutes) before the server logs it out (30) (imap/session_cache.rs:22).
    /\ {max_idle, max_age, Logout, MAX_CONCURRENT_CONNECTS_PER_ACCOUNT} \subseteq Nat
    /\ max_age <= Logout /\ 0 < Logout
    /\ Cardinality(Emails) >= Cardinality(Tasks) + max_idle

VARIABLES
    part,   \* whose behaviour it is
    now, mail, home, totp, used, lockout, keys, only, pending, pc, loc,
    seen, left,
    hour, inbox, arrived, cached, late, vac, replied, rules, script, pushes, task,
    budget, answers, handed, lost,
    cred, subs, deleting, at, using, running, idling, events, todo, gone, stored,
    valid, pooled, sealed, alive, pushLeft, rejected, unmarked,
    contacts, known, groups, members, cards, found, asked, bookLeft,
    rows, settings, templates, imports, matched, calLeft,
    store, tags, tagged, idents, jobs, stickers, prefs, tagLeft,
    server, folders, fresh, filed, requests, since, unsettled, foldLeft,
    mailbox, messages, docs, writer, searches, touched, searchLeft,
    clock, slots, sock, heard, calls, caps, folder, marked, target, wanted, spoilt, callLeft

-----------------------------------------------------------------------------
(* The parts                                                               *)

L == INSTANCE Login WITH Budgets <- LoginBudgets

N == INSTANCE NewMail WITH Budgets <- MailBudgets

P == INSTANCE Push WITH Budgets <- PushBudgets, left <- pushLeft

A == INSTANCE AddressBook WITH
        Ids <- Tasks, Names <- Secrets, MaxAll <- MaxListed, Requests <- MaxRequests,
        left <- bookLeft

C == INSTANCE Calendar WITH
        Imports <- Tasks, Ids <- Nonces, Uids <- SourceUids, Texts <- DateTexts,
        Requests <- CalRequests,
        events <- rows, todo <- imports, known <- matched, left <- calLeft

B == INSTANCE Labels WITH
        Messages <- Nonces, Tags <- Creds, Names <- Secrets, Idents <- RuleIds,
        Fields <- Senders, Requests <- MaxRequests, cached <- store, task <- jobs,
        left <- tagLeft

F == INSTANCE Folders WITH
        Names <- FolderNames, Uids <- FiledUids, Requests <- MaxRequests, rows <- filed,
        task <- requests, left <- foldLeft

S == INSTANCE Search WITH
        Budget <- SearchBudgets, rows <- messages, task <- searches, left <- searchLeft

I == INSTANCE ImapClient WITH
        Conns <- Emails, Uids <- MailUids, Budgets <- CallBudgets, now <- clock, task <- calls,
        left <- callLeft

loginVars == <<now, mail, home, totp, used, lockout, keys, only, pending, pc, loc,
    seen, left>>
newmailVars == <<hour, inbox, arrived, cached, late, vac, replied, rules, script, pushes,
    task, budget, answers, handed, lost>>
pushVars == <<cred, subs, deleting, at, using, running, idling, events, todo, gone, stored,
    valid, pooled, sealed, alive, pushLeft, rejected, unmarked>>
contactsVars == <<contacts, known, groups, members, cards, found, asked, bookLeft>>
calendarVars == <<rows, settings, templates, imports, matched, calLeft>>
labelsVars == <<store, tags, tagged, idents, jobs, stickers, prefs, tagLeft>>
foldersVars == <<server, folders, fresh, filed, requests, since, unsettled, foldLeft>>
searchVars == <<mailbox, messages, docs, writer, searches, touched, searchLeft>>
imapVars == <<clock, slots, sock, heard, calls, caps, folder, marked, target, wanted,
    spoilt, callLeft>>
vars == <<part, loginVars, newmailVars, pushVars, contactsVars, calendarVars, labelsVars,
          foldersVars, searchVars, imapVars>>

loginAbsent ==
    /\ now = 0 /\ mail = 0 /\ home = 0 /\ totp = 0 /\ used = 0 /\ lockout = 0
    /\ keys = 0 /\ only = 0 /\ pending = 0 /\ pc = 0 /\ loc = 0 /\ seen = 0
    /\ left = 0
newmailAbsent ==
    /\ hour = 0 /\ inbox = 0 /\ arrived = 0 /\ cached = 0 /\ late = 0 /\ vac = 0
    /\ replied = 0 /\ rules = 0 /\ script = 0 /\ pushes = 0 /\ task = 0
    /\ budget = 0 /\ answers = 0 /\ handed = 0 /\ lost = 0
pushAbsent ==
    /\ cred = 0 /\ subs = 0 /\ deleting = 0 /\ at = 0 /\ using = 0
    /\ running = 0 /\ idling = 0 /\ events = 0 /\ todo = 0 /\ gone = 0 /\ stored = 0
    /\ valid = 0 /\ pooled = 0 /\ sealed = 0 /\ alive = 0 /\ pushLeft = 0 /\ rejected = 0
    /\ unmarked = 0
contactsAbsent ==
    /\ contacts = 0 /\ known = 0 /\ groups = 0 /\ members = 0 /\ cards = 0
    /\ found = 0 /\ asked = 0 /\ bookLeft = 0
calendarAbsent ==
    /\ rows = 0 /\ settings = 0 /\ templates = 0 /\ imports = 0 /\ matched = 0
    /\ calLeft = 0
labelsAbsent ==
    /\ store = 0 /\ tags = 0 /\ tagged = 0 /\ idents = 0 /\ jobs = 0
    /\ stickers = 0 /\ prefs = 0 /\ tagLeft = 0
foldersAbsent ==
    /\ server = 0 /\ folders = 0 /\ fresh = 0 /\ filed = 0 /\ requests = 0
    /\ since = 0 /\ unsettled = 0 /\ foldLeft = 0
searchAbsent ==
    /\ mailbox = 0 /\ messages = 0 /\ docs = 0 /\ writer = 0 /\ searches = 0
    /\ touched = 0 /\ searchLeft = 0
imapAbsent ==
    /\ clock = 0 /\ slots = 0 /\ sock = 0 /\ heard = 0 /\ calls = 0 /\ caps = 0
    /\ folder = 0 /\ marked = 0 /\ target = 0 /\ wanted = 0 /\ spoilt = 0
    /\ callLeft = 0

Init ==
    \/ part = "login" /\ L!Init
       /\ newmailAbsent /\ pushAbsent /\ contactsAbsent /\ calendarAbsent
       /\ labelsAbsent /\ foldersAbsent /\ searchAbsent /\ imapAbsent
    \/ part = "newmail" /\ N!Init
       /\ loginAbsent /\ pushAbsent /\ contactsAbsent /\ calendarAbsent
       /\ labelsAbsent /\ foldersAbsent /\ searchAbsent /\ imapAbsent
    \/ part = "push" /\ P!Init
       /\ loginAbsent /\ newmailAbsent /\ contactsAbsent /\ calendarAbsent
       /\ labelsAbsent /\ foldersAbsent /\ searchAbsent /\ imapAbsent
    \/ part = "contacts" /\ A!Init
       /\ loginAbsent /\ newmailAbsent /\ pushAbsent /\ calendarAbsent
       /\ labelsAbsent /\ foldersAbsent /\ searchAbsent /\ imapAbsent
    \/ part = "calendar" /\ C!Init
       /\ loginAbsent /\ newmailAbsent /\ pushAbsent /\ contactsAbsent
       /\ labelsAbsent /\ foldersAbsent /\ searchAbsent /\ imapAbsent
    \/ part = "labels" /\ B!Init
       /\ loginAbsent /\ newmailAbsent /\ pushAbsent /\ contactsAbsent
       /\ calendarAbsent /\ foldersAbsent /\ searchAbsent /\ imapAbsent
    \/ part = "folders" /\ F!Init
       /\ loginAbsent /\ newmailAbsent /\ pushAbsent /\ contactsAbsent
       /\ calendarAbsent /\ labelsAbsent /\ searchAbsent /\ imapAbsent
    \/ part = "search" /\ S!Init
       /\ loginAbsent /\ newmailAbsent /\ pushAbsent /\ contactsAbsent
       /\ calendarAbsent /\ labelsAbsent /\ foldersAbsent /\ imapAbsent
    \/ part = "imap" /\ I!Init
       /\ loginAbsent /\ newmailAbsent /\ pushAbsent /\ contactsAbsent
       /\ calendarAbsent /\ labelsAbsent /\ foldersAbsent /\ searchAbsent

SigningIn ==
    /\ part = "login" /\ L!Next
    /\ UNCHANGED <<part, newmailVars, pushVars, contactsVars, calendarVars,
                   labelsVars, foldersVars, searchVars, imapVars>>
MailArrives ==
    /\ part = "newmail" /\ N!Next
    /\ UNCHANGED <<part, loginVars, pushVars, contactsVars, calendarVars,
                   labelsVars, foldersVars, searchVars, imapVars>>
Notifying ==
    /\ part = "push" /\ P!Next
    /\ UNCHANGED <<part, loginVars, newmailVars, contactsVars, calendarVars,
                   labelsVars, foldersVars, searchVars, imapVars>>
Addressing ==
    /\ part = "contacts" /\ A!Next
    /\ UNCHANGED <<part, loginVars, newmailVars, pushVars, calendarVars,
                   labelsVars, foldersVars, searchVars, imapVars>>
Planning ==
    /\ part = "calendar" /\ C!Next
    /\ UNCHANGED <<part, loginVars, newmailVars, pushVars, contactsVars,
                   labelsVars, foldersVars, searchVars, imapVars>>
Labelling ==
    /\ part = "labels" /\ B!Next
    /\ UNCHANGED <<part, loginVars, newmailVars, pushVars, contactsVars,
                   calendarVars, foldersVars, searchVars, imapVars>>
Filing ==
    /\ part = "folders" /\ F!Next
    /\ UNCHANGED <<part, loginVars, newmailVars, pushVars, contactsVars,
                   calendarVars, labelsVars, searchVars, imapVars>>
Searching ==
    /\ part = "search" /\ S!Next
    /\ UNCHANGED <<part, loginVars, newmailVars, pushVars, contactsVars,
                   calendarVars, labelsVars, foldersVars, imapVars>>
Calling ==
    /\ part = "imap" /\ I!Next
    /\ UNCHANGED <<part, loginVars, newmailVars, pushVars, contactsVars,
                   calendarVars, labelsVars, foldersVars, searchVars>>

Next ==
    \/ SigningIn \/ MailArrives \/ Notifying
    \/ Addressing \/ Planning \/ Labelling
    \/ Filing \/ Searching \/ Calling

Spec == Init /\ [][Next]_vars

-----------------------------------------------------------------------------

\* The type invariant of whichever part it is
TypeOK ==
    CASE part = "login"    -> L!TypeOK
      [] part = "newmail"  -> N!TypeOK
      [] part = "push"     -> P!TypeOK
      [] part = "contacts" -> A!TypeOK
      [] part = "calendar" -> C!TypeOK
      [] part = "labels"   -> B!TypeOK
      [] part = "folders"  -> F!TypeOK
      [] part = "search"   -> S!TypeOK
      [] part = "imap"     -> I!TypeOK

\* See the property of that name in Login: the gate of a password login is one
\* that stood open at some time while the request ran (routes/auth.rs:257).
PasswordLoginAllowed == part = "login" => L!PasswordLoginAllowed

\* See Login: a passkey deleted after its challenge opens no session (routes/mfa.rs:589).
DeletedKeyRefused == part = "login" => L!DeletedKeyRefused

\* See NewMail: the second answer comes an interval after the first
\* (db/vacation.rs, should_reply_and_record).
FirstReplyKept == part = "newmail" => N!FirstReplyKept

\* See NewMail: no message is passed over unseen (realtime/worker.rs:187).
Noticed == part = "newmail" => N!Noticed

\* See Push: "marked invalid and never retried" (push/worker.rs:178).
NeverRetried == part = "push" => P!NeverRetried

\* See AddressBook: nobody is suggested twice, nor left out (routes/contacts.rs:192).
SuggestedOnce == part = "contacts" => A!SuggestedOnce

\* See Calendar: a window shows what takes place in it (db/calendar.rs:206).
ListSound == part = "calendar" => C!ListSound

\* See Folders: the folder list agrees with the server, whoever wrote it last
\* (routes/folders.rs:105).
FoldersAccounted == part = "folders" => F!FoldersAccounted

\* See Folders: a cached message stays as long as its folder, but for the names
\* of which somebody wrote the wrong thing and for the second of two first pages
\* (db/folders.rs:54).
MailKept ==
    [][part = "folders" =>
          \A r \in filed \ filed' :
             \/ r[1] \notin server \/ r[1] \in unsettled'
             \/ \E t \in Tasks : F!EnsureFolder(t) /\ requests[t].name = r[1]]_vars

\* See Search: what an answer names, by rows and by index, and what it may leave
\* out (routes/search.rs:424).
SearchSound == part = "search" => S!SearchSound

\* See ImapClient: a move that is cut short loses no message (imap/client.rs:1040).
NothingLost == part = "imap" => I!NothingLost

\* See ImapClient: what the pool hands out still stands (imap/session_cache.rs:22).
HandedOutAlive ==
    [][part = "imap" =>
          \A t \in Tasks : calls[t] = None /\ calls'[t] # None /\ calls'[t].conn # None =>
              sock[calls'[t].conn] = "open" \/ calls'[t].conn \in spoilt]_vars

=============================================================================
