----------------------------- MODULE MCUserData -----------------------------
(* A small instance of every part of UserData. *)
EXTENDS UserData, TLC

CONSTANTS s1, f1, e1, e2

-----------------------------------------------------------------------------
(* Bounds: how often each thing happens in one behaviour                   *)

\* l logins, c confirmations, x removals, g registrations, s sign-ins with a
\* passkey, d deletions of passkeys, m changes of the mode, p new passwords, e errors
LoginBudget(l, c, x, g, s, d, m, p, e) ==
    [login |-> l, confirm |-> c, remove |-> x, register |-> g, signin |-> s,
     drop |-> d, mode |-> m, mail |-> p, error |-> e]
MCLoginBudgets == {
    LoginBudget(2, 0, 0, 0, 0, 0, 0, 0, 0), LoginBudget(1, 1, 0, 0, 0, 0, 1, 0, 0),
    LoginBudget(1, 0, 1, 0, 0, 0, 0, 1, 0), LoginBudget(1, 1, 0, 0, 0, 0, 0, 0, 1),
    LoginBudget(0, 0, 0, 1, 1, 1, 0, 1, 0), LoginBudget(0, 0, 0, 1, 0, 1, 1, 0, 0),
    LoginBudget(0, 0, 0, 0, 0, 1, 1, 0, 1)}

\* Hours, changes of the filters, of the vacation text, failures, filter runs,
\* cycles, restarts
MailBudget(h, f, v, x, a, c, r) ==
    [hour |-> h, filter |-> f, vac |-> v, fail |-> x, apply |-> a, cycle |-> c, crash |-> r]
MCMailBudgets == {
    MailBudget(1, 0, 0, 0, 0, 2, 0), MailBudget(1, 0, 1, 0, 0, 1, 0),
    MailBudget(0, 1, 0, 1, 0, 1, 0), MailBudget(0, 0, 0, 0, 1, 1, 0),
    MailBudget(0, 0, 0, 1, 0, 2, 0), MailBudget(0, 0, 0, 0, 0, 2, 1)}

PushBudget(r, e, c, f, s) ==
    [request |-> r, event |-> e, change |-> c, fail |-> f, restart |-> s]
MCPushBudgets == {
    PushBudget(3, 0, 1, 1, 1), PushBudget(3, 1, 1, 0, 0), PushBudget(2, 0, 1, 0, 1)}

\* Three messages, of one sender; the rules and what they match
MCFrom == <<s1, s1, s1>>
MCActs == [r \in RuleIds |-> IF r = f1 THEN <<"move", "flag">> ELSE <<"flag">>]
MCHits == ({f1} \X {1, 2}) \cup ((RuleIds \ {f1}) \X {2})

\* Two addresses that differ in case, and a file that has both
MCLower == [e \in Emails |-> IF e = e2 THEN e1 ELSE e]
MCCard == <<e1, e2>>

\* A day has two instants, an even and an odd one.
Time(at_, form) == [at |-> at_, form |-> form]
MCTexts == {Time(2, "date"), Time(4, "date"), Time(3, "local"), Time(3, "zulu"),
             Time(2, "millis"), Time(5, "zulu")}
CalRule == [every |-> 1, count |-> 4]
MCRules == {CalRule}
MCSourceUids == {f1}
MCTemplates == {s1}
CalEvent(from, to, rule) == [start |-> from, end |-> to, rule |-> rule, uid |-> f1]
MCFiles == {<<CalEvent(Time(2, "date"), None, None),
               CalEvent(Time(3, "zulu"), Time(5, "zulu"), CalRule)>>}
MCWindows == {<<Time(2, "local"), Time(3, "local")>>, <<Time(3, "local"), Time(7, "local")>>,
               <<Time(4, "local"), Time(5, "local")>>}

MCDates == {s1}
MCPictures == {f1}
MCFolderNames == {s1} \cup Creds
MCFiledUids == {1}

\* A message of a folder, one of a nested folder of deleted mail, one of the
\* folder of deleted mail; and what they say
MCKeys == Emails
MCExcluded == Emails \ {e1}
MCTopLevel == Emails \ {e1, e2}
MCWords == {e1, e2}
MCContents == {s1, f1}
MCInHead == s1 :> {e1} @@ f1 :> {e2}
MCInBody == s1 :> {e1, e2} @@ f1 :> {}
MCDate == s1 :> 1 @@ f1 :> 2
MCFilters == {{s1, f1}, {s1}}

\* Syncs, messages opened, batches of bodies, searches, changes of the mailbox
SearchBudget(s, o, d, q, m) ==
    [sync |-> s, open |-> o, deep |-> d, search |-> q, mail |-> m]
MCSearchBudgets == {
    SearchBudget(2, 0, 0, 1, 2), SearchBudget(1, 0, 1, 1, 2), SearchBudget(2, 1, 0, 1, 1)}

\* Moves, deletions, sizes, quotas and lists asked for, cuts, marks by other clients
CallBudget(m, e, s, q, l, c, k) ==
    [move |-> m, expunge |-> e, size |-> s, quota |-> q, list |-> l, cut |-> c, mark |-> k]
MCCallBudgets == {
    CallBudget(1, 1, 0, 0, 0, 0, 1), CallBudget(2, 0, 0, 0, 0, 0, 0),
    CallBudget(1, 0, 0, 1, 1, 1, 0), CallBudget(0, 0, 1, 1, 1, 0, 0),
    CallBudget(0, 1, 1, 0, 0, 1, 0), CallBudget(0, 0, 0, 0, 3, 0, 0)}

MCUids == {1, 2}

-----------------------------------------------------------------------------

\* No value of these sets is told from another.
Symmetry == Permutations(Tasks) \cup Permutations(Requests) \cup Permutations(Creds)

=============================================================================
