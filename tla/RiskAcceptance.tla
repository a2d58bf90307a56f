---------------------------- MODULE RiskAcceptance ----------------------------
(***************************************************************************)
(* Full risk acceptance in one engagement: acceptances with an expiration  *)
(* date, the pages that create and change them, and the periodic task that *)
(* warns and expires (dojo/risk_acceptance/helper.py).  The task reads its *)
(* acceptances and their findings once and works through the list while    *)
(* users go on.  Requests are atomic here.                                 *)
(***************************************************************************)
EXTENDS FindingStatus, Integers

CONSTANTS
    Findings,
    MaxAcceptances,     \* bounds the acceptances created; keys are not reused
    MaxDays,            \* bounds how far ahead expiration dates lie
    FormDates,          \* the dates users give, as days from now; None for none
    ReactivateChoices,  \* what users choose for reactivate_expired
    None,
    HeadsUpDays,        \* risk_acceptance_notify_before_expiration
    DefaultDays,        \* risk_acceptance_form_default_days
    Jira                \* does the engagement post expirations to JIRA?

ASSUME DaysAssumption ==
    /\ MaxAcceptances \in Nat /\ MaxDays \in Nat \ {0}
    /\ HeadsUpDays \in Nat /\ DefaultDays \in 0..MaxDays
ASSUME NoneAssumption == None \notin -1..MaxDays /\ None \notin Status
ASSUME FormAssumption ==
    /\ FormDates \subseteq -1..MaxDays \cup {None}
    /\ ReactivateChoices \subseteq BOOLEAN
ASSUME JiraAssumption == Jira \in BOOLEAN

VARIABLES
    next_id,
    row,                \* row[f]: the status of the finding
    risk_acceptance,    \* risk_acceptance[r]: its columns, None when deleted
    accepted_findings,  \* accepted_findings[r]: the many-to-many table
    engagement,         \* the acceptances linked to the engagement
    handler,            \* the run of expiration_handler: stage and what it read
    warned              \* warned[r]: warnings since r was made or reinstated

vars == <<next_id, row, risk_acceptance, accepted_findings, engagement,
          handler, warned>>

Ids == 1..MaxAcceptances

\* days from now: -1 is the past, None is no date
Days == -1..MaxDays
Dates == Days \cup {None}

Columns ==
    [expiration_date : Dates,
     expiration_date_warned : BOOLEAN,
     expiration_date_handled : BOOLEAN,
     reactivate_expired : BOOLEAN]

ASSUME ColumnsAssumption == None \notin Columns

Existing == {r \in Ids : risk_acceptance[r] /= None}

Idle == [stage |-> "idle", todo |-> {}]

Init ==
    /\ next_id = 1
    /\ row \in [Findings -> {created(s) : s \in
          {x \in Status : /\ x.active /\ x.verified /\ ~x.false_p /\ ~x.out_of_scope
                          /\ ~x.is_mitigated /\ ~x.mitigated /\ ~x.risk_accepted
                          /\ ~x.duplicate /\ ~x.linked}}]
    /\ risk_acceptance = [r \in Ids |-> None]
    /\ accepted_findings = [r \in Ids |-> {}]
    /\ engagement = {}
    /\ handler = Idle
    /\ warned = [r \in Ids |-> 0]

-----------------------------------------------------------------------------
\* the findings of fs saved with new(status), from the copies in rows
Saved(rows, fs, new(_)) ==
    row' = [f \in Findings |-> IF f \in fs THEN saved(rows[f], new(rows[f]), {}) ELSE row[f]]

Accepted(s) == [s EXCEPT !.active = FALSE, !.risk_accepted = TRUE]
Unaccepted(s) == [s EXCEPT !.active = TRUE, !.risk_accepted = FALSE]

\* Writes all columns.  The row of an acceptance that is gone is inserted again.
Save(r, columns) == risk_acceptance' = [risk_acceptance EXCEPT ![r] = columns]

Create(r, columns, fs) ==
    /\ r = next_id /\ r \in Ids /\ fs /= {}
    /\ next_id' = r + 1
    /\ Save(r, columns)
    /\ accepted_findings' = [accepted_findings EXCEPT ![r] = fs]
    /\ engagement' = engagement \cup {r}

New(date, reactivate) ==
    [expiration_date |-> date, expiration_date_warned |-> FALSE,
     expiration_date_handled |-> FALSE, reactivate_expired |-> reactivate]

Acceptable(f) == ~row[f].duplicate \/ row[f].risk_accepted

\* The page offers findings that are neither duplicates nor accepted; the form
\* takes what was so when the page was drawn, and stores all of it as members.
add_risk_acceptance ==
    /\ \E fs \in SUBSET Findings, date \in FormDates, reactivate \in ReactivateChoices :
        /\ Create(next_id, New(date, reactivate), fs)
        /\ Saved(row, {f \in fs : Acceptable(f)}, Accepted)
    /\ UNCHANGED <<handler, warned>>

\* an UPDATE of two columns, without the signal
accept_risks ==
    /\ \E fs \in SUBSET {f \in Findings : /\ row[f].active /\ row[f].verified
                                          /\ ~row[f].duplicate /\ ~row[f].risk_accepted} :
        /\ Create(next_id, New(None, TRUE), fs)
        /\ row' = [f \in Findings |-> IF f \in fs THEN Accepted(row[f]) ELSE row[f]]
    /\ UNCHANGED <<handler, warned>>

add_findings_to_risk_acceptance(r) ==
    /\ \E fs \in SUBSET Findings \ {{}} :
        LET taken == {f \in fs : Acceptable(f)}
        IN  /\ Saved(row, taken, Accepted)
            /\ accepted_findings' = [accepted_findings EXCEPT ![r] = @ \cup taken]
    /\ UNCHANGED <<next_id, risk_acceptance, engagement, handler, warned>>

\* the finding is no longer looked for in the acceptance
remove_finding_from_risk_acceptance(r) ==
    /\ \E f \in Findings :
        /\ accepted_findings' = [accepted_findings EXCEPT ![r] = @ \ {f}]
        /\ Saved(row, {f}, Unaccepted)
    /\ UNCHANGED <<next_id, risk_acceptance, engagement, handler, warned>>

\* the findings are only queried after the members have been cleared
delete_clears_first(r) ==
    /\ UNCHANGED row
    /\ accepted_findings' = [accepted_findings EXCEPT ![r] = {}]
    /\ engagement' = engagement \ {r}
    /\ risk_acceptance' = [risk_acceptance EXCEPT ![r] = None]
    /\ UNCHANGED <<next_id, handler, warned>>

delete(r) ==
    /\ Saved(row, accepted_findings[r], Unaccepted)
    /\ accepted_findings' = [accepted_findings EXCEPT ![r] = {}]
    /\ engagement' = engagement \ {r}
    /\ risk_acceptance' = [risk_acceptance EXCEPT ![r] = None]
    /\ UNCHANGED <<next_id, handler, warned>>

\* handled is left alone
Reinstated_still_handled(columns) ==
    [columns EXCEPT
        !.expiration_date = IF columns.expiration_date_handled THEN DefaultDays ELSE @,
        !.expiration_date_warned = FALSE]

\* the date a user has just chosen gives way when the acceptance had expired
Reinstated(columns) ==
    [columns EXCEPT
        !.expiration_date = IF columns.expiration_date_handled THEN DefaultDays ELSE @,
        !.expiration_date_handled = FALSE, !.expiration_date_warned = FALSE]

reinstate(r, columns) ==
    /\ Save(r, Reinstated(columns))
    /\ Saved(row, IF columns.expiration_date_handled
                  THEN {f \in accepted_findings[r] : row[f].active} ELSE {}, Accepted)
    /\ warned' = [warned EXCEPT ![r] = 0]
    /\ UNCHANGED <<next_id, accepted_findings, engagement, handler>>

edit_risk_acceptance(r) ==
    \E date \in FormDates, reactivate \in ReactivateChoices :
        LET columns == [risk_acceptance[r] EXCEPT !.expiration_date = date,
                                                  !.reactivate_expired = reactivate]
        IN  IF date /= risk_acceptance[r].expiration_date
            THEN reinstate(r, columns)
            ELSE /\ Save(r, columns)
                 /\ UNCHANGED <<next_id, row, accepted_findings, engagement, handler, warned>>

\* r as the caller has read it: its columns and the rows of its findings
expire_now(r, columns, rows) ==
    /\ Saved(rows, {f \in DOMAIN rows : columns.reactivate_expired /\ ~rows[f].active}, Unaccepted)
    /\ Save(r, [columns EXCEPT !.expiration_date = 0, !.expiration_date_handled = TRUE])

expire_risk_acceptance(r) ==
    /\ expire_now(r, risk_acceptance[r], [f \in accepted_findings[r] |-> row[f]])
    /\ UNCHANGED <<next_id, accepted_findings, engagement, handler, warned>>

\* the pages of the engagement and of the acceptances it lists
Pages ==
    \/ add_risk_acceptance \/ accept_risks
    \/ \E r \in engagement :
        \/ add_findings_to_risk_acceptance(r) \/ remove_finding_from_risk_acceptance(r)
        \/ delete(r) \/ edit_risk_acceptance(r) \/ reinstate(r, risk_acceptance[r])
        \/ expire_risk_acceptance(r)

-----------------------------------------------------------------------------
(* expiration_handler *)

\* what was due before today is forgotten
Expired_today(c) ==
    /\ c.expiration_date /= None /\ ~c.expiration_date_handled
    /\ c.expiration_date = 0

Expired(c) ==
    /\ c.expiration_date /= None /\ ~c.expiration_date_handled
    /\ c.expiration_date <= 0

\* does not look at expiration_date_warned
AlmostExpired_again(c) ==
    /\ c.expiration_date /= None /\ ~c.expiration_date_handled
    /\ c.expiration_date <= HeadsUpDays /\ c.expiration_date >= 0

AlmostExpired(c) ==
    /\ c.expiration_date /= None /\ ~c.expiration_date_handled
    /\ ~c.expiration_date_warned
    /\ c.expiration_date <= HeadsUpDays /\ c.expiration_date >= 0

\* prefetch_for_expiration: everything is read at once
Read(r, fs) == [id |-> r, columns |-> risk_acceptance[r], rows |-> [f \in fs |-> row[f]],
                linked |-> r \in engagement]

\* none or one run at a time: it is started every three hours
handler_starts ==
    /\ handler.stage = "idle"
    /\ handler' = [stage |-> "expiring",
                   todo |-> {Read(r, accepted_findings[r]) :
                                r \in {x \in Existing : Expired(risk_acceptance[x])}}]
    /\ UNCHANGED <<next_id, row, risk_acceptance, accepted_findings, engagement, warned>>

\* Without an engagement the text of the notification raises: the run ends.
Continue(t) == handler' = IF t.linked THEN [handler EXCEPT !.todo = @ \ {t}] ELSE Idle

handler_expires ==
    /\ handler.stage = "expiring"
    /\ \E t \in handler.todo :
        /\ expire_now(t.id, t.columns, t.rows)
        /\ Continue(t)
    /\ UNCHANGED <<next_id, accepted_findings, engagement, warned>>

handler_reads ==
    /\ handler.stage = "expiring" /\ handler.todo = {}
    /\ handler' = IF HeadsUpDays = 0 THEN Idle
                  ELSE [stage |-> "warning",
                        todo |-> {Read(r, {}) : r \in
                                    {x \in Existing : AlmostExpired(risk_acceptance[x])}}]
    /\ UNCHANGED <<next_id, row, risk_acceptance, accepted_findings, engagement, warned>>

\* The comment for JIRA is made with the wrong arguments and raises, after the
\* notification and before the warning is recorded.
handler_warns ==
    /\ handler.stage = "warning"
    /\ \E t \in handler.todo :
        /\ warned' = IF t.linked /\ warned[t.id] < 2 THEN [warned EXCEPT ![t.id] = @ + 1]
                     ELSE warned
        /\ IF Jira \/ ~t.linked
           THEN handler' = Idle /\ UNCHANGED risk_acceptance
           ELSE /\ Save(t.id, [t.columns EXCEPT !.expiration_date_warned = TRUE])
                /\ Continue(t)
    /\ UNCHANGED <<next_id, row, accepted_findings, engagement>>

handler_ends ==
    /\ handler.stage = "warning" /\ handler.todo = {}
    /\ handler' = Idle
    /\ UNCHANGED <<next_id, row, risk_acceptance, accepted_findings, engagement, warned>>

expiration_handler ==
    \/ handler_starts \/ handler_expires \/ handler_reads \/ handler_warns \/ handler_ends

-----------------------------------------------------------------------------
(* Other pages and tasks that take a finding out of the state its acceptance *)
(* has put it in (FindingLifecycle has all of them).                         *)

Reopen(f) ==
    Saved(row, {f}, LAMBDA s : [s EXCEPT !.active = TRUE, !.is_mitigated = FALSE,
                                         !.mitigated = FALSE])

set_duplicate(f) ==
    Saved(row, {f}, LAMBDA s : [s EXCEPT !.active = FALSE, !.verified = FALSE,
                                         !.duplicate = TRUE, !.linked = TRUE])

\* the box of the edit form: risk_unaccept does not run
Untick(f) ==
    /\ row[f].risk_accepted
    /\ \E a \in BOOLEAN :
        Saved(row, {f}, LAMBDA s : [s EXCEPT !.active = a, !.risk_accepted = FALSE])

risk_unaccept(f) ==
    /\ row[f].risk_accepted
    /\ Saved(row, {f}, LAMBDA s :
          [s EXCEPT !.risk_accepted = FALSE,
                    !.active = @ \/ ~(s.mitigated \/ s.false_p \/ s.out_of_scope)])
    /\ accepted_findings' = [r \in Ids |-> accepted_findings[r] \ {f}]

FindingPages ==
    /\ \E f \in Findings :
        \/ /\ Reopen(f) \/ set_duplicate(f) \/ Untick(f)
           /\ UNCHANGED accepted_findings
        \/ risk_unaccept(f)
    /\ UNCHANGED <<next_id, risk_acceptance, engagement, handler, warned>>

\* midnight; the run of the handler is over by then
NextDay ==
    /\ handler = Idle
    /\ risk_acceptance' = [r \in Ids |->
          IF r \in Existing /\ risk_acceptance[r].expiration_date \in 0..MaxDays
          THEN [risk_acceptance[r] EXCEPT !.expiration_date = @ - 1]
          ELSE risk_acceptance[r]]
    /\ UNCHANGED <<next_id, row, accepted_findings, engagement, handler, warned>>

Next == Pages \/ FindingPages \/ expiration_handler \/ NextDay

\* celery beat starts the handler again and again, and its steps follow
Spec == Init /\ [][Next]_vars /\ WF_vars(expiration_handler)

-----------------------------------------------------------------------------
TypeOK ==
    /\ next_id \in Nat \ {0}
    /\ row \in [Findings -> Status]
    /\ risk_acceptance \in [Ids -> Columns \cup {None}]
    /\ accepted_findings \in [Ids -> SUBSET Findings]
    /\ engagement \subseteq Existing
    /\ \A r \in Ids \ Existing : accepted_findings[r] = {}
    /\ handler.stage \in {"idle", "expiring", "warning"}
    /\ warned \in [Ids -> 0..2]

\* With simple acceptance off, every accepted finding is in some acceptance
\* where it can be found, expires or can be removed: whatever is deleted,
\* expired or unaccepted meanwhile.
AcceptedIsMember ==
    \A f \in Findings : row[f].risk_accepted => \E r \in Existing : f \in accepted_findings[r]

\* An acceptance shown as expired does not lie in the future, where it would
\* never expire again.
HandledIsPast ==
    \A r \in Existing :
        risk_acceptance[r].expiration_date_handled =>
            risk_acceptance[r].expiration_date \in {-1, 0}

\* "This notification is 1 per risk acceptance": until a user reinstates it.
WarnedOnce == \A r \in Ids : warned[r] <= 1

\* What is past its date is expired, moved or deleted in the end, though
\* acceptances without an engagement end runs of the handler.
ExpiryHandled ==
    \A r \in Ids :
        LET due == /\ risk_acceptance[r] /= None
                   /\ risk_acceptance[r].expiration_date \in {-1, 0}
                   /\ ~risk_acceptance[r].expiration_date_handled
        IN  due ~> ~due

=============================================================================
