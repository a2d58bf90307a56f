------------------------------- MODULE JiraSync -------------------------------
(***************************************************************************)
(* Findings, finding groups and their JIRA issues (dojo/jira_link): pages  *)
(* queue pushes, celery workers carry them out call by call, JIRA users    *)
(* change issues, JIRA sends a webhook for every update of an issue, and   *)
(* the command jira_status_reconciliation repairs what got lost.           *)
(* A page, a webhook and one round of the command's loop are one step; a   *)
(* push is one step per call to JIRA or to the database.                   *)
(***************************************************************************)
EXTENDS FindingStatus, Integers, Sequences, SequencesExt, FiniteSets

CONSTANTS
    Findings, Groups,
    Workers,
    Groupings,          \* how findings may be grouped at first
    MaxIssues,          \* bounds the issues ever created in JIRA
    MaxDecisions,       \* bounds what users of either side decide
    JiraResolutions,    \* the resolutions users of JIRA choose from
    None

Open == "unresolved"
IssueIds == 1..MaxIssues
Objects == Findings \cup Groups

ASSUME JiraAssumption ==
    /\ MaxIssues \in Nat \ {0} /\ MaxDecisions \in Nat
    /\ JiraResolutions \subseteq {"done", "accepted", "false positive"}
    /\ Findings \cap Groups = {}
    /\ Groupings \subseteq [Findings -> Groups \cup {None}]

ASSUME NoneAssumption ==
    /\ None \notin IssueIds /\ None \notin {"import", "push"}
    /\ None \notin [resolution : JiraResolutions \cup {Open, "done"}, updated : Nat]

VARIABLES
    finding,        \* the row: status fields and three dates
    group,          \* Finding_Group.findings
    link,           \* JIRA_Issue: the issue of a finding or group
    change,         \* JIRA_Issue.jira_change
    issue,          \* JIRA's own state
    webhooks,       \* events sent by JIRA and not yet received
    queue,          \* tasks no worker has taken
    job,            \* what each worker is doing
    command,        \* the run of jira_status_reconciliation
    clock,
    decisions,
    reliable        \* nothing is lost or overtaken, no worker fails, and users
                    \* leave the links and the command alone

vars == <<finding, group, link, change, issue, webhooks, queue, job, command,
          clock, decisions, reliable>>

\* the date of a step that happens now; 0 is no date
Now == clock + 1

Members(o) == IF o \in Findings THEN {o} ELSE {f \in Findings : group[f] = o}

Created == {i \in IssueIds : issue[i] /= None}

Reported == created([active |-> TRUE, verified |-> TRUE, false_p |-> FALSE,
                     out_of_scope |-> FALSE, is_mitigated |-> FALSE,
                     mitigated |-> FALSE, risk_accepted |-> FALSE,
                     duplicate |-> FALSE, linked |-> FALSE])

Idle == [stage |-> "idle"]
Done == [stage |-> "done"]

\* One object may be linked to an issue already, and is in a reliable world.
Init ==
    /\ finding = [f \in Findings |->
                    [s |-> Reported, last_status_update |-> 1, last_reviewed |-> 0, mitigated |-> 0]]
    /\ group \in Groupings
    /\ reliable \in BOOLEAN
    /\ change = [o \in Objects |-> 0]
    /\ \E os \in (IF reliable THEN {} ELSE {{}}) \cup {{o} : o \in Objects} :
        /\ \A o \in os : Members(o) /= {} /\ (o \in Findings => group[o] = None)
        /\ link = [o \in Objects |-> IF o \in os THEN 1 ELSE None]
        /\ issue = [i \in IssueIds |-> IF os /= {} /\ i = 1
                                       THEN [resolution |-> Open, updated |-> 1] ELSE None]
    /\ webhooks = <<>> /\ queue = {} /\ command = Done
    /\ job = [w \in Workers |-> Idle]
    /\ clock = 1 /\ decisions = 0

-----------------------------------------------------------------------------
(* Saving findings *)

\* what save() stores for a row loaded as old: the signal's fields and dates
Saved(old, new, touched) ==
    LET s == saved(old.s, new.s, touched)
        at == IF ~s.mitigated THEN 0
                 ELSE IF new.mitigated /= 0 THEN new.mitigated ELSE Now
    IN  [new EXCEPT !.s = s, !.mitigated = at,
                    !.last_status_update =
                        IF changed_fields(old.s, new.s) \cup touched = {} THEN @ ELSE Now]

Reopened(s) == [s EXCEPT !.active = TRUE, !.mitigated = FALSE, !.is_mitigated = FALSE]

Unaccepted(s) ==
    IF s.risk_accepted
    THEN [s EXCEPT !.risk_accepted = FALSE, !.active = @ \/ ~(s.mitigated \/ s.false_p \/ s.out_of_scope)]
    ELSE s

\* process_resolution_from_jira: the new row, or the old one when the issue
\* tells nothing new; date: when JIRA says the issue was updated
Processed(old, resolution, date) ==
    LET s == old.s
        Put(new, at, touched) == Saved(old, [old EXCEPT !.s = new, !.mitigated = at], touched)
    IN  CASE resolution = "accepted" /\ ~s.risk_accepted ->
               Put([s EXCEPT !.active = FALSE, !.mitigated = FALSE, !.is_mitigated = FALSE,
                             !.false_p = FALSE, !.risk_accepted = ~s.duplicate], 0, {})
          [] resolution = "false positive" /\ ~s.false_p ->
               Put(Unaccepted([s EXCEPT !.active = FALSE, !.verified = FALSE, !.false_p = TRUE,
                                        !.mitigated = FALSE, !.is_mitigated = FALSE]), 0, {})
          [] resolution = "done" /\ ~s.is_mitigated ->
               Put(Unaccepted([s EXCEPT !.active = FALSE, !.mitigated = TRUE,
                                        !.is_mitigated = TRUE, !.false_p = FALSE]),
                   date, {"mitigated", "mitigated_by"})
          [] resolution = Open /\ ~s.active ->
               Put(Unaccepted([Reopened(s) EXCEPT !.false_p = FALSE]), 0, {})
          [] OTHER -> old

-----------------------------------------------------------------------------
(* JIRA *)

Event(i, resolution) == [issue |-> i, resolution |-> resolution, updated |-> Now]

\* JIRA stores an update and announces it
Update(i, resolution) ==
    /\ issue' = [issue EXCEPT ![i] = [resolution |-> resolution, updated |-> Now]]
    /\ webhooks' = Append(webhooks, Event(i, resolution))
    /\ clock' = Now

Decide == decisions < MaxDecisions /\ decisions' = decisions + 1

\* a user of JIRA resolves or reopens the issue, or edits another field of it
JiraUser(i) ==
    /\ Decide /\ i \in Created
    /\ \E r \in {Open, issue[i].resolution}
                 \cup (IF issue[i].resolution = Open THEN JiraResolutions ELSE {}) :
        Update(i, r)
    /\ UNCHANGED <<finding, group, link, change, queue, job, command, reliable>>

Without(seq, i) == SubSeq(seq, 1, i - 1) \o SubSeq(seq, i + 1, Len(seq))

\* The webhook view.  Events for an issue that is not linked end in a 404.
webhook(i) ==
    /\ i \in DOMAIN webhooks /\ (reliable => i = 1)
    /\ webhooks' = Without(webhooks, i)
    /\ LET e == webhooks[i]
           linked == {o \in Objects : link[o] = e.issue}
           After(f) == Processed(finding[f], e.resolution, e.updated)
       IN  \/ /\ Cardinality(linked) /= 1
              /\ UNCHANGED <<finding, change, clock>>
           \/ /\ \E o \in Objects :
                  /\ linked = {o}
                  /\ finding' = [f \in Findings |-> IF f \in Members(o) THEN After(f) ELSE finding[f]]
                  /\ change' = IF Members(o) = {} THEN change ELSE [change EXCEPT ![o] = e.updated]
              /\ clock' = IF finding' = finding THEN clock ELSE Now
    /\ UNCHANGED <<group, link, issue, queue, job, command, decisions, reliable>>

Lose(i) ==
    /\ ~reliable /\ i \in DOMAIN webhooks
    /\ webhooks' = Without(webhooks, i)
    /\ UNCHANGED <<finding, group, link, change, issue, queue, job, command, clock,
                   decisions, reliable>>

-----------------------------------------------------------------------------
(* Pages *)

Post(f) == [kind |-> "post", obj |-> f]

\* push_to_jira chooses between adding and updating when it queues the task
push_to_jira(o) == [kind |-> IF link[o] = None THEN "add" ELSE "update", obj |-> o]

\* forgets the groups
Pushed_findings_only(f) ==
    IF group[f] = None /\ link[f] /= None THEN {Post(f)} ELSE {}

\* Pages push on their own only what has an issue: the group if the finding is
\* in one, and the finding once it is saved otherwise.
Pushed(f) ==
    LET g == group[f] IN
    IF link[f] = None /\ (g = None \/ link[g] = None) THEN {}
    ELSE IF g = None THEN {Post(f)} ELSE {push_to_jira(g)}

Page(f, row, tasks) ==
    /\ Decide
    /\ finding' = [finding EXCEPT ![f] = row]
    /\ queue' = queue \cup tasks
    /\ clock' = Now
    /\ UNCHANGED <<group, link, change, issue, webhooks, job, command, reliable>>

close_finding(f, fp) ==
    LET old == finding[f]
        new == [old EXCEPT !.s.active = FALSE, !.s.mitigated = TRUE, !.s.is_mitigated = TRUE,
                           !.s.false_p = fp, !.s.duplicate = FALSE,
                           !.mitigated = Now, !.last_reviewed = Now]
    IN  old.s.active /\ Page(f, Saved(old, new, {"mitigated", "mitigated_by"}), Pushed(f))

reopen_finding(f) ==
    LET old == finding[f]
        new == [old EXCEPT !.s = Reopened(old.s), !.mitigated = 0, !.last_reviewed = 0]
    IN  ~old.s.active /\ Page(f, Saved(old, new, {"mitigated_by"}), Pushed(f))

\* accepting and taking back only leave a comment on the issue
simple_risk_accept(f) ==
    LET old == finding[f]
        new == [old EXCEPT !.s.risk_accepted = TRUE, !.s.active = FALSE]
    IN  ~old.s.risk_accepted /\ old.s.active /\ Page(f, Saved(old, new, {}), {})

risk_unaccept(f) ==
    LET old == finding[f]
    IN  old.s.risk_accepted /\ Page(f, Saved(old, [old EXCEPT !.s = Unaccepted(old.s)], {}), {})

\* a note or a review: no status field changes
touch_finding(f) == Page(f, [finding[f] EXCEPT !.last_reviewed = Now], {})

\* the "push to JIRA" of a finding's or a group's page
push_page(o) ==
    /\ Decide /\ Members(o) /= {}
    /\ queue' = queue \cup {push_to_jira(o)}
    /\ UNCHANGED <<finding, group, link, change, issue, webhooks, job, command, clock, reliable>>

add_to_finding_group(f, g) ==
    /\ Decide /\ group[f] = None
    /\ group' = [group EXCEPT ![f] = g]
    /\ queue' = IF link[g] = None THEN queue ELSE queue \cup {push_to_jira(g)}
    /\ UNCHANGED <<finding, link, change, issue, webhooks, job, command, clock, reliable>>

remove_from_finding_group(f) ==
    /\ Decide /\ group[f] /= None
    /\ group' = [group EXCEPT ![f] = None]
    /\ queue' = IF link[group[f]] = None THEN queue ELSE queue \cup {push_to_jira(group[f])}
    /\ UNCHANGED <<finding, link, change, issue, webhooks, job, command, clock, reliable>>

\* the edit form takes the issue away or gives another one, if no group has one
\* and no other object is linked to it
Linkable(f) == \A g \in Groups : group[f] = g => link[g] = None

finding_unlink_jira(f) ==
    /\ ~reliable /\ Decide /\ Linkable(f) /\ link[f] /= None
    /\ link' = [link EXCEPT ![f] = None]
    /\ UNCHANGED <<finding, group, change, issue, webhooks, queue, job, command, clock, reliable>>

finding_link_jira(f, i) ==
    /\ ~reliable /\ Decide /\ Linkable(f)
    /\ i \in Created /\ \A o \in Objects : link[o] /= i
    /\ link' = [link EXCEPT ![f] = i]
    /\ change' = [change EXCEPT ![f] = Now]
    /\ clock' = Now
    /\ UNCHANGED <<finding, group, issue, webhooks, queue, job, command, reliable>>

-----------------------------------------------------------------------------
(* Tasks *)

Take(t) == t \in queue /\ queue' = queue \ {t}

Step(w, from, to) == job[w].stage = from /\ job' = [job EXCEPT ![w] = to]

\* a grouped finding without an issue of its own is pushed with its group
post_process_finding_save(f) ==
    /\ Post(f) \in queue
    /\ LET o == IF link[f] /= None \/ group[f] = None THEN f ELSE group[f]
       IN  queue' = (queue \ {Post(f)}) \cup {push_to_jira(o)}
    /\ UNCHANGED <<finding, group, link, change, issue, webhooks, job, command, clock,
                   decisions, reliable>>

can_be_pushed_to_jira(o) ==
    \/ link[o] /= None
    \/ o \in Findings /\ finding[o].s.active /\ finding[o].s.verified
    \/ o \in Groups /\ \E f \in Members(o) : finding[f].s.active

\* jira.create_issue; the link is saved in a later step
add_jira_issue(w, o) ==
    /\ job[w] = Idle /\ Take([kind |-> "add", obj |-> o])
    /\ \/ /\ ~can_be_pushed_to_jira(o)
          /\ UNCHANGED <<job, issue, clock>>
       \/ /\ can_be_pushed_to_jira(o)
          /\ \E i \in IssueIds :
              /\ i = Cardinality(Created) + 1
              /\ job' = [job EXCEPT ![w] = [stage |-> "created", obj |-> o, issue |-> i]]
              /\ issue' = [issue EXCEPT ![i] = [resolution |-> Open, updated |-> Now]]
          /\ clock' = Now
    /\ UNCHANGED <<finding, group, link, change, webhooks, command, decisions, reliable>>

\* A second issue for the same object cannot be linked: the row is unique.
save_link(w) ==
    /\ Step(w, "created", Idle)
    /\ LET o == job[w].obj IN
        IF link[o] = None
        THEN /\ link' = [link EXCEPT ![o] = job[w].issue]
             /\ change' = [change EXCEPT ![o] = Now]
             /\ clock' = Now
        ELSE UNCHANGED <<link, change, clock>>
    /\ UNCHANGED <<finding, group, issue, webhooks, queue, command, decisions, reliable>>

\* the finding, with its status, is read when the task starts
update_jira_issue(w, o) ==
    /\ job[w] = Idle /\ Take([kind |-> "update", obj |-> o])
    /\ job' = IF link[o] = None THEN job
              ELSE [job EXCEPT ![w] = [stage |-> "read", obj |-> o, issue |-> link[o],
                                       row |-> IF o \in Findings THEN finding[o] ELSE None]]
    /\ UNCHANGED <<finding, group, link, change, issue, webhooks, command, clock,
                   decisions, reliable>>

\* issue.update: JIRA announces it, and the library reads the issue again
overwrite_issue(w) ==
    /\ job[w].stage = "read"
    /\ LET i == job[w].issue IN
        /\ Update(i, issue[i].resolution)
        /\ job' = [job EXCEPT ![w] = [stage |-> "updated", obj |-> @.obj, issue |-> i, row |-> @.row,
                                      resolution |-> issue[i].resolution]]
    /\ UNCHANGED <<finding, group, link, change, queue, command, decisions, reliable>>

\* one of RESOLVED_STATUS is in the status of the finding
Resolved(s) == ~s.active \/ s.mitigated \/ s.is_mitigated \/ s.false_p \/ s.duplicate

\* a group is asked when its status is pushed
ResolvedNow(j) ==
    IF j.row /= None THEN Resolved(j.row.s) ELSE \A f \in Members(j.obj) : ~finding[f].s.active

Transitioned(resolved) == [resolution |-> IF resolved THEN "done" ELSE Open, updated |-> Now]

\* A transition is made if the issue was in the other state when it was read.
\* The status of an empty group is None, which ends the task with an exception.
push_status_to_jira(w) ==
    /\ job[w].stage = "updated"
    /\ LET j == job[w] IN
        IF Members(j.obj) = {}
        THEN /\ job' = [job EXCEPT ![w] = Idle]
             /\ UNCHANGED <<issue, webhooks, clock>>
        ELSE /\ job' = [job EXCEPT ![w] = [stage |-> "pushed", obj |-> j.obj, issue |-> j.issue]]
             /\ IF ResolvedNow(j) = (j.resolution /= Open) THEN UNCHANGED <<issue, webhooks, clock>>
                ELSE Update(j.issue, Transitioned(ResolvedNow(j)).resolution)
    /\ UNCHANGED <<finding, group, link, change, queue, command, decisions, reliable>>

\* Saving the link inserts it again if it was removed; if the object has
\* another one by now, the database refuses.
save_change(w) ==
    /\ Step(w, "pushed", Idle)
    /\ LET j == job[w] IN
        IF link[j.obj] \in {None, j.issue}
        THEN /\ link' = [link EXCEPT ![j.obj] = j.issue]
             /\ change' = [change EXCEPT ![j.obj] = Now]
             /\ clock' = Now
        ELSE UNCHANGED <<link, change, clock>>
    /\ UNCHANGED <<finding, group, issue, webhooks, queue, command, decisions, reliable>>

\* JIRA cannot be reached, or the worker is killed: nothing is tried again
Fail(w) ==
    /\ ~reliable /\ job[w] /= Idle
    /\ job' = [job EXCEPT ![w] = Idle]
    /\ UNCHANGED <<finding, group, link, change, issue, webhooks, queue, command, clock,
                   decisions, reliable>>

Work(w) ==
    \/ \E o \in Objects : add_jira_issue(w, o) \/ update_jira_issue(w, o)
    \/ save_link(w) \/ overwrite_issue(w) \/ push_status_to_jira(w) \/ save_change(w)

-----------------------------------------------------------------------------
(* jira_status_reconciliation: the findings with an issue of their own, as the *)
(* query at its start returned them *)

Quiet == webhooks = <<>> /\ queue = {} /\ \A w \in Workers : job[w] = Idle

\* started at a bounded number of busy moments, and whenever it is quiet
jira_status_reconciliation ==
    /\ ~reliable /\ command = Done
    /\ IF Quiet THEN UNCHANGED decisions ELSE Decide
    /\ command' = [stage |-> "running", todo |-> {f \in Findings : link[f] /= None},
                   finding |-> finding, link |-> link, change |-> change, action |-> None]
    /\ UNCHANGED <<finding, group, link, change, issue, webhooks, queue, job, clock, reliable>>

\* a finding that was never reviewed counts as reviewed later
JiraIsNewer_reviewed_only(row, changed, updated) ==
    /\ changed < updated /\ row.last_status_update < updated
    /\ row.last_reviewed /= 0 /\ row.last_reviewed < updated

\* dates that are missing count as old
JiraIsNewer(row, changed, updated) ==
    changed < updated /\ row.last_status_update < updated /\ row.last_reviewed < updated

\* looks at the date of the link alone
DojoIsNewer_link_only(row, changed, updated) == changed > updated \/ changed = 0

DojoIsNewer(row, changed, updated) ==
    \/ changed > updated \/ changed = 0
    \/ row.last_status_update > updated
    \/ row.s.is_mitigated /\ row.mitigated > changed /\ changed /= 0

\* If neither side is newer, the action of the previous finding is repeated; if
\* there is none, the command ends with an exception.
ActionFor(row, changed, updated) ==
    CASE JiraIsNewer(row, changed, updated) -> "import"
      [] ~JiraIsNewer(row, changed, updated) /\ DojoIsNewer(row, changed, updated) -> "push"
      [] OTHER -> command.action

\* Saving the link inserts it again if it was removed.  If the finding has another
\* one by now the database refuses, which ends the command; only a finding that was
\* accepted has been saved before.
reconcile(f) ==
    /\ command.stage = "running" /\ f \in command.todo
    /\ LET row == command.finding[f]
           i == command.link[f]
           date == command.change[f]
           resolution == issue[i].resolution
           updated == issue[i].updated
           action == ActionFor(row, date, updated)
           new == Processed(row, resolution, updated)
           differ == ~row.s.risk_accepted /\ row.s.active /= (resolution = Open)
           refused == link[f] \notin {None, i}
           Next_(a) == command' = [command EXCEPT !.todo = @ \ {f}, !.action = a]
           Mark(d) == IF refused THEN command' = Done /\ UNCHANGED <<link, change>>
                      ELSE /\ Next_(action)
                           /\ change' = [change EXCEPT ![f] = d]
                           /\ link' = [link EXCEPT ![f] = i]
       IN  \/ /\ ~differ /\ Next_(command.action)
              /\ UNCHANGED <<finding, link, change, issue, webhooks, clock>>
           \/ /\ differ /\ action = "import"
              /\ finding' = IF new = row \/ (refused /\ ~new.s.risk_accepted) THEN finding
                            ELSE [finding EXCEPT ![f] = new]
              /\ Mark(updated)
              /\ clock' = Now
              /\ UNCHANGED <<issue, webhooks>>
           \/ /\ differ /\ action = "push"
              /\ IF Resolved(row.s) = (resolution /= Open)
                 THEN Next_(action) /\ UNCHANGED <<link, change, issue, webhooks, clock>>
                 ELSE /\ issue' = [issue EXCEPT ![i] = Transitioned(Resolved(row.s))]
                      /\ webhooks' = Append(webhooks, Event(i, issue'[i].resolution))
                      /\ Mark(Now + 1)
                      /\ clock' = Now + 1
              /\ UNCHANGED finding
           \/ /\ differ /\ action = None /\ command' = Done
              /\ UNCHANGED <<finding, link, change, issue, webhooks, clock>>
    /\ UNCHANGED <<group, queue, job, decisions, reliable>>

command_ends ==
    /\ command.stage = "running" /\ command.todo = {}
    /\ command' = Done
    /\ UNCHANGED <<finding, group, link, change, issue, webhooks, queue, job, clock,
                   decisions, reliable>>

-----------------------------------------------------------------------------
Pages ==
    \/ \E f \in Findings :
        \/ \E fp \in BOOLEAN : close_finding(f, fp)
        \/ reopen_finding(f) \/ simple_risk_accept(f) \/ risk_unaccept(f) \/ touch_finding(f)
        \/ remove_from_finding_group(f) \/ finding_unlink_jira(f)
        \/ \E i \in IssueIds : finding_link_jira(f, i)
        \/ \E g \in Groups : add_to_finding_group(f, g)
    \/ \E o \in Objects : push_page(o)

Jira == \E i \in IssueIds : JiraUser(i)

Deliver == \E i \in DOMAIN webhooks : webhook(i) \/ Lose(i)

Tasks == \/ \E f \in Findings : post_process_finding_save(f)
         \/ \E w \in Workers : Work(w) \/ Fail(w)

Command == jira_status_reconciliation \/ command_ends \/ \E f \in Findings : reconcile(f)

Next == Pages \/ Jira \/ Deliver \/ Tasks \/ Command

Spec == Init /\ [][Next]_vars

\* Workers keep working, JIRA delivers or gives up, cron starts the command.
FairSpec ==
    /\ Spec
    /\ \A f \in Findings : WF_vars(post_process_finding_save(f))
    /\ \A w \in Workers : WF_vars(Work(w))
    /\ WF_vars(Deliver) /\ WF_vars(Command)

-----------------------------------------------------------------------------
(* Properties *)

\* The two sides agree on what is open; accepted findings are not compared.
Agree(o) ==
    \/ \E f \in Members(o) : finding[f].s.risk_accepted
    \/ (\E f \in Members(o) : finding[f].s.active) = (issue[link[o]].resolution = Open)

\* The objects that were linked at first.
Linked(o) == link[o] = 1 /\ Members(o) /= {}

\* No finding of these has an issue of its own while it is in a group: pages push
\* such a finding with its group only, and nothing pushes its own issue.
NotPushedTwice ==
    \A o \in Objects : Linked(o) => \A f \in Members(o) : link[f] /= None => group[f] = None

\* "DefectDojo will try to keep the status in sync with the status in JIRA": if
\* webhooks arrive once and in order, no worker fails and users leave the links
\* alone, then whatever users of both sides decided and however late pushes and
\* webhooks are, in the end an object and the issue it was linked to at first are
\* both open or both closed, unless a finding had both its own issue and a group.
Converges ==
    reliable /\ []NotPushedTwice => <>[](\A o \in Objects : Linked(o) => Agree(o))

\* A review is the last that happened to f in DefectDojo.  The command takes neither side for
\* the newer one then.
Reviewed(f) == finding[f].last_reviewed > finding[f].last_status_update

\* "Sometimes JIRA is down, or Defect Dojo is down": lost or reordered webhooks
\* and failed pushes are repaired by running the command again and again.
Heals == <>[](\A f \in Findings : ~reliable /\ link[f] /= None /\ ~Reviewed(f) => Agree(f))

\* "reconcile any differences in status between Defect Dojo and JIRA": what the
\* command has been through agrees, unless it changed after the query.
ReconcileSettles ==
    [][\A f \in Findings :
        /\ command.stage = "running" /\ reconcile(f)
        /\ command.finding[f] = finding[f] /\ command.link[f] = link[f]
        /\ command.change[f] = change[f] /\ ~Reviewed(f)
        => Agree(f)']_vars
=============================================================================
