# DefectDojo in TLA+

DefectDojo collects the findings of security scanners. What it promises is about
findings over time: the same vulnerability is one finding and its duplicates, a
decision of a user outlives the next scan, what a scan no longer sees is closed,
an accepted risk comes back when the acceptance expires. This directory models
the code that keeps those promises, checks it with TLC, and proves the most
important parts with TLAPS. Paths below are relative to the repository's `src/`;
`PROJECT.json` maps every definition to the lines it stands for.

1. [The system](#1-the-system)
2. [The modules](#2-the-modules)
3. [The runs](#3-the-runs)
4. [The proofs](#4-the-proofs)
5. [Where code and documentation disagree](#5-where-code-and-documentation-disagree)
6. [What is assumed and what is left out](#6-what-is-assumed-and-what-is-left-out)
7. [Plan](#7-plan)

## 1. The system

A Django application serves pages and a REST API from several processes. Celery
workers run tasks taken from a queue in no particular order; celery beat starts
periodic tasks. All of them share one relational database and nothing else.
Three facts make the code hard:

- **Requests save whole rows.** `Model.save()` writes all columns of a row that was
  read earlier. There are no locks or version columns: the last writer wins, with
  what it read.
- **A pre-save signal keeps the fields of a finding together.**
  `update_finding_status` (`dojo/finding/helper.py:72`) runs when one of a list of
  fields *changed between the load and the save of this request*. Handlers rely on
  it and set only part of the fields.
- **Tasks run late.** Saving a finding queues its deduplication; by the time it runs
  the finding may be a duplicate, have duplicates, be closed or deleted. Periodic
  tasks work through lists read at their start.

### Components

| Component | State | Operations | What is hard | What makes it correct |
|---|---|---|---|---|
| Deduplication and clusters (`dojo/utils.py`, `finding/helper.py`, `finding/views.py`) | `duplicate`, `duplicate_finding` of findings; the dedupe queue | four matching algorithms, `set_duplicate`, reopen; mark, reset, set as original; deletion with an heir; removal of excess duplicates | order of tasks; findings that have duplicates become duplicates; several workers; a worker that dies; pages acting on what they showed earlier; deletion of part of a cluster | one original per cluster, clusters inside their scope, no open issue hidden or forgotten, nothing equal left apart |
| Repair (`fix_loop_duplicates`, `manage.py dedupe`) | chains and loops of duplicates | rewire recursively, deduplicate again | termination; what crashed tasks leave | no chain left, no cluster cut |
| Finding status (`finding/helper.py`, `finding/views.py`, `api_v2`) | nine status fields of a row | close, reopen, review, edit, bulk edit, risk decision, duplicate actions, API calls; the signal | overlapping requests; changes of several fields at once; saves that bypass the signal | the fields agree with one another |
| Reimport (`importers/reimporter`) | findings of a test; lists of one upload | match, reactivate, close, create; close what is left | items that match the same finding; rows saved from a snapshot; chunks in parallel | what the report has is not closed, what it lacks is, decisions survive |
| Import (`importers/importer`) | tests, findings of earlier tests | create findings in two saves, close old ones | overlapping imports; chunks in tasks; whole rows from one query; half-created findings | as for reimport, across tests |
| Endpoint status (`importers/reimporter/utils.py`, `endpoint/views.py`) | mitigation per finding and endpoint | mitigate, reactivate, add, in chunks; pages | copies pickled into tasks; few and empty chunks; users between | agrees with the last report |
| False positive history (`dojo/utils.py`) | `false_p` over a product | mark after a save, mark backwards, unmark | tasks late and side by side, copies saved one by one | equal findings agree |
| Risk acceptance (`risk_acceptance/helper.py`, `engagement/views.py`) | acceptances, their members, dates and marks | add, edit, remove, reinstate, expire, delete; periodic handler | handler working on stale copies; a run that fails half way | no accepted finding without acceptance; one warning; expiry in the end |
| JIRA and finding groups (`jira_link`, `finding_group`) | issue links, last change; groups and members | push tasks, webhooks, reconciliation, group edits | late, repeated, lost and circular events; mixed groups | both sides agree in the end |
| Authorization (`authorization`, `*/queries.py`, `group`) | roles of users and groups on types, products and groups; global roles | every page and call that changes roles; the check; the lists | two implementations of the same question; inheritance; roles moved and inherited | lists agree with the check, one role per pair, nobody gives what he has not |
| Asynchronous deletion (`async_delete`) | objects being deleted | crawl, delete in chunks | parents and children in different tasks | clusters survive |
| SonarQube updater | status at the source | periodic pull | failing in the middle | findings follow the source |
| Engagements (`tasks.py`) | status, dates | close, reopen, auto-close | query evaluated twice | what is closed was announced |
| Notifications, alerts | alerts per user | deliver, cap | concurrent creation | cap kept |
| SLA, grading | derived | notify, grade | dates at the boundary | monotone in findings |
| Settings and caches | cached per process | read, write | stale copies | – |
| API, filters, reports, parsers, UI, deployment | – | – | – | out of scope |

The dedupe task, the pages, the importers, the risk acceptance handler, the false
positive history and JIRA all write the same findings. They meet in two places: the
status row (and its signal), and the duplicate relation. With the false positive
history switched on deduplication is off, so those two never meet.

`PROJECT.json` lists the hazards of this code line by line, each with the
properties that watch it. Where none does (what breaks in the code as it is, what a run's
switches leave out, the progress of a test), a note says why.

## 2. The modules

```
FindingStatus ──┬── FindingLifecycle ─── FindingLifecycleProofs
                ├── Reimport ─────────── ReimportProofs
                ├── RiskAcceptance ───── RiskAcceptanceProofs
                ├── JiraSync ─────────── JiraSyncProofs
                └── Import ── FalsePositiveHistory ── FalsePositiveHistoryProofs
ClusterPartition (abstract)
     ↑ refined by
DuplicateClusters ──┬── DuplicateClustersProofs
                    └── DedupeWorkers
EndpointStatus ── EndpointStatusProofs
RolesPermissions ── Authorization ── AuthorizationProofs
MC*: instances of the above for TLC
```

**FindingStatus** is the signal handler as a pure function: `update_finding_status`
composes its branches in the order of the code, `saved(old, new, touched)` is what
`save()` writes for a row loaded as `old`, `created` is what happens to a new row
(two saves: one by the code that creates, one when endpoints and tags are there).
The modules that save findings use it, so that a change to the signal's rules is
seen by all of them.

**DuplicateClusters** has the table of findings with their links and the set of
findings with a queued dedupe task. Its actions: a finding is created (`Import`), a
copy is made (`Copy`), a queued task runs (`Dedupe`, with the query and the loop of
each of the four algorithms in `Queried` and `Accepted`), a user closes, reopens,
marks, resets or sets as original, and rows are deleted (`DeleteFinding`, `DeleteTest`,
`DeleteEngagement`, `async_dupe_delete`) with the hand-over to an heir
(`reconfigure_duplicate_cluster`). `CloseAsDuplicate`, `StalePages` and `CopyAcross`
switch on three behaviours of the program that break properties; the runs and
theorems say which are off. One action is one request or task.

**ClusterPartition** is what DuplicateClusters promises: findings are partitioned into
clusters with one representative each, which change only by a finding appearing,
leaving, joining with its cluster, being crowned, or vanishing. `DuplicateClusters`
instantiates it with the refinement mapping `root[f]` = the original of `f`, or `f`
itself, and `ImplementsPartition` is its specification. The mapping does
not follow links twice: it is the refinement that fails when a chain appears.

**DedupeWorkers** takes the dedupe task apart, into one query or one UPDATE per step:
candidates are read, members unlinked and moved (with the recursion of `set_duplicate`
as a stack), then both findings saved with all columns as they were read. Several workers
do this at once and one may die anywhere. `fix_loop_duplicates` (with `removeLoop`) and the
deduplication command in the foreground repair what comes out of it. The recursion of `removeLoop` is a
recursive function of its counter (`RemoveLoop`); `removeLoop` itself is one call, given what the calls
below it do (`nested`), and `Loop` is a loop over a list whose rounds change the table.

**FindingLifecycle** takes requests apart: `Load` reads the row, one of sixteen handlers
later writes all of it. Any number of workers overlap. `accept_risks` and `merge_finding_product` are
UPDATEs that bypass the signal. `past` remembers the most unusual that has saved the row: pages and tasks only; an
heir's hand-over that made it, while rejected, neither open nor fixed (`inherited`); or the API or an edit of the
mitigation date (`beyond`), which set fields the pages' forms exclude.

**Reimport** runs one upload in the steps of the code: a chunk takes its snapshot
(`Start`), queries the next item (`Lookup`), and takes one of the branches of
`process_parsed_findings`, each an action (`SameRejection` … `Create`), some of which
save twice (`Save_first`, `Save_again`). `Collect` subtracts the lists, and
`close_old_findings` saves the copies taken at the start. With `Async` the chunks
interleave.

**RiskAcceptance** has the acceptances of an engagement and the periodic handler. It reads
everything due at once, and then expires or warns of one acceptance per step, with all saves that belong
to it, from the copies it has read, while users work. Dates count in days from now, so that
`NextDay` moves all dates and no clock grows.

**Import** runs any number of imports at the same time, each into a test of its own. A chunk
creates a finding (`Create`: without hash code) and completes it (`Complete`); when all
chunks are done the import reads the hash codes of its findings, queries what other tests
still have open (`close_old_findings`), and saves those copies one by one
(`close_old_finding`). `Fail` ends an import anywhere; its other chunks go on.

**FalsePositiveHistory** adds, to the same findings, the task that follows every save: it
looks for equal false positives, marks the finding, and (retroactively) the
equal ones, saving copies. The pages that mark and take back are there, those that start
no task (bulk edit) and those that do.

**EndpointStatus** follows one dynamic finding through uploads of its test. The branches of
the upload are those of `Reimport`, reduced to what they do to endpoints; the items of the report that match the
finding are taken in turn (`NextItem`). A job is a list of
copied rows: short lists are saved by the request itself (`WorkInline`), long ones by tasks
(`Work`), one row per step. `told` is what the last upload promises of the rows once its
tasks are done, by the last of its items that came as far as its endpoints; `own` is where users had a hand meanwhile.

**JiraSync** has findings, groups, links, JIRA's issues, the webhooks on their way and
the queue. Pushes are one step per call; a page, a webhook and one round of the
reconciliation command are one step each. Issues, findings and links carry the dates that
the command compares.

**RolesPermissions** is the table of roles (`roles_permissions.py`). **Authorization** has the
five tables of roles, global roles and the mirror of groups in Django's own `auth_group`, every
request that writes them with the permission it asks for, the check `user_has_permission` (which
looks one row up) and the lists (which join the tables).

## 3. The runs

Passing runs:

| Run | Shows | Bounds |
|---|---|---|
| `clusters` | under everything users and tasks do: `NoTransitiveDuplicates`, `ScopeRespected`, `ClusterSurvives`, `OpenFindingNotHidden`, `ClusterMovesTogether`, the refinement `ImplementsPartition`; and `ExcessRemoved`: the periodic task gets on top of excess duplicates, over several runs | 3 findings ever created, 3 tests in an engagement each (one deduplicates on its own), one vulnerability, hash code, `max_dupes` 0 with one deletion, hence one group, per run: a cluster of two duplicates takes two runs; no cascading deletion |
| `scan_only` | `Deduplicated`: nothing equal stays apart when the queue is empty; `QueueDrains` | 3 findings, three algorithms mixed, endpoints that overlap in part |
| `workers` | `WorkersTypeOK`, `SomeoneIsOriginal`, `RepairSettles`, `RepairKeepsTogether`, `Heals`: what tasks that take each other's finding for the original leave behind, and that the repair commands mend it | 3 findings, 2 workers and the command, one crash |
| `lifecycle` | `MitigationDated`, `RejectedIsClosed`, `OpenIsNotFixed` for requests of pages and the duplicate relation, `OpenIsNotRejected` for all requests | 2 workers; one row, all 512 statuses, all switches on |
| `reimport` | `PresentNotClosed`, `AbsentIsClosed`, `DecisionSurvives`, `NoTwins` | 2 uploads of up to 2 items out of 6, decisions in between, both options, unique id or hash |
| `endpoints` | `ReportedActive`, `UnreportedMitigated`: when no task is left, the rows are what the last item of the last report says | 2 endpoints, chunks of one row, 2 uploads with up to two items for the finding (of two, the first is open at endpoint 1, the second lists endpoint 2 or both, is fixed or flagged), one request of a user at any moment, both settings of asynchronous import |
| `imports` | `PresentStays`, `AbsentIsClosed` of overlapping imports; `HistoryHolds` with them | 3 findings, 2 imports at once, chunks of one item, 2 workers, 2 decisions of users |
| `risk_acceptance` | `AcceptedIsMember`, `HandledIsPast`, `WarnedOnce`, and `ExpiryHandled` (liveness) | 1 finding, 2 acceptances, users choose tomorrow and reactivation, no JIRA |
| `jira` | `Converges`, `Heals`, `ReconcileSettles` (the first two liveness) | 2 findings, 1 group, 1 worker, 2 issues, 2 decisions in total, of users of either side |
| `authorization` | `OneRow`, `ListsAgree`, `OfferedAreAllowed`, `OwnerStays`, `MirrorKept`, `NoGift` | two users and a superuser, one group, product type and product, 3 roles or rights at a time |

Why the bounds are enough to be of use. Three findings are what it takes to chain
two duplicates or to hand a cluster with two members to an heir; the theorems of
section 4 cover any number. Two overlapping requests are the smallest overlap, and a
lost update is between two; the theorems cover any number of workers. Two
reports of two items have the cases that matter: two items for one finding, an
item matching by hash what another matches by id, a finding missing in the
second report, an empty report. Two endpoints with chunks of one are the smallest
case that is cut into tasks, while one alone stays in the request; three endpoints in
chunks of two, and two requests of users, were checked as well and pass, but take too long to
be a run. Two imports overlap in all ways two can, and the theorem of
section 4 covers more for the history. In `risk_acceptance` two acceptances of one finding
are enough for one that is deleted while the handler holds it, another one that
ends a run, and a finding in both. With one acceptance, all dates and both choices
of reactivation can be checked in seconds, and pass; with two that takes too long.
In `jira` a group of two findings is the smallest that can disagree with itself, and two issues
allow an unlinked finding to get a second one; two workers (43600 states), and three decisions (916184), were checked
as well and pass. In `clusters` four findings, with which two clusters compete for the one place, were checked for
`ExcessRemoved` alone (259131 states). In `authorization` three rows are enough for a
role that is inherited through a group by a product of a type; two types, products
and groups were tried with fewer properties.

`CHECK_DEADLOCK FALSE` is said where a bound makes the model stop that is not in the
code: keys (`clusters`, `scan_only`, `reimport`, `imports`), uploads (`reimport`, `endpoints`), grants
(`authorization`), decisions (`jira`); and for `workers`, where work really ends. `lifecycle` and
`risk_acceptance` check for deadlock.

Two runs are expected to find a violation; see section 5.

### Fairness

- `scan_only` assumes weak fairness of each queued dedupe task: a celery worker keeps
  taking tasks, and a task that is queued stays so until it runs.
- `clusters` (for `ExcessRemoved`) assumes weak fairness of `async_dupe_delete`, which beat starts every minute
  (`settings.dist.py:1129`), as a step that deletes something: a run whose places in the cut all go to the group without
  original deletes nothing, and the database is taken not to return that group for ever. Nothing is assumed of dedupe tasks or users.
- `risk_acceptance` assumes weak fairness of the steps of `expiration_handler`, started every
  three hours (`settings.dist.py:1142`). Fairness is on the handler as a whole, not on
  a particular acceptance. Users are free to postpone dates for ever; that counts as handled.
- `jira` assumes that the task after each save runs in the end, that each worker goes on with what
  it has begun, that JIRA delivers or gives up on the oldest webhooks, and that the command is
  started again and again, which is how its documentation says to run it. Users are free
  to stop. `Converges` needs nothing lost (`reliable`: also no link removed and no command run, which are for healing) and
  no finding of a group with an issue of its own beside the group's (`NotPushedTwice`; section 5); `Heals` is about everything else.
- `workers` assumes that workers go on, and that an administrator runs both commands now and then:
  `[]<>(turn = "dedupe")`. (The turn changes by the command only; weak fairness of a
  recursive repair would say the same at a much higher cost.)

The other runs state safety only and assume none.

## 4. The proofs

All proofs are checked by TLAPS for every value of the constants that satisfies the
`ASSUME`s of the modules, which only say what is a set of what, and that `None` is
none of the values it stands in for; and where a theorem says so, under a named assumption.

**`ClustersAreFlat`** (`DuplicateClustersProofs`): in any behaviour without
`CloseAsDuplicate` and `StalePages`, no duplicate of a duplicate exists.
`NoTransitiveDuplicates` is not inductive: an operation that moves a cluster finds its
members by their link and trusts the flag, so `ClusterInv` adds `LinkHasFlag` and the
types. Deletion is the difficult case: `HeirIsSurvivor` shows that the heir is in the
table, not deleted, and was a duplicate of the deleted original, from which
`DeleteKeepsClusterInv` concludes that every orphan points to a finding that is now
an original.

**`ClustersStayInScope`**: without copies between engagements as well, a finding and its
original share a deduplication scope. The argument: the scope condition is an
equivalence (`SameScopeTransitive`), so that operations which check two findings and
move a whole cluster stay inside it.

**`ClustersArePartitioned`**: DuplicateClusters implements
ClusterPartition. Every write to the links is one of a few kinds, each shown to be
a step of the partition (`UnlinkLeaves`, `MoveJoins`, `CreateAppears`, ...); every action is then one of the
kinds or a stutter. `ClusterInv` is what makes the mapping mean what it should.

**`ClustersSurviveDeletion`**: when an original goes, the duplicates that stay are one cluster, open
if the original was. **`ClustersMoveTogether`**: setting an original takes the whole cluster along, the old
original, the finding of the page and all other duplicates. Both rest on the same two switches being off as
`ClustersAreFlat`.

**`OpenFindingsStaySeen`**: what a dedupe task moves, and what it takes along, is never hidden behind an original
that was fixed and stays so. No switch has to be off: `StatusInv` says that no row is ever open and fixed at once, whatever users do
and whatever chains there are, and so the check that `set_duplicate` makes before it reopens the original misses nothing.

**`ScansDeduplicate`**: when the queue of a scan is empty, no two originals are left that each would take the other, for
tests on three of the four algorithms. The invariant `ApartInv` is about pairs whose tasks have both run; a task that found nothing has
looked at every candidate (`NoMatchNoCandidate`). With `uid_or_hash_code` that lemma fails, and so does the theorem: the loop gives up
after its first row. Let 1 have the hash code h1, 2 the hash code h1 and the unique id u1, both with endpoint y; 3 the hash code h2, and 4
the hash code h2 and the unique id u1, both with endpoint x. The task of 3 runs before 4 exists and finds
nothing. The task of 4 looks at 2 first, whose endpoints differ, and gives up. Then 2 becomes a duplicate of 1: now 3 and 4 match
each other, and no task is left to see it.

**`LinksStayFlagged`** and **`AnOriginalIsLeft`** (in the same module): for any number of findings, workers and
deaths, any depth of `removeLoop`, and `DedupeWorkers` as it runs, no finding has a link without its flag, and if no worker died
and none is at work, some finding is not a duplicate. They assume that there are findings, finitely many. `WorkersInv` says of every row a
process holds, wherever in its nested calls, what it says of the table (`Saved`), and that all candidates were originals when
they were read (`Original`): saving them late restores an original, never a link. For the
repair, `RemoveLoopAddsNone` shows that a call of `removeLoop` links no finding that had no link if the calls below it do
not (the copy of the real original it saves over and over has the link it had when the call began), and
`RemoveLoopIsRemoval` that therefore none does: the induction over the counter finds the lowest
counter-example. `LeftInv` is the order of the saves: once the last original was flagged, the task that did so still has its candidate to save.

**`FixedIsDated`**, **`RejectedStaysClosed`** and **`OpenIsNeverFixed`** (`FindingLifecycleProofs`): for any number of
workers, with requests of pages, tasks and API mixed, the three status invariants hold
until the API or an edit of dates saves the row (`beyond`); of a finding that was rejected when it inherited a cluster they say less
(`inherited`: not open, but perhaps not mitigated). The invariant `PagesInv`
says `Consistent` of the row *and of every copy a request holds*, until then. The key lemma,
`HandledConsistent`, is about what a handler may do to a consistent row so that the
signal can repair it (`Handled`); each handler of the pages and tasks is shown to keep to it.
Since the copy is consistent, it does not matter what others wrote in between.

**`OpenIsNeverRejected`**: with the API too, no finding is open and rejected. Here the
argument needs less of handlers (`AnySound`: whatever they set), because the order of the
branches of the signal alone ensures it.

**`UpdateIdempotent`**: the signal handler is called once per changed field, each time with all
changed fields; a second call changes nothing. This is why `saved` applies it once.

**`AcceptedAreMembers`** and **`HandledArePast`** (`RiskAcceptanceProofs`): for any number of findings, acceptances
and days, with and without JIRA, accepted findings are in some acceptance and none marked
as expired lies ahead. The invariant `AcceptanceInv` adds what the handler's
copies are like (`HandlerReads`): what it is about to warn of was not handled when it read
it, so that saving the copy, over whatever happened since, cannot leave
a mark with a later date; and that keys only grow, so a new acceptance takes
over nobody's members. `UpdateKeepsRisk` says the signal never sets the flag.

**`NobodyWarnedTwice`**: where the engagement does not post to JIRA, one warning is sent per acceptance until it is
reinstated. `WarnInv` adds that each copy the handler holds of an acceptance without the mark is of one nobody was warned of:
otherwise saving an older copy would take the mark away, and the next run would warn again. With JIRA
the theorem is false (section 5).

**`RolesAreUnique`** (`AuthorizationProofs`): for any users, groups, types and products, nobody has two roles on
one object, and no role is of or on what was deleted. No constraint of the database says so: each page
and serializer looks for a row before it saves one. The invariant adds that rows fit their
tables, so that deleting an object and creating it again meets none of its old rows.

**`ListsMatchChecks`** and **`OfferedMatchCheck`**: the lists are exactly what the check allows, and the users offered for a
product pass the check. They need `RolesAreUnique`: the check
keeps one row per pair in a dictionary, while the lists join all of them.

**`OwnersStay`**, **`MirrorIsKept`** and **`NothingIsGiven`** are about steps: the last owner of a type or group goes only in the ways
section 5 names; `auth_group` follows the members through every request but a PUT; and no request
gives anybody a permission which its writer lacks on that object. The last goes through every table and
the numbers of the roles: who may write a row with a role has all the permissions of that role, whether his
own role is direct, of the type above, of a group, or global, and inheritance gives the receiver no more than it gives him.

**`ListedIsOpen`** and **`UnlistedIsShut`** (`EndpointStatusProofs`): for any number of endpoints and uploads, chunks of
any size and any order of the tasks, and any items of the report for the finding, endpoints are what the last of these items says
when no task is left, where no user had a hand. The promise (`told`) is made at the end of an upload, so the invariant is about what the upload
has aimed at before (`OpenAim`, `ShutAim`). Where it is to be open, no copy is left that would mitigate it, and it is open or a copy that reactivates it is
waiting (`OpenInv`); `ShutInv` is the converse. `TaskInv` is why they are inductive: an
item that no older task can disturb begins with none, and queues only reactivations before it decides (`NextItemKeeps` is why
an item that is left with `continue` takes nothing from what the one before it aims at). Copies are counted
as a set of pairs over all jobs, because the queries have no order; the lemmas on `chunk_list` show that
cutting and short lists lose none of them.

**`HistoryHoldsAlways`** (`FalsePositiveHistoryProofs`): where all tests deduplicate by hash code (`ByHashCode`), for
any number of workers, imports and findings, when no task is left no finding is open that equals a known
false positive. Three parts make it inductive. `RowsOK`: a finding keeps the hash code
it gets, in the table and in every copy an import or a task holds, and half-created findings are no one's
equals. `CopiesKnown`: what a task still has to save equals a false positive in the table.
`OpenIsWaiting`: of an open finding and an equal false positive one has its task
queued, or a worker holds a copy that will close it. By unique id or hash code equality is not
transitive, marking one finding can leave another's equal unmarked, and the theorem says nothing.

**`ClosesNoneReported`** and **`ClosesAllAbsent`** (`FalsePositiveHistoryProofs`): what the run `imports` checks of overlapping
imports, for reports, chunks and workers of any size and number, under `ByHashCode` too: a task then copies only findings
that have a hash code. The invariant `ImportInv` says, while items are processed, that each item is still in a chunk or has a
finding, and that a finding nobody else saved is what `created` made of its item (`Reports`); while old ones are closed,
what the two properties say of the copies left (`Closings`). The hash code of a finding cannot be read off its row: the
closing of another import may save a copy taken before it had one, and then save it again. So the
invariant says that *there is* an assignment of hash codes which rows and copies agree with wherever they have one, and
each action shows how it grows. `new_hash_codes`, a loop over a list that shrinks under it, is a recursive
function here, not a fold: `LoopRuns` shows that such a loop exists, and `NewHashCodes` follows its rounds: whatever the order, it keeps each
code that some open and no mitigated row has, and none that no open row has.
The attempt also found `AbsentIsClosed` stated wrongly before: it asked whether an item *says* mitigated, but an item that says both active
and mitigated is saved as not mitigated by the code's second save; it now asks what `created` makes of it.

**`CommandSettles`** (`JiraSyncProofs`): the reconciliation command never leaves apart what it has compared, nor takes over
the action of the finding before, if neither the finding nor its link changed after the query and the last that happened to the
finding was no review. That importing or pushing settles a difference follows from rows being sound (`Sound`, `ProcessedStamps`); that
one of the two happens needs the dates. `Stamps` is what all saves have in common: if what is compared changes,
`last_status_update` is the date of now. `Truthful`: a webhook that bears its issue's own date bears its resolution. `DatesTell`: a finding
and an issue have one date only if nobody ever updated either, and then both are open; and if the link bears the date of its issue, the two
agree, or the finding was updated later. Late and lost webhooks, links that go and come back, rows that the
command read long ago and failed tasks all keep to it.

**`ItemsShareFindings`**, **`DecisionsSurvive`**, **`AbsentAreClosed`** and **`PresentStayOpen`** (`ReimportProofs`):
what the run `reimport` checks, for reports of any length, any number of findings and uploads and each of the
four matching algorithms, without `Async`. They need that an item matches the finding it becomes (`Identified`: it has
the hash code or the unique id that is compared); otherwise a new finding has no item and nothing closes it.
They follow from one invariant, `UploadInvariant`. While items are handled (`ProcessingInv`), every finding
is either untouched, so that its row is the copy taken at the start and no list has it, or
has had an item; the row of a finding rejected before is that copy in either case; and if all items
of a finding are plain, the row is open and listed (`Kept`), or a reason not to reopen it is known. Both halves are needed for
`ClosingInv`: the copies that `close_old_findings` saves are still the rows, and nothing plain is among them.
`EffectKeeps` reduces the eight branches for an existing finding to one kind of step; `CreateKeeps` shows that a new
finding, having the highest key, takes no item from an older one. `EmptyQuery` is what `Lookup` rests on:
an empty result means that nothing matches.

Only model-checked: `RepairSettles` and `RepairKeepsTogether`, on whatever the tasks of three
findings leave (of more they are false: section 5); and all
liveness (`QueueDrains`, `ExcessRemoved`, `ExpiryHandled`, `Converges`, `Heals`), which is out of
the prover's reach. The chunks of an asynchronous upload are in `Reimport` but in no run and no theorem: no run sets
`Async`, because with it the code breaks the properties (section 5). Conversely `LinkHasFlag` and the types of the modules
with proofs are parts of proved invariants and are not run.

## 5. Where code and documentation disagree

Two runs show such a behaviour; `PROJECT.json` quotes both sides.

- `reimport_flagged`: a risk-accepted finding which the scanner still reports is closed as
  mitigated, because it matches a branch that puts it in none of the lists.
- `history_unmark`: taking a false positive back on the edit form unmarks no equal finding,
  because the form asks the instance it has already changed; and the task that follows
  marks the finding again.

Others are in the models behind a switch or an exception of a property, which says what to
change to see them:

- Duplicates. The page decides which findings may be marked as duplicate; the request that
  follows does not check again whether the finding has become an original (`StalePages`
  breaks `NoTransitiveDuplicates`). Ticking *Duplicate* when closing writes the flag without a link: if that
  finding was an original, "set as original" no longer finds its cluster (`CloseAsDuplicate`
  breaks `ClusterMovesTogether`). A copy of a test or engagement keeps the links of its findings, which
  then cross engagements that deduplicate on their own (`CopyAcross` breaks `ScopeRespected`).
  Reopening a duplicate makes it an active duplicate, which the forms refuse.
- Workers. Two workers alone make chains, as the docstring of `fix_loop_duplicates` admits, and can
  hide an open vulnerability behind an original that is closed. The second save of the existing finding
  (`utils.py:509`) looks redundant and is not: without it two workers leave all findings
  duplicates of each other. A worker that dies after unlinking a member can leave flags without links, which
  `fix_loop_duplicates` resets only if it also finds a loop (`finding/helper.py:563`). The query of
  `fix_loop_duplicates` joins findings with their duplicates and is not made distinct, so `removeLoop` runs once for
  each duplicate that a candidate had. One run then settles every way of linking three or four findings none of which is its own
  original, and cuts no cluster of three, nor one of four without a loop (evaluated for all links
  and orders; four findings whose workers stay alive were checked too, 6 million states). Beyond that it does not. If a worker dies, four findings can
  be left as 1 → 4, 2 → 4 and 3 ↔ 4, of which it makes 3 and 4 duplicates of 1 and leaves 2 alone when the members
  come with 3 after 1 and 2. Of five, 1 → 3 → 2 → 4 → 3 with 5 → 4 can end with 1 and 2 as each
  other's original ("please run fix loop duplicates again"), and of 2 → 4 → 1 with 3 → 5 → 4 it can leave 2 alone.
- Status. PATCH of `is_mitigated` alone takes the mitigation off a rejected finding, and the
  close call without `is_mitigated` dates a finding that is not mitigated: hence `beyond`.
  Reopening an accepted finding leaves it accepted.
  The heir of a deleted original takes over whether that was open and whether it was fixed, but not its date
  (`finding/helper.py:450-469`): a rejected heir whose original was neither open nor fixed stays rejected and is no longer
  mitigated, because the signal sees none of the fields change that would mitigate it again (`inherited`).
  Clearing a review writes `duplicate`, which is not among the signal's fields: a link can
  stay without its flag, and a false positive can become verified.
- Risk acceptance. Unticking *Risk accepted* on the edit form never runs `risk_unaccept`: the form has
  changed the instance that `process_finding_form` asks, and the finding remains in its acceptance
  (`Untick`). Editing the date of an expired acceptance reinstates it with the default date
  (`Reinstated`). With JIRA the warning before expiration raises after the notification was
  sent and before it is recorded (`helper.py:162`): every run sends it again (`Jira` breaks `WarnedOnce`).
- Reimport. With `ASYNC_FINDING_IMPORT` each chunk closes what only the others contain (`Async` breaks
  `PresentNotClosed`), and an empty report closes nothing.
- Endpoints. Two items of a report may match one finding, and each mitigates what it does not list itself
  (`importers/reimporter/utils.py:69-80`, called for every item): what the first lists and the last does not ends mitigated,
  though it is in the report and the finding is open. Reactivating in tasks undoes what the same upload was to mitigate, since the copies to
  mitigate are taken before the tasks run (`late` in `Promise`). With no row to reactivate an
  asynchronous upload fails (`importers/reimporter/utils.py:118`), and will fail again when repeated. Endpoints
  that a report lists with a fixed vulnerability are added as active.
- Import. Between the two saves a finding has no hash code: the closing of another import saves such a copy back, so
  that two overlapping imports of one report can close each other's finding (`Disturbed`).
  What a user decides while a closing works on its copy is overwritten.
- False positive history. The bulk edit that opens a finding starts no task (`bulk`). A false positive taken back
  while a worker saves its copies stays half taken back (`crossed`; not with one worker).
- JIRA. A review makes a finding newer in a comment of the command, but not in its flags: then neither side is
  newer, and the command goes on with the action of the finding before (`Reviewed` in `ReconcileSettles`).
  Closing a finding while its issue is being created leaves the issue open until the next push; two queued pushes
  can make two issues, of which one is linked. The push of an accepted finding closes the issue, whose webhook
  mitigates the finding. A finding that has an issue of its own, put into a group and closed, is pushed
  with its group only (`finding/views.py:1253-1270`): its own issue stays open (`NotPushedTwice`). The edit form never pushes the group's issue
  (`finding/views.py:1048`, where the bulk edit does), and issues of groups are not reconciled. A webhook that arrives
  late wins over a newer decision.
- Authorization. A PUT that changes the user of a group's row leaves the mirror in `auth_group` as
  it was (`MirrorKept`), and together with the API's DELETE takes the last owner (`OwnerStays`). The users offered for a product lack those
  whose right comes from a group's global role (`OfferedAreAllowed`).

## 6. What is assumed and what is left out

Bounds: `Ids` (findings ever created), `MaxUploads`, `ChunkSize`, `MaxAcceptances`, `MaxDays`,
the count of warnings, which stops at 2, `MaxDecisions`, `MaxIssues`, `MaxGrants`, `MaxCrashes`,
`MaxDepth` (the code's own bound of `removeLoop`) and `Imports`.

Deliberate simplifications, by module.

- DuplicateClusters: a request or task is one step (DedupeWorkers takes the task apart).
  `deduplication_on_engagement` does not change. Tasks for one finding are indistinguishable, so the queue is a set: two
  queued tasks for one finding count as one. `false_p` stands for out of scope too.
  Identity is a record of what the algorithms compare. Edits that unlink duplicates
  are in FindingLifecycle only. New findings come with a status that `created` can return.
- DedupeWorkers: no pages and no deletions while the workers run. The repair commands start
  when the workers are idle.
- FindingStatus: `mitigated_by` follows the date. FindingLifecycle: one finding, because no
  handler reads the status of another, except the hand-over to an heir, which takes any. The
  SonarQube updater is left out; it, too, leaves rejected findings unmitigated (`updater_from_source.py:111-116`). The bulk menu's boxes are those its script allows.
- Reimport: one upload at a time and, while it runs, nobody else; decisions between
  uploads are three typical ones. The override of `verified`, files, notes and JIRA are
  left out, except the note on skipped reactivation, which decides whether the row is
  saved. Items below the minimum severity are taken as not in the report. The chunks
  of an asynchronous run start in any order.
- EndpointStatus: one dynamic finding (of others the importers only add endpoints). Other findings of a
  report are there as a chunk elsewhere, which may find this one left over. All items for the finding are in one chunk of the report;
  with asynchronous import they may be in several, which is not modelled. The three flags of a row
  are one, and a user's request is one step. The one task that is queued beside the work done in the
  request does nothing, because its copies are already changed. Rows never go: the edit form's set of endpoints, a review
  and the deletion of an endpoint remove rows, which a task's save would insert again.
  Endpoints given with the upload, first imports, equal endpoints made by two tasks at once
  (`importers/utils.py:157` then refuses every later import), and the migration of endpoints are left out.
- Import, FalsePositiveHistory: all targets are in one product. The legacy algorithm, timestamps, groups, JIRA,
  endpoints and records of the import are left out. Deduplication is off, as it is when the history is on. `close_old_findings`
  asks for the hash codes of the new test and for the old findings in one step (`importers/importer.py:184` and `:214`).
- RiskAcceptance: requests are one step: the edit page's two saves (`engagement/views.py:971-975`), between which a
  handled acceptance lies ahead, too. The handler takes a step per acceptance, with the saves in it. Pages reach acceptances
  that the engagement lists. Simple acceptance is off: with it, accepted findings have
  no acceptance by design. A run ends before midnight.
- JiraSync: a page, a webhook and a round of the command are one step; dates are the steps they fall in.
  A link that is removed and made again to the same issue is taken for the same row. When the link that a round is about to save was replaced
  by another one meanwhile, the database refuses and the command ends. `reliable` means that users leave links and the command alone. Comments,
  epics, attachments, configuration and changes of severity are left out.
- Authorization: a request is one step, `is_superuser` is fixed, configuration permissions are one flag, and
  two rows equal in every column count as one. The lists of engagements, tests and findings repeat the joins of
  products and are left out, as are roles that an identity provider gives. An account is deleted by the page, which protects superusers and global
  roles, or by the API's DELETE (`UsersViewSet.destroy`), which does not.

Not modelled:

- `percent_complete` of a test. `update_test_progress` is queued last and taken to run last (`importers/utils.py:168`), but with two
  workers nothing makes it; and reimport saves the test again after queueing it, with the percentage it
  read before.
- The races inside one `delete()`, and the crawl of `async_delete` as such: its chunks are the deletions of DuplicateClusters.
- SonarQube, the engagement lifecycle, alerts, SLA notices, grading, and settings caches: self-contained, with
  little interplay with the rest.
- GitHub issues: one call out per event, nothing is read back. The REST API beyond statuses and
  roles, filters, reports, parsers, forms over records, templates, migrations and deployment: no rules of
  their own.

## 7. Plan

Done: all modules of section 2, with their instances, and proofs for all of them.

What would add most, in this order.

1. DedupeWorkers as a refinement of DuplicateClusters when no two tasks overlap.
2. Removal of rows in EndpointStatus, with tasks that insert them again.
3. SonarQube as a second source beside JIRA; engagement lifecycle; alerts; SLA and grading.

Runs are kept to a dozen. As modules are added, runs that a theorem covers for all values
make room for runs of the new ones.
