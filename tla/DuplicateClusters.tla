-------------------------- MODULE DuplicateClusters --------------------------
(***************************************************************************)
(* The duplicate relation between findings: what deduplication tasks, the  *)
(* duplicate actions of the finding pages, deletions and copies do to      *)
(* Finding.duplicate and Finding.duplicate_finding.  One action is one     *)
(* request or one celery task, run without interference, and tasks run in  *)
(* any order.                                                              *)
(*                                                                         *)
(* A finding is its primary key: keys grow and are never used again.       *)
(* false_p stands for false_p or out_of_scope, which these operations      *)
(* never tell apart.  Once a chain of duplicates exists (never, with       *)
(* CloseAsDuplicate and StalePages off) the operations below stop at its   *)
(* second link.                                                            *)
(***************************************************************************)
EXTENDS Integers, FiniteSets

CONSTANTS
    Ids,            \* primary keys: an interval 1..n, which bounds creations
    None,           \* SQL NULL
    Tests,
    engagement,     \* engagement[t]: the engagement of test t
    algorithm,      \* algorithm[t]: deduplication_algorithm of t
    test_type,      \* test_type[t]: the scanner that wrote t
    InEngagement,   \* engagements with deduplication_on_engagement set
    Attrs,          \* what identifies a reported vulnerability
    CascadeDelete,  \* settings.DUPLICATE_CLUSTER_CASCADE_DELETE
    MaxDupes,       \* System_Settings.max_dupes, None when not configured
    MaxPerRun,      \* settings.DUPE_DELETE_MAX_PER_RUN
    CloseAsDuplicate,   \* do users tick "Duplicate" on the close form?
    StalePages,         \* do users act on a page others have outdated?
    CopyAcross          \* are tests and engagements copied?

Algorithms == {"unique_id", "hash_code", "uid_or_hash_code", "legacy"}

Engagements == {engagement[t] : t \in Tests}

ASSUME IdsAssumption == Ids \subseteq Nat \ {0}
ASSUME NoneAssumption == None \notin Ids
ASSUME TestsAssumption ==
    /\ algorithm \in [Tests -> Algorithms]
    /\ InEngagement \subseteq Engagements
    /\ {CascadeDelete, CloseAsDuplicate, StalePages, CopyAcross} \subseteq BOOLEAN

VARIABLES
    next_id,            \* the key the next created finding gets
    exists,             \* the keys that are in the table
    test,
    attr,
    active,
    is_mitigated,
    false_p,
    duplicate,
    duplicate_finding,
    pending             \* findings with a dedupe task in the celery queue

status == <<active, is_mitigated, false_p>>
data == <<next_id, test, attr>>
link == <<duplicate, duplicate_finding>>
vars == <<next_id, exists, test, attr, active, is_mitigated, false_p,
          duplicate, duplicate_finding, pending>>

-----------------------------------------------------------------------------
\* original_finding, the reverse of the foreign key
Members(o) == {f \in exists : duplicate_finding[f] = o}

Eng(f) == engagement[test[f]]

\* the condition the duplicate actions put on two findings
SameScope(f, g) ==
    \/ Eng(f) = Eng(g)
    \/ Eng(f) \notin InEngagement /\ Eng(g) \notin InEngagement

Lowest(S) == {f \in S : \A g \in S : f <= g}

\* f with every x in S mapped to v
Put(f, S, v) == [x \in DOMAIN f |-> IF x \in S THEN v ELSE f[x]]

-----------------------------------------------------------------------------
(* Which existing finding a new one duplicates. *)

SameHash(n, e) == attr[n].hash /= None /\ attr[n].hash = attr[e].hash

SameUid(n, e) == attr[n].uid /= None /\ attr[n].uid = attr[e].uid

SameTool(n, e) == test_type[test[n]] = test_type[test[e]]

\* are_endpoints_duplicates: no endpoints on either side, or one in common
SameEndpoints(n, e) ==
    \/ attr[n].endpoints = {} /\ attr[e].endpoints = {}
    \/ attr[n].endpoints \cap attr[e].endpoints /= {}

\* deduplicate_legacy: the endpoints of the existing finding are among the
\* new one's; when one side has none, the same file and line
SameLegacy(n, e) ==
    /\ attr[n].hash = attr[e].hash
    /\ IF attr[n].endpoints /= {} /\ attr[e].endpoints /= {}
       THEN attr[e].endpoints \subseteq attr[n].endpoints
       ELSE attr[n].place /= None /\ attr[n].place = attr[e].place

\* the query of each algorithm ...
Queried(n, e) ==
    CASE algorithm[test[n]] = "unique_id" ->
            SameUid(n, e) /\ (Eng(n) \in InEngagement \/ SameTool(n, e))
      [] algorithm[test[n]] = "hash_code" -> SameHash(n, e)
      [] algorithm[test[n]] = "uid_or_hash_code" ->
            SameHash(n, e) \/ (SameUid(n, e) /\ SameTool(n, e))
      [] algorithm[test[n]] = "legacy" -> attr[n].title = attr[e].title

\* ... and the test its loop puts each row to
Accepted(n, e) ==
    CASE algorithm[test[n]] = "unique_id" -> TRUE
      [] algorithm[test[n]] \in {"hash_code", "uid_or_hash_code"} -> SameEndpoints(n, e)
      [] algorithm[test[n]] = "legacy" -> SameLegacy(n, e)

Candidates(n) ==
    {e \in exists \ {n} : /\ ~duplicate[e]
                          /\ Eng(n) \in InEngagement => Eng(e) = Eng(n)
                          /\ Queried(n, e)}

no_mismatch(n, e) == FALSE

is_deduplication_on_engagement_mismatch(n, e) ==
    Eng(n) \notin InEngagement /\ Eng(e) \in InEngagement

\* the loop over the candidates in key order; uid_or_hash_code leaves it after
\* the first row it looks at, whatever the endpoints say
Match(n) ==
    LET rows == {e \in Candidates(n) : ~is_deduplication_on_engagement_mismatch(n, e)}
    IN IF algorithm[test[n]] = "uid_or_hash_code"
       THEN {e \in Lowest(rows) : Accepted(n, e)}
       ELSE Lowest({e \in rows : Accepted(n, e)})

\* one of the findings moved below e is open, and e was closed as fixed
is_duplicate_reopen_late(moved, e) == FALSE

is_duplicate_reopen(moved, e) ==
    /\ is_mitigated[e]
    /\ ~false_p[e]
    /\ \E m \in moved : active[m] /\ ~is_mitigated[m]

\* the findings in moved become duplicates of e; reopening e saves it with the
\* dedupe option, which queues a task of its own
MoveBelow(moved, e) ==
    LET reopen == is_duplicate_reopen(moved, e) IN
    /\ duplicate' = Put(duplicate, moved, TRUE)
    /\ duplicate_finding' = Put(duplicate_finding, moved, e)
    /\ active' = [Put(active, moved, FALSE) EXCEPT ![e] = @ \/ reopen]
    /\ is_mitigated' = [is_mitigated EXCEPT ![e] = @ /\ ~reopen]

Reopened(moved, e) == {x \in {e} : is_duplicate_reopen(moved, e)}

set_duplicate_no_flatten(n, e) ==
    MoveBelow({n}, e) /\ pending' = (pending \ {n}) \cup Reopened({n}, e)

set_duplicate_full_save(n, e) ==
    MoveBelow({n} \cup Members(n), e) /\ UNCHANGED pending

\* n takes the duplicates it had along
set_duplicate(n, e) ==
    LET moved == {n} \cup Members(n) IN
    /\ MoveBelow(moved, e)
    /\ pending' = (pending \ {n}) \cup Reopened(moved, e)

-----------------------------------------------------------------------------
(* Actions *)

NewStatus ==
    {s \in [active : BOOLEAN, is_mitigated : BOOLEAN, false_p : BOOLEAN] :
        /\ s.false_p => s.is_mitigated
        /\ s.active => ~s.is_mitigated}

Create(t, a, s, dup, orig) ==
    /\ next_id \in Ids
    /\ next_id' = next_id + 1
    /\ exists' = exists \cup {next_id}
    /\ test' = [test EXCEPT ![next_id] = t]
    /\ attr' = [attr EXCEPT ![next_id] = a]
    /\ active' = [active EXCEPT ![next_id] = s.active]
    /\ is_mitigated' = [is_mitigated EXCEPT ![next_id] = s.is_mitigated]
    /\ false_p' = [false_p EXCEPT ![next_id] = s.false_p]
    /\ duplicate' = [duplicate EXCEPT ![next_id] = dup]
    /\ duplicate_finding' = [duplicate_finding EXCEPT ![next_id] = orig]
    /\ pending' = pending \cup {next_id}

\* a finding is entered or imported, and saved with the dedupe option
Import(t, a, s) == Create(t, a, s, FALSE, None)

\* Finding.copy: a row with the same columns, in a test of the same engagement
\* (copy_finding), or of another one (Test.copy and Engagement.copy)
Copy(f, t) ==
    /\ f \in exists
    /\ engagement[t] = Eng(f) \/ CopyAcross
    /\ Create(t, attr[f], [active |-> active[f], is_mitigated |-> is_mitigated[f],
                           false_p |-> false_p[f]],
              duplicate[f], duplicate_finding[f])

Dedupe_open_only(n) ==
    /\ n \in pending \cap exists
    /\ \/ active[n] /\ \E e \in Match(n) : set_duplicate(n, e)
       \/ /\ active[n] => Match(n) = {}
          /\ pending' = pending \ {n}
          /\ UNCHANGED <<link, active, is_mitigated>>
    /\ UNCHANGED <<data, exists, false_p>>

\* do_dedupe_finding, run by post_process_finding_save
Dedupe(n) ==
    /\ n \in pending \cap exists
    /\ \/ \E e \in Match(n) : set_duplicate(n, e)
       \/ /\ Match(n) = {}
          /\ pending' = pending \ {n}
          /\ UNCHANGED <<link, active, is_mitigated>>
    /\ UNCHANGED <<data, exists, false_p>>

\* close_finding: the form's check box writes the flag and no link, and a save
\* of a finding whose flag is off clears the link
Close(f, fp, dup) ==
    /\ f \in exists
    /\ dup => CloseAsDuplicate
    /\ active' = [active EXCEPT ![f] = FALSE]
    /\ is_mitigated' = [is_mitigated EXCEPT ![f] = TRUE]
    /\ false_p' = [false_p EXCEPT ![f] = fp]
    /\ duplicate' = [duplicate EXCEPT ![f] = dup]
    /\ duplicate_finding' = [duplicate_finding EXCEPT ![f] = IF dup THEN @ ELSE None]
    /\ pending' = pending \cup {f}
    /\ UNCHANGED <<data, exists>>

\* reopen_finding asks nothing of the duplicate flag
Reopen(f) ==
    /\ f \in exists
    /\ active' = [active EXCEPT ![f] = TRUE]
    /\ is_mitigated' = [is_mitigated EXCEPT ![f] = FALSE]
    /\ false_p' = [false_p EXCEPT ![f] = FALSE]
    /\ pending' = pending \cup {f}
    /\ UNCHANGED <<data, exists, link>>

\* does the page of finding o offer "mark as duplicate" next to finding d?
MarkOffered(o, d) ==
    /\ duplicate_finding[o] /= d
    /\ Members(d) = {}
    /\ duplicate_finding[d] /= None =>
            duplicate_finding[d] \notin {o, duplicate_finding[o]}

mark_finding_duplicate(o, d) ==
    /\ {o, d} \subseteq exists /\ o /= d
    /\ SameScope(o, d)
    /\ MarkOffered(o, d) \/ StalePages
    /\ duplicate[o] => duplicate_finding[o] /= None     \* else the request fails
    /\ duplicate' = [duplicate EXCEPT ![d] = TRUE]
    /\ active' = [active EXCEPT ![d] = FALSE]
    /\ duplicate_finding' = [duplicate_finding EXCEPT ![d] =
            IF duplicate[o] THEN duplicate_finding[o] ELSE o]
    /\ UNCHANGED <<data, exists, is_mitigated, false_p, pending>>

reset_finding_duplicate_status(f) ==
    /\ f \in exists
    /\ duplicate[f]
    /\ duplicate' = [duplicate EXCEPT ![f] = FALSE]
    /\ duplicate_finding' = [duplicate_finding EXCEPT ![f] = None]
    /\ active' = [active EXCEPT ![f] = TRUE]
    /\ is_mitigated' = [is_mitigated EXCEPT ![f] = FALSE]
    /\ false_p' = [false_p EXCEPT ![f] = FALSE]
    /\ UNCHANGED <<data, exists, pending>>

duplicate_finding_set_of_original(f) == IF ~duplicate[f] THEN Members(f) ELSE {}

duplicate_finding_set(f) ==
    IF ~duplicate[f] THEN Members(f)
    ELSE IF duplicate_finding[f] = None THEN {} ELSE Members(duplicate_finding[f])

\* f, its cluster and the original of it move below n; the row of n, read
\* before the others were written, is written last
set_finding_as_original(f, n) ==
    LET old == {duplicate_finding[f]} \cap exists
        cluster == duplicate[f] \/ Members(f) /= {}
        moved == (IF cluster THEN {f} \cup old \cup duplicate_finding_set(f) ELSE {f}) \ {n}
    IN /\ {f, n} \subseteq exists
       /\ SameScope(f, n)
       /\ duplicate' = [Put(duplicate, moved, TRUE) EXCEPT ![n] = FALSE]
       /\ duplicate_finding' = [Put(duplicate_finding, moved, n) EXCEPT ![n] = None]
       /\ active' = IF cluster THEN active ELSE Put(active, moved, FALSE)
       /\ UNCHANGED <<data, exists, is_mitigated, false_p, pending>>

-----------------------------------------------------------------------------
(* Deletion of the rows S, with what is done for their duplicates first. *)

\* cluster_outside: the duplicates of o that are not deleted with it
Survivors(o, S) == Members(o) \ S

\* reconfigure_duplicate_cluster: the first of them is the new original
Heirs(S) == {h \in exists \ S : /\ duplicate_finding[h] \in S
                                /\ h \in Lowest(Survivors(duplicate_finding[h], S))}

Orphans(S) == {f \in exists \ S : duplicate_finding[f] \in S}

HeirOf_newest(o, S) == CHOOSE h \in Survivors(o, S) : \A g \in Survivors(o, S) : g <= h

HeirOf(o, S) == CHOOSE h \in Lowest(Survivors(o, S)) : TRUE

Forget(S) ==
    /\ exists' = exists \ S
    /\ duplicate' = Put(duplicate, S, FALSE)
    /\ duplicate_finding' = Put(duplicate_finding, S, None)
    /\ active' = Put(active, S, FALSE)
    /\ is_mitigated' = Put(is_mitigated, S, FALSE)
    /\ false_p' = Put(false_p, S, FALSE)

HandOver(S) ==
    LET heirs == Heirs(S)
        o(f) == duplicate_finding[f]
        New(f, of, onHeir) == CASE f \in S -> FALSE
                                [] f \in heirs -> onHeir
                                [] OTHER -> of[f]
    IN /\ exists' = exists \ S
       /\ duplicate' = Put(duplicate, S \cup heirs, FALSE)
       /\ duplicate_finding' = [f \in Ids |->
                CASE f \in S \cup heirs -> None
                  [] f \in Orphans(S) \ heirs -> HeirOf(o(f), S)
                  [] OTHER -> o(f)]
       /\ active' = [f \in Ids |-> New(f, active, active[o(f)])]
       /\ is_mitigated' = [f \in Ids |-> New(f, is_mitigated, is_mitigated[o(f)])]
       /\ false_p' = [f \in Ids |-> New(f, false_p, false_p[f] /\ ~active[o(f)])]

Delete(S) ==
    /\ S /= {}
    /\ IF CascadeDelete THEN Forget(S \cup Orphans(S)) ELSE HandOver(S)
    /\ UNCHANGED <<data, pending>>

DeleteFinding(f) == f \in exists /\ Delete({f})

DeleteTest(t) == Delete({f \in exists : test[f] = t})

DeleteEngagement(e) == Delete({f \in exists : Eng(f) = e})

\* async_dupe_delete, a periodic task.  The flagged duplicates are grouped by
\* their original, those without a link being a group of their own
Group(o) == {f \in exists : duplicate[f] /\ duplicate_finding[f] = o}

InExcess == {o \in exists \cup {None} : Cardinality(Group(o)) > MaxDupes}

Excess(o) == IF o \in InExcess THEN Cardinality(Group(o)) - MaxDupes ELSE 0

async_dupe_delete_one_short ==
    /\ MaxDupes /= None
    /\ \E f \in exists : /\ Excess(duplicate_finding[f]) > 1
                        /\ Delete({f})

\* The groups in excess are cut, unordered, to as many as deletions are allowed in
\* one run.  Their originals, in key order, lose the excess until that number is
\* reached; a group without original takes a place in the cut and loses nothing.
async_dupe_delete ==
    /\ MaxDupes /= None
    /\ \E cut \in SUBSET InExcess, V \in SUBSET {f \in exists : duplicate[f]} :
        LET originals == cut \ {None}
            taken(o) == Cardinality(V \cap Group(o))
        IN /\ Cardinality(cut) <= MaxPerRun
           /\ cut /= InExcess => Cardinality(cut) = MaxPerRun
           /\ V \subseteq UNION {Group(o) : o \in originals}
           /\ Cardinality(V) <= MaxPerRun
           /\ \A o \in originals : taken(o) <= Excess(o)
           /\ \A o \in originals : taken(o) < Excess(o) =>
                /\ Cardinality(V) = MaxPerRun
                /\ \A p \in originals : p > o => taken(p) = 0
           /\ Delete(V)

\* a task whose finding is gone does nothing (dojo_model_from_id)
DropTask(n) ==
    /\ n \in pending \ exists
    /\ pending' = pending \ {n}
    /\ UNCHANGED <<data, exists, link, status>>

-----------------------------------------------------------------------------
Init ==
    /\ next_id = 1
    /\ exists = {}
    /\ \E t \in Tests, a \in Attrs : test = [f \in Ids |-> t] /\ attr = [f \in Ids |-> a]
    /\ active = [f \in Ids |-> FALSE]
    /\ is_mitigated = [f \in Ids |-> FALSE]
    /\ false_p = [f \in Ids |-> FALSE]
    /\ duplicate = [f \in Ids |-> FALSE]
    /\ duplicate_finding = [f \in Ids |-> None]
    /\ pending = {}

Scan == \E t \in Tests, a \in Attrs, s \in NewStatus : Import(t, a, s)

Task == \E n \in Ids : Dedupe(n) \/ DropTask(n)

Manage ==
    \/ \E f \in Ids, t \in Tests : Copy(f, t)
    \/ \E f \in Ids, fp, dup \in BOOLEAN : Close(f, fp, dup)
    \/ \E f \in Ids : Reopen(f)
    \/ \E o, d \in Ids : mark_finding_duplicate(o, d)
    \/ \E f \in Ids : reset_finding_duplicate_status(f)
    \/ \E f, n \in Ids : set_finding_as_original(f, n)

Remove ==
    \/ \E f \in Ids : DeleteFinding(f)
    \/ \E t \in Tests : DeleteTest(t)
    \/ \E e \in Engagements : DeleteEngagement(e)
    \/ async_dupe_delete

Next == Scan \/ Task \/ Manage \/ Remove

Spec == Init /\ [][Next]_vars

\* scans and dedupe tasks alone, with a celery worker that keeps running
ScanSpec ==
    /\ Init /\ [][Scan \/ Task]_vars
    /\ \A n \in Ids : WF_vars(Dedupe(n))

\* every user and task at work, and a beat that keeps starting async_dupe_delete:
\* as long as not every place of the cut goes to a group without original, a run
\* that finds an excess deletes something
BeatSpec == Spec /\ WF_vars(async_dupe_delete)

-----------------------------------------------------------------------------
(* Properties *)

\* The columns have the types the model gives them, and a row that is not in
\* the table has no link.
TypeOK ==
    /\ next_id \in Nat \ {0}
    /\ exists \subseteq {f \in Ids : f < next_id}
    /\ test \in [Ids -> Tests]
    /\ attr \in [Ids -> Attrs]
    /\ active \in [Ids -> BOOLEAN]
    /\ is_mitigated \in [Ids -> BOOLEAN]
    /\ false_p \in [Ids -> BOOLEAN]
    /\ duplicate \in [Ids -> BOOLEAN]
    /\ duplicate_finding \in [Ids -> exists \cup {None}]
    /\ pending \subseteq Ids
    /\ \A f \in Ids \ exists : duplicate_finding[f] = None

\* "make sure we don't create circular or transitive duplicates": the original
\* of a duplicate is not itself a duplicate, by its link or by its flag.
NoTransitiveDuplicates ==
    \A f \in exists : duplicate_finding[f] /= None =>
        /\ duplicate_finding[duplicate_finding[f]] = None
        /\ ~duplicate[duplicate_finding[f]]

\* Every query that looks for non-duplicates goes by the flag, every page by
\* the link: a finding with a link has its flag set.
LinkHasFlag == \A f \in exists : duplicate_finding[f] /= None => duplicate[f]

\* A finding and its original are in the same engagement, or in two that both
\* deduplicate across the product: "Findings present in different engagements
\* cannot be duplicates" when the engagement says so.
ScopeRespected ==
    \A f \in exists : duplicate_finding[f] /= None => SameScope(f, duplicate_finding[f])

Root(f) == IF duplicate_finding[f] = None THEN f ELSE duplicate_finding[f]

\* When the original of a cluster is deleted, alone or with its test or
\* engagement, the duplicates that stay remain one cluster, and its new
\* original is open exactly if the old one was: no open issue is forgotten.
ClusterSurvives ==
    [][\A o \in exists \ exists' :
        LET left == Members(o) \cap exists' IN
        left /= {} => \E h \in left : /\ ~duplicate'[h]
                                      /\ active'[h] = active[o]
                                      /\ \A m \in left : Root(m)' = h]_vars

\* A dedupe task never hides an open finding behind one that was closed as
\* fixed: the original is open again after it.
OpenFindingNotHidden ==
    [][Task => \A f \in exists, e \in exists :
        (active[f] /\ ~active'[f] /\ duplicate_finding'[f] = e)
            => (active'[e] \/ false_p[e] \/ ~is_mitigated[e])]_vars

\* "The existing Original will be downgraded to become a member of the cluster
\* and, together with the other members, will be marked as duplicate of the
\* new Original" (the page offering "set as original").
ClusterMovesTogether ==
    [][\A f, n \in exists : set_finding_as_original(f, n) =>
        \A g \in exists : Root(g) = Root(f) => Root(g)' = n]_vars

\* The clusters are a partition that changes only in the ways of ClusterPartition:
\* whatever scans, tasks, users and deletions do, no member of a cluster is lost on
\* the way but one that a user resets or closes.
Partition == INSTANCE ClusterPartition WITH root <- [f \in Ids |-> Root(f)]

ImplementsPartition == Partition!Spec

\* Once the queue is empty no two findings are left apart that each would have
\* been taken for a duplicate of the other, whatever the order of the tasks.  The
\* loop of uid_or_hash_code does not promise as much: it gives up after one row.
Deduplicated ==
    pending = {} => \A f, g \in exists : ~(g \in Match(f) /\ f \in Match(g))

\* Tasks that reopen an original queue new tasks; still the queue drains.
QueueDrains == <>[](pending = {})

\* The periodic task gets on top of the duplicates in excess of max_dupes, over
\* several runs and whatever users, scans and tasks do between them ("A value of
\* 0 will remove all duplicates").
ExcessRemoved == []<>(\A o \in exists : Excess(o) = 0)
=============================================================================
