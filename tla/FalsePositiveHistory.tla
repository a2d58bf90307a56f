-------------------------- MODULE FalsePositiveHistory --------------------------
(***************************************************************************)
(* Imports with the false positive history: the task after every save of a *)
(* finding marks it when an equal finding of the product is a false        *)
(* positive and, retroactively, equal ones with it.  Deduplication is then *)
(* off.  Users close, reopen and edit findings meanwhile.  A task reads    *)
(* what it needs at once and saves those copies one by one; a page is one  *)
(* step.                                                                   *)
(***************************************************************************)
EXTENDS Import

CONSTANTS
    algorithm,      \* the deduplication algorithm of each test type
    Retroactive,    \* retroactive_false_positive_history
    Workers,
    MaxDecisions    \* bounds what users do

ASSUME HistoryAssumption == Retroactive \in BOOLEAN /\ MaxDecisions \in Nat

VARIABLES
    todo,           \* the copies each worker has yet to save
    bulk,           \* findings last opened by the bulk edit, which starts no task
    crossed,        \* has a false positive been taken back while a worker had copies to save?
    decisions

vars == <<importVars, todo, bulk, crossed, decisions>>

Init ==
    /\ Init_Import
    /\ todo = [w \in Workers |-> {}]
    /\ bulk = {} /\ crossed = FALSE /\ decisions = 0

-----------------------------------------------------------------------------
SameHash(f, g) == finding[f].hash /= None /\ finding[f].hash = finding[g].hash
SameId(f, g) == finding[f].uid /= None /\ finding[f].uid = finding[g].uid

\* by the algorithm of the test of f; all targets are in one product
match_finding_to_existing_findings(f) ==
    LET by == algorithm[target(f).test_type]
    IN  {g \in Findings \ {f} :
            \/ by \in {"hash_code", "unique_id_from_tool_or_hash_code"} /\ SameHash(f, g)
            \/ by \in {"unique_id_from_tool", "unique_id_from_tool_or_hash_code"} /\ SameId(f, g)}

Copy(f) == [id |-> f, row |-> finding[f]]

\* mutant: finds nothing to mark backwards
Marked_itself_only(f) ==
    LET equal == match_finding_to_existing_findings(f)
    IN  IF \E g \in equal : finding[g].s.false_p THEN {f} ELSE {}

\* what do_false_positive_history has to mark for f
Marked(f) ==
    LET equal == match_finding_to_existing_findings(f)
        known == \E g \in equal : finding[g].s.false_p
    IN  (IF known THEN {f} ELSE {})
        \cup {g \in equal : /\ Retroactive /\ (known \/ finding[f].s.false_p)
                            /\ finding[g].s.active /\ ~finding[g].s.false_p}

do_false_positive_history(w, f) ==
    /\ todo[w] = {} /\ f \in queue
    /\ queue' = queue \ {f}
    /\ todo' = [todo EXCEPT ![w] = {Copy(g) : g \in Marked(f)}]
    /\ UNCHANGED <<next_id, finding, test, import, changed, bulk, decisions>>

FalsePositive(s) == [s EXCEPT !.false_p = TRUE, !.active = FALSE, !.verified = FALSE]

mark_as_fp(w, t) ==
    /\ t \in todo[w]
    /\ finding' = [finding EXCEPT ![t.id] = [t.row EXCEPT !.s = saved(@, FalsePositive(@), {})]]
    /\ todo' = [todo EXCEPT ![w] = @ \ {t}]
    /\ Change({t.id})
    /\ UNCHANGED <<next_id, test, import, queue, bulk, decisions>>

Task(w) ==
    \/ \E f \in queue : do_false_positive_history(w, f)
    \/ \E t \in todo[w] : mark_as_fp(w, t)

-----------------------------------------------------------------------------
(* Pages *)

Decide == decisions < MaxDecisions /\ decisions' = decisions + 1

\* new: the status given to each finding of its domain; tasks: those that are post processed
Page(new, tasks, touched) ==
    LET After(f) == saved(finding[f].s, new[f], touched)
        opened == {f \in DOMAIN new : After(f).active}
    IN  /\ Decide
        /\ finding' = [f \in Ids |-> IF f \in DOMAIN new THEN [finding[f] EXCEPT !.s = After(f)]
                                     ELSE finding[f]]
        /\ import' = Opened(import, opened)
        /\ queue' = queue \cup tasks
        /\ Change(DOMAIN new)
        /\ UNCHANGED <<next_id, test, todo>>

One(f, s) == [g \in {f} |-> s]

close_finding(f, fp) ==
    /\ finding[f].s.active
    /\ Page(One(f, [finding[f].s EXCEPT !.active = FALSE, !.mitigated = TRUE,
                                        !.is_mitigated = TRUE, !.false_p = fp]),
            {f}, {"mitigated", "mitigated_by"})
    /\ bulk' = bulk \ {f}

reopen_finding(f) ==
    /\ ~finding[f].s.active
    /\ Page(One(f, [finding[f].s EXCEPT !.active = TRUE, !.mitigated = FALSE,
                                        !.is_mitigated = FALSE]), {f}, {"mitigated_by"})
    /\ bulk' = bulk \ {f}

\* The edit form takes the flag back, of this finding: process_false_positive_history asks
\* whether false_p is set and not set, and does nothing.
edit_finding(f) ==
    /\ finding[f].s.false_p
    /\ Page(One(f, [finding[f].s EXCEPT !.active = TRUE, !.false_p = FALSE]), {f}, {})
    /\ bulk' = bulk \ {f}

\* the boxes of the menu: open, mitigated or false positive
BulkStatus ==
    {[active |-> TRUE, false_p |-> FALSE, is_mitigated |-> FALSE],
     [active |-> FALSE, false_p |-> FALSE, is_mitigated |-> TRUE],
     [active |-> FALSE, false_p |-> TRUE, is_mitigated |-> TRUE]}

\* A new false positive is replicated by the request itself, here by a worker.  One that is taken
\* back takes all equal ones along, which get its status.
bulk_edit(f, b) ==
    LET form == [finding[f].s EXCEPT !.active = b.active, !.false_p = b.false_p,
                                     !.is_mitigated = b.is_mitigated, !.verified = FALSE]
        now == saved(finding[f].s, form, {})
        equal == IF Retroactive /\ finding[f].s.false_p /\ ~now.false_p
                 THEN {g \in match_finding_to_existing_findings(f) : finding[g].s.false_p}
                 ELSE {}
        new == [g \in {f} \cup equal |->
                  IF g = f THEN form
                  ELSE [finding[g].s EXCEPT !.active = now.active, !.verified = now.verified,
                            !.false_p = FALSE, !.out_of_scope = now.out_of_scope,
                            !.is_mitigated = now.is_mitigated]]
    IN  /\ Page(new, IF now.false_p THEN {f} ELSE {}, {})
        /\ bulk' = IF now.active THEN bulk \cup DOMAIN new ELSE bulk \ DOMAIN new

Pages ==
    \E f \in Findings :
        \/ \E fp \in BOOLEAN : close_finding(f, fp)
        \/ reopen_finding(f)
        \/ edit_finding(f)
        \/ \E b \in BulkStatus : bulk_edit(f, b)

Crossed ==
    crossed' = (crossed \/ /\ \E w \in Workers : todo[w] /= {}
                           /\ \E f \in Findings : finding[f].s.false_p /\ ~finding'[f].s.false_p)

Next ==
    \/ Import_Next /\ Crossed /\ UNCHANGED <<todo, bulk, decisions>>
    \/ \E w \in Workers : Task(w) /\ Crossed
    \/ Pages /\ Crossed

Spec == Init /\ [][Next]_vars

-----------------------------------------------------------------------------
\* open though an equal finding is known to be a false positive
Overlooked(f) ==
    /\ f \in Findings /\ finding[f].s.active /\ f \notin bulk
    /\ \E g \in match_finding_to_existing_findings(f) : finding[g].s.false_p

Quiet == queue = {} /\ \A w \in Workers : todo[w] = {}

\* "If one finding is a false positive, all equal findings in the same product also are": when
\* no task is left, none is open, whatever imports and users did at the same time.  (Not those
\* that the bulk edit has opened: it starts no task.  And a false positive that is taken back
\* while a task saves its copies is beyond the tasks that look at the findings in between.)
HistoryHolds == Retroactive /\ Quiet /\ ~crossed => \A f \in Findings : ~Overlooked(f)

\* "FP History will also retroactively mark/unmark all existing equal findings": taking a false
\* positive back takes all equal ones back.
UnmarkedTogether ==
    [][\A f \in Findings :
        Retroactive /\ edit_finding(f) =>
            \A g \in match_finding_to_existing_findings(f) : ~finding'[g].s.false_p]_vars
=============================================================================
