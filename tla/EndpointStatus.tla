---------------------------- MODULE EndpointStatus ----------------------------
(***************************************************************************)
(* Where a dynamic finding is: one row of Endpoint_Status for each         *)
(* endpoint, which says whether it is mitigated there.  Uploads to its     *)
(* test bring the rows in line with the report; with ASYNC_FINDING_IMPORT  *)
(* they are cut into chunks for celery workers, which save copies of the   *)
(* rows taken when the chunk was queued.  Users change rows meanwhile.     *)
(*                                                                         *)
(* The model follows one finding.  Reimport has what an upload does to the *)
(* findings of a test; here their branches are kept as far as they decide  *)
(* about endpoints.  A report may have several items for the finding,      *)
(* which are taken in turn.                                                *)
(***************************************************************************)
EXTENDS Naturals, FiniteSets, Sequences, SequencesExt

CONSTANTS
    Locations,      \* the endpoints
    Reports,        \* what reports have for the finding, in their order
    ChunkSize,      \* settings.ASYNC_FINDING_IMPORT_CHUNK_SIZE
    Settings,       \* the values of settings.ASYNC_FINDING_IMPORT
    None,
    MaxUploads,     \* bounds the uploads
    MaxDecisions    \* bounds what users do

ASSUME LocationsAssumption == IsFiniteSet(Locations)
ASSUME ChunkAssumption == ChunkSize \in Nat \ {0} /\ Settings \subseteq BOOLEAN

VARIABLES
    async,          \* settings.ASYNC_FINDING_IMPORT
    finding,        \* its status, None before it is found
    row,            \* row[l]: its Endpoint_Status at l, None when there is none
    tasks,          \* tasks queued for celery or running
    upload,         \* the upload that is running, None when there is none
    uploads,
    decisions,
    told,           \* where the last upload promises it open or shut
    own             \* where users, or older tasks, had a hand since it began

vars == <<async, finding, row, tasks, upload, uploads, decisions, told, own>>

Status == [mitigated : BOOLEAN, rejected : BOOLEAN]
Rows == [mitigated : BOOLEAN, flagged : BOOLEAN]

Open == [mitigated |-> FALSE, rejected |-> FALSE]
Fixed == [mitigated |-> TRUE, rejected |-> FALSE]

\* what a report says: the finding as fixed or not, rejected or not (a false
\* positive, out of scope, a risk accepted), with its endpoints
Items == [fixed : BOOLEAN, rejected : BOOLEAN, at : SUBSET Locations]

ASSUME ReportsAssumption == Reports \subseteq Seq(Items)

Kinds == {"mitigate", "reactivate", "add"}
Stages == {"match", "reactivate", "update", "mitigate", "add", "save", "collect",
           "close", "closed"}
CopySet == [at : Locations, row : Rows \cup {None}]
Done == [kind : Kinds, copies : Seq(CopySet)]
Tasks == [kind : Kinds, copies : Seq(CopySet) \ {<<>>}, of : Nat \X Stages]

\* item: the one in hand; rest: the ones after it; said: the last that came as
\* far as the endpoints it lists
UploadSet ==
    [item : Items \cup {None}, rest : Seq(Items), close_old : BOOLEAN, do_not_reactivate : BOOLEAN,
     stage : Stages, found : Status \cup {None}, listed : BOOLEAN, late : BOOLEAN,
     said : Items \cup {None}, before : Status \cup {None}, elsewhere : BOOLEAN,
     inline : Seq(Done), gone : Seq(CopySet),
     left : SUBSET ({"here", "elsewhere"} \X Status), closed : BOOLEAN]

ASSUME NoneAssumption ==
    None \notin Status /\ None \notin Rows /\ None \notin Items /\ None \notin UploadSet

Silent == [open |-> {}, shut |-> {}]

Here == {l \in Locations : row[l] /= None}

-----------------------------------------------------------------------------
(* Rows loaded by a query, and the jobs that save them. *)

\* the queries ask for no order
Copies(S) ==
    LET s == SetToSeq(S)
    IN  [i \in DOMAIN s |-> [at |-> s[i], row |-> row[s[i]]]]

chunk_list(copies) ==
    {SubSeq(copies, i, IF i + ChunkSize > Len(copies) THEN Len(copies)
                       ELSE i + ChunkSize - 1) :
        i \in {j \in 1..Len(copies) : (j - 1) % ChunkSize = 0}}

\* with only one chunk, "do not bother with async"
Apart(copies) == async /\ Len(copies) > ChunkSize

Inline(kind, copies) ==
    IF Apart(copies) THEN <<>> ELSE <<[kind |-> kind, copies |-> copies]>>

\* stage: tells the tasks of one upload apart
Queued(kind, copies, stage) ==
    IF Apart(copies)
    THEN {[kind |-> kind, copies |-> c, of |-> <<uploads, stage>>] : c \in chunk_list(copies)}
    ELSE {}

\* a row saved by a task, from its copy c
Saved(kind, c) ==
    CASE kind = "mitigate" ->
            IF c.row.mitigated THEN row[c.at] ELSE [c.row EXCEPT !.mitigated = TRUE]
      [] kind = "reactivate" ->
            IF c.row.mitigated THEN [c.row EXCEPT !.mitigated = FALSE] ELSE row[c.at]
      [] kind = "add" ->        \* get_or_create
            IF row[c.at] = None THEN [mitigated |-> FALSE, flagged |-> FALSE] ELSE row[c.at]

\* a task saves the next of its rows
Work(job) ==
    /\ row' = [row EXCEPT ![Head(job.copies).at] = Saved(job.kind, Head(job.copies))]
    /\ tasks' = LET rest == [job EXCEPT !.copies = Tail(@)]
                IN  (tasks \ {job}) \cup (IF rest.copies = <<>> THEN {} ELSE {rest})
    /\ UNCHANGED <<async, finding, upload, uploads, decisions, told, own>>

-----------------------------------------------------------------------------
(* The upload. *)

At(stage) == upload /= None /\ upload.stage = stage /\ upload.inline = <<>>

\* a job that the request, or the worker with the chunk of the finding, does itself
WorkInline ==
    /\ upload /= None /\ upload.inline /= <<>>
    /\ LET job == Head(upload.inline)
       IN  IF job.copies = <<>>
           THEN /\ upload' = [upload EXCEPT !.inline = Tail(@)]
                /\ UNCHANGED row
           ELSE /\ upload' = [upload EXCEPT !.inline = <<[job EXCEPT !.copies = Tail(@)]>>]
                /\ row' = [row EXCEPT ![Head(job.copies).at] =
                                          Saved(job.kind, Head(job.copies))]
    /\ UNCHANGED <<async, finding, tasks, uploads, decisions, told, own>>

\* The items for the finding are in one chunk.  elsewhere: is there a chunk
\* without the finding?  Without an item there is one, or else the report is
\* empty.  before: the status in original_items, None when no chunk has an item.
reimport_scan ==
    /\ upload = None /\ uploads < MaxUploads
    /\ \E items \in Reports, elsewhere, close_old, dnr \in BOOLEAN :
        /\ elsewhere => async
        /\ upload' = [item |-> IF items = <<>> THEN None ELSE Head(items),
                      rest |-> IF items = <<>> THEN <<>> ELSE Tail(items),
                      close_old |-> close_old, do_not_reactivate |-> dnr,
                      stage |-> IF items = <<>> THEN "collect" ELSE "match",
                      found |-> None, listed |-> FALSE, late |-> FALSE, said |-> None,
                      before |-> IF items = <<>> /\ async THEN None ELSE finding,
                      elsewhere |-> elsewhere, inline |-> <<>>, gone |-> <<>>,
                      left |-> {}, closed |-> FALSE]
    /\ uploads' = uploads + 1
    /\ own' = IF tasks = {} THEN {} ELSE Locations
    /\ told' = Silent
    /\ UNCHANGED <<async, finding, row, tasks, decisions>>

\* what a chunk leaves for close_old_findings, which skips what is mitigated
LeftOver(chunk, f) ==
    IF f = None THEN {} ELSE {c \in {<<chunk, f>>} : ~f.mitigated}

\* the other chunks load their original_items when a worker starts with them
StartElsewhere ==
    /\ upload /= None /\ upload.elsewhere
    /\ upload' = [upload EXCEPT !.elsewhere = FALSE,
            !.left = LeftOver("elsewhere", finding)]
    /\ UNCHANGED <<async, finding, row, tasks, uploads, decisions, told, own>>

\* the loop goes on
NextItem(u) ==
    IF u.rest = <<>> THEN [u EXCEPT !.stage = "collect"]
    ELSE [u EXCEPT !.stage = "match", !.item = Head(u.rest), !.rest = Tail(u.rest)]

\* The query of match_new_finding_to_existing_finding, and the branch it leads
\* to: Leave is "continue".  Tasks that an earlier item has left are older tasks.
Match ==
    /\ At("match")
    /\ LET f == finding
           item == upload.item
           Leave(listed) ==
               /\ upload' = NextItem([upload EXCEPT !.listed = @ \/ listed])
               /\ UNCHANGED <<finding, own>>
           Go(stage, found, listed) ==
               /\ upload' = [upload EXCEPT !.stage = stage, !.found = found,
                                !.listed = @ \/ listed, !.said = None, !.late = FALSE]
               /\ finding' = IF stage \in {"add", "reactivate"} THEN found ELSE finding
               /\ own' = IF tasks = {} THEN own ELSE Locations
       IN  \/ /\ f = None
              /\ Go("add", [mitigated |-> item.fixed, rejected |-> item.rejected], FALSE)
           \/ /\ f /= None /\ f.rejected
              /\ \/ item.rejected /\ Leave(TRUE)      \* the same flags
                 \/ Go("update", f, FALSE)
           \/ /\ f /= None /\ ~f.rejected /\ f.mitigated
              /\ IF item.fixed THEN Leave(TRUE)
                 ELSE IF upload.do_not_reactivate THEN Leave(FALSE)
                 ELSE Go("reactivate", Open, TRUE)
           \/ /\ f /= None /\ ~f.rejected /\ ~f.mitigated
              /\ IF item.fixed THEN Go("update", Fixed, FALSE)
                 ELSE Go("update", [f EXCEPT !.rejected = item.rejected], ~item.rejected)
    /\ UNCHANGED <<async, row, tasks, uploads, decisions, told>>

\* chunk_endpoints_and_reactivate: fails for no rows, chunk_list[0].  A single
\* chunk is done here and queued as well, but by then its copies are active,
\* and the task leaves those alone.
Reactivate(copies, next) ==
    IF async /\ copies = <<>>
    THEN /\ upload' = None
         /\ UNCHANGED tasks
    ELSE /\ upload' = [next EXCEPT !.inline = Inline("reactivate", copies)]
         /\ tasks' = tasks \cup Queued("reactivate", copies, upload.stage)

\* a finding that was fixed and is back: all rows that have no flag
ReactivateAll ==
    /\ At("reactivate")
    /\ Reactivate(Copies({l \in Here : ~row[l].flagged}),
                  [upload EXCEPT !.stage = "update",
                      !.late = Apart(Copies({l \in Here : ~row[l].flagged}))])
    /\ UNCHANGED <<async, finding, row, uploads, decisions, told, own>>

\* would leave the rows with a flag alone
update_unflagged ==
    /\ At("update")
    /\ LET at == upload.item.at
           Gone(S) == [upload EXCEPT !.stage = "mitigate", !.gone = Copies(S)]
       IN  IF upload.item.fixed
           THEN upload' = Gone(Here) /\ UNCHANGED tasks
           ELSE Reactivate(Copies({l \in Here \cap at : ~row[l].flagged}), Gone(Here \ at))
    /\ UNCHANGED <<async, finding, row, uploads, decisions, told, own>>

\* one query for the rows to reactivate and to mitigate; flags do not count
update_endpoint_status ==
    /\ At("update")
    /\ LET at == upload.item.at
           Gone(S) == [upload EXCEPT !.stage = "mitigate", !.gone = Copies(S)]
       IN  IF upload.item.fixed
           THEN upload' = Gone(Here) /\ UNCHANGED tasks
           ELSE Reactivate(Copies(Here \cap at), Gone(Here \ at))
    /\ UNCHANGED <<async, finding, row, uploads, decisions, told, own>>

\* would queue the first chunk only
mitigate_first_chunk ==
    /\ At("mitigate")
    /\ upload' = [upload EXCEPT !.stage = "add", !.gone = <<>>,
                                !.inline = Inline("mitigate", upload.gone)]
    /\ tasks' = tasks \cup {t \in Queued("mitigate", upload.gone, upload.stage) :
                                t.copies[1] = upload.gone[1]}
    /\ UNCHANGED <<async, finding, row, uploads, decisions, told, own>>

\* the second half of update_endpoint_status
mitigate_endpoint_status ==
    /\ At("mitigate")
    /\ upload' = [upload EXCEPT !.stage = "add", !.gone = <<>>,
                                !.inline = Inline("mitigate", upload.gone)]
    /\ tasks' = tasks \cup Queued("mitigate", upload.gone, upload.stage)
    /\ UNCHANGED <<async, finding, row, uploads, decisions, told, own>>

\* chunk_endpoints_and_disperse: rows for endpoints that have none
AddEndpoints ==
    /\ At("add")
    /\ LET copies == Copies(upload.item.at)
       IN  /\ upload' = [upload EXCEPT !.stage = "save", !.said = upload.item,
                                      !.inline = Inline("add", copies)]
           /\ tasks' = tasks \cup Queued("add", copies, upload.stage)
    /\ UNCHANGED <<async, finding, row, uploads, decisions, told, own>>

\* the save at the end of the loop writes the instance loaded at its start
SaveFinding ==
    /\ At("save")
    /\ finding' = upload.found
    /\ upload' = NextItem(upload)
    /\ UNCHANGED <<async, row, tasks, uploads, decisions, told, own>>

\* to_mitigate: per chunk, what it began with and has neither reactivated nor
\* found unchanged
Collect ==
    /\ At("collect") /\ ~upload.elsewhere
    /\ LET here == IF upload.listed THEN {} ELSE LeftOver("here", upload.before)
       IN  upload' = [upload EXCEPT !.stage = "close",
                        !.left = IF upload.close_old THEN @ \cup here ELSE {}]
    /\ UNCHANGED <<async, finding, row, tasks, uploads, decisions, told, own>>

\* one round of close_old_findings: first the rows, ...
close_old_findings ==
    /\ At("close") /\ upload.left /= {}
    /\ \E c \in upload.left :
        upload' = [upload EXCEPT !.stage = "closed", !.found = c[2], !.left = @ \ {c},
                      !.closed = TRUE,
                      !.inline = <<[kind |-> "mitigate", copies |-> Copies(Here)]>>]
    /\ UNCHANGED <<async, finding, row, tasks, uploads, decisions, told, own>>

\* ... then the finding, as it was loaded
SaveClosed ==
    /\ At("closed")
    /\ finding' = [upload.found EXCEPT !.mitigated = TRUE]
    /\ upload' = [upload EXCEPT !.stage = "close"]
    /\ UNCHANGED <<async, row, tasks, uploads, decisions, told, own>>

-----------------------------------------------------------------------------
(* What an upload that was answered promises of the rows, once its tasks are  *)
(* done.  It speaks of the last item that came as far as its endpoints: each  *)
(* mitigates what the ones before it list and it does not.  It says nothing   *)
(* of a finding the loop left with "continue".  What the report lists of a    *)
(* finding that is closed is promised nothing, for the endpoints are added    *)
(* after the others were mitigated, and tasks open them late.  A reactivation *)
(* in tasks opens what the report lacks: the copies to mitigate are taken     *)
(* before the tasks have run, when they are mitigated.                        *)

Promise(u) ==
    [open |-> IF u.said /= None /\ ~u.said.fixed /\ ~u.closed THEN u.said.at ELSE {},
     shut |-> IF u.late THEN {}
              ELSE IF u.closed /\ (~async \/ u.item = None) THEN Locations
              ELSE IF u.said /= None THEN Locations \ u.said.at
              ELSE {}]

Answer ==
    /\ At("close") /\ upload.left = {}
    /\ told' = Promise(upload)
    /\ upload' = None
    /\ UNCHANGED <<async, finding, row, tasks, uploads, decisions, own>>

-----------------------------------------------------------------------------
(* Users; each request is one step. *)

\* the page of a finding, with rows new for the endpoints in S
Decide(status, new, S) ==
    /\ finding /= None /\ decisions < MaxDecisions
    /\ decisions' = decisions + 1
    /\ finding' = status
    /\ row' = [l \in Locations |-> IF l \in S THEN new[l] ELSE row[l]]
    /\ own' = own \cup S
    /\ UNCHANGED <<async, tasks, upload, uploads, told>>

Mitigated(b) == [l \in Here |-> [row[l] EXCEPT !.mitigated = b]]

\* the checked boxes are set and the others cleared
endpoint_status_bulk_update ==
    \E S \in SUBSET Here \ {{}}, new \in Rows : Decide(finding, [l \in S |-> new], S)

\* the list of endpoints, "mitigate"
endpoint_bulk_update_all ==
    \E S \in SUBSET Here \ {{}} : Decide(finding, Mitigated(TRUE), S)

close_finding ==
    \E r \in BOOLEAN :
        Decide([mitigated |-> TRUE, rejected |-> r], Mitigated(TRUE), Here)

reopen_finding == Decide([finding EXCEPT !.mitigated = FALSE], Mitigated(FALSE), Here)

\* a risk accepted in full, a false positive: rows are not touched
Reject == \E m \in BOOLEAN : Decide([mitigated |-> m, rejected |-> TRUE], row, {})

-----------------------------------------------------------------------------
Init ==
    /\ async \in Settings
    /\ finding = None
    /\ row = [l \in Locations |-> None]
    /\ tasks = {}
    /\ upload = None
    /\ uploads = 0 /\ decisions = 0
    /\ told = Silent
    /\ own = {}

Upload ==
    \/ reimport_scan \/ StartElsewhere \/ Match
    \/ ReactivateAll \/ update_endpoint_status \/ mitigate_endpoint_status
    \/ AddEndpoints \/ SaveFinding
    \/ Collect \/ close_old_findings \/ SaveClosed \/ Answer

Users ==
    \/ endpoint_status_bulk_update \/ endpoint_bulk_update_all
    \/ close_finding \/ reopen_finding \/ Reject

Next == Upload \/ WorkInline \/ (\E job \in tasks : Work(job)) \/ Users

Spec == Init /\ [][Next]_vars

-----------------------------------------------------------------------------
Quiet == upload = None /\ tasks = {}

\* An endpoint that the last item for the finding lists, and does not say is
\* fixed, is active there once the tasks are done, in whatever order they and
\* users' requests came: also one that was mitigated, or has a flag.  Not if a
\* user has since changed it, the finding was closed as absent, or tasks of an
\* earlier upload or item were left when the item was taken.
ReportedActive ==
    Quiet => \A l \in told.open \ own : row[l] /= None /\ ~row[l].mitigated

\* An endpoint that item does not list, be it listed by an earlier one of the
\* report, or any one when the finding is closed as absent, is not left active,
\* unless a user has since changed it, tasks were left as above, or the finding
\* was reactivated by tasks.
UnreportedMitigated ==
    Quiet => \A l \in told.shut \ own : row[l] = None \/ row[l].mitigated

=============================================================================
