------------------------------- MODULE Reimport -------------------------------
(***************************************************************************)
(* Uploading a new report into an existing test (DojoDefaultReImporter):   *)
(* every item of the report is matched with a finding of the test, which   *)
(* is updated, reactivated or closed, or becomes a new finding; findings   *)
(* left over are closed.  With ASYNC_FINDING_IMPORT the report is cut into *)
(* chunks that celery workers handle side by side.                         *)
(***************************************************************************)
EXTENDS FindingStatus, FiniteSets, Sequences

CONSTANTS
    Ids,            \* primary keys, 1..n: bounds the findings created
    None,
    Reports,        \* the reports that are uploaded: sequences of items
    algorithm,      \* test.deduplication_algorithm
    Async,          \* settings.ASYNC_FINDING_IMPORT
    ChunkSize,      \* settings.ASYNC_FINDING_IMPORT_CHUNK_SIZE
    MaxUploads      \* bounds the uploads

\* what process_parsed_findings holds of the finding it has found, 0: none
Instance == [id : Ids \cup {0}, status : Status, handled : BOOLEAN]

\* the items of the reports
Reported == UNION {{r[i] : i \in DOMAIN r} : r \in Reports}

ASSUME NoneAssumption ==
    None \notin Ids /\ None \notin Status /\ None \notin Instance /\ None \notin BOOLEAN
ASSUME ChunkAssumption == ChunkSize \in Nat \ {0} /\ Async \in BOOLEAN
ASSUME IdsAssumption == Ids \subseteq Nat \ {0}
ASSUME ReportsAssumption ==
    Reports \subseteq Seq(Reported) /\ \A x \in Reported : x.status \in Status

VARIABLES
    next_id,
    attr,           \* attr[f]: what identifies f: [hash, uid, title]
    row,            \* row[f]: its status, None when there is no such row
    uploads,        \* number of uploads so far
    phase,          \* "idle", "processing" or "closing"
    args,           \* report and options of the upload
    chunk,          \* the local variables of process_parsed_findings, by chunk
    to_mitigate,    \* instances left for close_old_findings
    closed_findings,
    noted           \* findings with the note of a skipped reactivation

vars == <<next_id, attr, row, uploads, phase, args, chunk, to_mitigate,
          closed_findings, noted>>

upload == <<uploads, phase, args, to_mitigate, closed_findings>>

Findings == {f \in Ids : row[f] /= None}

Open == [active |-> TRUE, verified |-> FALSE, false_p |-> FALSE,
         out_of_scope |-> FALSE, is_mitigated |-> FALSE, mitigated |-> FALSE,
         risk_accepted |-> FALSE, duplicate |-> FALSE, linked |-> FALSE]

-----------------------------------------------------------------------------
\* the queries of match_new_finding_to_existing_finding
Same(x, y) == x /= None /\ x = y

Matches(a, f) ==
    CASE algorithm = "hash_code" -> Same(a.hash, attr[f].hash)
      [] algorithm = "unique_id_from_tool" -> Same(a.uid, attr[f].uid)
      [] algorithm = "unique_id_from_tool_or_hash_code" ->
            Same(a.hash, attr[f].hash) \/ Same(a.uid, attr[f].uid)
      [] algorithm = "legacy" -> a.title = attr[f].title

\* only sees what was there when the upload began
match_snapshot(a, seen) ==
    {f \in Findings : /\ Matches(a, f) /\ seen[f] /= None
                      /\ \A g \in Findings : Matches(a, g) => f <= g}

\* findings[0] of the query, in key order; seen: the rows at the start
match_new_finding_to_existing_finding(a, seen) ==
    {f \in Findings : /\ Matches(a, f)
                      /\ \A g \in Findings : Matches(a, g) => f <= g}

-----------------------------------------------------------------------------
\* chunk_list, or the whole report at once: also when it is empty
Chunks(report) ==
    IF ~Async THEN <<report>>
    ELSE LET n == (Len(report) + ChunkSize - 1) \div ChunkSize
             End(i) == IF i * ChunkSize > Len(report) THEN Len(report) ELSE i * ChunkSize
         IN  [i \in 1..n |-> SubSeq(report, (i - 1) * ChunkSize + 1, End(i))]

NoArgs == [report |-> <<>>, close_old |-> FALSE, do_not_reactivate |-> FALSE,
           active |-> None]

Init ==
    /\ next_id = 1
    /\ attr = [f \in Ids |-> None]
    /\ row = [f \in Ids |-> None]
    /\ uploads = 0
    /\ phase = "idle"
    /\ args = NoArgs
    /\ chunk = <<>>
    /\ to_mitigate = {}
    /\ closed_findings = {}
    /\ noted = {}

reimport_scan ==
    /\ phase = "idle" /\ uploads < MaxUploads
    /\ \E r \in Reports, close, dnr \in BOOLEAN, a \in BOOLEAN \cup {None} :
        /\ args' = [report |-> r, close_old |-> close, do_not_reactivate |-> dnr,
                    active |-> a]
        /\ chunk' = [c \in DOMAIN Chunks(r) |->
              [items |-> Chunks(r)[c], original |-> None, found |-> None,
               new |-> {}, reactivated |-> {}, unchanged |-> {}]]
    /\ uploads' = uploads + 1
    /\ phase' = "processing"
    /\ to_mitigate' = {} /\ closed_findings' = {}
    /\ UNCHANGED <<next_id, attr, row, noted>>

\* a worker starts: original_items = list(test.finding_set.all())
Start(c) ==
    /\ chunk[c].original = None
    /\ chunk' = [chunk EXCEPT ![c].original = row]
    /\ UNCHANGED <<next_id, attr, row, noted, upload>>

Item(c) == Head(chunk[c].items)

\* the query for the next item; 0 stands for an empty result
Lookup(c) ==
    /\ chunk[c].original /= None /\ chunk[c].items /= <<>> /\ chunk[c].found = None
    /\ LET m == match_new_finding_to_existing_finding(Item(c).attr, chunk[c].original)
       IN  chunk' = [chunk EXCEPT ![c].found =
                IF m = {} THEN [id |-> 0, status |-> Open, handled |-> FALSE]
                ELSE LET f == CHOOSE x \in m : TRUE
                     IN  [id |-> f, status |-> row[f], handled |-> FALSE]]
    /\ UNCHANGED <<next_id, attr, row, noted, upload>>

-----------------------------------------------------------------------------
(* The branches for an item; s is the status the instance was loaded with. *)

id(c) == chunk[c].found.id
s(c) == chunk[c].found.status
st(c) == Item(c).status

Rejected(x) == x.false_p \/ x.out_of_scope \/ x.risk_accepted

Pending(c) == chunk[c].found /= None /\ ~chunk[c].found.handled
Found(c) == Pending(c) /\ id(c) /= 0

Unlisted == "unlisted"

\* the chunk with f in the named list, and with the next item
Listed(c, list, f) ==
    IF list = Unlisted THEN chunk[c] ELSE [chunk[c] EXCEPT ![list] = @ \cup {f}]

\* "continue": the item is done without a save
Skip(c, list) ==
    /\ chunk' = [chunk EXCEPT ![c] =
                    [Listed(c, list, id(c)) EXCEPT !.items = Tail(@), !.found = None]]
    /\ UNCHANGED <<next_id, attr, row, noted, upload>>

\* the save at the end of the loop
Store(c, list, new, touched) ==
    /\ row' = [row EXCEPT ![id(c)] = saved(s(c), new, touched)]
    /\ chunk' = [chunk EXCEPT ![c] =
                    [Listed(c, list, id(c)) EXCEPT !.items = Tail(@), !.found = None]]
    /\ UNCHANGED <<next_id, attr, noted, upload>>

\* a save within the loop: the one at its end follows
Save_first(c, list, f, new) ==
    /\ row' = [row EXCEPT ![f] = new]
    /\ chunk' = [chunk EXCEPT ![c] = [Listed(c, list, f) EXCEPT
                    !.found = [id |-> f, status |-> new, handled |-> TRUE]]]
    /\ UNCHANGED <<noted, upload>>

Save_again(c) ==
    /\ chunk[c].found /= None /\ chunk[c].found.handled
    /\ Store(c, Unlisted, s(c), {})

\* false positive, out of scope or risk accepted, in the report too
SameRejection(c) ==
    /\ Found(c) /\ Rejected(s(c))
    /\ s(c).false_p = st(c).false_p /\ s(c).out_of_scope = st(c).out_of_scope
    /\ s(c).risk_accepted = st(c).risk_accepted
    /\ Skip(c, "unchanged")

DiffersFromReport(c) ==
    \/ s(c).false_p /= st(c).false_p \/ s(c).out_of_scope /= st(c).out_of_scope
    \/ s(c).risk_accepted /= st(c).risk_accepted

\* the report would take a decision back
OtherRejection_report_wins(c) ==
    /\ Found(c) /\ Rejected(s(c)) /\ DiffersFromReport(c)
    /\ Store(c, Unlisted, [s(c) EXCEPT !.risk_accepted = st(c).risk_accepted,
                              !.false_p = st(c).false_p,
                              !.out_of_scope = st(c).out_of_scope], {})

\* ... in the report differently: saved as it is, and in no list
OtherRejection(c) ==
    /\ Found(c) /\ Rejected(s(c)) /\ DiffersFromReport(c)
    /\ Store(c, Unlisted, s(c), {})

StillMitigated(c) ==
    /\ Found(c) /\ ~Rejected(s(c)) /\ s(c).is_mitigated /\ st(c).is_mitigated
    /\ Skip(c, "unchanged")

FixedBefore(c) ==
    Found(c) /\ ~Rejected(s(c)) /\ s(c).is_mitigated /\ ~st(c).is_mitigated

Reactivate(c) ==
    /\ FixedBefore(c) /\ ~args.do_not_reactivate
    /\ Save_first(c, "reactivated", id(c),
          saved(s(c), [s(c) EXCEPT !.mitigated = FALSE, !.is_mitigated = FALSE,
                                   !.active = TRUE], {"mitigated_by"}))
    /\ UNCHANGED <<next_id, attr>>

\* a note says that the finding was not reactivated; only the first one saves
SkipReactivation(c) ==
    /\ FixedBefore(c) /\ args.do_not_reactivate
    /\ row' = IF id(c) \in noted THEN row ELSE [row EXCEPT ![id(c)] = s(c)]
    /\ noted' = noted \cup {id(c)}
    /\ chunk' = [chunk EXCEPT ![c].items = Tail(@), ![c].found = None]
    /\ UNCHANGED <<next_id, attr, upload>>

OpenBefore(c) == Found(c) /\ ~Rejected(s(c)) /\ ~s(c).is_mitigated

CloseReported(c) ==
    /\ OpenBefore(c) /\ st(c).is_mitigated
    /\ Store(c, Unlisted, [s(c) EXCEPT !.mitigated = st(c).mitigated, !.is_mitigated = TRUE,
                                       !.active = FALSE], {"mitigated_by"})

RejectReported(c) ==
    /\ OpenBefore(c) /\ ~st(c).is_mitigated /\ Rejected(st(c))
    /\ Store(c, Unlisted, [s(c) EXCEPT !.risk_accepted = st(c).risk_accepted,
                              !.false_p = st(c).false_p,
                              !.out_of_scope = st(c).out_of_scope, !.active = FALSE], {})

Unchanged(c) ==
    /\ OpenBefore(c) /\ ~st(c).is_mitigated /\ ~Rejected(st(c))
    /\ Store(c, "unchanged", s(c), {})

NewStatus(c) ==
    created(IF args.active = None THEN st(c) ELSE [st(c) EXCEPT !.active = args.active])

\* no existing finding: the item itself is saved, with the override of active
Create(c) ==
    /\ Pending(c) /\ id(c) = 0 /\ next_id \in Ids
    /\ attr' = [attr EXCEPT ![next_id] = Item(c).attr]
    /\ next_id' = next_id + 1
    /\ Save_first(c, "new", next_id, NewStatus(c))

-----------------------------------------------------------------------------
AllDone == \A c \in DOMAIN chunk : chunk[c].original /= None /\ chunk[c].items = <<>>

\* also takes the findings the workers have just created
Left_current(c) ==
    {[id |-> f, status |-> row[f], chunk |-> c] :
        f \in Findings \ (chunk[c].reactivated \cup chunk[c].unchanged)}

\* original_items - reactivated - unchanged, as they were loaded at the start
Left(c) ==
    LET ch == chunk[c]
    IN  {[id |-> f, status |-> ch.original[f], chunk |-> c] :
            f \in {g \in Ids : ch.original[g] /= None} \ (ch.reactivated \cup ch.unchanged)}

Collect ==
    /\ phase = "processing" /\ AllDone
    /\ to_mitigate' = IF args.close_old THEN UNION {Left(c) : c \in DOMAIN chunk} ELSE {}
    /\ phase' = "closing"
    /\ UNCHANGED <<next_id, attr, row, noted, uploads, args, chunk, closed_findings>>

\* would leave the finding active
Mitigated_active(x) == [x EXCEPT !.mitigated = TRUE, !.is_mitigated = TRUE]

Mitigated(x) == [x EXCEPT !.mitigated = TRUE, !.is_mitigated = TRUE, !.active = FALSE]

\* one round of the loop of close_old_findings: the chunks' lists in turn
close_old_findings ==
    /\ phase = "closing"
    /\ \E t \in to_mitigate :
        /\ \A u \in to_mitigate : t.chunk <= u.chunk
        /\ to_mitigate' = to_mitigate \ {t}
        /\ IF t.status.mitigated /\ t.status.is_mitigated
           THEN UNCHANGED <<row, closed_findings>>
           ELSE /\ row' = [row EXCEPT ![t.id] = saved(t.status, Mitigated(t.status),
                                                      {"mitigated", "mitigated_by"})]
                /\ closed_findings' = closed_findings \cup {t.id}
    /\ UNCHANGED <<next_id, attr, noted, uploads, phase, args, chunk>>

Done ==
    /\ phase = "closing" /\ to_mitigate = {}
    /\ phase' = "idle"
    /\ UNCHANGED <<next_id, attr, row, noted, uploads, args, chunk, to_mitigate,
                   closed_findings>>

\* Between two uploads users close findings, mark false positives and accept
\* risks: three decisions of those that FindingLifecycle has.
Decide ==
    /\ phase = "idle" /\ uploads < MaxUploads
    /\ \E f \in Findings :
        \E new \in {[row[f] EXCEPT !.active = FALSE, !.is_mitigated = TRUE, !.mitigated = TRUE],
                    [row[f] EXCEPT !.active = FALSE, !.false_p = TRUE],
                    [row[f] EXCEPT !.active = FALSE, !.risk_accepted = TRUE]} :
            row' = [row EXCEPT ![f] = saved(row[f], new, {})]
    /\ UNCHANGED <<next_id, attr, noted, chunk, upload>>

Worker(c) ==
    \/ Start(c) \/ Lookup(c)
    \/ SameRejection(c) \/ OtherRejection(c)
    \/ StillMitigated(c) \/ Reactivate(c) \/ SkipReactivation(c)
    \/ CloseReported(c) \/ RejectReported(c) \/ Unchanged(c)
    \/ Create(c) \/ Save_again(c)

Next ==
    \/ reimport_scan \/ Collect \/ close_old_findings \/ Done \/ Decide
    \/ phase = "processing" /\ \E c \in DOMAIN chunk : Worker(c)

Spec == Init /\ [][Next]_vars

-----------------------------------------------------------------------------
\* an upload has run to its end, users have not yet acted on the result
Settled == phase = "closing" /\ to_mitigate = {}

\* the rows before the upload
Before(f) == chunk[1].original[f]

ItemsOf(f) ==
    {i \in DOMAIN args.report :
        f \in match_new_finding_to_existing_finding(args.report[i].attr, row)}

Plain(i) ==
    ~args.report[i].status.is_mitigated /\ ~Rejected(args.report[i].status)

\* A vulnerability the report lists as open is not mitigated by the upload,
\* whichever items of the report came before, unless the user asked not to
\* reactivate it or has rejected it.  So without Async: a chunk closes what only
\* the other chunks contain (reimporter.py:623).
PresentNotClosed ==
    Settled => \A f \in Findings :
        /\ ItemsOf(f) /= {} /\ \A i \in ItemsOf(f) : Plain(i)
        /\ ~Rejected(row[f]) /\ row[f].is_mitigated
        => args.do_not_reactivate /\ Before(f) /= None /\ Before(f).is_mitigated

\* What the report no longer has is closed, if that was asked for.
AbsentIsClosed ==
    Settled /\ args.close_old => \A f \in Findings :
        ItemsOf(f) = {} => ~row[f].active

\* An upload takes no decision of a user back: what was rejected or accepted
\* before stays so and is not opened, though its row is saved from copies read
\* before the other items were handled.
DecisionSurvives ==
    Settled => \A f \in Findings :
        Before(f) /= None /\ Rejected(Before(f)) =>
            /\ row[f].active => Before(f).active
            /\ row[f].false_p = Before(f).false_p
            /\ row[f].risk_accepted = Before(f).risk_accepted

\* Items that are the same vulnerability share one finding, within one report
\* and over uploads: no finding is created that an older one matches.
NoTwins == \A f, g \in Findings : f < g => ~Matches(attr[g], f)

\* "Old findings no longer present in the report get closed": none that the
\* report lists as open is.
OnlyAbsentClosed ==
    Settled => \A f \in closed_findings : \A i \in ItemsOf(f) : ~Plain(i)

=============================================================================
