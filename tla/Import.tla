-------------------------------- MODULE Import --------------------------------
(***************************************************************************)
(* Importing reports into tests of their own (DojoDefaultImporter): every  *)
(* item becomes a finding, and what earlier tests of the same type and     *)
(* service still have open and the new test lacks is closed.  With         *)
(* ASYNC_FINDING_IMPORT the report is cut into chunks that celery workers  *)
(* handle side by side.  Imports may overlap, and fail half way.           *)
(* A finding is saved twice and gets its hash code with the second save.   *)
(***************************************************************************)
EXTENDS FindingStatus, FiniteSets, Sequences, SequencesExt

CONSTANTS
    Ids,            \* primary keys, 1..n: bounds the findings created
    Imports,        \* 1..n: bounds the imports; an import has the number of its test
    Targets,        \* where imports go: [engagement, test_type, service] in one product
    Hashes, Uids,   \* what identifies items
    Requests,       \* [to, report, close_old]: imports that may happen
    ChunkSize,      \* settings.ASYNC_FINDING_IMPORT_CHUNK_SIZE, or None: synchronous
    None

Item == [hash : Hashes, uid : Uids \cup {None}, status : Status]
Row == [test : Imports, hash : Hashes \cup {None}, uid : Uids \cup {None}, s : Status]

ASSUME ImportAssumption ==
    /\ Ids \subseteq Nat \ {0} /\ Imports \subseteq Nat
    /\ None \notin Hashes /\ None \notin Targets /\ None \notin Row
    /\ ChunkSize \in Nat \ {0} \/ ChunkSize = None

ASSUME RequestsAssumption ==
    \A r \in Requests : /\ r.to \in Targets /\ r.report \in Seq(Item)
                        /\ r.close_old \in {None, "engagement", "product"}

VARIABLES
    next_id,
    finding,        \* the row: its test, what identifies it and its status; or None
    test,           \* the test of each import: its target, or None
    import,         \* the request of each import and its chunks
    queue,          \* findings whose post_process_finding_save waits for a worker
    changed         \* findings of unfinished imports that a user, the history or another
                    \* import has saved (only the properties ask)

importVars == <<next_id, finding, test, import, queue, changed>>

Findings == {f \in Ids : finding[f] /= None}
Own(u) == {f \in Findings : finding[f].test = u}
target(f) == test[finding[f].test]

NoImport == [stage |-> "none"]
Over == [stage |-> "over"]

Init_Import ==
    /\ next_id = 1
    /\ finding = [f \in Ids |-> None]
    /\ test = [u \in Imports |-> None]
    /\ import = [u \in Imports |-> NoImport]
    /\ queue = {} /\ changed = {}

-----------------------------------------------------------------------------
\* chunk_list, or the whole report at once: also when it is empty
Chunks(report) ==
    IF ChunkSize = None THEN <<report>>
    ELSE LET n == (Len(report) + ChunkSize - 1) \div ChunkSize
             End(i) == IF i * ChunkSize > Len(report) THEN Len(report) ELSE i * ChunkSize
         IN  [i \in 1..n |-> SubSeq(report, (i - 1) * ChunkSize + 1, End(i))]

\* since: what was opened since the old findings were looked for (only the properties ask)
import_scan(u) ==
    /\ import[u].stage = "none" /\ \A v \in Imports : v < u => import[v].stage /= "none"
    /\ \E r \in Requests :
           /\ test' = [test EXCEPT ![u] = r.to]
           /\ import' = [import EXCEPT ![u] =
                  [stage |-> "processing", report |-> r.report, close_old |-> r.close_old,
                   items |-> Chunks(r.report), half |-> [c \in DOMAIN Chunks(r.report) |-> 0],
                   todo |-> {}, since |-> {}]]
    /\ UNCHANGED <<next_id, finding, queue, changed>>

Change(fs) == changed' = changed \cup {f \in fs : import[finding[f].test].stage \in {"processing", "closing"}}

\* fs are opened by a save: of a user or of the code that creates them
Opened(imports, fs) ==
    [u \in Imports |-> IF imports[u].stage = "closing"
                       THEN [imports[u] EXCEPT !.since = @ \cup fs] ELSE imports[u]]

\* workers go on with their chunks when the request has failed
Running(u) == import[u].stage \in {"processing", "failed"}

\* the first save of an item
Create(u, c) ==
    /\ Running(u) /\ c \in DOMAIN import[u].items
    /\ import[u].half[c] = 0 /\ import[u].items[c] /= <<>> /\ next_id \in Ids
    /\ LET item == Head(import[u].items[c]) IN
        finding' = [finding EXCEPT ![next_id] =
            [test |-> u, hash |-> None, uid |-> item.uid, s |-> created(item.status)]]
    /\ import' = Opened([import EXCEPT ![u].half[c] = next_id], {next_id})
    /\ queue' = queue \cup {next_id}
    /\ next_id' = next_id + 1
    /\ UNCHANGED <<test, changed>>

\* the second save, of the same instance: what happened in between is overwritten
Complete(u, c) ==
    /\ Running(u) /\ c \in DOMAIN import[u].items /\ import[u].half[c] /= 0
    /\ LET item == Head(import[u].items[c])
           f == import[u].half[c]
       IN  /\ finding' = [finding EXCEPT ![f].hash = item.hash, ![f].s = created(item.status)]
           /\ import' = Opened([import EXCEPT ![u].items[c] = Tail(@), ![u].half[c] = 0], {f})
           /\ queue' = queue \cup {f}
    /\ UNCHANGED <<next_id, test, changed>>

\* a task or the request raises, or its process is killed
Fail(u) ==
    /\ import[u].stage \in {"processing", "closing"}
    /\ import' = [import EXCEPT ![u] =
           IF import[u].stage = "closing" \/ ChunkSize = None THEN Over
           ELSE [@ EXCEPT !.stage = "failed", !.report = <<>>, !.close_old = None]]
    /\ changed' = changed \ Own(u)
    /\ UNCHANGED <<next_id, finding, test, queue>>

-----------------------------------------------------------------------------
(* close_old_findings *)

\* for x in list: if x == hash: list.remove(x), the list getting shorter under the loop
Removed(list, hash) ==
    LET after[i \in 0..Len(list)] ==
            IF i = 0 THEN list
            ELSE LET rest == after[i - 1]
                 IN  IF i <= Len(rest) /\ rest[i] = hash THEN RemoveFirst(rest, hash) ELSE rest
    IN  after[Len(list)]

\* mutant: what is mitigated in the new test counts as present
new_hash_codes_all(own) ==
    LET Add(list, f) == Append(list, finding[f].hash)
    IN  FoldLeft(Add, <<>>, own)

\* the hash codes the new test has open; own: its findings in the order of the query
new_hash_codes(own) ==
    LET after[i \in 0..Len(own)] ==
            IF i = 0 THEN <<>>
            ELSE LET longer == Append(after[i - 1], finding[own[i]].hash)
                 IN  IF finding[own[i]].s.is_mitigated THEN Removed(longer, finding[own[i]].hash)
                     ELSE longer
    IN  after[Len(own)]

\* a finding without a hash code is not among those of any list
Old(u, present) ==
    {f \in Findings \ Own(u) :
        /\ finding[f].hash = None \/ ~Contains(present, finding[f].hash)
        /\ target(f).test_type = test[u].test_type
        /\ target(f).service = test[u].service
        /\ import[u].close_old = "product"
              \/ target(f).engagement = test[u].engagement
        /\ finding[f].s.active}

\* mutant: does not wait for the results
Ready_early(u) == import[u].stage = "processing" /\ import[u].close_old /= None

Ready(u) ==
    /\ import[u].stage = "processing" /\ import[u].close_old /= None
    /\ \A c \in DOMAIN import[u].items : import[u].items[c] = <<>>

\* both queries, when the results of all chunks are there; rows come in the order of
\* severity, date and title, which can be any
close_old_findings(u) ==
    /\ Ready(u)
    /\ \E own \in SetToSeqs(Own(u)) :
           import' = [import EXCEPT ![u].stage = "closing", ![u].since = {},
               ![u].todo = {[id |-> f, row |-> finding[f]] : f \in Old(u, new_hash_codes(own))}]
    /\ UNCHANGED <<next_id, finding, test, queue, changed>>

Closed(row) ==
    [row EXCEPT !.s = saved(@, [@ EXCEPT !.active = FALSE, !.is_mitigated = TRUE], {})]

\* one round of the loop: the row as the query returned it is changed and saved
close_old_finding(u, t) ==
    /\ import[u].stage = "closing" /\ t \in import[u].todo
    /\ finding' = [finding EXCEPT ![t.id] = Closed(t.row)]
    /\ import' = [import EXCEPT ![u].todo = @ \ {t}]
    /\ queue' = queue \cup {t.id}
    /\ Change({t.id})
    /\ UNCHANGED <<next_id, test>>

Finish(u) ==
    /\ \/ import[u].stage = "closing" /\ import[u].todo = {}
       \/ /\ import[u].stage = "processing" /\ import[u].close_old = None
          /\ \A c \in DOMAIN import[u].items : import[u].items[c] = <<>>
    /\ import' = [import EXCEPT ![u] = Over]
    /\ changed' = changed \ Own(u)
    /\ UNCHANGED <<next_id, finding, test, queue>>

Importer(u) ==
    \/ \E c \in 1..Len(import[u].items) : Create(u, c) \/ Complete(u, c)
    \/ close_old_findings(u)
    \/ \E t \in import[u].todo : close_old_finding(u, t)
    \/ Finish(u)

Import_Next ==
    \E u \in Imports :
        \/ import_scan(u)
        \/ import[u].stage \notin {"none", "over"} /\ (Importer(u) \/ Fail(u))

-----------------------------------------------------------------------------
\* the report has the vulnerability, and has it open: the item need not say so, for an active
\* one is saved as not mitigated
Lists(u, hash) ==
    \E i \in DOMAIN import[u].report :
        import[u].report[i].hash = hash /\ ~created(import[u].report[i].status).is_mitigated

ListsFixed(u, hash) ==
    \E i \in DOMAIN import[u].report :
        import[u].report[i].hash = hash /\ created(import[u].report[i].status).is_mitigated

\* a user, the history or another import has changed the finding the import made of it (one
\* saved by half had no hash code yet)
Disturbed(u, hash) == \E f \in Own(u) \cap changed : finding[f].hash \in {None, hash}

\* "Old findings no longer present in the report get closed": an import closes no finding whose
\* hash code its report lists as open, however its chunks, other imports and users interleave.
\* (Unless the report lists it as fixed too.)
PresentStays ==
    \A u \in Imports : import[u].stage = "closing" =>
        \A t \in import[u].todo :
            \/ t.row.hash = None
            \/ ~Lists(u, t.row.hash) \/ ListsFixed(u, t.row.hash)
            \/ Disturbed(u, t.row.hash)

\* ... and all that are no longer present are closed when it is done, but for those that a user
\* or another import has opened since it looked.
AbsentIsClosed ==
    \A u \in Imports : import[u].stage = "closing" /\ import[u].todo = {} =>
        \A f \in Findings \ (Own(u) \cup import[u].since) :
            /\ target(f).test_type = test[u].test_type
            /\ target(f).service = test[u].service
            /\ import[u].close_old = "product"
                  \/ target(f).engagement = test[u].engagement
            /\ ~Lists(u, finding[f].hash) /\ ~Disturbed(u, finding[f].hash)
            => ~finding[f].s.active
=============================================================================
