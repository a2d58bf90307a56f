---------------------------- MODULE DedupeWorkers ----------------------------
(***************************************************************************)
(* Deduplication taken apart: several celery workers run the tasks of      *)
(* DuplicateClusters at the same time, one query or one UPDATE per step.   *)
(* A task keeps the rows it read and saves them with all their columns.    *)
(* A worker may die in the middle.  Two commands repair what comes out of  *)
(* it: fix_loop_duplicates, and dedupe in the foreground (--dedupe_only    *)
(* --dedupe_sync).  The pages and deletions of DuplicateClusters are left  *)
(* out.                                                                    *)
(***************************************************************************)
EXTENDS DuplicateClusters, Sequences

CONSTANTS
    Workers,
    Command,            \* the process of manage.py dedupe
    MaxCrashes,         \* bounds the deaths of workers
    MaxDepth            \* the counter removeLoop starts with

ASSUME WorkersAssumption ==
    /\ IsFiniteSet(Ids) /\ Ids /= {}
    /\ Command \notin Workers
    /\ {MaxCrashes, MaxDepth} \subseteq Nat
    /\ \A t \in Tests : algorithm[t] /= "uid_or_hash_code"

VARIABLES
    job,            \* what each process is doing
    turn,           \* the command that is run next
    crashes

all == <<vars, job, turn, crashes>>

Processes == Workers \cup {Command}
Idle == [stage |-> "idle"]

Row(f) == [id |-> f, active |-> active[f], is_mitigated |-> is_mitigated[f],
           false_p |-> false_p[f], duplicate |-> duplicate[f],
           original |-> duplicate_finding[f]]

\* S as a sequence, lowest key first
InOrder(S, key) ==
    [i \in 1..Cardinality(S) |->
        CHOOSE f \in S : Cardinality({g \in S : key[g] <= key[f]}) = i]

Newest(S) == InOrder(S, [f \in S |-> -f])
Oldest(S) == InOrder(S, [f \in S |-> f])
Rows(seq) == [i \in DOMAIN seq |-> Row(seq[i])]

\* save() of a row read earlier: all columns
Store(r) ==
    /\ active' = [active EXCEPT ![r.id] = r.active]
    /\ is_mitigated' = [is_mitigated EXCEPT ![r.id] = r.is_mitigated]
    /\ false_p' = [false_p EXCEPT ![r.id] = r.false_p]
    /\ duplicate' = [duplicate EXCEPT ![r.id] = r.duplicate]
    /\ duplicate_finding' = [duplicate_finding EXCEPT ![r.id] = r.original]

Quiet == pending = {} /\ \A p \in Processes : job[p] = Idle

-----------------------------------------------------------------------------
(* One deduplication task, or the findings of the command one after another. *)
(* stack: the nested calls of set_duplicate, each with its new finding in    *)
(* memory and the members it has still to move                               *)

Work(page) == IF page = <<>> THEN Idle ELSE [stage |-> "query", page |-> page]

take(w, n) ==
    /\ job[w] = Idle /\ n \in pending
    /\ pending' = pending \ {n}
    /\ job' = [job EXCEPT ![w] = Work(<<Row(n)>>)]
    /\ UNCHANGED <<data, exists, link, status, turn, crashes>>

\* the command reads a page of findings, newest first
dedupe ==
    /\ Quiet /\ turn = "dedupe" /\ turn' = "fix_loop_duplicates"
    /\ job' = [job EXCEPT ![Command] = Work(Rows(Newest(exists)))]
    /\ UNCHANGED <<vars, crashes>>

Call(r) == [new |-> r, todo |-> <<>>]

\* set_duplicate(new, old) for the first of the rows that are left to try
Try(new, rows, page) ==
    IF rows = <<>> THEN Work(page)
    ELSE [stage |-> "set", stack |-> <<Call(new)>>, old |-> Head(rows),
          rows |-> Tail(rows), page |-> page]

query(p) ==
    /\ job[p].stage = "query"
    /\ LET new == Head(job[p].page)
           found == {e \in Candidates(new.id) :
                        /\ ~is_deduplication_on_engagement_mismatch(new.id, e)
                        /\ Accepted(new.id, e)}
       IN  job' = [job EXCEPT ![p] = Try(new, Rows(Oldest(found)), Tail(@.page))]
    /\ UNCHANGED <<vars, turn, crashes>>

Top(j) == Head(j.stack)

reopens(new, old) ==
    old.is_mitigated /\ ~old.false_p /\ new.active /\ ~new.is_mitigated

set_duplicate_reopen(p) ==
    /\ job[p].stage = "set"
    /\ Top(job[p]).new.id /= job[p].old.id
    /\ reopens(Top(job[p]).new, job[p].old)
    /\ job' = [job EXCEPT ![p].old.active = TRUE, ![p].old.is_mitigated = FALSE]
    /\ Store(job'[p].old)
    /\ pending' = pending \cup {job[p].old.id}
    /\ UNCHANGED <<data, exists, turn, crashes>>

\* "Can not add duplicate to itself": the whole task goes on to the next row
refuse(p) ==
    /\ job[p].stage = "set"
    /\ Top(job[p]).new.id = job[p].old.id
    /\ job' = [job EXCEPT ![p] = Try(@.stack[Len(@.stack)].new, @.rows, @.page)]
    /\ UNCHANGED <<vars, turn, crashes>>

\* the new finding is changed in memory, and its members are read
read_members(p) ==
    /\ job[p].stage = "set"
    /\ LET new == Top(job[p]).new
           old == job[p].old
           moved == [new EXCEPT !.duplicate = TRUE, !.active = FALSE, !.original = old.id]
       IN  /\ new.id /= old.id /\ ~reopens(new, old)
           /\ job' = [job EXCEPT
                ![p].stage = "each",
                ![p].stack = <<[new |-> moved, todo |-> Rows(Newest(Members(new.id)))]>> \o Tail(@)]
    /\ UNCHANGED <<vars, turn, crashes>>

member_keeps_link(p) ==
    /\ job[p].stage = "each" /\ Top(job[p]).todo /= <<>>
    /\ LET member == [Head(Top(job[p]).todo) EXCEPT !.duplicate = FALSE] IN
        /\ Store(member)
        /\ job' = [job EXCEPT ![p].stage = "set",
                              ![p].stack = <<Call(member), [Top(job[p]) EXCEPT !.todo = Tail(@)]>>
                                           \o Tail(@)]
    /\ UNCHANGED <<data, exists, pending, turn, crashes>>

\* original_finding.remove, unless the member is another's by now; and the
\* nested call of set_duplicate
unlink_member(p) ==
    /\ job[p].stage = "each" /\ Top(job[p]).todo /= <<>>
    /\ LET member == Head(Top(job[p]).todo) IN
        /\ duplicate_finding' = [duplicate_finding EXCEPT ![member.id] =
                                    IF @ = Top(job[p]).new.id THEN None ELSE @]
        /\ job' = [job EXCEPT ![p].stage = "set",
                              ![p].stack = <<Call(member), [Top(job[p]) EXCEPT !.todo = Tail(@)]>>
                                           \o Tail(@)]
    /\ UNCHANGED <<data, exists, status, duplicate, pending, turn, crashes>>

save_existing_first(p) ==
    /\ job[p].stage = "each" /\ Top(job[p]).todo = <<>>
    /\ Store(job[p].old)
    /\ job' = [job EXCEPT ![p].stage = "saved"]
    /\ UNCHANGED <<data, exists, pending, turn, crashes>>

save_new(p) ==
    /\ job[p].stage = "each" /\ Top(job[p]).todo = <<>>
    /\ Store(Top(job[p]).new)
    /\ job' = [job EXCEPT ![p].stage = "saved"]
    /\ UNCHANGED <<data, exists, pending, turn, crashes>>

\* to the loop of the call before, or the task is done
Return(j) == IF Len(j.stack) = 1 THEN Work(j.page)
             ELSE [j EXCEPT !.stage = "each", !.stack = Tail(@)]

save_existing_no_write(p) ==
    /\ job[p].stage = "saved"
    /\ job' = [job EXCEPT ![p] = Return(@)]
    /\ UNCHANGED <<vars, turn, crashes>>

\* the row as it was when the candidates were read; then the call returns
save_existing(p) ==
    /\ job[p].stage = "saved"
    /\ Store(job[p].old)
    /\ job' = [job EXCEPT ![p] = Return(@)]
    /\ UNCHANGED <<data, exists, pending, turn, crashes>>

Run(p) ==
    \/ query(p) \/ set_duplicate_reopen(p) \/ refuse(p) \/ read_members(p)
    \/ unlink_member(p) \/ save_new(p) \/ save_existing(p)

Take(w) == \E n \in Ids : take(w, n)

crash(p) ==
    /\ job[p] /= Idle /\ crashes < MaxCrashes
    /\ crashes' = crashes + 1
    /\ job' = [job EXCEPT ![p] = Idle]
    /\ UNCHANGED <<vars, turn>>

-----------------------------------------------------------------------------
(* fix_loop_duplicates; the order in which it meets the members of a finding *)
(* is the sort order of findings, which has nothing to do with keys          *)

Linked(db, o) == {f \in exists : db[f] = o}

\* findings that have an original and duplicates
Candidates_for_repair(db) == {f \in exists : db[f] /= None /\ Linked(db, f) /= {}}

\* what duplicate_finding may hold
Links == [Ids -> Ids \cup {None}]

\* a loop over a list: body[db][f] is what the round of f makes of db
Loop(list, db, body) ==
    LET after[i \in 0..Len(list)] == IF i = 0 THEN db ELSE body[after[i - 1]][list[i]]
    IN  after[Len(list)]

removeLoop_loops_only(nested, order, counter, db, f) ==
    IF db[f] = None \/ counter = 0 THEN db
    ELSE IF db[db[f]] = None THEN db
    ELSE IF db[f] = f THEN [db EXCEPT ![f] = None]
    ELSE nested[[db EXCEPT ![f] = db[db[f]]]][db[f]]

removeLoop_cuts_all(nested, order, counter, db, f) ==
    Put(db, Linked(db, f), None)

\* db: duplicate_finding; nested: the calls with counter - 1.  The instance of
\* the real original that is saved with each member is the one read at first,
\* with the link it had then.
removeLoop(nested, order, counter, db, f) ==
    LET swap == db[f] > f /\ db[db[f]] /= None
        finding == IF swap THEN db[f] ELSE f
        real == IF swap THEN f ELSE db[f]
        cut == IF db[real] = finding THEN [db EXCEPT ![real] = None] ELSE db
        each == [acc \in Links |-> [m \in Ids |->
                    nested[[acc EXCEPT ![m] = real, ![real] = db[real]]][m]]]
    IN  IF db[f] = None THEN db
        ELSE IF db[f] = f THEN [db EXCEPT ![f] = None]
        ELSE IF counter = 0 THEN cut
        ELSE Loop(InOrder(Linked(cut, finding), order), cut, each)

RemoveLoop(order) ==
    LET call[counter \in 0..MaxDepth] ==
            [db \in Links |-> [f \in Ids |->
                removeLoop(call[counter - 1], order, counter, db, f)]]
    IN  call[MaxDepth]

\* The list joins findings with their duplicates and is not made distinct: a
\* candidate is met once for each duplicate it had before the loop.
Repaired(order) ==
    LET db0 == duplicate_finding
        again == [f \in Ids |-> [acc \in Links |-> [m \in Ids |-> RemoveLoop(order)[acc][f]]]]
        rounds == [db \in Links |-> [f \in Ids |-> Loop(Newest(Linked(db0, f)), db, again[f])]]
    IN  Loop(Newest(Candidates_for_repair(db0)), db0, rounds)

Orders == {o \in [Ids -> 1..Cardinality(Ids)] : \A f, g \in Ids : f /= g => o[f] /= o[g]}

fix_loop_duplicates ==
    /\ Quiet /\ turn = "fix_loop_duplicates" /\ turn' = "dedupe"
    /\ IF Candidates_for_repair(duplicate_finding) = {} THEN UNCHANGED link
       ELSE /\ \E order \in Orders : duplicate_finding' = Repaired(order)
            /\ duplicate' = [f \in Ids |-> duplicate[f] /\ duplicate_finding'[f] /= None]
    /\ UNCHANGED <<data, exists, status, pending, job, crashes>>
-----------------------------------------------------------------------------
\* Findings that were just created; the oldest may have been there before.
WorkersInit ==
    /\ next_id = Cardinality(Ids) + 1 /\ exists = Ids
    /\ \E t \in Tests, a \in Attrs : test = [f \in Ids |-> t] /\ attr = [f \in Ids |-> a]
    /\ is_mitigated \in [Ids -> BOOLEAN] /\ active = [f \in Ids |-> ~is_mitigated[f]]
    /\ false_p = [f \in Ids |-> FALSE]
    /\ duplicate = [f \in Ids |-> FALSE] /\ duplicate_finding = [f \in Ids |-> None]
    /\ \E old \in {{}} \cup {{f} : f \in Lowest(Ids)} : pending = Ids \ old
    /\ job = [p \in Processes |-> Idle]
    /\ turn = "fix_loop_duplicates" /\ crashes = 0

Working == \/ \E p \in Processes : Run(p)
           \/ \E w \in Workers : Take(w)

Repairing == dedupe \/ fix_loop_duplicates

WorkersNext ==
    \/ Working \/ Repairing
    \/ \E p \in Processes : crash(p)

WorkersSpec == WorkersInit /\ [][WorkersNext]_all

\* workers keep working, and an administrator runs both commands now and then
RepairedSpec ==
    /\ WorkersSpec
    /\ WF_all(Working) /\ WF_all(dedupe) /\ []<>(turn = "dedupe")

-----------------------------------------------------------------------------
(* Properties *)

NoChain == Candidates_for_repair(duplicate_finding) = {}

LastOf(f) ==
    LET chain[i \in 0..Cardinality(Ids)] ==
            LET g == chain[i - 1] IN
            IF i = 0 THEN f ELSE IF duplicate_finding[g] = None THEN g ELSE duplicate_finding[g]
    IN  chain[Cardinality(Ids)]

OneOriginal ==
    /\ NoChain
    /\ Cardinality({f \in Ids : ~duplicate[f]}) = 1
    /\ \A f \in Ids : duplicate[f] => duplicate_finding[f] /= None

\* The columns a task saves have their types, and no save of a stale row leaves
\* a link without its flag.
WorkersTypeOK ==
    /\ duplicate_finding \in [Ids -> Ids \cup {None}]
    /\ duplicate \in [Ids -> BOOLEAN]
    /\ pending \subseteq Ids
    /\ LinkHasFlag

\* Workers that take each other's finding for the original may leave a chain,
\* but when none of them died some finding is left that counts as an original.
SomeoneIsOriginal == Quiet /\ crashes = 0 => \E f \in Ids : ~duplicate[f]

\* One run of fix_loop_duplicates leaves no finding with both an original and
\* duplicates ("finding with both original and duplicates" is what it looks for,
\* and it says itself that it may have to be run again): it does for three
\* findings, however they are linked.
RepairSettles == [][fix_loop_duplicates => NoChain']_all

\* fix_loop_duplicates cuts no cluster of three findings in two: those that led
\* to one original still do.
RepairKeepsTogether ==
    [][fix_loop_duplicates =>
        \A f, g \in Ids : duplicate_finding[f] = g => LastOf(f)' = LastOf(g)']_all

\* When no worker dies, running both commands now and then ends with one
\* original and everything else its duplicate, whatever the workers did.
Heals == [](crashes = 0) => <>[]OneOriginal
=============================================================================
