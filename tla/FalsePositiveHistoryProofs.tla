------------------------ MODULE FalsePositiveHistoryProofs ------------------------
(***************************************************************************)
(* Two results for any number of imports, workers and findings, where      *)
(* tests are deduplicated by hash code.  First, the false positive history *)
(* holds.  Second, what an import closes: nothing that its report has      *)
(* open, and everything in its scope that the report lacks, but for what   *)
(* others save in between.                                                 *)
(***************************************************************************)
EXTENDS FalsePositiveHistory, SequenceTheorems, FiniteSetTheorems, WellFoundedInduction, TLAPS

\* A status that no save leaves behind otherwise: what is open is no false positive.
Sound(s) == s \in Status /\ ~(s.active /\ (s.false_p \/ s.out_of_scope))

(* Saving a status. *)

LEMMA UpdateSound ==
    ASSUME NEW s \in Status, NEW c,
           s.active /\ (s.false_p \/ s.out_of_scope) =>
               is_new_finding(c) \/ {"active", "false_p", "out_of_scope"} \cap c /= {}
    PROVE  Sound(update_finding_status(s, c))
<1> DEFINE d == dated(unmitigated(s, c))
<1>1. d \in Status /\ d.active = s.active /\ d.false_p = s.false_p /\ d.out_of_scope = s.out_of_scope
  BY DEF dated, unmitigated, Status
<1> HIDE DEF d
<1>2. Sound(rejected(activated(d, c), c))
  BY <1>1 DEF Sound, activated, rejected, Status
<1>3. ASSUME NEW t, Sound(t) PROVE Sound(no_duplicate(t))
  BY <1>3 DEF Sound, no_duplicate, Status
<1> QED BY <1>2, <1>3 DEF update_finding_status, d

\* A save opens nothing, and takes no false positive back that is not opened.
LEMMA UpdateKeeps ==
    ASSUME NEW s \in Status, NEW c
    PROVE  /\ ~s.active => ~update_finding_status(s, c).active
           /\ ~s.active /\ s.false_p => update_finding_status(s, c).false_p
           /\ ~s.false_p => ~update_finding_status(s, c).false_p
<1> DEFINE Same(t) == /\ t \in Status /\ (~s.active => ~t.active)
                      /\ ~s.active /\ s.false_p => t.false_p
                      /\ ~s.false_p => ~t.false_p
<1>1. Same(dated(unmitigated(s, c)))
  BY DEF dated, unmitigated, Status
<1>2. ASSUME NEW t, Same(t) PROVE Same(activated(t, c))
  BY <1>2 DEF activated, Status
<1>3. ASSUME NEW t, Same(t) PROVE Same(rejected(t, c))
  BY <1>3 DEF rejected, Status
<1>4. ASSUME NEW t, Same(t) PROVE Same(no_duplicate(t))
  BY <1>4 DEF no_duplicate, Status
<1> QED BY <1>1, <1>2, <1>3, <1>4 DEF update_finding_status

LEMMA SaveSound ==
    ASSUME NEW old, NEW new \in Status, Sound(old) \/ Sound(new), NEW touched
    PROVE  /\ Sound(saved(old, new, touched))
           /\ ~new.active => ~saved(old, new, touched).active
           /\ ~new.active /\ new.false_p => saved(old, new, touched).false_p
           /\ ~new.false_p => ~saved(old, new, touched).false_p
<1> DEFINE c == changed_fields(old, new) \cup touched
<1>1. /\ "active" \notin c => old.active = new.active
      /\ "false_p" \notin c => old.false_p = new.false_p
      /\ "out_of_scope" \notin c => old.out_of_scope = new.out_of_scope
  BY DEF changed_fields, SignalFields
<1>2. CASE c = {}
  <2>1. saved(old, new, touched) = new
    BY <1>2 DEF saved
  <2> QED BY <2>1, <1>1, <1>2 DEF Sound
<1>3. CASE c /= {}
  <2>1. saved(old, new, touched) = update_finding_status(new, c)
    BY <1>3 DEF saved
  <2>2. Sound(update_finding_status(new, c))
    BY <1>1, UpdateSound DEF Sound
  <2> QED BY <2>1, <2>2, UpdateKeeps
<1> QED BY <1>2, <1>3

LEMMA CreatedSound ==
    ASSUME NEW s \in Status
    PROVE  Sound(created(s))
<1> DEFINE first == update_finding_status(s, {"id"})
           second == saved(s, first, {})
<1>1. Sound(first)
  BY UpdateSound DEF is_new_finding
<1> HIDE DEF first
<1>2. Sound(second)
  BY <1>1, SaveSound DEF Sound
<1> HIDE DEF second
<1>3. Sound(saved(first, second, {"id"}))
  BY <1>1, <1>2, SaveSound DEF Sound
<1> QED BY <1>3 DEF created, first, second

-----------------------------------------------------------------------------
(* What the variables hold. *)

Copies == [id : Ids, row : Row]

Handling ==
    [stage : {"processing", "closing", "failed"}, report : Seq(Item),
     close_old : {None, "engagement", "product"}, items : Seq(Seq(Item)), half : Seq(Nat),
     todo : SUBSET Copies, since : SUBSET Ids]

Live(u) == import[u].stage \notin {"none", "over"}

TypeOK ==
    /\ next_id \in Nat \ {0}
    /\ finding \in [Ids -> Row \cup {None}]
    /\ test \in [Imports -> Targets \cup {None}]
    /\ import \in [Imports -> {NoImport, Over} \cup Handling]
    /\ queue \subseteq Findings
    /\ todo \in [Workers -> SUBSET Copies]
    /\ crossed \in BOOLEAN

\* a row some save has written
Saved(row) == Sound(row.s) /\ test[row.test] \in Targets

RowsSound ==
    /\ \A i \in Ids : i >= next_id => finding[i] = None
    /\ \A f \in Findings : Saved(finding[f])
    /\ \A w \in Workers : \A t \in todo[w] :
           t.id \in Findings /\ Saved(t.row) /\ t.row.hash /= None
    /\ \A u \in Imports : Live(u) =>
           /\ test[u] \in Targets
           /\ \A t \in import[u].todo : t.id \in Findings /\ Saved(t.row) /\ t.row.s.active

\* A finding that is saved once is the finding of one chunk, which has an item left.
HalvesApart ==
    /\ \A u \in Imports : Live(u) =>
           /\ Len(import[u].half) = Len(import[u].items)
           /\ \A c \in DOMAIN import[u].half : import[u].half[c] /= 0 =>
                  import[u].half[c] \in Findings /\ import[u].items[c] /= <<>>
    /\ \A u, v \in Imports : Live(u) /\ Live(v) =>
           \A c \in DOMAIN import[u].half, d \in DOMAIN import[v].half :
               import[u].half[c] /= 0 /\ import[u].half[c] = import[v].half[d] => u = v /\ c = d

\* hash: the one hash code each finding has, or will have, in the table and in all copies.
HashOf(hash) ==
    /\ \A f \in Findings : finding[f].hash \in {None, hash[f]}
    /\ \A w \in Workers : \A t \in todo[w] : t.row.hash = hash[t.id]
    /\ \A u \in Imports : Live(u) =>
           /\ \A t \in import[u].todo : t.row.hash \in {None, hash[t.id]}
           /\ \A c \in DOMAIN import[u].half :
                  import[u].half[c] /= 0 => hash[import[u].half[c]] = None

HashesFixed == \E hash \in [Ids -> Hashes \cup {None}] : HashOf(hash)

RowsOK == TypeOK /\ RowsSound /\ HalvesApart /\ HashesFixed

LEMMA LiveTyped ==
    ASSUME TypeOK, NEW u \in Imports
    PROVE  /\ Live(u) => import[u] \in Handling
           /\ import[u].stage \in {"processing", "closing", "failed"} => Live(u)
BY DEF TypeOK, Live, NoImport, Over

LEMMA FindingTyped ==
    ASSUME TypeOK, NEW f \in Findings
    PROVE  f \in Ids /\ finding[f] \in Row /\ finding[f] /= None
BY DEF TypeOK, Findings

\* The remainder of a list, cut into chunks, is still made of items.
LEMMA ChunksTyped ==
    ASSUME NEW report \in Seq(Item)
    PROVE  Chunks(report) \in Seq(Seq(Item))
<1>1. CASE ChunkSize = None
  BY <1>1 DEF Chunks
<1>2. CASE ChunkSize /= None
  <2> DEFINE size == ChunkSize
             n == (Len(report) + size - 1) \div size
             End(i) == IF i * size > Len(report) THEN Len(report) ELSE i * size
             part(i) == SubSeq(report, (i - 1) * size + 1, End(i))
  <2>1. size \in Nat \ {0} /\ Len(report) \in Nat
    BY <1>2, ImportAssumption
  <2>2. n \in Nat
    BY <2>1, SMT
  <2>3. ASSUME NEW i \in 1..n PROVE part(i) \in Seq(Item)
    <3>1. /\ (i - 1) * size + 1 \in Nat \ {0}
          /\ End(i) \in Int /\ End(i) <= Len(report)
      BY <2>1, <2>2, SMT
    <3>2. \A j \in (i - 1) * size + 1 .. End(i) : report[j] \in Item
      BY <3>1, <2>1, ElementOfSeq
    <3> HIDE DEF size, End
    <3> QED BY <3>1, <3>2, SubSeqProperties
  <2>4. Chunks(report) = [i \in 1..n |-> part(i)]
    BY <1>2 DEF Chunks
  <2> HIDE DEF n, part
  <2>5. [i \in 1..n |-> part(i)] \in [1..n -> Seq(Item)]
    BY <2>3
  <2> QED BY <2>2, <2>4, <2>5, SeqDef
<1> QED BY <1>1, <1>2

\* Opening findings touches nothing but since.
LEMMA OpenedKeeps ==
    ASSUME NEW imports \in [Imports -> {NoImport, Over} \cup Handling], NEW fs \in SUBSET Ids
    PROVE  /\ Opened(imports, fs) \in [Imports -> {NoImport, Over} \cup Handling]
           /\ \A u \in Imports :
                  LET now == Opened(imports, fs)[u] IN
                  /\ now.stage = imports[u].stage
                  /\ now.items = imports[u].items
                  /\ now.half = imports[u].half
                  /\ now.todo = imports[u].todo
<1> SUFFICES ASSUME NEW u \in Imports
             PROVE  LET now == Opened(imports, fs)[u] IN
                    /\ now \in {NoImport, Over} \cup Handling
                    /\ now.stage = imports[u].stage
                    /\ now.items = imports[u].items
                    /\ now.half = imports[u].half
                    /\ now.todo = imports[u].todo
  BY DEF Opened
<1>1. CASE imports[u].stage /= "closing"
  BY <1>1 DEF Opened
<1>2. CASE imports[u].stage = "closing"
  <2>1. imports[u] \in Handling
    BY <1>2 DEF NoImport, Over
  <2>2. Opened(imports, fs)[u] = [imports[u] EXCEPT !.since = @ \cup fs]
    BY <1>2 DEF Opened
  <2>3. imports[u].since \cup fs \in SUBSET Ids
    BY <2>1 DEF Handling
  <2>4. [imports[u] EXCEPT !.since = @ \cup fs] \in Handling
    BY <2>1, <2>3 DEF Handling
  <2>5. /\ [imports[u] EXCEPT !.since = @ \cup fs].stage = imports[u].stage
        /\ [imports[u] EXCEPT !.since = @ \cup fs].items = imports[u].items
        /\ [imports[u] EXCEPT !.since = @ \cup fs].half = imports[u].half
        /\ [imports[u] EXCEPT !.since = @ \cup fs].todo = imports[u].todo
    BY <2>1 DEF Handling
  <2> QED BY <2>2, <2>4, <2>5
<1> QED BY <1>1, <1>2

\* What every step that only saves findings keeps.
LEMMA SavesKeepRows ==
    ASSUME RowsOK, UNCHANGED test, next_id' = next_id,
           import' \in [Imports -> {NoImport, Over} \cup Handling],
           \A u \in Imports :
               /\ import'[u].stage = import[u].stage
               /\ import'[u].items = import[u].items
               /\ import'[u].half = import[u].half
               /\ import'[u].todo \subseteq import[u].todo,
           todo' \in [Workers -> SUBSET Copies], \A w \in Workers : todo'[w] \subseteq todo[w],
           queue' \subseteq Findings, crossed' \in BOOLEAN,
           finding' \in [Ids -> Row \cup {None}], Findings' = Findings,
           \A f \in Findings : Sound(finding'[f].s) /\ test[finding'[f].test] \in Targets,
           \A hash \in [Ids -> Hashes \cup {None}] : HashOf(hash) =>
               \A f \in Findings : finding'[f].hash \in {None, hash[f]}
    PROVE  RowsOK'
<1>1. TypeOK'
  BY DEF RowsOK, TypeOK
<1>2. RowsSound'
  <2>1. \A i \in Ids : i >= next_id' => finding'[i] = None
    BY DEF RowsOK, RowsSound, Findings
  <2>2. \A f \in Findings' : Saved(finding[f])'
    BY DEF Saved
  <2>3. \A w \in Workers : \A t \in todo'[w] :
           t.id \in Findings' /\ Saved(t.row)' /\ t.row.hash /= None
    BY DEF RowsOK, RowsSound, Saved
  <2>4. \A u \in Imports : Live(u)' =>
           /\ test'[u] \in Targets
           /\ \A t \in import'[u].todo : t.id \in Findings' /\ Saved(t.row)' /\ t.row.s.active
    BY DEF RowsOK, RowsSound, Saved, Live
  <2> QED BY <2>1, <2>2, <2>3, <2>4 DEF RowsSound
<1>3. HalvesApart'
  BY DEF RowsOK, HalvesApart, Live
<1>4. HashesFixed'
  <2>1. PICK hash \in [Ids -> Hashes \cup {None}] : HashOf(hash)
    BY DEF RowsOK, HashesFixed
  <2>2. HashOf(hash)'
    BY <2>1 DEF HashOf, Live
  <2> QED BY <2>2 DEF HashesFixed
<1> QED BY <1>1, <1>2, <1>3, <1>4 DEF RowsOK

(* One step at a time. *)

\* A row keeps everything but its status.
LEMMA RowWithStatus ==
    ASSUME NEW row \in Row, NEW st \in Status
    PROVE  /\ [row EXCEPT !.s = st] \in Row
           /\ [row EXCEPT !.s = st] /= None
           /\ [row EXCEPT !.s = st].s = st
           /\ [row EXCEPT !.s = st].hash = row.hash
           /\ [row EXCEPT !.s = st].test = row.test
BY ImportAssumption DEF Row

LEMMA PageKeepsRows ==
    ASSUME RowsOK, NEW D \in SUBSET Findings, NEW new \in [D -> Status],
           NEW tasks \in SUBSET Findings, NEW touched, Page(new, tasks, touched),
           crossed' \in BOOLEAN
    PROVE  /\ RowsOK'
           /\ Findings' = Findings
           /\ \A f \in Findings : /\ finding'[f].hash = finding[f].hash
                                  /\ finding'[f].test = finding[f].test
           /\ \A f \in Findings \ D : finding'[f] = finding[f]
           /\ \A f \in D : /\ ~new[f].active => ~finding'[f].s.active
                           /\ ~new[f].active /\ new[f].false_p => finding'[f].s.false_p
                           /\ ~new[f].false_p => ~finding'[f].s.false_p
           /\ \A f \in D : finding'[f].s = saved(finding[f].s, new[f], touched)
<1> DEFINE After(f) == saved(finding[f].s, new[f], touched)
<1>1. TypeOK
  BY DEF RowsOK
<1>2. ASSUME NEW f \in D
      PROVE  /\ Sound(After(f)) /\ After(f) \in Status
             /\ ~new[f].active => ~After(f).active
             /\ ~new[f].active /\ new[f].false_p => After(f).false_p
             /\ ~new[f].false_p => ~After(f).false_p
  <2>1. Sound(finding[f].s) /\ new[f] \in Status
    BY DEF RowsOK, RowsSound, Saved
  <2> QED BY <2>1, SaveSound DEF Sound
<1>3. finding' = [f \in Ids |-> IF f \in D THEN [finding[f] EXCEPT !.s = After(f)] ELSE finding[f]]
  BY DEF Page
<1> HIDE DEF After
<1>4. ASSUME NEW f \in D
      PROVE  /\ finding'[f] \in Row /\ finding'[f] /= None
             /\ finding'[f].s = After(f)
             /\ finding'[f].hash = finding[f].hash
             /\ finding'[f].test = finding[f].test
  <2>1. finding[f] \in Row /\ f \in Ids
    BY <1>1, FindingTyped
  <2> QED BY <2>1, <1>2, <1>3, RowWithStatus
<1>5. \A f \in Ids \ D : finding'[f] = finding[f]
  BY <1>3
<1>6. finding' \in [Ids -> Row \cup {None}] /\ Findings' = Findings
  <2>1. finding \in [Ids -> Row \cup {None}]
    BY <1>1 DEF TypeOK
  <2> QED BY <2>1, <1>3, <1>4, <1>5 DEF Findings
<1>7. \A f \in Findings : f \in Ids
  BY DEF Findings
<1>8. \A f \in Findings : /\ Sound(finding'[f].s) /\ test[finding'[f].test] \in Targets
                          /\ finding'[f].hash = finding[f].hash
  BY <1>2, <1>4, <1>5, <1>7 DEF RowsOK, RowsSound, Saved
<1>9. RowsOK'
  <2> DEFINE opened == {f \in DOMAIN new : saved(finding[f].s, new[f], touched).active}
  <2>1. opened \in SUBSET Ids /\ import' = Opened(import, opened)
    BY <1>7 DEF Page
  <2> HIDE DEF opened
  <2>2. import \in [Imports -> {NoImport, Over} \cup Handling]
    BY <1>1 DEF TypeOK
  <2>3. /\ import' \in [Imports -> {NoImport, Over} \cup Handling]
        /\ \A u \in Imports : /\ import'[u].stage = import[u].stage
                              /\ import'[u].items = import[u].items
                              /\ import'[u].half = import[u].half
                              /\ import'[u].todo \subseteq import[u].todo
    BY <2>1, <2>2, OpenedKeeps
  <2>4. UNCHANGED test /\ next_id' = next_id /\ UNCHANGED todo /\ queue' \subseteq Findings
    BY <1>1 DEF Page, TypeOK
  <2>5. todo' \in [Workers -> SUBSET Copies] /\ \A w \in Workers : todo'[w] \subseteq todo[w]
    BY <2>4, <1>1 DEF TypeOK
  <2>6. \A hash \in [Ids -> Hashes \cup {None}] : HashOf(hash) =>
            \A f \in Findings : finding'[f].hash \in {None, hash[f]}
    BY <1>8 DEF HashOf
  <2> QED BY <2>3, <2>4, <2>5, <2>6, <1>6, <1>8, SavesKeepRows
<1>10. \A f \in Findings : finding'[f].test = finding[f].test
  BY <1>4, <1>5, <1>7
<1> QED BY <1>2, <1>4, <1>5, <1>6, <1>7, <1>8, <1>9, <1>10 DEF After

\* The save of a copy: the row is as the copy has it, but for the status.
LEMMA CopySaved ==
    ASSUME RowsOK, NEW t \in Copies, t.id \in Findings, Saved(t.row),
           NEW st \in Status, Sound(st),
           finding' = [finding EXCEPT ![t.id] = [t.row EXCEPT !.s = st]]
    PROVE  /\ finding' \in [Ids -> Row \cup {None}] /\ Findings' = Findings
           /\ finding'[t.id].s = st /\ finding'[t.id].hash = t.row.hash
           /\ finding'[t.id].test = t.row.test
           /\ \A f \in Findings \ {t.id} : finding'[f] = finding[f]
           /\ \A f \in Findings : Sound(finding'[f].s) /\ test[finding'[f].test] \in Targets
<1>1. finding \in [Ids -> Row \cup {None}] /\ t.id \in Ids /\ t.row \in Row
  BY DEF RowsOK, TypeOK, Copies
<1>2. finding'[t.id] = [t.row EXCEPT !.s = st] /\ \A f \in Ids \ {t.id} : finding'[f] = finding[f]
  BY <1>1
<1>3. /\ finding'[t.id] \in Row /\ finding'[t.id] /= None
      /\ finding'[t.id].s = st /\ finding'[t.id].hash = t.row.hash
      /\ finding'[t.id].test = t.row.test
  BY <1>1, <1>2, RowWithStatus
<1>4. finding' \in [Ids -> Row \cup {None}]
  BY <1>1, <1>3
<1>5. Findings' = Findings /\ \A f \in Findings : f \in Ids
  BY <1>1, <1>2, <1>3 DEF Findings
<1> QED BY <1>2, <1>3, <1>4, <1>5 DEF RowsOK, RowsSound, Saved

LEMMA MarkKeepsRows ==
    ASSUME RowsOK, NEW w \in Workers, NEW t \in todo[w], mark_as_fp(w, t), crossed' \in BOOLEAN
    PROVE  /\ RowsOK'
           /\ Findings' = Findings /\ t.id \in Findings
           /\ finding'[t.id].s.false_p /\ ~finding'[t.id].s.active
           /\ finding'[t.id].hash = t.row.hash /\ finding'[t.id].test = t.row.test
           /\ \A f \in Findings \ {t.id} : finding'[f] = finding[f]
           /\ \A v \in Workers : todo'[v] \subseteq todo[v] /\ todo[v] \ {t} \subseteq todo'[v]
<1> DEFINE fp == FalsePositive(t.row.s)
           st == saved(t.row.s, fp, {})
<1>1. TypeOK
  BY DEF RowsOK
<1>2. t \in Copies /\ t.id \in Findings /\ Saved(t.row) /\ t.row.s \in Status
  BY <1>1 DEF RowsOK, RowsSound, TypeOK, Saved, Sound
<1>3. fp \in Status /\ fp.false_p /\ ~fp.active
  BY <1>2 DEF FalsePositive, Status
<1>4. finding' = [finding EXCEPT ![t.id] = [t.row EXCEPT !.s = st]]
  <2>1. finding' = [finding EXCEPT ![t.id] =
                      [t.row EXCEPT !.s = saved(t.row.s, FalsePositive(t.row.s), {})]]
    BY <1>2 DEF mark_as_fp, Copies, Row
  <2> QED BY <2>1
<1> HIDE DEF fp
<1>5. Sound(st) /\ st \in Status /\ st.false_p /\ ~st.active
  BY <1>2, <1>3, SaveSound DEF Saved, Sound
<1> HIDE DEF st
<1>6. /\ finding' \in [Ids -> Row \cup {None}] /\ Findings' = Findings
      /\ finding'[t.id].s = st /\ finding'[t.id].hash = t.row.hash
      /\ finding'[t.id].test = t.row.test
      /\ \A f \in Findings \ {t.id} : finding'[f] = finding[f]
      /\ \A f \in Findings : Sound(finding'[f].s) /\ test[finding'[f].test] \in Targets
  BY <1>2, <1>4, <1>5, CopySaved
<1>7. /\ todo' \in [Workers -> SUBSET Copies]
      /\ \A v \in Workers : todo'[v] \subseteq todo[v] /\ todo[v] \ {t} \subseteq todo'[v]
  BY <1>1 DEF mark_as_fp, TypeOK
<1>8. \A hash \in [Ids -> Hashes \cup {None}] : HashOf(hash) =>
          \A f \in Findings : finding'[f].hash \in {None, hash[f]}
  BY <1>6 DEF HashOf
<1>9. /\ UNCHANGED test /\ next_id' = next_id /\ queue' \subseteq Findings
      /\ import' \in [Imports -> {NoImport, Over} \cup Handling]
      /\ \A u \in Imports : /\ import'[u].stage = import[u].stage
                            /\ import'[u].items = import[u].items
                            /\ import'[u].half = import[u].half
                            /\ import'[u].todo \subseteq import[u].todo
  BY <1>1 DEF mark_as_fp, TypeOK
<1>10. RowsOK'
  BY <1>6, <1>7, <1>8, <1>9, SavesKeepRows
<1> QED BY <1>2, <1>5, <1>6, <1>7, <1>10

LEMMA CloseKeepsRows ==
    ASSUME RowsOK, NEW u \in Imports, NEW t \in import[u].todo, close_old_finding(u, t),
           UNCHANGED todo, crossed' \in BOOLEAN
    PROVE  /\ RowsOK'
           /\ Findings' = Findings /\ t.id \in Findings
           /\ ~finding'[t.id].s.false_p /\ ~finding'[t.id].s.active
           /\ finding'[t.id].hash = t.row.hash /\ finding'[t.id].test = t.row.test
           /\ \A f \in Findings \ {t.id} : finding'[f] = finding[f]
           /\ queue \subseteq queue'
<1> DEFINE closed == [t.row.s EXCEPT !.active = FALSE, !.is_mitigated = TRUE]
           st == saved(t.row.s, closed, {})
<1>1. TypeOK /\ Live(u) /\ import[u] \in Handling
  BY LiveTyped DEF RowsOK, close_old_finding
<1>2. /\ t \in Copies /\ t.id \in Findings /\ Saved(t.row) /\ t.row.s \in Status
      /\ t.row.s.active
  BY <1>1 DEF RowsOK, RowsSound, Handling, Saved, Sound
<1>3. closed \in Status /\ ~closed.false_p /\ ~closed.active
  BY <1>2 DEF Status, Saved, Sound
<1>4. finding' = [finding EXCEPT ![t.id] = [t.row EXCEPT !.s = st]]
  <2>1. Closed(t.row) = [t.row EXCEPT !.s = st]
    BY <1>2 DEF Closed, Copies, Row
  <2> QED BY <2>1 DEF close_old_finding
<1> HIDE DEF closed
<1>5. Sound(st) /\ st \in Status /\ ~st.false_p /\ ~st.active
  BY <1>2, <1>3, SaveSound DEF Saved, Sound
<1> HIDE DEF st
<1>6. /\ finding' \in [Ids -> Row \cup {None}] /\ Findings' = Findings
      /\ finding'[t.id].s = st /\ finding'[t.id].hash = t.row.hash
      /\ finding'[t.id].test = t.row.test
      /\ \A f \in Findings \ {t.id} : finding'[f] = finding[f]
      /\ \A f \in Findings : Sound(finding'[f].s) /\ test[finding'[f].test] \in Targets
  BY <1>2, <1>4, <1>5, CopySaved
<1>7. \A hash \in [Ids -> Hashes \cup {None}] : HashOf(hash) =>
          \A f \in Findings : finding'[f].hash \in {None, hash[f]}
  BY <1>1, <1>6 DEF HashOf
<1>8. import' = [import EXCEPT ![u] = [import[u] EXCEPT !.todo = import[u].todo \ {t}]]
  BY <1>1 DEF close_old_finding, TypeOK
<1>9. /\ [import[u] EXCEPT !.todo = import[u].todo \ {t}] \in Handling
      /\ [import[u] EXCEPT !.todo = import[u].todo \ {t}].stage = import[u].stage
      /\ [import[u] EXCEPT !.todo = import[u].todo \ {t}].items = import[u].items
      /\ [import[u] EXCEPT !.todo = import[u].todo \ {t}].half = import[u].half
      /\ [import[u] EXCEPT !.todo = import[u].todo \ {t}].todo \subseteq import[u].todo
  BY <1>1 DEF Handling
<1>10. /\ import' \in [Imports -> {NoImport, Over} \cup Handling]
       /\ \A v \in Imports : /\ import'[v].stage = import[v].stage
                             /\ import'[v].items = import[v].items
                             /\ import'[v].half = import[v].half
                             /\ import'[v].todo \subseteq import[v].todo
  BY <1>1, <1>8, <1>9 DEF TypeOK
<1>11. /\ UNCHANGED test /\ next_id' = next_id
       /\ queue \subseteq queue' /\ queue' \subseteq Findings
  BY <1>1, <1>2 DEF close_old_finding, TypeOK
<1>12. todo' \in [Workers -> SUBSET Copies] /\ \A w \in Workers : todo'[w] \subseteq todo[w]
  BY <1>1 DEF TypeOK
<1>13. RowsOK'
  BY <1>6, <1>7, <1>10, <1>11, <1>12, SavesKeepRows
<1> QED BY <1>2, <1>5, <1>6, <1>11, <1>13

\* All test types are deduplicated by hash code.
ByHashCode == \A to \in Targets : algorithm[to.test_type] = "hash_code"

LEMMA MatchesHaveTheHash ==
    ASSUME RowsOK, ByHashCode, NEW f \in Findings
    PROVE  match_finding_to_existing_findings(f) = {g \in Findings \ {f} : SameHash(f, g)}
<1>1. algorithm[target(f).test_type] = "hash_code"
  BY DEF RowsOK, RowsSound, Saved, ByHashCode, target
<1> QED BY <1>1 DEF match_finding_to_existing_findings

\* What a task marks: with an equal false positive, or being one.
LEMMA MarkedFindings ==
    ASSUME RowsOK, ByHashCode, NEW f \in Findings
    PROVE  /\ Marked(f) \subseteq Findings
           /\ \A g \in Marked(f) : finding[g].hash = finding[f].hash /\ finding[g].hash /= None
           /\ Marked(f) /= {} => \E k \in Findings : finding[k].s.false_p /\ SameHash(f, k)
           /\ \A k \in Findings : finding[k].s.false_p /\ SameHash(f, k) /\ k /= f => f \in Marked(f)
           /\ Retroactive => \A g \in Findings \ {f} :
                  /\ SameHash(f, g) /\ finding[g].s.active
                  /\ f \in Marked(f) \/ finding[f].s.false_p
                  => g \in Marked(f)
<1>1. match_finding_to_existing_findings(f) = {g \in Findings \ {f} : SameHash(f, g)}
  BY MatchesHaveTheHash
<1>2. \A g \in Findings : ~(finding[g].s.active /\ finding[g].s.false_p)
  BY DEF RowsOK, RowsSound, Saved, Sound
<1> QED BY <1>1, <1>2 DEF Marked, SameHash

LEMMA TaskKeepsRows ==
    ASSUME RowsOK, ByHashCode, NEW w \in Workers, NEW f \in queue,
           do_false_positive_history(w, f), crossed' \in BOOLEAN
    PROVE  /\ RowsOK'
           /\ todo[w] = {} /\ f \in Findings
           /\ \A v \in Workers \ {w} : todo'[v] = todo[v]
           /\ todo'[w] = {Copy(g) : g \in Marked(f)}
<1>1. TypeOK /\ f \in Findings
  BY DEF RowsOK, TypeOK
<1>2. /\ todo[w] = {}
      /\ \A v \in Workers \ {w} : todo'[v] = todo[v]
      /\ todo'[w] = {Copy(g) : g \in Marked(f)}
      /\ Findings' = Findings /\ queue' \subseteq Findings
  BY <1>1 DEF do_false_positive_history, TypeOK, Findings
<1>3. ASSUME NEW g \in Marked(f)
      PROVE  /\ Copy(g) \in Copies /\ Copy(g).id = g /\ Copy(g).row = finding[g]
             /\ g \in Findings /\ finding[g].hash /= None
  BY <1>1, MarkedFindings, FindingTyped DEF Copy, Copies
<1>4. TypeOK'
  <2>1. todo' \in [Workers -> SUBSET Copies]
    BY <1>1, <1>2, <1>3 DEF TypeOK, do_false_positive_history
  <2> QED BY <1>1, <1>2, <2>1 DEF TypeOK, do_false_positive_history
<1>5. RowsSound'
  <2>1. \A v \in Workers : \A t \in todo'[v] :
            t.id \in Findings /\ Saved(t.row) /\ t.row.hash /= None
    BY <1>2, <1>3 DEF RowsOK, RowsSound
  <2> QED BY <1>2, <2>1 DEF RowsOK, RowsSound, Saved, Live, do_false_positive_history
<1>6. HalvesApart'
  BY <1>2 DEF RowsOK, HalvesApart, Live, do_false_positive_history
<1>7. HashesFixed'
  <2>1. PICK hash \in [Ids -> Hashes \cup {None}] : HashOf(hash)
    BY DEF RowsOK, HashesFixed
  <2>2. \A v \in Workers : \A t \in todo'[v] : t.row.hash = hash[t.id]
    BY <2>1, <1>2, <1>3 DEF HashOf
  <2>3. HashOf(hash)'
    BY <2>1, <2>2, <1>2 DEF HashOf, Live, do_false_positive_history
  <2> QED BY <2>3 DEF HashesFixed
<1> QED BY <1>1, <1>2, <1>4, <1>5, <1>6, <1>7 DEF RowsOK

(* The imports. *)

\* What the import does to itself, when it saves nothing: its stage, its copies.
LEMMA ImportAloneKeepsRows ==
    ASSUME RowsOK, NEW u \in Imports, NEW now,
           import' = [import EXCEPT ![u] = now], now \in {Over} \cup Handling,
           test' \in [Imports -> Targets \cup {None}], \A v \in Imports \ {u} : test'[v] = test[v],
           test'[u] = test[u] \/ test'[u] \in Targets,
           now /= Over =>
               /\ test'[u] \in Targets
               /\ Len(now.half) = Len(now.items)
               /\ \A c \in DOMAIN now.half : now.half[c] /= 0 =>
                      /\ Live(u) /\ c \in DOMAIN import[u].half
                      /\ import[u].half[c] = now.half[c] /\ import[u].items[c] = now.items[c]
               /\ \A t \in now.todo : /\ t.id \in Findings /\ Saved(t.row) /\ t.row.s.active
                                      /\ \/ Live(u) /\ t \in import[u].todo
                                         \/ t.row = finding[t.id],
           UNCHANGED <<next_id, finding, queue, todo>>, crossed' \in BOOLEAN
    PROVE  RowsOK'
<1>1. TypeOK /\ Findings' = Findings
  BY DEF RowsOK, Findings
<1>2. /\ import'[u] = now /\ \A v \in Imports \ {u} : import'[v] = import[v]
      /\ Live(u)' => now /= Over /\ now \in Handling
      /\ \A v \in Imports \ {u} : Live(v)' = Live(v)
  BY <1>1 DEF TypeOK, Live, Over
<1>3. TypeOK'
  BY <1>1 DEF TypeOK
<1>4. \A row \in Row : Saved(row) => Saved(row)'
  BY DEF Saved, Row
<1>5. RowsSound'
  <2>1. ASSUME NEW v \in Imports, Live(v)'
        PROVE  /\ test'[v] \in Targets
               /\ \A t \in import'[v].todo : t.id \in Findings /\ Saved(t.row)' /\ t.row.s.active
    <3>1. import'[v] \in Handling /\ \A t \in import'[v].todo : t.row \in Row
      BY <1>3, <2>1 DEF TypeOK, Live, NoImport, Over, Handling, Copies
    <3>2. /\ test'[v] \in Targets
          /\ \A t \in import'[v].todo : t.id \in Findings /\ Saved(t.row) /\ t.row.s.active
      BY <1>2, <2>1 DEF RowsOK, RowsSound
    <3> QED BY <3>1, <3>2, <1>4
  <2>2. \A f \in Findings : Saved(finding[f])'
    <3>1. \A f \in Findings : finding[f] \in Row /\ Saved(finding[f])
      BY <1>1, FindingTyped DEF RowsOK, RowsSound
    <3> QED BY <3>1, <1>4 DEF Saved
  <2>3. \A w \in Workers : \A t \in todo[w] :
           t.id \in Findings /\ Saved(t.row)' /\ t.row.hash /= None
    BY <1>1, <1>4 DEF RowsOK, RowsSound, TypeOK, Copies
  <2> QED BY <1>1, <2>1, <2>2, <2>3 DEF RowsOK, RowsSound
<1>6. HalvesApart'
  BY <1>1, <1>2 DEF RowsOK, HalvesApart
<1>7. HashesFixed'
  <2>1. PICK hash \in [Ids -> Hashes \cup {None}] : HashOf(hash)
    BY DEF RowsOK, HashesFixed
  <2>2. HashOf(hash)'
    BY <2>1, <1>1, <1>2 DEF HashOf
  <2> QED BY <2>2 DEF HashesFixed
<1> QED BY <1>3, <1>5, <1>6, <1>7 DEF RowsOK

LEMMA ScanKeepsRows ==
    ASSUME RowsOK, NEW u \in Imports, import_scan(u), UNCHANGED todo, crossed' \in BOOLEAN
    PROVE  RowsOK'
<1>1. PICK r \in Requests :
          /\ test' = [test EXCEPT ![u] = r.to]
          /\ import' = [import EXCEPT ![u] =
                 [stage |-> "processing", report |-> r.report, close_old |-> r.close_old,
                  items |-> Chunks(r.report), half |-> [c \in DOMAIN Chunks(r.report) |-> 0],
                  todo |-> {}, since |-> {}]]
  BY DEF import_scan
<1> DEFINE chunks == Chunks(r.report)
           half == [c \in DOMAIN chunks |-> 0]
           now == [stage |-> "processing", report |-> r.report, close_old |-> r.close_old,
                   items |-> chunks, half |-> half, todo |-> {}, since |-> {}]
<1>2. /\ r.to \in Targets /\ r.report \in Seq(Item)
      /\ r.close_old \in {None, "engagement", "product"}
  BY RequestsAssumption
<1>3. chunks \in Seq(Seq(Item))
  BY <1>2, ChunksTyped
<1> HIDE DEF chunks
<1>4. half \in Seq(Nat) /\ Len(half) = Len(chunks) /\ \A c \in DOMAIN half : half[c] = 0
  <2>1. DOMAIN chunks = 1..Len(chunks) /\ Len(chunks) \in Nat
    BY <1>3, LenProperties
  <2>2. half \in [1..Len(chunks) -> Nat]
    BY <2>1
  <2>3. half \in Seq(Nat)
    BY <2>1, <2>2, SeqDef
  <2>4. DOMAIN half = 1..Len(half) /\ Len(half) \in Nat
    BY <2>3, LenProperties
  <2> QED BY <2>1, <2>3, <2>4
<1>5. import' = [import EXCEPT ![u] = now]
  BY <1>1 DEF chunks
<1> HIDE DEF half
<1>6. /\ now \in Handling
      /\ now.half = half /\ now.items = chunks /\ now.todo = {}
  BY <1>2, <1>3, <1>4 DEF Handling
<1> HIDE DEF now
<1>7. /\ test' \in [Imports -> Targets \cup {None}] /\ test'[u] \in Targets
      /\ \A v \in Imports \ {u} : test'[v] = test[v]
  BY <1>1, <1>2 DEF RowsOK, TypeOK
<1> QED BY <1>4, <1>5, <1>6, <1>7, ImportAloneKeepsRows DEF import_scan

\* What an import keeps that stays with its chunks.
LEMMA SameHalves ==
    ASSUME RowsOK, NEW u \in Imports, Live(u), NEW now \in Handling,
           now.half = import[u].half, now.items = import[u].items,
           \A t \in now.todo : /\ t.id \in Findings /\ Saved(t.row) /\ t.row.s.active
                               /\ t \in import[u].todo \/ t.row = finding[t.id],
           import' = [import EXCEPT ![u] = now],
           UNCHANGED <<next_id, finding, test, queue, todo>>, crossed' \in BOOLEAN
    PROVE  RowsOK'
<1>1. /\ test' \in [Imports -> Targets \cup {None}]
      /\ test'[u] \in Targets /\ Len(import[u].half) = Len(import[u].items)
  BY DEF RowsOK, TypeOK, RowsSound, HalvesApart
<1> QED BY <1>1, ImportAloneKeepsRows

LEMMA CloseOldKeepsRows ==
    ASSUME RowsOK, NEW u \in Imports, close_old_findings(u), UNCHANGED todo, crossed' \in BOOLEAN
    PROVE  RowsOK'
<1>1. TypeOK /\ Live(u) /\ import[u] \in Handling
  BY LiveTyped DEF RowsOK, close_old_findings, Ready
<1>2. PICK own \in SetToSeqs(Own(u)) :
          import' = [import EXCEPT ![u].stage = "closing", ![u].since = {},
              ![u].todo = {[id |-> f, row |-> finding[f]] : f \in Old(u, new_hash_codes(own))}]
  BY DEF close_old_findings
<1> DEFINE old == Old(u, new_hash_codes(own))
           copies == {[id |-> f, row |-> finding[f]] : f \in old}
           now == [import[u] EXCEPT !.stage = "closing", !.since = {}, !.todo = copies]
<1>3. \A f \in old : f \in Findings /\ finding[f].s.active
  BY DEF Old
<1> HIDE DEF old
<1>4. \A f \in old : f \in Ids /\ finding[f] \in Row /\ Saved(finding[f])
  BY <1>1, <1>3, FindingTyped DEF RowsOK, RowsSound
<1>5. /\ copies \in SUBSET Copies
      /\ \A t \in copies : /\ t.id \in Findings /\ Saved(t.row) /\ t.row.s.active
                           /\ t.row = finding[t.id]
  BY <1>3, <1>4 DEF Copies
<1>6. import' = [import EXCEPT ![u] = now]
  BY <1>1, <1>2 DEF old, TypeOK
<1> HIDE DEF copies
<1>7. /\ now \in Handling /\ now.half = import[u].half /\ now.items = import[u].items
      /\ now.todo = copies
  BY <1>1, <1>5 DEF Handling
<1> HIDE DEF now
<1> QED BY <1>1, <1>5, <1>6, <1>7, SameHalves DEF close_old_findings

LEMMA EndKeepsRows ==
    ASSUME RowsOK, NEW u \in Imports, Live(u), Finish(u) \/ Fail(u), UNCHANGED todo,
           crossed' \in BOOLEAN
    PROVE  RowsOK'
<1>1. TypeOK /\ import[u] \in Handling
  BY LiveTyped DEF RowsOK
<1>2. UNCHANGED <<next_id, finding, test, queue>>
  BY DEF Finish, Fail
<1>3. CASE import' = [import EXCEPT ![u] = Over]
  <2>1. test' \in [Imports -> Targets \cup {None}]
    BY <1>1, <1>2 DEF TypeOK
  <2> QED BY <1>2, <1>3, <2>1, ImportAloneKeepsRows
<1>4. CASE import' /= [import EXCEPT ![u] = Over]
  <2> DEFINE now == [import[u] EXCEPT !.stage = "failed", !.report = <<>>, !.close_old = None]
  <2>1. import' = [import EXCEPT ![u] = now]
    BY <1>1, <1>4 DEF Finish, Fail, TypeOK
  <2>2. <<>> \in Seq(Item)
    BY EmptySeq
  <2>3. /\ now \in Handling /\ now.half = import[u].half /\ now.items = import[u].items
        /\ now.todo = import[u].todo
    BY <1>1, <2>2 DEF Handling
  <2>4. \A t \in import[u].todo : t.id \in Findings /\ Saved(t.row) /\ t.row.s.active
    BY DEF RowsOK, RowsSound
  <2> HIDE DEF now
  <2> QED BY <1>2, <2>1, <2>3, <2>4, SameHalves
<1> QED BY <1>3, <1>4

\* The chunk that is at work.
LEMMA ChunkTyped ==
    ASSUME RowsOK, NEW u \in Imports, Running(u), NEW c \in DOMAIN import[u].items,
           import[u].items[c] /= <<>>
    PROVE  /\ Live(u) /\ import[u] \in Handling
           /\ c \in DOMAIN import[u].half
           /\ import[u].items[c] \in Seq(Item)
           /\ Head(import[u].items[c]) \in Item
           /\ Sound(created(Head(import[u].items[c]).status))
           /\ test[u] \in Targets
<1>1. Live(u) /\ import[u] \in Handling
  BY LiveTyped DEF RowsOK, Running
<1>2. import[u].items \in Seq(Seq(Item)) /\ import[u].half \in Seq(Nat)
  BY <1>1 DEF Handling
<1>3. DOMAIN import[u].items = DOMAIN import[u].half
  BY <1>1, <1>2, LenProperties DEF RowsOK, HalvesApart
<1>4. import[u].items[c] \in Seq(Item)
  BY <1>2, ElementOfSeq, LenProperties
<1>5. Head(import[u].items[c]) \in Item
  BY <1>4, HeadTailProperties
<1>6. Sound(created(Head(import[u].items[c]).status))
  BY <1>5, CreatedSound DEF Item
<1> QED BY <1>1, <1>3, <1>4, <1>5, <1>6 DEF RowsOK, RowsSound

LEMMA CreateKeepsRows ==
    ASSUME RowsOK, NEW u \in Imports, NEW c, Create(u, c), UNCHANGED todo, crossed' \in BOOLEAN
    PROVE  /\ RowsOK'
           /\ next_id \notin Findings /\ Findings' = Findings \cup {next_id}
           /\ finding'[next_id].hash = None
           /\ \A f \in Findings : finding'[f] = finding[f]
           /\ queue \subseteq queue'
<1> DEFINE item == Head(import[u].items[c])
           row == [test |-> u, hash |-> None, uid |-> item.uid, s |-> created(item.status)]
<1>1. /\ TypeOK /\ Live(u) /\ import[u] \in Handling
      /\ c \in DOMAIN import[u].half /\ import[u].items[c] /= <<>>
      /\ item \in Item /\ Sound(created(item.status)) /\ test[u] \in Targets
  BY ChunkTyped DEF Create, RowsOK
<1>2. row \in Row /\ row /= None /\ row.hash = None /\ Saved(row)
  BY <1>1, ImportAssumption DEF Row, Item, Saved, Sound
<1>3. finding' = [finding EXCEPT ![next_id] = row] /\ next_id \in Ids
  BY DEF Create
<1> HIDE DEF row
<1>4. next_id \in Nat /\ finding[next_id] = None /\ next_id' = next_id + 1
  BY <1>1, <1>3 DEF RowsOK, RowsSound, TypeOK, Create
<1>5. /\ finding' \in [Ids -> Row \cup {None}] /\ finding'[next_id] = row
      /\ \A f \in Ids \ {next_id} : finding'[f] = finding[f]
  BY <1>1, <1>2, <1>3 DEF TypeOK
<1>6. next_id \notin Findings /\ Findings' = Findings \cup {next_id}
  BY <1>2, <1>3, <1>4, <1>5 DEF Findings
<1>7. \A f \in Findings : finding'[f] = finding[f] /\ f \in Ids
  BY <1>5, <1>6 DEF Findings
<1> DEFINE half == [import[u].half EXCEPT ![c] = next_id]
           now == [import[u] EXCEPT !.half = half]
<1>8. import[u].half \in Seq(Nat) /\ import[u].items \in Seq(Seq(Item))
  BY <1>1 DEF Handling
<1>9. /\ half \in Seq(Nat) /\ Len(half) = Len(import[u].half) /\ half[c] = next_id
      /\ DOMAIN half = DOMAIN import[u].half
      /\ \A d \in DOMAIN half : d /= c => half[d] = import[u].half[d]
  BY <1>1, <1>4, <1>8, ExceptSeq, LenProperties
<1>10. /\ now \in Handling /\ now.half = half /\ now.items = import[u].items
       /\ now.todo = import[u].todo /\ now.stage = import[u].stage
  BY <1>1, <1>9 DEF Handling
<1>11. import' = Opened([import EXCEPT ![u] = now], {next_id})
  BY <1>1 DEF Create, TypeOK
<1> HIDE DEF half, now
<1>12. [import EXCEPT ![u] = now] \in [Imports -> {NoImport, Over} \cup Handling]
  BY <1>1, <1>10 DEF TypeOK
<1>13. /\ import' \in [Imports -> {NoImport, Over} \cup Handling]
       /\ \A v \in Imports : /\ Live(v)' = Live(v)
                             /\ import'[v].items = import[v].items
                             /\ import'[v].todo = import[v].todo
                             /\ import'[v].half = IF v = u THEN half ELSE import[v].half
  <2> DEFINE base == [import EXCEPT ![u] = now]
  <2>1. base[u] = now /\ \A v \in Imports \ {u} : base[v] = import[v]
    BY <1>1 DEF TypeOK
  <2>2. base \in [Imports -> {NoImport, Over} \cup Handling] /\ {next_id} \in SUBSET Ids
    BY <1>3, <1>12
  <2>3. import' = Opened(base, {next_id})
    BY <1>11
  <2> HIDE DEF base
  <2>4. /\ import' \in [Imports -> {NoImport, Over} \cup Handling]
        /\ \A v \in Imports : /\ import'[v].stage = base[v].stage
                              /\ import'[v].items = base[v].items
                              /\ import'[v].half = base[v].half
                              /\ import'[v].todo = base[v].todo
    BY <2>2, <2>3, OpenedKeeps
  <2> QED BY <2>1, <2>4, <1>10 DEF Live
<1>14. TypeOK'
  <2>1. queue' \subseteq Findings' /\ next_id' \in Nat \ {0}
    BY <1>1, <1>4, <1>6 DEF TypeOK, Create
  <2>2. test' = test
    BY DEF Create
  <2> QED BY <1>1, <1>5, <1>13, <2>1, <2>2 DEF TypeOK
<1>15. RowsSound'
  <2>1. \A i \in Ids : i >= next_id' => finding'[i] = None
    BY <1>4, <1>5, ImportAssumption DEF RowsOK, RowsSound
  <2>2. \A f \in Findings' : Saved(finding[f])'
    BY <1>2, <1>5, <1>6, <1>7 DEF RowsOK, RowsSound, Saved, Create
  <2>3. \A w \in Workers : \A t \in todo[w] :
           t.id \in Findings' /\ Saved(t.row)' /\ t.row.hash /= None
    BY <1>6 DEF RowsOK, RowsSound, Saved, Create
  <2>4. \A v \in Imports : Live(v)' =>
           /\ test'[v] \in Targets
           /\ \A t \in import'[v].todo : t.id \in Findings' /\ Saved(t.row)' /\ t.row.s.active
    BY <1>6, <1>13 DEF RowsOK, RowsSound, Saved, Create
  <2> QED BY <2>1, <2>2, <2>3, <2>4 DEF RowsSound
<1>16. HalvesApart'
  <2>1. \A v \in Imports : Live(v) => \A d \in DOMAIN import[v].half :
            import[v].half[d] /= 0 => import[v].half[d] /= next_id
    BY <1>6 DEF RowsOK, HalvesApart
  <2>2. \A v \in Imports : Live(v)' =>
            /\ Len(import'[v].half) = Len(import'[v].items)
            /\ DOMAIN import'[v].half = DOMAIN import[v].half
            /\ \A d \in DOMAIN import'[v].half : import'[v].half[d] /= 0 =>
                   import'[v].half[d] \in Findings' /\ import'[v].items[d] /= <<>>
    <3> SUFFICES ASSUME NEW v \in Imports, Live(v)'
                 PROVE  /\ Len(import'[v].half) = Len(import'[v].items)
                        /\ DOMAIN import'[v].half = DOMAIN import[v].half
                        /\ \A d \in DOMAIN import'[v].half : import'[v].half[d] /= 0 =>
                               import'[v].half[d] \in Findings' /\ import'[v].items[d] /= <<>>
      OBVIOUS
    <3>1. /\ Live(v) /\ import'[v].items = import[v].items
          /\ Len(import[v].half) = Len(import[v].items)
          /\ \A d \in DOMAIN import[v].half : import[v].half[d] /= 0 =>
                 import[v].half[d] \in Findings' /\ import[v].items[d] /= <<>>
      BY <1>6, <1>13 DEF RowsOK, HalvesApart
    <3>2. CASE v = u
      BY <3>1, <3>2, <1>1, <1>6, <1>9, <1>13
    <3>3. CASE v /= u
      BY <3>1, <3>3, <1>13
    <3> QED BY <3>2, <3>3
  <2>3. ASSUME NEW v \in Imports, NEW z \in Imports, Live(v)', Live(z)',
               NEW d \in DOMAIN import'[v].half, NEW e \in DOMAIN import'[z].half,
               import'[v].half[d] /= 0, import'[v].half[d] = import'[z].half[e]
        PROVE  v = z /\ d = e
    <3>1. Live(v) /\ Live(z) /\ d \in DOMAIN import[v].half /\ e \in DOMAIN import[z].half
      BY <1>13, <2>2, <2>3
    <3>2. import'[v].half[d] = IF v = u /\ d = c THEN next_id ELSE import[v].half[d]
      BY <1>9, <1>13, <3>1
    <3>3. import'[z].half[e] = IF z = u /\ e = c THEN next_id ELSE import[z].half[e]
      BY <1>9, <1>13, <3>1
    <3>4. CASE (v = u /\ d = c) \/ (z = u /\ e = c)
      BY <2>1, <2>3, <3>1, <3>2, <3>3, <3>4
    <3>5. CASE ~(v = u /\ d = c) /\ ~(z = u /\ e = c)
      <4>1. import[v].half[d] /= 0 /\ import[v].half[d] = import[z].half[e]
        BY <2>3, <3>2, <3>3, <3>5
      <4> QED BY <3>1, <4>1 DEF RowsOK, HalvesApart
    <3> QED BY <3>4, <3>5
  <2> QED BY <2>2, <2>3 DEF HalvesApart
<1>17. HashesFixed'
  <2>1. PICK hash \in [Ids -> Hashes \cup {None}] : HashOf(hash)
    BY DEF RowsOK, HashesFixed
  <2>2. PICK known \in [Ids -> Hashes \cup {None}] :
            known[next_id] = None /\ \A f \in Ids \ {next_id} : known[f] = hash[f]
    <3>1. [hash EXCEPT ![next_id] = None] \in [Ids -> Hashes \cup {None}]
      OBVIOUS
    <3> QED BY <3>1, <1>3
  <2>3. \A f \in Findings' : finding'[f].hash \in {None, known[f]}
    BY <2>1, <2>2, <1>2, <1>5, <1>6, <1>7 DEF HashOf
  <2>4. \A w \in Workers : \A t \in todo'[w] : t.row.hash = known[t.id]
    BY <2>1, <2>2, <1>6, <1>7 DEF HashOf, RowsOK, RowsSound
  <2>5. \A v \in Imports : Live(v)' =>
           /\ \A t \in import'[v].todo : t.row.hash \in {None, known[t.id]}
           /\ \A d \in DOMAIN import'[v].half :
                  import'[v].half[d] /= 0 => known[import'[v].half[d]] = None
    <3> SUFFICES ASSUME NEW v \in Imports, Live(v)'
                 PROVE  /\ \A t \in import'[v].todo : t.row.hash \in {None, known[t.id]}
                        /\ \A d \in DOMAIN import'[v].half :
                               import'[v].half[d] /= 0 => known[import'[v].half[d]] = None
      OBVIOUS
    <3>1. Live(v) /\ import'[v].todo = import[v].todo
      BY <1>13
    <3>2. \A t \in import[v].todo : t.row.hash \in {None, known[t.id]}
      BY <2>1, <2>2, <1>6, <1>7, <3>1 DEF HashOf, RowsOK, RowsSound
    <3>3. ASSUME NEW d \in DOMAIN import'[v].half, import'[v].half[d] /= 0
          PROVE  known[import'[v].half[d]] = None
      <4>1. CASE v = u /\ d = c
        BY <4>1, <1>9, <1>13, <2>2
      <4>2. CASE ~(v = u /\ d = c)
        <5>1. d \in DOMAIN import[v].half /\ import'[v].half[d] = import[v].half[d]
          BY <4>2, <1>9, <1>13
        <5>2. import[v].half[d] \in Findings /\ hash[import[v].half[d]] = None
          BY <5>1, <3>1, <3>3, <2>1 DEF HashOf, RowsOK, HalvesApart
        <5> QED BY <5>1, <5>2, <2>2, <1>6, <1>7
      <4> QED BY <4>1, <4>2
    <3> QED BY <3>1, <3>2, <3>3
  <2>6. HashOf(known)'
    BY <2>3, <2>4, <2>5 DEF HashOf
  <2> QED BY <2>2, <2>6 DEF HashesFixed
<1>18. queue \subseteq queue'
  BY DEF Create
<1> QED BY <1>2, <1>5, <1>6, <1>7, <1>14, <1>15, <1>16, <1>17, <1>18 DEF RowsOK

LEMMA CompleteKeepsRows ==
    ASSUME RowsOK, NEW u \in Imports, NEW c \in DOMAIN import[u].items, Complete(u, c),
           UNCHANGED todo, crossed' \in BOOLEAN
    PROVE  LET f == import[u].half[c] IN
           /\ RowsOK'
           /\ f \in Findings /\ Findings' = Findings
           /\ finding[f].hash = None
           /\ \A g \in Findings \ {f} : finding'[g] = finding[g]
           /\ f \in queue' /\ queue \subseteq queue'
<1> DEFINE item == Head(import[u].items[c])
           st == created(item.status)
<1>1. TypeOK /\ Live(u) /\ import[u] \in Handling
  BY LiveTyped DEF Complete, Running, RowsOK
<1>2. /\ DOMAIN import[u].items = DOMAIN import[u].half
      /\ import[u].items \in Seq(Seq(Item)) /\ import[u].half \in Seq(Nat)
  BY <1>1, LenProperties DEF Handling, RowsOK, HalvesApart
<1>3. PICK f \in Findings : f = import[u].half[c]
  BY <1>1, <1>2 DEF Complete, RowsOK, HalvesApart
<1>4. /\ f /= 0 /\ import[u].items[c] /= <<>>
      /\ item \in Item /\ Sound(st) /\ st \in Status
  <2>1. f /= 0 /\ import[u].items[c] /= <<>>
    BY <1>1, <1>2, <1>3 DEF Complete, RowsOK, HalvesApart
  <2> QED BY <2>1, ChunkTyped DEF Complete, Sound
<1>5. /\ f \in Ids /\ finding[f] \in Row /\ finding \in [Ids -> Row \cup {None}]
      /\ test[finding[f].test] \in Targets
  BY <1>1, FindingTyped DEF TypeOK, RowsOK, RowsSound, Saved
<1> DEFINE row == [finding[f] EXCEPT !.hash = item.hash, !.s = st]
<1>6. row \in Row /\ row /= None /\ row.hash = item.hash /\ row.s = st /\ row.test = finding[f].test
  BY <1>4, <1>5, ImportAssumption DEF Row, Item
<1>7. finding' = [finding EXCEPT ![f] = row]
  BY <1>3, <1>5 DEF Complete
<1> HIDE DEF row
<1>8. /\ finding' \in [Ids -> Row \cup {None}] /\ finding'[f] = row
      /\ \A g \in Ids \ {f} : finding'[g] = finding[g]
  BY <1>5, <1>6, <1>7
<1>9. Findings' = Findings /\ \A g \in Findings : g \in Ids
  BY <1>3, <1>5, <1>6, <1>8 DEF Findings
<1> DEFINE rest == [import[u].items EXCEPT ![c] = Tail(import[u].items[c])]
           half == [import[u].half EXCEPT ![c] = 0]
           now == [import[u] EXCEPT !.items = rest, !.half = half]
<1>10. /\ half \in Seq(Nat) /\ rest \in Seq(Seq(Item)) /\ Len(half) = Len(rest)
       /\ half[c] = 0 /\ DOMAIN half = DOMAIN import[u].half
       /\ \A d \in DOMAIN half : d /= c =>
              half[d] = import[u].half[d] /\ rest[d] = import[u].items[d]
  <2>1. Len(import[u].half) = Len(import[u].items) /\ c \in 1..Len(import[u].half)
    BY <1>1, <1>2, LenProperties DEF RowsOK, HalvesApart
  <2>2. Tail(import[u].items[c]) \in Seq(Item)
    BY <1>2, <1>4, ElementOfSeq, LenProperties, HeadTailProperties
  <2>3. /\ half \in Seq(Nat) /\ Len(half) = Len(import[u].half)
        /\ \A d \in 1..Len(import[u].half) : half[d] = IF d = c THEN 0 ELSE import[u].half[d]
    BY <1>2, <2>1, ExceptSeq
  <2>4. /\ rest \in Seq(Seq(Item)) /\ Len(rest) = Len(import[u].items)
        /\ \A d \in 1..Len(import[u].items) :
               rest[d] = IF d = c THEN Tail(import[u].items[c]) ELSE import[u].items[d]
    BY <1>2, <2>1, <2>2, ExceptSeq
  <2> HIDE DEF half, rest
  <2>5. DOMAIN half = 1..Len(half) /\ DOMAIN import[u].half = 1..Len(import[u].half)
    BY <1>2, <2>3, LenProperties
  <2> QED BY <2>1, <2>3, <2>4, <2>5
<1> HIDE DEF half, rest
<1>11. /\ now \in Handling /\ now.half = half /\ now.items = rest
       /\ now.todo = import[u].todo /\ now.stage = import[u].stage
  BY <1>1, <1>10 DEF Handling
<1>12. import' = Opened([import EXCEPT ![u] = now], {f})
  <2>1. import' = Opened([import EXCEPT ![u].items[c] = Tail(@), ![u].half[c] = 0], {f})
    BY <1>3 DEF Complete
  <2>2. [import EXCEPT ![u].items[c] = Tail(@), ![u].half[c] = 0] = [import EXCEPT ![u] = now]
    <3>1. [import[u] EXCEPT !.items[c] = Tail(@), !.half[c] = 0] = now
      BY <1>1 DEF Handling, half, rest
    <3> HIDE DEF now
    <3> QED BY <3>1, <1>1 DEF TypeOK
  <2> QED BY <2>1, <2>2
<1> HIDE DEF now
<1>13. /\ import' \in [Imports -> {NoImport, Over} \cup Handling]
       /\ \A v \in Imports : /\ Live(v)' = Live(v)
                             /\ import'[v].items = IF v = u THEN rest ELSE import[v].items
                             /\ import'[v].todo = import[v].todo
                             /\ import'[v].half = IF v = u THEN half ELSE import[v].half
  <2> DEFINE base == [import EXCEPT ![u] = now]
  <2>1. base[u] = now /\ \A v \in Imports \ {u} : base[v] = import[v]
    BY <1>1 DEF TypeOK
  <2>2. base \in [Imports -> {NoImport, Over} \cup Handling] /\ {f} \in SUBSET Ids
    BY <1>1, <1>5, <1>11 DEF TypeOK
  <2>3. import' = Opened(base, {f})
    BY <1>12
  <2> HIDE DEF base
  <2>4. /\ import' \in [Imports -> {NoImport, Over} \cup Handling]
        /\ \A v \in Imports : /\ import'[v].stage = base[v].stage
                              /\ import'[v].items = base[v].items
                              /\ import'[v].half = base[v].half
                              /\ import'[v].todo = base[v].todo
    BY <2>2, <2>3, OpenedKeeps
  <2> QED BY <2>1, <2>4, <1>11 DEF Live
<1>14. TypeOK'
  <2>1. queue' \subseteq Findings' /\ next_id' = next_id /\ test' = test
    BY <1>1, <1>3, <1>9 DEF TypeOK, Complete
  <2> QED BY <1>1, <1>8, <1>13, <2>1 DEF TypeOK
<1>15. RowsSound'
  <2>1. \A i \in Ids : i >= next_id' => finding'[i] = None
    BY <1>3, <1>8, <1>9 DEF RowsOK, RowsSound, Findings, Complete
  <2>2. \A g \in Findings' : Saved(finding[g])'
    <3>1. Sound(finding'[f].s) /\ test[finding'[f].test] \in Targets
      BY <1>4, <1>5, <1>6, <1>8
    <3>2. \A g \in Findings \ {f} : Saved(finding'[g])
      BY <1>8, <1>9 DEF RowsOK, RowsSound
    <3>3. test' = test
      BY DEF Complete
    <3> QED BY <3>1, <3>2, <3>3, <1>9 DEF Saved
  <2>3. \A w \in Workers : \A t \in todo[w] :
           t.id \in Findings' /\ Saved(t.row)' /\ t.row.hash /= None
    BY <1>9 DEF RowsOK, RowsSound, Saved, Complete
  <2>4. \A v \in Imports : Live(v)' =>
           /\ test'[v] \in Targets
           /\ \A t \in import'[v].todo : t.id \in Findings' /\ Saved(t.row)' /\ t.row.s.active
    BY <1>9, <1>13 DEF RowsOK, RowsSound, Saved, Complete
  <2> QED BY <2>1, <2>2, <2>3, <2>4 DEF RowsSound
\* its chunk is done with f, and another chunk has another one
<1>16. ASSUME NEW v \in Imports, Live(v)', NEW d \in DOMAIN import'[v].half,
              import'[v].half[d] /= 0
       PROVE  /\ Live(v) /\ d \in DOMAIN import[v].half
              /\ import'[v].half[d] = import[v].half[d] /\ import[v].half[d] /= 0
              /\ import'[v].items[d] = import[v].items[d]
              /\ import[v].half[d] \in Findings /\ import[v].half[d] /= f
  <2>1. Live(v) /\ ~(v = u /\ d = c)
    BY <1>10, <1>13, <1>16
  <2>2. /\ d \in DOMAIN import[v].half
        /\ import'[v].half[d] = import[v].half[d] /\ import[v].half[d] /= 0
        /\ import'[v].items[d] = import[v].items[d]
    <3>1. CASE v = u
      BY <3>1, <2>1, <1>10, <1>13, <1>16
    <3>2. CASE v /= u
      BY <3>2, <1>13, <1>16
    <3> QED BY <3>1, <3>2
  <2>3. import[v].half[d] \in Findings
    BY <2>1, <2>2 DEF RowsOK, HalvesApart
  <2>4. import[v].half[d] /= f
    BY <2>1, <2>2, <1>1, <1>2, <1>3 DEF RowsOK, HalvesApart
  <2> QED BY <2>1, <2>2, <2>3, <2>4
<1>17. HalvesApart'
  <2>1. \A v \in Imports : Live(v)' => Len(import'[v].half) = Len(import'[v].items)
    BY <1>10, <1>13 DEF RowsOK, HalvesApart
  <2>2. \A v \in Imports : Live(v)' => \A d \in DOMAIN import'[v].half : import'[v].half[d] /= 0 =>
            import'[v].half[d] \in Findings' /\ import'[v].items[d] /= <<>>
    BY <1>9, <1>16 DEF RowsOK, HalvesApart
  <2>3. ASSUME NEW v \in Imports, NEW z \in Imports, Live(v)', Live(z)',
               NEW d \in DOMAIN import'[v].half, NEW e \in DOMAIN import'[z].half,
               import'[v].half[d] /= 0, import'[v].half[d] = import'[z].half[e]
        PROVE  v = z /\ d = e
    BY <1>16, <2>3 DEF RowsOK, HalvesApart
  <2> QED BY <2>1, <2>2, <2>3 DEF HalvesApart
<1>18. finding[f].hash = None /\ HashesFixed'
  <2>1. PICK hash \in [Ids -> Hashes \cup {None}] : HashOf(hash)
    BY DEF RowsOK, HashesFixed
  <2>2. hash[f] = None /\ finding[f].hash = None
    BY <2>1, <1>1, <1>2, <1>3, <1>4 DEF HashOf
  <2>3. PICK known \in [Ids -> Hashes \cup {None}] :
            known[f] = item.hash /\ \A g \in Ids \ {f} : known[g] = hash[g]
    <3>1. [hash EXCEPT ![f] = item.hash] \in [Ids -> Hashes \cup {None}]
      BY <1>4 DEF Item
    <3> QED BY <3>1, <1>5
  <2>4. \A g \in Findings' : finding'[g].hash \in {None, known[g]}
    BY <2>1, <2>3, <1>6, <1>8, <1>9 DEF HashOf
  <2>5. \A w \in Workers : \A t \in todo'[w] : t.row.hash = known[t.id]
    <3> SUFFICES ASSUME NEW w \in Workers, NEW t \in todo[w] PROVE t.row.hash = known[t.id]
      OBVIOUS
    <3>1. t.id \in Findings /\ t.row.hash /= None /\ t.row.hash = hash[t.id]
      BY <2>1 DEF HashOf, RowsOK, RowsSound
    <3> QED BY <3>1, <2>2, <2>3, <1>9
  <2>6. \A v \in Imports : Live(v)' => \A t \in import'[v].todo : t.row.hash \in {None, known[t.id]}
    <3> SUFFICES ASSUME NEW v \in Imports, Live(v)', NEW t \in import'[v].todo
                 PROVE  t.row.hash \in {None, known[t.id]}
      OBVIOUS
    <3>1. t.id \in Findings /\ t.row.hash \in {None, hash[t.id]}
      BY <2>1, <1>13 DEF HashOf, RowsOK, RowsSound
    <3> QED BY <3>1, <2>2, <2>3, <1>9
  <2>7. \A v \in Imports : Live(v)' => \A d \in DOMAIN import'[v].half :
            import'[v].half[d] /= 0 => known[import'[v].half[d]] = None
    BY <1>9, <1>16, <2>1, <2>3 DEF HashOf
  <2>8. HashOf(known)'
    BY <2>4, <2>5, <2>6, <2>7 DEF HashOf
  <2> QED BY <2>2, <2>8 DEF HashesFixed
<1>19. f \in queue' /\ queue \subseteq queue'
  BY <1>3 DEF Complete
<1> QED BY <1>3, <1>8, <1>9, <1>14, <1>15, <1>17, <1>18, <1>19 DEF RowsOK

-----------------------------------------------------------------------------
(* The history. *)

HasCopy(f) == \E w \in Workers : \E t \in todo[w] : t.id = f

\* Copies are saved because there is a false positive.
CopiesKnown ==
    ~crossed => \A w \in Workers : \A t \in todo[w] :
        \E k \in Findings : finding[k].s.false_p /\ finding[k].hash = t.row.hash

\* A finding that is open is going to be looked at, if a false positive is known or about to be.
OpenIsWaiting ==
    ~crossed /\ Retroactive => \A f \in Findings \ bulk :
        finding[f].s.active /\ finding[f].hash /= None =>
            /\ \A g \in Findings : finding[g].s.false_p /\ finding[g].hash = finding[f].hash =>
                   f \in queue \/ g \in queue \/ HasCopy(f)
            /\ \A w \in Workers : \A t \in todo[w] : t.row.hash = finding[f].hash =>
                   f \in queue \/ HasCopy(f)

HistoryInv == RowsOK /\ CopiesKnown /\ OpenIsWaiting

\* Saves other than those of copies: what they open, or make a false positive, gets a task, but
\* for the bulk edit.
LEMMA SavesKeepHistory ==
    ASSUME HistoryInv, RowsOK', Crossed, UNCHANGED todo,
           Findings \subseteq Findings', queue \subseteq queue',
           \A f \in Findings' \ Findings : finding'[f].hash = None,
           \A f \in Findings : \/ finding'[f] = finding[f] /\ (f \in bulk' <=> f \in bulk)
                               \/ f \in queue'
                               \/ ~finding'[f].s.active /\ ~finding'[f].s.false_p
                               \/ f \in bulk' /\ ~finding'[f].s.false_p,
           \A f \in Findings : finding'[f].s.false_p =>
               finding'[f].hash = finding[f].hash \/ finding[f].hash = None
    PROVE  HistoryInv'
<1>1. ASSUME ~crossed' PROVE ~crossed
  BY <1>1 DEF Crossed
<1>2. CopiesKnown'
  <2> SUFFICES ASSUME ~crossed', NEW w \in Workers, NEW t \in todo[w]
               PROVE  \E k \in Findings' : finding'[k].s.false_p /\ finding'[k].hash = t.row.hash
    BY DEF CopiesKnown
  <2>1. PICK k \in Findings : finding[k].s.false_p /\ finding[k].hash = t.row.hash
    BY <1>1 DEF HistoryInv, CopiesKnown
  <2>2. finding[k].hash /= None
    BY <2>1 DEF HistoryInv, RowsOK, RowsSound
  <2>3. finding'[k].s.false_p
    BY <2>1 DEF Crossed
  <2> QED BY <2>1, <2>2, <2>3
<1>3. OpenIsWaiting'
  <2> SUFFICES ASSUME ~crossed', Retroactive, NEW f \in Findings' \ bulk',
                      finding'[f].s.active, finding'[f].hash /= None, f \notin queue'
               PROVE  /\ \A g \in Findings' :
                            finding'[g].s.false_p /\ finding'[g].hash = finding'[f].hash =>
                                g \in queue' \/ HasCopy(f)
                      /\ \A w \in Workers : \A t \in todo[w] :
                             t.row.hash = finding'[f].hash => HasCopy(f)
    BY DEF OpenIsWaiting, HasCopy
  <2>1. f \in Findings \ bulk /\ finding'[f] = finding[f] /\ f \notin queue
    OBVIOUS
  <2>2. ASSUME NEW g \in Findings', finding'[g].s.false_p, finding'[g].hash = finding'[f].hash,
               g \notin queue'
        PROVE  g \in Findings /\ finding'[g] = finding[g] /\ g \notin queue
    BY <2>2
  <2>3. ~crossed
    BY <1>1
  <2> QED BY <2>1, <2>2, <2>3 DEF HistoryInv, OpenIsWaiting
<1> QED BY <1>2, <1>3 DEF HistoryInv

LEMMA TaskKeepsHistory ==
    ASSUME HistoryInv, ByHashCode, NEW w \in Workers, NEW x \in queue,
           do_false_positive_history(w, x), Crossed
    PROVE  HistoryInv'
<1>1. /\ RowsOK' /\ todo[w] = {} /\ x \in Findings
      /\ \A v \in Workers \ {w} : todo'[v] = todo[v]
      /\ todo'[w] = {Copy(g) : g \in Marked(x)}
  BY TaskKeepsRows DEF HistoryInv, Crossed
<1>2. /\ finding' = finding /\ Findings' = Findings /\ queue' = queue \ {x} /\ bulk' = bulk
      /\ ~crossed' => ~crossed
  BY DEF do_false_positive_history, Findings, Crossed
<1>3. /\ Marked(x) \subseteq Findings
      /\ \A g \in Marked(x) : finding[g].hash = finding[x].hash /\ finding[g].hash /= None
      /\ Marked(x) /= {} => \E k \in Findings : finding[k].s.false_p /\ SameHash(x, k)
      /\ \A k \in Findings : finding[k].s.false_p /\ SameHash(x, k) /\ k /= x => x \in Marked(x)
      /\ Retroactive => \A g \in Findings \ {x} :
             /\ SameHash(x, g) /\ finding[g].s.active
             /\ x \in Marked(x) \/ finding[x].s.false_p
             => g \in Marked(x)
  BY <1>1, MarkedFindings DEF HistoryInv
<1>4. ASSUME NEW g \in Marked(x) PROVE HasCopy(g)'
  <2>1. Copy(g) \in todo'[w] /\ Copy(g).id = g
    BY <1>1 DEF Copy
  <2> QED BY <2>1 DEF HasCopy
<1>5. \A f : HasCopy(f) => HasCopy(f)'
  BY <1>1 DEF HasCopy
<1>6. \A v \in Workers : \A t \in todo'[v] :
          \/ t \in todo[v]
          \/ t.row.hash = finding[x].hash /\ t.row.hash /= None /\ Marked(x) /= {}
  BY <1>1, <1>3 DEF Copy
<1>7. CopiesKnown'
  BY <1>2, <1>3, <1>6 DEF HistoryInv, CopiesKnown, SameHash
<1>8. ASSUME Retroactive, ~crossed, NEW f \in Findings, finding[f].s.active, f \notin bulk,
             finding[f].hash /= None, f \notin queue',
             \/ \E g \in Findings : /\ finding[g].s.false_p /\ finding[g].hash = finding[f].hash
                                    /\ g \notin queue'
             \/ \E v \in Workers : \E t \in todo'[v] : t.row.hash = finding[f].hash
      PROVE  HasCopy(f)'
  <2>1. ~finding[f].s.false_p
    BY <1>8 DEF HistoryInv, RowsOK, RowsSound, Saved, Sound
  \* what a known false positive means for a finding that was waiting for x
  <2>2. ASSUME NEW k \in Findings, finding[k].s.false_p, finding[k].hash = finding[f].hash, f = x
        PROVE  HasCopy(f)'
    BY <2>1, <2>2, <1>3, <1>4, <1>8 DEF SameHash
  <2>3. ASSUME finding[x].hash = finding[f].hash, x \in Marked(x) \/ finding[x].s.false_p, f /= x
        PROVE  HasCopy(f)'
    BY <2>3, <1>1, <1>3, <1>4, <1>8 DEF SameHash
  <2>4. CASE \E g \in Findings : /\ finding[g].s.false_p /\ finding[g].hash = finding[f].hash
                                 /\ g \notin queue'
    <3>1. PICK g \in Findings : /\ finding[g].s.false_p /\ finding[g].hash = finding[f].hash
                                /\ g \notin queue'
      BY <2>4
    <3>2. f \in queue \/ g \in queue \/ HasCopy(f)
      BY <3>1, <1>8 DEF HistoryInv, OpenIsWaiting
    <3>3. CASE f \in queue
      BY <3>1, <3>3, <2>2, <1>2, <1>8
    <3>4. CASE g \in queue /\ f \notin queue
      <4>1. g = x /\ f /= x
        BY <3>1, <3>4, <1>2
      <4> QED BY <4>1, <3>1, <2>3
    <3> QED BY <3>2, <3>3, <3>4, <1>5
  <2>5. CASE \E v \in Workers : \E t \in todo'[v] : t.row.hash = finding[f].hash
    <3>0. PICK v \in Workers : \E t \in todo'[v] : t.row.hash = finding[f].hash
      BY <2>5
    <3>1. PICK t \in todo'[v] : t.row.hash = finding[f].hash
      BY <3>0
    <3>2. CASE t \in todo[v]
      <4>1. f \in queue \/ HasCopy(f)
        BY <3>1, <3>2, <1>8 DEF HistoryInv, OpenIsWaiting
      <4>2. PICK k \in Findings : finding[k].s.false_p /\ finding[k].hash = t.row.hash
        BY <3>2, <1>8 DEF HistoryInv, CopiesKnown
      <4>3. CASE f \in queue
        BY <4>2, <4>3, <3>1, <2>2, <1>2, <1>8
      <4> QED BY <4>1, <4>3, <1>5
    <3>3. CASE t \notin todo[v]
      <4>1. t.row.hash = finding[x].hash /\ t.row.hash /= None /\ Marked(x) /= {}
        BY <3>1, <3>3, <1>6
      <4>2. PICK k \in Findings : finding[k].s.false_p /\ SameHash(x, k)
        BY <4>1, <1>3
      <4>3. CASE f = x
        BY <4>2, <4>3, <3>1, <2>2 DEF SameHash
      <4>4. CASE f /= x
        <5>1. x \in Marked(x) \/ finding[x].s.false_p
          BY <4>2, <1>3
        <5> QED BY <5>1, <4>1, <4>4, <3>1, <2>3
      <4> QED BY <4>3, <4>4
    <3> QED BY <3>2, <3>3
  <2> QED BY <2>4, <2>5, <1>8
<1>9. OpenIsWaiting'
  BY <1>2, <1>8 DEF OpenIsWaiting
<1> QED BY <1>1, <1>7, <1>9 DEF HistoryInv

LEMMA MarkKeepsHistory ==
    ASSUME HistoryInv, NEW w \in Workers, NEW t \in todo[w], mark_as_fp(w, t), Crossed
    PROVE  HistoryInv'
<1>1. /\ RowsOK' /\ Findings' = Findings /\ t.id \in Findings
      /\ finding'[t.id].s.false_p /\ ~finding'[t.id].s.active
      /\ finding'[t.id].hash = t.row.hash
      /\ \A f \in Findings \ {t.id} : finding'[f] = finding[f]
      /\ \A v \in Workers : todo'[v] \subseteq todo[v] /\ todo[v] \ {t} \subseteq todo'[v]
  BY MarkKeepsRows DEF HistoryInv, Crossed
<1>2. queue' = queue /\ bulk' = bulk /\ (~crossed' => ~crossed)
  BY DEF mark_as_fp, Crossed
<1>3. CopiesKnown'
  <2> SUFFICES ASSUME ~crossed', NEW v \in Workers, NEW other \in todo'[v]
               PROVE  \E k \in Findings : finding'[k].s.false_p /\ finding'[k].hash = other.row.hash
    BY <1>1 DEF CopiesKnown
  <2>1. PICK k \in Findings : finding[k].s.false_p /\ finding[k].hash = other.row.hash
    BY <1>1, <1>2 DEF HistoryInv, CopiesKnown
  <2>2. CASE k /= t.id
    BY <2>1, <2>2, <1>1
  <2>3. CASE k = t.id
    <3>1. PICK hash \in [Ids -> Hashes \cup {None}] : HashOf(hash)
      BY DEF HistoryInv, RowsOK, HashesFixed
    <3>2. finding[k].hash \in {None, hash[k]} /\ t.row.hash = hash[k]
      BY <2>3, <3>1 DEF HashOf
    <3>3. other.row.hash /= None
      BY <1>1 DEF HistoryInv, RowsOK, RowsSound
    <3> QED BY <2>1, <2>3, <3>2, <3>3, <1>1
  <2> QED BY <2>2, <2>3
<1>4. ASSUME NEW f, f /= t.id, HasCopy(f) PROVE HasCopy(f)'
  BY <1>1, <1>4 DEF HasCopy
<1>5. OpenIsWaiting'
  <2> SUFFICES ASSUME ~crossed', Retroactive, NEW f \in Findings \ bulk,
                      finding'[f].s.active, finding'[f].hash /= None, f \notin queue
               PROVE  /\ \A g \in Findings :
                            finding'[g].s.false_p /\ finding'[g].hash = finding'[f].hash =>
                                g \in queue \/ HasCopy(f)'
                      /\ \A v \in Workers : \A other \in todo'[v] :
                             other.row.hash = finding'[f].hash => HasCopy(f)'
    BY <1>1, <1>2 DEF OpenIsWaiting
  <2>1. f /= t.id /\ finding'[f] = finding[f]
    BY <1>1
  <2>2. ~crossed
    BY <1>2
  <2>3. \A v \in Workers : \A other \in todo[v] : other.row.hash = finding[f].hash => HasCopy(f)'
    BY <2>1, <2>2, <1>4 DEF HistoryInv, OpenIsWaiting
  <2>4. \A g \in Findings \ {t.id} :
            finding'[g].s.false_p /\ finding'[g].hash = finding[f].hash => g \in queue \/ HasCopy(f)'
    BY <2>1, <2>2, <1>1, <1>4 DEF HistoryInv, OpenIsWaiting
  <2> QED BY <2>1, <2>3, <2>4, <1>1
<1> QED BY <1>1, <1>3, <1>5 DEF HistoryInv

\* The pages of one finding start its task.
LEMMA PageOfOneKeepsHistory ==
    ASSUME HistoryInv, NEW f \in Findings, NEW s \in Status, NEW touched,
           Page(One(f, s), {f}, touched), bulk' = bulk \ {f}, Crossed
    PROVE  HistoryInv'
<1> DEFINE new == One(f, s)
<1>1. {f} \in SUBSET Findings /\ new \in [{f} -> Status] /\ RowsOK /\ crossed' \in BOOLEAN
  BY DEF One, HistoryInv, Crossed
<1> HIDE DEF new
<1>2. Page(new, {f}, touched)
  BY DEF new
<1>3. /\ RowsOK' /\ Findings' = Findings
      /\ \A g \in Findings : finding'[g].hash = finding[g].hash
      /\ \A g \in Findings \ {f} : finding'[g] = finding[g]
  BY <1>1, <1>2, PageKeepsRows
<1>4. queue' = queue \cup {f} /\ UNCHANGED todo
  BY <1>2 DEF Page
<1> QED BY <1>3, <1>4, SavesKeepHistory

LEMMA BulkEditKeepsHistory ==
    ASSUME HistoryInv, ByHashCode, NEW f \in Findings, NEW b \in BulkStatus, bulk_edit(f, b), Crossed
    PROVE  HistoryInv'
<1>0. b.active \in BOOLEAN /\ b.false_p \in BOOLEAN /\ b.is_mitigated \in BOOLEAN
  <2>1. CASE b = [active |-> TRUE, false_p |-> FALSE, is_mitigated |-> FALSE]
    BY <2>1
  <2>2. CASE b = [active |-> FALSE, false_p |-> FALSE, is_mitigated |-> TRUE]
    BY <2>2
  <2>3. CASE b = [active |-> FALSE, false_p |-> TRUE, is_mitigated |-> TRUE]
    BY <2>3
  <2> QED BY <2>1, <2>2, <2>3 DEF BulkStatus
<1> DEFINE form == [finding[f].s EXCEPT !.active = b.active, !.false_p = b.false_p,
                                        !.is_mitigated = b.is_mitigated, !.verified = FALSE]
           now == saved(finding[f].s, form, {})
           equal == IF Retroactive /\ finding[f].s.false_p /\ ~now.false_p
                    THEN {g \in match_finding_to_existing_findings(f) : finding[g].s.false_p}
                    ELSE {}
           status(g) == IF g = f THEN form
                        ELSE [finding[g].s EXCEPT !.active = now.active, !.verified = now.verified,
                                  !.false_p = FALSE, !.out_of_scope = now.out_of_scope,
                                  !.is_mitigated = now.is_mitigated]
           new == [g \in {f} \cup equal |-> status(g)]
           tasks == IF now.false_p THEN {f} ELSE {}
<1>1. RowsOK /\ \A g \in Findings : Sound(finding[g].s)
  BY DEF HistoryInv, RowsOK, RowsSound, Saved
<1>2. Page(new, tasks, {}) /\ bulk' = IF now.active THEN bulk \cup DOMAIN new ELSE bulk \ DOMAIN new
  BY DEF bulk_edit
<1>3. form \in Status
  BY <1>0, <1>1 DEF Sound, Status
<1> HIDE DEF form
<1>4. Sound(now)
  BY <1>1, <1>3, SaveSound
<1> HIDE DEF now
<1>5. equal \subseteq Findings /\ (now.false_p => equal = {})
  BY MatchesHaveTheHash DEF HistoryInv
<1> HIDE DEF equal
<1>6. \A g \in {f} \cup equal : status(g) \in Status
  BY <1>1, <1>3, <1>4, <1>5 DEF Sound, Status
<1>7. \A g \in equal : g /= f => status(g).active = now.active /\ status(g).false_p = FALSE
  BY <1>1, <1>4, <1>5 DEF Sound, Status
<1> HIDE DEF status
<1> DEFINE D == {f} \cup equal
<1>8. D \in SUBSET Findings /\ new \in [D -> Status] /\ DOMAIN new = D /\ f \in D /\ new[f] = form
      /\ \A g \in equal : g /= f => new[g].active = now.active /\ new[g].false_p = FALSE
  BY <1>5, <1>6, <1>7 DEF status
<1> HIDE DEF new, D
<1>9. tasks \in SUBSET Findings /\ crossed' \in BOOLEAN
  BY DEF Crossed
<1> HIDE DEF tasks
<1>10. /\ RowsOK' /\ Findings' = Findings
       /\ \A g \in Findings : finding'[g].hash = finding[g].hash
       /\ \A g \in Findings \ D : finding'[g] = finding[g]
       /\ \A g \in D : /\ ~new[g].active => ~finding'[g].s.active
                       /\ ~new[g].false_p => ~finding'[g].s.false_p
       /\ finding'[f].s = saved(finding[f].s, new[f], {})
  <2>0. RowsOK
    BY <1>1
  <2>1. ASSUME NEW d \in SUBSET Findings, NEW n \in [d -> Status], NEW k \in SUBSET Findings,
               Page(n, k, {})
        PROVE  /\ RowsOK' /\ Findings' = Findings
               /\ \A g \in Findings : finding'[g].hash = finding[g].hash
               /\ \A g \in Findings \ d : finding'[g] = finding[g]
               /\ \A g \in d : /\ ~n[g].active => ~finding'[g].s.active
                               /\ ~n[g].false_p => ~finding'[g].s.false_p
                               /\ finding'[g].s = saved(finding[g].s, n[g], {})
    BY <2>0, <2>1, <1>9, PageKeepsRows
  <2>2. Page(new, tasks, {})
    BY <1>2
  <2> QED BY <2>1, <2>2, <1>8, <1>9
<1>11. finding'[f].s = now
  BY <1>8, <1>10 DEF now
<1>12. queue' = queue \cup tasks /\ UNCHANGED todo
  BY <1>2 DEF Page
<1>13. \A g \in D : \/ g \in queue'
                    \/ ~finding'[g].s.active /\ ~finding'[g].s.false_p
                    \/ g \in bulk' /\ ~finding'[g].s.false_p
  <2>1. CASE now.false_p
    BY <2>1, <1>5, <1>12 DEF tasks, D
  <2>2. CASE ~now.false_p /\ now.active
    BY <2>2, <1>2, <1>8, <1>10, <1>11 DEF D
  <2>3. CASE ~now.false_p /\ ~now.active
    BY <2>3, <1>8, <1>10, <1>11 DEF D
  <2> QED BY <2>1, <2>2, <2>3
<1>14. \A g \in Findings \ D : finding'[g] = finding[g] /\ (g \in bulk' <=> g \in bulk)
  BY <1>2, <1>8, <1>10
<1>15. \A g \in Findings : \/ finding'[g] = finding[g] /\ (g \in bulk' <=> g \in bulk)
                           \/ g \in queue'
                           \/ ~finding'[g].s.active /\ ~finding'[g].s.false_p
                           \/ g \in bulk' /\ ~finding'[g].s.false_p
  BY <1>13, <1>14
<1> QED BY <1>10, <1>12, <1>15, SavesKeepHistory

LEMMA PagesKeepHistory ==
    ASSUME HistoryInv, ByHashCode, NEW f \in Findings, Crossed,
           \/ \E fp \in BOOLEAN : close_finding(f, fp)
           \/ reopen_finding(f)
           \/ edit_finding(f)
           \/ \E b \in BulkStatus : bulk_edit(f, b)
    PROVE  HistoryInv'
<1>1. finding[f].s \in Status
  BY DEF HistoryInv, RowsOK, RowsSound, Saved, Sound
<1>2. ASSUME NEW fp \in BOOLEAN, close_finding(f, fp) PROVE HistoryInv'
  <2> DEFINE s == [finding[f].s EXCEPT !.active = FALSE, !.mitigated = TRUE,
                                       !.is_mitigated = TRUE, !.false_p = fp]
  <2>1. s \in Status
    BY <1>1 DEF Status
  <2>2. Page(One(f, s), {f}, {"mitigated", "mitigated_by"}) /\ bulk' = bulk \ {f}
    BY <1>2 DEF close_finding
  <2> HIDE DEF s
  <2> QED BY <2>1, <2>2, PageOfOneKeepsHistory
<1>3. CASE reopen_finding(f)
  <2> DEFINE s == [finding[f].s EXCEPT !.active = TRUE, !.mitigated = FALSE,
                                       !.is_mitigated = FALSE]
  <2>1. s \in Status
    BY <1>1 DEF Status
  <2>2. Page(One(f, s), {f}, {"mitigated_by"}) /\ bulk' = bulk \ {f}
    BY <1>3 DEF reopen_finding
  <2> HIDE DEF s
  <2> QED BY <2>1, <2>2, PageOfOneKeepsHistory
<1>4. CASE edit_finding(f)
  <2> DEFINE s == [finding[f].s EXCEPT !.active = TRUE, !.false_p = FALSE]
  <2>1. s \in Status
    BY <1>1 DEF Status
  <2>2. Page(One(f, s), {f}, {}) /\ bulk' = bulk \ {f}
    BY <1>4 DEF edit_finding
  <2> HIDE DEF s
  <2> QED BY <2>1, <2>2, PageOfOneKeepsHistory
<1>5. ASSUME NEW b \in BulkStatus, bulk_edit(f, b) PROVE HistoryInv'
  BY <1>5, BulkEditKeepsHistory
<1> QED BY <1>2, <1>3, <1>4, <1>5

LEMMA ImportsKeepHistory ==
    ASSUME HistoryInv, Import_Next, Crossed, UNCHANGED <<todo, bulk, decisions>>
    PROVE  HistoryInv'
<1>1. RowsOK /\ crossed' \in BOOLEAN
  BY DEF HistoryInv, Crossed
<1>2. PICK u \in Imports :
          \/ import_scan(u)
          \/ import[u].stage \notin {"none", "over"} /\ (Importer(u) \/ Fail(u))
  BY DEF Import_Next
<1>3. CASE UNCHANGED <<finding, queue>> /\ RowsOK'
  BY <1>3, SavesKeepHistory DEF Findings
<1>4. CASE import_scan(u)
  <2>1. RowsOK'
    BY <1>1, <1>4, ScanKeepsRows
  <2> QED BY <2>1, <1>3, <1>4 DEF import_scan
<1>5. ASSUME Live(u), NEW c \in 1..Len(import[u].items), Create(u, c) PROVE HistoryInv'
  <2>1. /\ RowsOK' /\ next_id \notin Findings /\ Findings' = Findings \cup {next_id}
        /\ finding'[next_id].hash = None
        /\ \A f \in Findings : finding'[f] = finding[f]
        /\ queue \subseteq queue'
    BY <1>1, <1>5, CreateKeepsRows
  <2> QED BY <2>1, SavesKeepHistory
<1>6. ASSUME Live(u), NEW c \in 1..Len(import[u].items), Complete(u, c) PROVE HistoryInv'
  <2>0. c \in DOMAIN import[u].items
    BY <1>6 DEF Complete
  <2> DEFINE f == import[u].half[c]
  <2>1. /\ RowsOK' /\ f \in Findings /\ Findings' = Findings
        /\ finding[f].hash = None
        /\ \A g \in Findings \ {f} : finding'[g] = finding[g]
        /\ f \in queue' /\ queue \subseteq queue'
    BY <1>1, <1>6, <2>0, CompleteKeepsRows
  <2> HIDE DEF f
  <2> QED BY <2>1, SavesKeepHistory
<1>7. CASE close_old_findings(u)
  <2>1. RowsOK'
    BY <1>1, <1>7, CloseOldKeepsRows
  <2> QED BY <2>1, <1>3, <1>7 DEF close_old_findings
<1>8. ASSUME NEW t \in import[u].todo, close_old_finding(u, t) PROVE HistoryInv'
  <2>1. /\ RowsOK' /\ Findings' = Findings /\ t.id \in Findings
        /\ ~finding'[t.id].s.false_p /\ ~finding'[t.id].s.active
        /\ \A f \in Findings \ {t.id} : finding'[f] = finding[f]
        /\ queue \subseteq queue'
    BY <1>1, <1>8, CloseKeepsRows
  <2> QED BY <2>1, SavesKeepHistory
<1>9. CASE Live(u) /\ (Finish(u) \/ Fail(u))
  <2>1. RowsOK'
    BY <1>1, <1>9, EndKeepsRows
  <2> QED BY <2>1, <1>3, <1>9 DEF Finish, Fail
<1> QED BY <1>2, <1>4, <1>5, <1>6, <1>7, <1>8, <1>9 DEF Importer, Live

LEMMA InitHistory ==
    ASSUME Init
    PROVE  HistoryInv
<1>1. Findings = {} /\ \A u \in Imports : ~Live(u)
  BY DEF Init, Init_Import, Findings, Live, NoImport
<1>2. TypeOK
  <2>1. next_id \in Nat \ {0} /\ queue \subseteq Findings
    BY DEF Init, Init_Import
  <2>5. crossed \in BOOLEAN
    BY DEF Init
  <2>2. finding \in [Ids -> Row \cup {None}] /\ test \in [Imports -> Targets \cup {None}]
    BY DEF Init, Init_Import
  <2>3. import \in [Imports -> {NoImport, Over} \cup Handling]
    BY DEF Init, Init_Import
  <2>4. todo \in [Workers -> SUBSET Copies]
    BY DEF Init
  <2> QED BY <2>1, <2>2, <2>3, <2>4, <2>5 DEF TypeOK
<1>3. RowsSound /\ HalvesApart
  BY <1>1 DEF Init, Init_Import, RowsSound, HalvesApart
<1>4. HashesFixed
  <2>1. [f \in Ids |-> None] \in [Ids -> Hashes \cup {None}] /\ HashOf([f \in Ids |-> None])
    BY <1>1 DEF HashOf, Init
  <2> QED BY <2>1 DEF HashesFixed
<1>5. CopiesKnown /\ OpenIsWaiting
  BY <1>1 DEF CopiesKnown, OpenIsWaiting, Init
<1> QED BY <1>2, <1>3, <1>4, <1>5 DEF RowsOK, HistoryInv

LEMMA StepKeepsHistory ==
    ASSUME HistoryInv, ByHashCode, [Next]_vars
    PROVE  HistoryInv'
<1>1. CASE Import_Next /\ Crossed /\ UNCHANGED <<todo, bulk, decisions>>
  BY <1>1, ImportsKeepHistory
<1>2. CASE \E w \in Workers : Task(w) /\ Crossed
  BY <1>2, TaskKeepsHistory, MarkKeepsHistory DEF Task
<1>3. CASE Pages /\ Crossed
  BY <1>3, PagesKeepHistory DEF Pages
<1>4. CASE UNCHANGED vars
  <2>1. HistoryInv' <=> HistoryInv
    BY <1>4 DEF vars, importVars, HistoryInv, RowsOK, TypeOK, RowsSound, HalvesApart,
               HashesFixed, HashOf, CopiesKnown, OpenIsWaiting, HasCopy, Live, Saved, Findings
  <2> QED BY <2>1
<1> QED BY <1>1, <1>2, <1>3, <1>4 DEF Next

LEMMA HistoryFollows ==
    ASSUME HistoryInv, ByHashCode
    PROVE  HistoryHolds
<1> SUFFICES ASSUME Retroactive, Quiet, ~crossed, NEW f \in Findings, Overlooked(f)
             PROVE  FALSE
  BY DEF HistoryHolds
<1>1. PICK g \in Findings : finding[g].s.false_p /\ SameHash(f, g)
  BY MatchesHaveTheHash DEF Overlooked, HistoryInv
<1>2. f \in queue \/ g \in queue \/ HasCopy(f)
  BY <1>1 DEF Overlooked, HistoryInv, OpenIsWaiting, SameHash
<1> QED BY <1>2 DEF Quiet, HasCopy

\* do_false_positive_history with retroactive_false_positive_history: where findings are
\* deduplicated by hash code, when no task is left none is open that equals a known false
\* positive, for any number of workers, imports, findings and decisions.
THEOREM HistoryHoldsAlways ==
    ASSUME ByHashCode
    PROVE  Spec => []HistoryHolds
<1>1. Init => HistoryInv
  BY InitHistory
<1>2. ByHashCode /\ HistoryInv /\ [Next]_vars => HistoryInv'
  BY StepKeepsHistory
<1>3. ByHashCode /\ HistoryInv => HistoryHolds
  BY HistoryFollows
<1>4. []ByHashCode
  BY PTL
<1> QED BY <1>1, <1>2, <1>3, <1>4, PTL DEF Spec

-----------------------------------------------------------------------------
(* What imports close.  The hash code a finding has for good is not in the  *)
(* state, for a stale save may take it back; the invariant says there is    *)
(* one.                                                                     *)

\* No save moves a finding to another test.
TestsFixed ==
    /\ \A w \in Workers : \A t \in todo[w] : t.row.test = finding[t.id].test
    /\ \A u \in Imports : Live(u) =>
           /\ \A t \in import[u].todo : t.row.test = finding[t.id].test
           /\ \A c \in DOMAIN import[u].half :
                  import[u].half[c] /= 0 => finding[import[u].half[c]].test = u
    /\ \A u \in Imports : import[u].stage = "none" => test[u] = None

\* Every item is in a chunk or has its finding, which is as it was created unless changed.
Reports(hash, u) ==
    import[u].stage = "processing" =>
        /\ \A c \in DOMAIN import[u].items :
               Range(import[u].items[c]) \subseteq Range(import[u].report)
        /\ \A item \in Range(import[u].report) :
               \/ \E c \in DOMAIN import[u].items : item \in Range(import[u].items[c])
               \/ \E f \in Own(u) : hash[f] = item.hash
        /\ \A f \in Own(u) \ changed : hash[f] /= None =>
               /\ finding[f].hash = hash[f]
               /\ \E item \in Range(import[u].report) :
                      item.hash = hash[f] /\ finding[f].s = created(item.status)

InScope(u, f) ==
    /\ target(f).test_type = test[u].test_type
    /\ target(f).service = test[u].service
    /\ import[u].close_old = "product" \/ target(f).engagement = test[u].engagement

\* Someone had a hand in a finding of u that has, or will have again, this hash code.
Touched(hash, u, code) == \E f \in Own(u) \cap changed : hash[f] = code

\* What is to be closed is not listed as open, and what is not to be closed is listed.
Closings(hash, u) ==
    import[u].stage = "closing" =>
        /\ \A t \in import[u].todo :
               \/ t.row.hash = None
               \/ ~Lists(u, t.row.hash) \/ ListsFixed(u, t.row.hash)
               \/ Touched(hash, u, t.row.hash)
        /\ \A f \in Findings \ (Own(u) \cup import[u].since) :
               InScope(u, f) /\ finding[f].s.active =>
                   \/ \E t \in import[u].todo : t.id = f
                   \/ /\ finding[f].hash /= None
                      /\ \/ Lists(u, finding[f].hash)
                         \/ Touched(hash, u, finding[f].hash)

HashCodes == [Ids -> Hashes \cup {None}]

ImportsOK(hash) ==
    HashOf(hash) /\ \A u \in Imports : Reports(hash, u) /\ Closings(hash, u)

ImportInv == RowsOK /\ TestsFixed /\ \E hash \in HashCodes : ImportsOK(hash)

-----------------------------------------------------------------------------
(* Loops over lists. *)

\* Of some numbers one is the lowest.
LEMMA LowestNumber ==
    ASSUME NEW S \in SUBSET Nat, S /= {}
    PROVE  \E n \in S : \A m \in S : n <= m
<1>1. PICK n \in S : \A m \in S : ~(<<m, n>> \in OpToRel(<, Nat))
  BY NatLessThanWellFounded, WFMin, Zenon
<1>2. \A m \in S : m \in Nat /\ n \in Nat /\ ~(m < n)
  BY <1>1 DEF OpToRel
<1> QED BY <1>2

\* What is so before the first round and stays so in every round is so after each.
LEMMA RoundByRound ==
    ASSUME NEW n \in Nat, NEW S \in SUBSET (0..n), 0 \in S,
           \A i \in 1..n : i - 1 \in S => i \in S
    PROVE  S = 0..n
<1> DEFINE T == (0..n) \ S
<1>1. SUFFICES ASSUME T /= {} PROVE FALSE
  OBVIOUS
<1>2. PICK m \in T : \A k \in T : m <= k
  <2> T \in SUBSET Nat
    OBVIOUS
  <2> HIDE DEF T
  <2> QED BY <1>1, LowestNumber
<1>3. m \in 1..n /\ m - 1 \in 0..n /\ m - 1 \notin T
  BY <1>2
<1> QED BY <1>2, <1>3

\* what a loop of n rounds has after each
Runs(n, V, first, step) ==
    {f \in [0..n -> V] : f[0] = first /\ \A i \in 1..n : f[i] = step[i][f[i - 1]]}

\* Every loop over a list runs.
LEMMA LoopRuns ==
    ASSUME NEW n \in Nat, NEW V, NEW first \in V, NEW step \in [1..n -> [V -> V]]
    PROVE  Runs(n, V, first, step) /= {}
<1> DEFINE Upto(m) == \E f \in [0..m -> V] :
                          f[0] = first /\ \A i \in 1..m : f[i] = step[i][f[i - 1]]
           S == {m \in 0..n : Upto(m)}
<1>1. Upto(0)
  <2> DEFINE f == [i \in 0..0 |-> first]
  <2>1. f \in [0..0 -> V] /\ f[0] = first /\ \A i \in 1..0 : f[i] = step[i][f[i - 1]]
    OBVIOUS
  <2> HIDE DEF f
  <2> QED BY <2>1
<1>2. ASSUME NEW m \in 1..n, Upto(m - 1)
      PROVE  Upto(m)
  <2>1. PICK f \in [0..(m - 1) -> V] :
            f[0] = first /\ \A i \in 1..(m - 1) : f[i] = step[i][f[i - 1]]
    BY <1>2
  <2> DEFINE g == [i \in 0..m |-> IF i = m THEN step[m][f[m - 1]] ELSE f[i]]
  <2>2. f[m - 1] \in V /\ step[m][f[m - 1]] \in V
    OBVIOUS
  <2>3. g \in [0..m -> V]
    BY <2>2
  <2>4. g[0] = first /\ g[m] = step[m][f[m - 1]] /\ \A i \in 0..(m - 1) : g[i] = f[i]
    BY <2>1
  <2> HIDE DEF g
  <2>5. \A i \in 1..m : g[i] = step[i][g[i - 1]]
    BY <2>1, <2>4
  <2> QED BY <2>3, <2>4, <2>5
<1> HIDE DEF Upto
<1>3. S = 0..n
  <2>1. 0 \in S /\ S \in SUBSET (0..n) /\ \A i \in 1..n : i - 1 \in S => i \in S
    BY <1>1, <1>2
  <2> HIDE DEF S
  <2> QED BY <2>1, RoundByRound
<1>4. Upto(n)
  BY <1>3
<1> QED BY <1>4 DEF Upto, Runs

\* list.remove
LEMMA FirstRemoved ==
    ASSUME NEW V, NEW s \in Seq(V), NEW e
    PROVE  /\ RemoveFirst(s, e) \in Seq(V)
           /\ Range(RemoveFirst(s, e)) \subseteq Range(s)
           /\ \A x \in Range(s) \ {e} : x \in Range(RemoveFirst(s, e))
           /\ \A k \in 1..Len(s) : s[k] = e /\ (\A j \in 1..Len(s) : s[j] = e => j = k) =>
                  e \notin Range(RemoveFirst(s, e))
<1> DEFINE I == {i \in 1..Len(s) : s[i] = e}
<1>1. CASE I = {}
  <2>1. RemoveFirst(s, e) = s
    BY <1>1 DEF RemoveFirst
  <2> QED BY <1>1, <2>1
<1>2. CASE I /= {}
  <2>1. PICK m \in I : \A k \in I : m <= k
    <3> I \in SUBSET Nat
      OBVIOUS
    <3> HIDE DEF I
    <3> QED BY <1>2, LowestNumber
  <2>2. Min(I) \in I
    <3>1. \E x \in I : \A y \in I : x <= y
      BY <2>1
    <3> HIDE DEF I
    <3> QED BY <3>1 DEF Min
  <2> DEFINE k == Min(I)
             t == RemoveAt(s, k)
  <2>3. RemoveFirst(s, e) = t
    BY <1>2 DEF RemoveFirst, SelectInSeq
  <2>4. k \in 1..Len(s) /\ s[k] = e /\ Len(s) \in Nat
    BY <2>2
  <2> HIDE DEF k, I
  <2>5. /\ SubSeq(s, 1, k - 1) \in Seq(V) /\ Len(SubSeq(s, 1, k - 1)) = k - 1
        /\ \A i \in 1..(k - 1) : SubSeq(s, 1, k - 1)[i] = s[i]
    BY <2>4
  <2>6. /\ SubSeq(s, k + 1, Len(s)) \in Seq(V) /\ Len(SubSeq(s, k + 1, Len(s))) = Len(s) - k
        /\ \A i \in 1..(Len(s) - k) : SubSeq(s, k + 1, Len(s))[i] = s[i + k]
    BY <2>4
  <2> DEFINE a == SubSeq(s, 1, k - 1)
             b == SubSeq(s, k + 1, Len(s))
  <2> HIDE DEF a, b
  <2>7. /\ t \in Seq(V) /\ Len(t) = Len(s) - 1
        /\ \A i \in 1..(Len(s) - 1) : t[i] = IF i < k THEN s[i] ELSE s[i + 1]
    <3>1. t = a \o b
      BY DEF RemoveAt, a, b
    <3>2. a \in Seq(V) /\ b \in Seq(V) /\ Len(a) = k - 1 /\ Len(b) = Len(s) - k
      BY <2>5, <2>6 DEF a, b
    <3>3. (\A i \in 1..(k - 1) : a[i] = s[i]) /\ \A i \in 1..(Len(s) - k) : b[i] = s[i + k]
      BY <2>5, <2>6 DEF a, b
    <3> HIDE DEF t
    <3>4. Len(a \o b) = Len(s) - 1 /\ a \o b \in Seq(V)
      BY <3>2, <2>4
    <3>5. ASSUME NEW i \in 1..(Len(s) - 1)
          PROVE  (a \o b)[i] = IF i < k THEN s[i] ELSE s[i + 1]
      <4>1. CASE i < k
        BY <4>1, <3>2, <3>3, <2>4
      <4>2. CASE ~(i < k)
        <5>1. (a \o b)[i] = b[i - (k - 1)]
          BY <4>2, <3>2, <2>4
        <5>2. i - (k - 1) \in 1..(Len(s) - k) /\ (i - (k - 1)) + k = i + 1
          BY <4>2, <2>4
        <5> QED BY <4>2, <5>1, <5>2, <3>3
      <4> QED BY <4>1, <4>2
    <3> QED BY <3>1, <3>4, <3>5
  <2> HIDE DEF t
  <2>8. DOMAIN t = 1..(Len(s) - 1) /\ DOMAIN s = 1..Len(s)
    BY <2>7
  <2>9. Range(t) \subseteq Range(s)
    BY <2>4, <2>7, <2>8 DEF Range
  <2>10. ASSUME NEW j \in 1..Len(s), s[j] /= e
         PROVE  s[j] \in Range(t)
    <3>1. CASE j < k
      BY <3>1, <2>4, <2>7, <2>8 DEF Range
    <3>2. CASE j > k
      <4>1. j - 1 \in 1..(Len(s) - 1) /\ ~(j - 1 < k) /\ (j - 1) + 1 = j
        BY <3>2, <2>4
      <4>2. t[j - 1] = s[j]
        BY <4>1, <2>7
      <4> QED BY <4>1, <4>2, <2>8 DEF Range
    <3> QED BY <3>1, <3>2, <2>4, <2>10
  <2>11. ASSUME \A j \in 1..Len(s) : s[j] = e => j = k
         PROVE  e \notin Range(t)
    BY <2>4, <2>7, <2>8, <2>11 DEF Range
  <2>12. \A x \in Range(s) \ {e} : x \in Range(t)
    BY <2>8, <2>10 DEF Range
  <2>13. ASSUME NEW q \in 1..Len(s), s[q] = e, \A j \in 1..Len(s) : s[j] = e => j = q
         PROVE  e \notin Range(t)
    BY <2>4, <2>11, <2>13
  <2> QED BY <2>3, <2>7, <2>9, <2>12, <2>13
<1> QED BY <1>1, <1>2

\* The loop that removes a hash code keeps all others; the code goes if it was there once.
LEMMA RemovedCode ==
    ASSUME NEW V, NEW list \in Seq(V), NEW h
    PROVE  /\ Removed(list, h) \in Seq(V)
           /\ Range(Removed(list, h)) \subseteq Range(list)
           /\ \A x \in Range(list) \ {h} : x \in Range(Removed(list, h))
           /\ list /= <<>> /\ (\A j \in 1..Len(list) : list[j] = h <=> j = Len(list)) =>
                  h \notin Range(Removed(list, h))
<1> DEFINE n == Len(list)
           Round(i, rest) == IF i <= Len(rest) /\ rest[i] = h THEN RemoveFirst(rest, h) ELSE rest
           IsRun(f) == f = [i \in 0..n |-> IF i = 0 THEN list ELSE Round(i, f[i - 1])]
           after == CHOOSE f : IsRun(f)
<1>1. n \in Nat
  OBVIOUS
<1>2. Removed(list, h) = after[n]
  BY DEF Removed
<1>3. \A i \in 1..n, rest \in Seq(V) : Round(i, rest) \in Seq(V)
  BY FirstRemoved
<1>4. \E f : IsRun(f)
  <2> DEFINE step == [i \in 1..n |-> [rest \in Seq(V) |-> Round(i, rest)]]
  <2>1. step \in [1..n -> [Seq(V) -> Seq(V)]]
    BY <1>3
  <2>2. \A i \in 1..n, rest \in Seq(V) : step[i][rest] = Round(i, rest)
    OBVIOUS
  <2> DEFINE Codes == Seq(V)
  <2>0. list \in Codes
    OBVIOUS
  <2> HIDE DEF step, Round, n, Codes
  <2>3. PICK f \in [0..n -> Codes] : f[0] = list /\ \A i \in 1..n : f[i] = step[i][f[i - 1]]
    <3>1. step \in [1..n -> [Codes -> Codes]]
      BY <2>1 DEF Codes
    <3>2. Runs(n, Codes, list, step) /= {}
      BY <1>1, <2>0, <3>1, LoopRuns
    <3> QED BY <3>2 DEF Runs
  <2>4. \A i \in 1..n : f[i] = Round(i, f[i - 1])
    <3>1. \A i \in 1..n : i - 1 \in 0..n /\ f[i - 1] \in Codes
      BY <1>1, <2>3
    <3> QED BY <2>2, <2>3, <3>1 DEF Codes
  <2>5. \A i \in 0..n : f[i] = IF i = 0 THEN list ELSE Round(i, f[i - 1])
    BY <1>1, <2>3, <2>4
  <2>6. f = [i \in 0..n |-> f[i]]
    OBVIOUS
  <2>7. IsRun(f)
    BY <2>5, <2>6
  <2> HIDE DEF IsRun
  <2> QED BY <2>7
<1>5. IsRun(after)
  <2> HIDE DEF IsRun
  <2> QED BY <1>4
<1>6. /\ DOMAIN after = 0..n /\ after[0] = list
      /\ \A i \in 1..n : after[i] = Round(i, after[i - 1])
  <2> HIDE DEF after, Round
  <2> QED BY <1>1, <1>5
<1> HIDE DEF after, IsRun
<1>7. \A i \in 0..n : /\ after[i] \in Seq(V) /\ Range(after[i]) \subseteq Range(list)
                      /\ \A x \in Range(list) \ {h} : x \in Range(after[i])
  <2> DEFINE Kept(rest) == /\ rest \in Seq(V) /\ Range(rest) \subseteq Range(list)
                           /\ \A x \in Range(list) \ {h} : x \in Range(rest)
             S == {i \in 0..n : Kept(after[i])}
  <2>1. Kept(after[0])
    BY <1>6
  <2>2. ASSUME NEW i \in 1..n, Kept(after[i - 1])
        PROVE  Kept(after[i])
    <3>1. ASSUME NEW rest, Kept(rest)
          PROVE  Kept(RemoveFirst(rest, h))
      BY <3>1, FirstRemoved
    <3>2. after[i] \in {after[i - 1], RemoveFirst(after[i - 1], h)}
      BY <1>6
    <3> QED BY <2>2, <3>1, <3>2
  <2> HIDE DEF Kept, n
  <2>3. S = 0..n
    <3>1. 0 \in S /\ S \in SUBSET (0..n) /\ \A i \in 1..n : i - 1 \in S => i \in S
      BY <1>1, <2>1, <2>2
    <3> HIDE DEF S
    <3> QED BY <1>1, <3>1, RoundByRound
  <2> QED BY <2>3 DEF Kept
<1>8. ASSUME list /= <<>>, \A j \in 1..n : list[j] = h <=> j = n
      PROVE  h \notin Range(after[n])
  <2> DEFINE S == {i \in 0..(n - 1) : after[i] = list}
  <2>1. n - 1 \in Nat
    <3>1. list \in Seq(V) \ {<<>>}
      BY <1>8
    <3> QED BY <3>1
  <2>2. 0 \in S /\ S \in SUBSET (0..(n - 1))
    BY <1>6, <2>1
  <2>3. ASSUME NEW i \in 1..(n - 1), i - 1 \in S
        PROVE  i \in S
    <3>1. i \in 1..n /\ i /= n /\ list[i] /= h
      BY <1>8, <2>1
    <3>2. after[i] = Round(i, list)
      BY <1>6, <2>3, <3>1
    <3> QED BY <3>1, <3>2
  <2> HIDE DEF S
  <2>4. S = 0..(n - 1)
    BY <2>1, <2>2, <2>3, RoundByRound
  <2>5. after[n - 1] = list
    BY <2>1, <2>4 DEF S
  <2>6. after[n] = RemoveFirst(list, h) /\ n \in 1..n /\ list[n] = h
    BY <1>1, <1>6, <1>8, <2>1, <2>5
  <2> QED BY <1>8, <2>6, FirstRemoved
<1> QED BY <1>1, <1>2, <1>7, <1>8

\* The loop over the findings of the new test: a hash code they have only mitigated is not in
\* its list, and one they have only open is.
LEMMA NewHashCodes ==
    ASSUME NEW own \in Seq(Findings), NEW V, \A f \in Findings : finding[f].hash \in V
    PROVE  /\ new_hash_codes(own) \in Seq(V)
           /\ \A h :
                /\ (\A f \in Range(own) : finding[f].hash = h => finding[f].s.is_mitigated) =>
                       h \notin Range(new_hash_codes(own))
                /\ /\ \A f \in Range(own) : finding[f].hash = h => ~finding[f].s.is_mitigated
                   /\ \E f \in Range(own) : finding[f].hash = h
                   => h \in Range(new_hash_codes(own))
<1> DEFINE n == Len(own)
           H(i) == finding[own[i]].hash
           M(i) == finding[own[i]].s.is_mitigated
           Round(i, codes) == IF M(i) THEN Removed(Append(codes, H(i)), H(i))
                              ELSE Append(codes, H(i))
           IsRun(f) == f = [i \in 0..n |-> IF i = 0 THEN <<>> ELSE Round(i, f[i - 1])]
           after == CHOOSE f : IsRun(f)
<1>1. n \in Nat /\ (\A i \in 1..n : H(i) \in V) /\ Range(own) = {own[i] : i \in 1..n}
  BY DEF Range
<1>2. new_hash_codes(own) = after[n]
  BY DEF new_hash_codes
<1> HIDE DEF H, M
<1>3. \A i \in 1..n, codes \in Seq(V) :
          Append(codes, H(i)) \in Seq(V) /\ Round(i, codes) \in Seq(V)
  <2> SUFFICES ASSUME NEW i \in 1..n, NEW codes \in Seq(V)
               PROVE  Append(codes, H(i)) \in Seq(V) /\ Round(i, codes) \in Seq(V)
    OBVIOUS
  <2>1. Append(codes, H(i)) \in Seq(V)
    BY <1>1
  <2> QED BY <2>1, RemovedCode
<1>4. \E f : IsRun(f)
  <2> DEFINE CodeLists == Seq(V)
             step == [i \in 1..n |-> [codes \in CodeLists |-> Round(i, codes)]]
  <2>1. step \in [1..n -> [CodeLists -> CodeLists]]
    BY <1>3
  <2>2. \A i \in 1..n, codes \in CodeLists : step[i][codes] = Round(i, codes)
    OBVIOUS
  <2>0. <<>> \in CodeLists
    OBVIOUS
  <2> HIDE DEF step, Round, n, CodeLists
  <2>3. PICK f \in [0..n -> CodeLists] : f[0] = <<>> /\ \A i \in 1..n : f[i] = step[i][f[i - 1]]
    <3>1. Runs(n, CodeLists, <<>>, step) /= {}
      BY <1>1, <2>0, <2>1, LoopRuns
    <3> QED BY <3>1 DEF Runs
  <2>4. \A i \in 1..n : f[i] = Round(i, f[i - 1])
    <3>1. \A i \in 1..n : i - 1 \in 0..n /\ f[i - 1] \in CodeLists
      BY <1>1, <2>3
    <3> QED BY <2>2, <2>3, <3>1
  <2>5. \A i \in 0..n : f[i] = IF i = 0 THEN <<>> ELSE Round(i, f[i - 1])
    BY <1>1, <2>3, <2>4
  <2>6. f = [i \in 0..n |-> f[i]]
    OBVIOUS
  <2>7. IsRun(f)
    BY <2>5, <2>6
  <2> HIDE DEF IsRun
  <2> QED BY <2>7
<1>5. IsRun(after)
  <2> HIDE DEF IsRun
  <2> QED BY <1>4
<1>6. after[0] = <<>> /\ \A i \in 1..n : after[i] = Round(i, after[i - 1])
  <2> HIDE DEF after, Round
  <2> QED BY <1>1, <1>5
<1> HIDE DEF after, IsRun
<1> DEFINE Fixed(i, h) == \A j \in 1..i : H(j) = h => M(j)
           Open(i, h) == (\A j \in 1..i : H(j) = h => ~M(j)) /\ \E j \in 1..i : H(j) = h
           Good(i, codes) == /\ codes \in Seq(V)
                             /\ \A h : /\ Fixed(i, h) => h \notin Range(codes)
                                       /\ Open(i, h) => h \in Range(codes)
<1>7. Good(0, <<>>)
  BY DEF Range
<1>8. ASSUME NEW i \in 1..n, NEW codes, Good(i - 1, codes)
      PROVE  Good(i, Round(i, codes))
  <2> DEFINE longer == Append(codes, H(i))
  <2>1. /\ codes \in Seq(V) /\ longer \in Seq(V) /\ Round(i, codes) \in Seq(V)
    BY <1>3, <1>8
  <2>2. /\ Len(longer) = Len(codes) + 1 /\ longer[Len(longer)] = H(i) /\ longer /= <<>>
        /\ Len(codes) \in Nat
        /\ \A j \in 1..Len(codes) : longer[j] = codes[j]
    BY <1>1, <2>1
  <2> HIDE DEF longer
  <2>3. Range(longer) = Range(codes) \cup {H(i)}
    <3>1. DOMAIN longer = 1..Len(longer) /\ DOMAIN codes = 1..Len(codes)
      BY <2>1
    <3>2. DOMAIN longer = DOMAIN codes \cup {Len(longer)}
      BY <2>2, <3>1
    <3> QED BY <2>2, <3>1, <3>2 DEF Range
  <2>4. \A h : h /= H(i) => /\ Fixed(i, h) => Fixed(i - 1, h)
                            /\ Open(i, h) => Open(i - 1, h)
    BY <1>1
  <2>5. Fixed(i, H(i)) => M(i) /\ Fixed(i - 1, H(i))
    BY <1>1
  <2>6. Open(i, H(i)) => ~M(i)
    BY <1>1
  <2> HIDE DEF Fixed, Open, n
  <2>7. CASE M(i)
    <3>1. Round(i, codes) = Removed(longer, H(i))
      BY <2>7 DEF longer
    <3>2. /\ Range(Removed(longer, H(i))) \subseteq Range(longer)
          /\ \A x \in Range(longer) \ {H(i)} : x \in Range(Removed(longer, H(i)))
          /\ longer /= <<>> /\ (\A j \in 1..Len(longer) : longer[j] = H(i) <=> j = Len(longer)) =>
                  H(i) \notin Range(Removed(longer, H(i)))
      BY <2>1, RemovedCode
    <3>3. ASSUME Fixed(i, H(i))
          PROVE  H(i) \notin Range(Removed(longer, H(i)))
      <4>1. H(i) \notin Range(codes)
        BY <1>8, <2>5, <3>3
      <4>2. \A j \in 1..Len(codes) : longer[j] /= H(i)
        BY <2>1, <2>2, <4>1 DEF Range
      <4>3. \A j \in 1..Len(longer) : longer[j] = H(i) <=> j = Len(longer)
        BY <2>2, <4>2
      <4> QED BY <2>2, <3>2, <4>3
    <3> QED BY <1>8, <2>1, <2>3, <2>4, <2>6, <2>7, <3>1, <3>2, <3>3
  <2>8. CASE ~M(i)
    <3>1. Round(i, codes) = longer
      BY <2>8 DEF longer
    <3> QED BY <1>8, <2>1, <2>3, <2>4, <2>5, <2>8, <3>1
  <2> QED BY <2>7, <2>8
<1>9. Good(n, after[n])
  <2> DEFINE S == {i \in 0..n : Good(i, after[i])}
  <2> HIDE DEF Good, Round
  <2>1. 0 \in S /\ S \in SUBSET (0..n)
    BY <1>1, <1>6, <1>7
  <2>2. \A i \in 1..n : i - 1 \in S => i \in S
    BY <1>1, <1>6, <1>8
  <2> HIDE DEF S
  <2>3. S = 0..n
    BY <1>1, <2>1, <2>2, RoundByRound
  <2> QED BY <1>1, <2>3 DEF S
<1>10. \A h : /\ Fixed(n, h) <=>
                 (\A f \in Range(own) : finding[f].hash = h => finding[f].s.is_mitigated)
              /\ Open(n, h) <=>
                    /\ \A f \in Range(own) : finding[f].hash = h => ~finding[f].s.is_mitigated
                    /\ \E f \in Range(own) : finding[f].hash = h
  BY <1>1 DEF H, M
<1> HIDE DEF Fixed, Open, n
<1> QED BY <1>2, <1>9, <1>10

-----------------------------------------------------------------------------
(* One step at a time. *)

\* SetToSeqs: the lists of a set's elements.
LEMMA ListsAll ==
    ASSUME NEW S, IsFiniteSet(S), NEW list \in SetToSeqs(S)
    PROVE  list \in Seq(S) /\ Range(list) = S
<1>1. Cardinality(S) \in Nat
  BY FS_CardinalityType
<1>2. list \in Injection(1..Cardinality(S), S)
  BY DEF SetToSeqs, Injection, IsInjective
<1>3. IsFiniteSet(1..Cardinality(S)) /\ Cardinality(1..Cardinality(S)) = Cardinality(S)
  BY <1>1, FS_Interval
<1>4. list \in Surjection(1..Cardinality(S), S)
  BY <1>2, <1>3, FS_Injection
<1> QED BY <1>1, <1>2, <1>4 DEF Injection, Surjection, Range

LEMMA OwnFinite ==
    ASSUME RowsOK, NEW u \in Imports
    PROVE  IsFiniteSet(Own(u))
<1>1. next_id \in Nat
  BY DEF RowsOK, TypeOK
<1>2. Own(u) \subseteq 1..next_id
  <2> SUFFICES ASSUME NEW f \in Own(u) PROVE f \in 1..next_id
    OBVIOUS
  <2>1. f \in Nat \ {0}
    BY ImportAssumption DEF Own, Findings
  <2>2. ~(f >= next_id)
    BY DEF Own, Findings, RowsOK, RowsSound
  <2> QED BY <1>1, <2>1, <2>2
<1>3. IsFiniteSet(1..next_id)
  BY <1>1, FS_Interval
<1> QED BY <1>2, <1>3, FS_Subset

\* Opening findings notes them for the imports that close, and nothing else.
LEMMA OpenedNotes ==
    ASSUME NEW imports \in [Imports -> {NoImport, Over} \cup Handling], NEW fs \in SUBSET Ids,
           NEW u \in Imports
    PROVE  LET now == Opened(imports, fs)[u] IN
           /\ now.stage = imports[u].stage
           /\ imports[u].stage \in {"processing", "closing", "failed"} =>
                  /\ now.report = imports[u].report
                  /\ now.close_old = imports[u].close_old
           /\ imports[u].stage = "closing" => now.since = imports[u].since \cup fs
<1>1. CASE imports[u].stage /= "closing"
  BY <1>1 DEF Opened
<1>2. CASE imports[u].stage = "closing"
  <2>1. imports[u] \in Handling
    BY <1>2 DEF NoImport, Over
  <2>2. Opened(imports, fs)[u] = [imports[u] EXCEPT !.since = @ \cup fs]
    BY <1>2 DEF Opened
  <2>3. /\ [imports[u] EXCEPT !.since = @ \cup fs].stage = imports[u].stage
        /\ [imports[u] EXCEPT !.since = @ \cup fs].report = imports[u].report
        /\ [imports[u] EXCEPT !.since = @ \cup fs].close_old = imports[u].close_old
        /\ [imports[u] EXCEPT !.since = @ \cup fs].since = imports[u].since \cup fs
    BY <2>1 DEF Handling
  <2> QED BY <2>2, <2>3
<1> QED BY <1>1, <1>2

\* What any step keeps of the copies: new ones are of rows there are.  known: the hash codes
\* after it, of which some may have been None before.
LEMMA CopiesKeep ==
    ASSUME RowsOK, TestsFixed, NEW hash \in HashCodes, HashOf(hash), NEW known \in HashCodes,
           \A f \in Findings : known[f] = hash[f] \/ hash[f] = None,
           Findings \subseteq Findings',
           \A f \in Findings : finding'[f].test = finding[f].test,
           \A f \in Findings' : finding'[f].hash \in {None, known[f]},
           \A w \in Workers : \A t \in todo'[w] :
               \/ t \in todo[w]
               \/ t.id \in Findings /\ t.row = finding[t.id] /\ t.row.hash /= None,
           \A u \in Imports : Live(u)' =>
               /\ \A t \in import'[u].todo :
                      \/ Live(u) /\ t \in import[u].todo
                      \/ t.id \in Findings /\ t.row = finding[t.id]
               /\ \A c \in DOMAIN import'[u].half : import'[u].half[c] /= 0 =>
                      /\ known[import'[u].half[c]] = None
                      /\ \/ Live(u) /\ c \in DOMAIN import[u].half
                            /\ import[u].half[c] = import'[u].half[c]
                         \/ finding'[import'[u].half[c]].test = u,
           \A u \in Imports : import'[u].stage = "none" => test'[u] = None
    PROVE  HashOf(known)' /\ TestsFixed'
<1>1. /\ \A w \in Workers : \A t \in todo[w] : t.id \in Findings /\ t.row.hash /= None
      /\ \A u \in Imports : Live(u) =>
             /\ \A t \in import[u].todo : t.id \in Findings
             /\ \A c \in DOMAIN import[u].half : import[u].half[c] /= 0 =>
                    import[u].half[c] \in Findings
  BY DEF RowsOK, RowsSound, HalvesApart
<1>2. Findings \subseteq Ids
  BY DEF Findings
<1>3. \A w \in Workers : \A t \in todo'[w] :
          t.row.hash = known[t.id] /\ t.row.test = finding'[t.id].test
  BY <1>1, <1>2 DEF HashOf, TestsFixed
<1>4. \A u \in Imports : Live(u)' =>
          \A t \in import'[u].todo :
              t.row.hash \in {None, known[t.id]} /\ t.row.test = finding'[t.id].test
  BY <1>1, <1>2 DEF HashOf, TestsFixed
<1>5. \A u \in Imports : Live(u)' =>
          \A c \in DOMAIN import'[u].half : import'[u].half[c] /= 0 =>
              known[import'[u].half[c]] = None /\ finding'[import'[u].half[c]].test = u
  BY <1>1 DEF TestsFixed
<1>6. HashOf(known)'
  BY <1>3, <1>4, <1>5 DEF HashOf
<1> QED BY <1>3, <1>4, <1>5, <1>6 DEF TestsFixed

\* What any step of others leaves of an import.
LEMMA OthersKeep ==
    ASSUME NEW u \in Imports, NEW hash \in HashCodes, Reports(hash, u), Closings(hash, u),
           NEW known \in HashCodes,
           import'[u].stage = import[u].stage,
           import[u].stage \in {"processing", "closing"} =>
               /\ import'[u].items = import[u].items
               /\ import'[u].report = import[u].report
               /\ import'[u].close_old = import[u].close_old
               /\ import'[u].todo \subseteq import[u].todo,
           import[u].stage = "closing" =>
               /\ import[u].since \subseteq import'[u].since
               /\ \A t \in import[u].todo \ import'[u].todo : ~finding'[t.id].s.active
               /\ \A f \in Findings' : finding'[f].s.active =>
                      \/ f \in Findings /\ finding'[f] = finding[f]
                      \/ f \in import'[u].since,
           test'[u] = test[u],
           Findings \subseteq Findings',
           \A f \in Findings : finding'[f].test = finding[f].test /\ target(f)' = target(f),
           \A f \in Findings' \ Findings : finding'[f].test = u => known[f] = None,
           \A f \in Own(u) :
               /\ known[f] = hash[f]
               /\ f \in changed => f \in changed'
               /\ import[u].stage = "processing" => f \in changed' \/ finding'[f] = finding[f]
    PROVE  Reports(known, u)' /\ Closings(known, u)'
<1>1. Own(u) \subseteq Own(u)' /\ \A f \in Own(u)' \ Own(u) : known[f] = None
  BY DEF Own
<1>2. Reports(known, u)'
  <2> SUFFICES ASSUME import[u].stage = "processing"
               PROVE  Reports(known, u)'
    BY DEF Reports
  <2>1. \A item \in Range(import[u].report) :
            \/ \E c \in DOMAIN import[u].items : item \in Range(import[u].items[c])
            \/ \E f \in Own(u)' : known[f] = item.hash
    BY <1>1 DEF Reports
  <2>2. ASSUME NEW f \in Own(u)' \ changed', known[f] /= None
        PROVE  /\ finding'[f].hash = known[f]
               /\ \E item \in Range(import[u].report) :
                      item.hash = known[f] /\ finding'[f].s = created(item.status)
    <3>1. f \in Own(u) \ changed /\ finding'[f] = finding[f] /\ known[f] = hash[f]
      BY <1>1, <2>2
    <3> QED BY <2>2, <3>1 DEF Reports
  <2> QED BY <2>1, <2>2 DEF Reports
<1>3. Closings(known, u)'
  <2> SUFFICES ASSUME import[u].stage = "closing"
               PROVE  Closings(known, u)'
    BY DEF Closings
  <2>1. \A code : Touched(hash, u, code) => Touched(known, u, code)'
    BY <1>1 DEF Touched
  <2>2. \A code : (Lists(u, code)' <=> Lists(u, code)) /\ (ListsFixed(u, code)' <=> ListsFixed(u, code))
    BY DEF Lists, ListsFixed
  <2>3. \A t \in import'[u].todo :
            \/ t.row.hash = None
            \/ ~Lists(u, t.row.hash)' \/ ListsFixed(u, t.row.hash)'
            \/ Touched(known, u, t.row.hash)'
    BY <2>1, <2>2 DEF Closings
  <2>4. ASSUME NEW f \in Findings' \ (Own(u)' \cup import'[u].since), InScope(u, f)',
               finding'[f].s.active
        PROVE  \/ \E t \in import'[u].todo : t.id = f
               \/ /\ finding'[f].hash /= None
                  /\ \/ Lists(u, finding[f].hash)'
                     \/ Touched(known, u, finding[f].hash)'
    <3>1. f \in Findings \ (Own(u) \cup import[u].since) /\ finding'[f] = finding[f]
      BY <1>1, <2>4
    <3>2. InScope(u, f)
      BY <2>4, <3>1 DEF InScope
    <3>3. \A t \in import[u].todo : t.id = f => t \in import'[u].todo
      BY <2>4
    <3> QED BY <2>1, <2>2, <2>4, <3>1, <3>2, <3>3 DEF Closings
  <2> QED BY <2>3, <2>4 DEF Closings
<1> QED BY <1>2, <1>3

\* What every step that only saves findings, or copies them, keeps.
LEMMA SavesKeepImports ==
    ASSUME ImportInv, RowsOK', Findings' = Findings, UNCHANGED test,
           changed \subseteq changed',
           \A f \in Findings :
               /\ finding'[f].test = finding[f].test
               /\ \/ finding'[f] = finding[f]
                  \/ f \in changed'
                  \/ import[finding[f].test].stage /= "processing"
               /\ \A hash \in HashCodes : HashOf(hash) => finding'[f].hash \in {None, hash[f]},
           \A w \in Workers : \A t \in todo'[w] :
               \/ t \in todo[w]
               \/ t.id \in Findings /\ t.row = finding[t.id] /\ t.row.hash /= None,
           \A u \in Imports : import'[u].stage = import[u].stage,
           \A u \in Imports : Live(u) =>
               /\ import'[u].items = import[u].items
               /\ import'[u].half = import[u].half
               /\ import'[u].report = import[u].report
               /\ import'[u].close_old = import[u].close_old
               /\ import'[u].todo \subseteq import[u].todo,
           \A u \in Imports : import[u].stage = "closing" =>
               /\ import[u].since \subseteq import'[u].since
               /\ \A t \in import[u].todo \ import'[u].todo : ~finding'[t.id].s.active
               /\ \A f \in Findings : finding'[f].s.active =>
                      finding'[f] = finding[f] \/ f \in import'[u].since
    PROVE  ImportInv'
<1>1. PICK hash \in HashCodes : ImportsOK(hash)
  BY DEF ImportInv
<1>2. RowsOK /\ TestsFixed /\ HashOf(hash)
  BY <1>1 DEF ImportInv, ImportsOK
<1>3. \A u \in Imports : Live(u)' =>
          /\ Live(u) /\ import'[u].half = import[u].half /\ import'[u].todo \subseteq import[u].todo
          /\ \A c \in DOMAIN import[u].half : import[u].half[c] /= 0 =>
                 hash[import[u].half[c]] = None
  BY <1>2 DEF Live, HashOf
<1>4. \A u \in Imports : import'[u].stage = "none" => test'[u] = None
  BY <1>2 DEF TestsFixed
<1>5. HashOf(hash)' /\ TestsFixed'
  BY <1>2, <1>3, <1>4, CopiesKeep
<1>6. ASSUME NEW u \in Imports
      PROVE  Reports(hash, u)' /\ Closings(hash, u)'
  <2>1. Reports(hash, u) /\ Closings(hash, u)
    BY <1>1 DEF ImportsOK
  <2>2. import[u].stage \in {"processing", "closing"} => Live(u)
    BY DEF Live
  <2>3. \A f \in Findings : target(f)' = target(f)
    BY DEF target
  <2>4. \A f \in Own(u) : /\ f \in Findings /\ finding[f].test = u
    BY DEF Own
  <2> QED BY <2>1, <2>2, <2>3, <2>4, OthersKeep
<1> QED BY <1>5, <1>6 DEF ImportInv, ImportsOK

LEMMA PageKeepsImports ==
    ASSUME ImportInv, NEW D \in SUBSET Findings, NEW new \in [D -> Status],
           NEW tasks \in SUBSET Findings, NEW touched, Page(new, tasks, touched),
           crossed' \in BOOLEAN
    PROVE  ImportInv'
<1>1. RowsOK /\ TypeOK
  BY DEF ImportInv, RowsOK
<1> DEFINE opened == {f \in D : saved(finding[f].s, new[f], touched).active}
<1>2. /\ RowsOK' /\ Findings' = Findings
      /\ \A f \in Findings : /\ finding'[f].hash = finding[f].hash
                             /\ finding'[f].test = finding[f].test
      /\ \A f \in Findings \ D : finding'[f] = finding[f]
      /\ \A f \in D : finding'[f].s = saved(finding[f].s, new[f], touched)
  BY <1>1, PageKeepsRows
<1>3. /\ UNCHANGED <<test, todo>> /\ import' = Opened(import, opened)
      /\ changed' = changed \cup {f \in D : import[finding[f].test].stage \in {"processing", "closing"}}
  BY DEF Page, Change
<1>4. opened \in SUBSET Ids /\ import \in [Imports -> {NoImport, Over} \cup Handling]
  BY <1>1 DEF TypeOK, Findings
<1>5. \A f \in D : finding'[f].s.active => f \in opened
  BY <1>2
<1> HIDE DEF opened
<1>6. \A u \in Imports :
          /\ import'[u].stage = import[u].stage
          /\ Live(u) =>
                 /\ import'[u].items = import[u].items
                 /\ import'[u].half = import[u].half
                 /\ import'[u].report = import[u].report
                 /\ import'[u].close_old = import[u].close_old
                 /\ import'[u].todo = import[u].todo
          /\ import[u].stage = "closing" => import'[u].since = import[u].since \cup opened
  <2> SUFFICES ASSUME NEW u \in Imports
               PROVE  /\ import'[u].stage = import[u].stage
                      /\ Live(u) =>
                             /\ import'[u].items = import[u].items
                             /\ import'[u].half = import[u].half
                             /\ import'[u].report = import[u].report
                             /\ import'[u].close_old = import[u].close_old
                             /\ import'[u].todo = import[u].todo
                      /\ import[u].stage = "closing" =>
                             import'[u].since = import[u].since \cup opened
    OBVIOUS
  <2>1. Live(u) => import[u].stage \in {"processing", "closing", "failed"}
    BY <1>1, LiveTyped DEF Handling
  <2> QED BY <2>1, <1>3, <1>4, OpenedKeeps, OpenedNotes
<1>7. \A hash \in HashCodes : HashOf(hash) => \A f \in Findings : finding'[f].hash \in {None, hash[f]}
  BY <1>2 DEF HashOf
<1>8. /\ changed \subseteq changed'
      /\ \A f \in Findings : \/ finding'[f] = finding[f]
                             \/ f \in changed'
                             \/ import[finding[f].test].stage /= "processing"
  BY <1>2, <1>3
<1>9. \A f \in Findings : finding'[f].s.active => finding'[f] = finding[f] \/ f \in opened
  BY <1>2, <1>5
<1>10. \A u \in Imports : import[u].stage = "closing" =>
           /\ import[u].since \subseteq import'[u].since
           /\ \A t \in import[u].todo \ import'[u].todo : ~finding'[t.id].s.active
           /\ \A f \in Findings : finding'[f].s.active =>
                  finding'[f] = finding[f] \/ f \in import'[u].since
  BY <1>6, <1>9 DEF Live
<1> QED BY <1>2, <1>3, <1>6, <1>7, <1>8, <1>10, SavesKeepImports

LEMMA MarkKeepsImports ==
    ASSUME ImportInv, NEW w \in Workers, NEW t \in todo[w], mark_as_fp(w, t), crossed' \in BOOLEAN
    PROVE  ImportInv'
<1>1. RowsOK /\ TestsFixed
  BY DEF ImportInv
<1>2. /\ RowsOK' /\ Findings' = Findings /\ t.id \in Findings
      /\ ~finding'[t.id].s.active
      /\ finding'[t.id].hash = t.row.hash /\ finding'[t.id].test = t.row.test
      /\ \A f \in Findings \ {t.id} : finding'[f] = finding[f]
      /\ \A v \in Workers : todo'[v] \subseteq todo[v]
  BY <1>1, MarkKeepsRows
<1>3. t.row.test = finding[t.id].test
  BY <1>1 DEF TestsFixed
<1>4. \A hash \in HashCodes : HashOf(hash) => \A f \in Findings : finding'[f].hash \in {None, hash[f]}
  BY <1>2 DEF HashOf
<1>5. /\ UNCHANGED <<test, import>>
      /\ changed' = changed \cup {f \in {t.id} : import[finding[f].test].stage \in {"processing", "closing"}}
  BY DEF mark_as_fp, Change
<1> QED BY <1>2, <1>3, <1>4, <1>5, SavesKeepImports

LEMMA CloseKeepsImports ==
    ASSUME ImportInv, NEW u \in Imports, NEW t \in import[u].todo, close_old_finding(u, t),
           UNCHANGED todo, crossed' \in BOOLEAN
    PROVE  ImportInv'
<1>1. RowsOK /\ TestsFixed /\ TypeOK /\ Live(u) /\ import[u] \in Handling
  BY LiveTyped DEF ImportInv, RowsOK, close_old_finding
<1>2. /\ RowsOK' /\ Findings' = Findings /\ t.id \in Findings
      /\ ~finding'[t.id].s.active
      /\ finding'[t.id].hash = t.row.hash /\ finding'[t.id].test = t.row.test
      /\ \A f \in Findings \ {t.id} : finding'[f] = finding[f]
  BY <1>1, CloseKeepsRows
<1>3. t.row.test = finding[t.id].test
  BY <1>1 DEF TestsFixed
<1>4. \A hash \in HashCodes : HashOf(hash) => \A f \in Findings : finding'[f].hash \in {None, hash[f]}
  BY <1>1, <1>2 DEF HashOf
<1>5. /\ UNCHANGED <<test, todo>>
      /\ changed' = changed \cup {f \in {t.id} : import[finding[f].test].stage \in {"processing", "closing"}}
      /\ import' = [import EXCEPT ![u] = [import[u] EXCEPT !.todo = import[u].todo \ {t}]]
  BY <1>1 DEF close_old_finding, Change, TypeOK
<1> DEFINE now == [import[u] EXCEPT !.todo = import[u].todo \ {t}]
<1>6. /\ now.stage = import[u].stage /\ now.items = import[u].items /\ now.half = import[u].half
      /\ now.report = import[u].report /\ now.close_old = import[u].close_old
      /\ now.since = import[u].since /\ now.todo = import[u].todo \ {t}
  BY <1>1 DEF Handling
<1>7. import'[u] = now /\ \A v \in Imports \ {u} : import'[v] = import[v]
  BY <1>1, <1>5 DEF TypeOK
<1> HIDE DEF now
<1>8. \A v \in Imports :
          /\ import'[v].stage = import[v].stage /\ import'[v].items = import[v].items
          /\ import'[v].half = import[v].half /\ import'[v].report = import[v].report
          /\ import'[v].close_old = import[v].close_old /\ import'[v].since = import[v].since
          /\ import'[v].todo \subseteq import[v].todo
          /\ \A s \in import[v].todo \ import'[v].todo : s = t
  BY <1>6, <1>7
<1> QED BY <1>2, <1>3, <1>4, <1>5, <1>8, SavesKeepImports

LEMMA PageOfOneKeepsImports ==
    ASSUME ImportInv, NEW f \in Findings, NEW s \in Status, NEW touched,
           Page(One(f, s), {f}, touched), crossed' \in BOOLEAN
    PROVE  ImportInv'
<1> DEFINE new == One(f, s)
<1>1. {f} \in SUBSET Findings /\ new \in [{f} -> Status]
  BY DEF One
<1> HIDE DEF new
<1>2. Page(new, {f}, touched)
  BY DEF new
<1> QED BY <1>1, <1>2, PageKeepsImports

LEMMA BulkEditKeepsImports ==
    ASSUME ImportInv, NEW f \in Findings, NEW b \in BulkStatus, bulk_edit(f, b),
           crossed' \in BOOLEAN
    PROVE  ImportInv'
<1>0. b.active \in BOOLEAN /\ b.false_p \in BOOLEAN /\ b.is_mitigated \in BOOLEAN
  <2>1. CASE b = [active |-> TRUE, false_p |-> FALSE, is_mitigated |-> FALSE]
    BY <2>1
  <2>2. CASE b = [active |-> FALSE, false_p |-> FALSE, is_mitigated |-> TRUE]
    BY <2>2
  <2>3. CASE b = [active |-> FALSE, false_p |-> TRUE, is_mitigated |-> TRUE]
    BY <2>3
  <2> QED BY <2>1, <2>2, <2>3 DEF BulkStatus
<1> DEFINE form == [finding[f].s EXCEPT !.active = b.active, !.false_p = b.false_p,
                                        !.is_mitigated = b.is_mitigated, !.verified = FALSE]
           now == saved(finding[f].s, form, {})
           equal == IF Retroactive /\ finding[f].s.false_p /\ ~now.false_p
                    THEN {g \in match_finding_to_existing_findings(f) : finding[g].s.false_p}
                    ELSE {}
           status(g) == IF g = f THEN form
                        ELSE [finding[g].s EXCEPT !.active = now.active, !.verified = now.verified,
                                  !.false_p = FALSE, !.out_of_scope = now.out_of_scope,
                                  !.is_mitigated = now.is_mitigated]
           new == [g \in {f} \cup equal |-> status(g)]
           tasks == IF now.false_p THEN {f} ELSE {}
<1>1. \A g \in Findings : Sound(finding[g].s)
  BY DEF ImportInv, RowsOK, RowsSound, Saved
<1>2. Page(new, tasks, {})
  BY DEF bulk_edit
<1>3. form \in Status
  BY <1>0, <1>1 DEF Sound, Status
<1> HIDE DEF form
<1>4. Sound(now)
  BY <1>1, <1>3, SaveSound
<1> HIDE DEF now
<1>5. equal \subseteq Findings
  BY DEF match_finding_to_existing_findings
<1> HIDE DEF equal
<1>6. \A g \in {f} \cup equal : status(g) \in Status
  BY <1>1, <1>3, <1>4, <1>5 DEF Sound, Status
<1> HIDE DEF status
<1> DEFINE D == {f} \cup equal
<1>7. D \in SUBSET Findings /\ new \in [D -> Status] /\ tasks \in SUBSET Findings
  BY <1>5, <1>6
<1> HIDE DEF new, D, tasks
<1> QED BY <1>2, <1>7, PageKeepsImports

LEMMA PagesKeepImports ==
    ASSUME ImportInv, NEW f \in Findings, crossed' \in BOOLEAN,
           \/ \E fp \in BOOLEAN : close_finding(f, fp)
           \/ reopen_finding(f)
           \/ edit_finding(f)
           \/ \E b \in BulkStatus : bulk_edit(f, b)
    PROVE  ImportInv'
<1>1. finding[f].s \in Status
  BY DEF ImportInv, RowsOK, RowsSound, Saved, Sound
<1>2. ASSUME NEW fp \in BOOLEAN, close_finding(f, fp) PROVE ImportInv'
  <2> DEFINE s == [finding[f].s EXCEPT !.active = FALSE, !.mitigated = TRUE,
                                       !.is_mitigated = TRUE, !.false_p = fp]
  <2>1. s \in Status /\ Page(One(f, s), {f}, {"mitigated", "mitigated_by"})
    BY <1>1, <1>2 DEF Status, close_finding
  <2> HIDE DEF s
  <2> QED BY <2>1, PageOfOneKeepsImports
<1>3. CASE reopen_finding(f)
  <2> DEFINE s == [finding[f].s EXCEPT !.active = TRUE, !.mitigated = FALSE,
                                       !.is_mitigated = FALSE]
  <2>1. s \in Status /\ Page(One(f, s), {f}, {"mitigated_by"})
    BY <1>1, <1>3 DEF Status, reopen_finding
  <2> HIDE DEF s
  <2> QED BY <2>1, PageOfOneKeepsImports
<1>4. CASE edit_finding(f)
  <2> DEFINE s == [finding[f].s EXCEPT !.active = TRUE, !.false_p = FALSE]
  <2>1. s \in Status /\ Page(One(f, s), {f}, {})
    BY <1>1, <1>4 DEF Status, edit_finding
  <2> HIDE DEF s
  <2> QED BY <2>1, PageOfOneKeepsImports
<1>5. ASSUME NEW b \in BulkStatus, bulk_edit(f, b) PROVE ImportInv'
  BY <1>5, BulkEditKeepsImports
<1> QED BY <1>2, <1>3, <1>4, <1>5

\* A task copies findings that have their hash code.
LEMMA TaskKeepsImports ==
    ASSUME ImportInv, ByHashCode, NEW w \in Workers, NEW f \in queue,
           do_false_positive_history(w, f), crossed' \in BOOLEAN
    PROVE  ImportInv'
<1>1. RowsOK
  BY DEF ImportInv
<1>2. /\ RowsOK' /\ f \in Findings
      /\ \A v \in Workers \ {w} : todo'[v] = todo[v]
      /\ todo'[w] = {Copy(g) : g \in Marked(f)}
  BY <1>1, TaskKeepsRows
<1>3. \A g \in Marked(f) : g \in Findings /\ finding[g].hash /= None
  BY <1>1, <1>2, MarkedFindings
<1>4. \A t \in todo'[w] : t.id \in Findings /\ t.row = finding[t.id] /\ t.row.hash /= None
  BY <1>2, <1>3 DEF Copy
<1>5. UNCHANGED <<finding, test, import, changed>> /\ Findings' = Findings
  BY DEF do_false_positive_history, Findings
<1>6. \A hash \in HashCodes : HashOf(hash) => \A g \in Findings : finding'[g].hash \in {None, hash[g]}
  BY <1>5 DEF HashOf
<1> QED BY <1>2, <1>4, <1>5, <1>6, SavesKeepImports

LEMMA Quotient ==
    ASSUME NEW a \in Nat, NEW d \in Nat \ {0}
    PROVE  /\ a \div d \in Nat
           /\ (a \div d) * d <= a
           /\ a < (a \div d) * d + d
BY SMT

LEMMA Product ==
    ASSUME NEW a \in Nat, NEW b \in Nat, NEW d \in Nat, a <= b
    PROVE  a * d <= b * d
BY SMT

\* Every item of the report is in a chunk, and nothing else is.
LEMMA ChunksCover ==
    ASSUME NEW report \in Seq(Item)
    PROVE  /\ \A c \in DOMAIN Chunks(report) : Range(Chunks(report)[c]) \subseteq Range(report)
           /\ \A item \in Range(report) :
                  \E c \in DOMAIN Chunks(report) : item \in Range(Chunks(report)[c])
<1>1. CASE ChunkSize = None
  <2>1. Chunks(report) = <<report>>
    BY <1>1 DEF Chunks
  <2> QED BY <2>1
<1>2. CASE ChunkSize /= None
  <2> DEFINE size == ChunkSize
             n == (Len(report) + size - 1) \div size
             End(i) == IF i * size > Len(report) THEN Len(report) ELSE i * size
             part(i) == SubSeq(report, (i - 1) * size + 1, End(i))
  <2>1. size \in Nat \ {0} /\ Len(report) \in Nat /\ Len(report) + size - 1 \in Nat
    BY <1>2, ImportAssumption
  <2>2. n \in Nat /\ Len(report) + size - 1 < n * size + size
    BY <2>1, Quotient
  <2>3. Chunks(report) = [i \in 1..n |-> part(i)]
    BY <1>2 DEF Chunks
  <2> HIDE DEF n
  <2>4. ASSUME NEW i \in 1..n
        PROVE  /\ part(i) \in Seq(Item)
               /\ \A j \in 1..Len(part(i)) : part(i)[j] \in Range(report)
               /\ \A k \in (i - 1) * size + 1 .. End(i) : report[k] \in Range(part(i))
    <3>1. /\ (i - 1) * size + 1 \in Nat \ {0}
          /\ End(i) \in Int /\ End(i) <= Len(report)
      BY <2>1, <2>2, SMT
    <3>2. \A j \in (i - 1) * size + 1 .. End(i) : report[j] \in Item /\ report[j] \in Range(report)
      BY <3>1, <2>1, ElementOfSeq DEF Range
    <3> DEFINE a == (i - 1) * size + 1
               b == End(i)
    <3>3. a \in Nat \ {0} /\ b \in Int /\ b <= Len(report) /\ part(i) = SubSeq(report, a, b)
      BY <3>1
    <3> HIDE DEF a, b, part
    <3>4. /\ part(i) \in Seq(Item)
          /\ Len(part(i)) = IF a <= b THEN b - a + 1 ELSE 0
          /\ \A j \in 1..b - a + 1 : part(i)[j] = report[a + j - 1]
      BY <3>2, <3>3, SubSeqProperties DEF a, b
    <3>5. \A j \in 1..Len(part(i)) : part(i)[j] \in Range(report)
      <4> SUFFICES ASSUME NEW j \in 1..Len(part(i)) PROVE part(i)[j] \in Range(report)
        OBVIOUS
      <4>1. a + j - 1 \in a..b /\ part(i)[j] = report[a + j - 1]
        BY <3>3, <3>4
      <4> QED BY <3>2, <4>1 DEF a, b
    <3>6. \A k \in a..b : report[k] \in Range(part(i))
      <4> SUFFICES ASSUME NEW k \in a..b PROVE report[k] \in Range(part(i))
        OBVIOUS
      <4>1. k - a + 1 \in 1..Len(part(i)) /\ a + (k - a + 1) - 1 = k
        BY <3>3, <3>4
      <4>2. part(i)[k - a + 1] = report[k]
        BY <3>3, <3>4, <4>1
      <4> QED BY <3>4, <4>1, <4>2 DEF Range
    <3> QED BY <3>4, <3>5, <3>6 DEF a, b
  <2>5. ASSUME NEW k \in 1..Len(report)
        PROVE  \E i \in 1..n : k \in (i - 1) * size + 1 .. End(i)
    <3> DEFINE q == (k - 1) \div size
    <3>1. q \in Nat /\ q * size <= k - 1 /\ k - 1 < q * size + size
      BY <2>1, Quotient
    <3> HIDE DEF q
    <3>2. q < n
      <4> SUFFICES ASSUME n <= q PROVE FALSE
        BY <2>2, <3>1
      <4>1. n * size <= q * size
        BY <2>1, <2>2, <3>1, Product
      <4>2. n * size \in Nat /\ q * size \in Nat
        BY <2>1, <2>2, <3>1
      <4> QED BY <2>1, <2>2, <3>1, <4>1, <4>2
    <3>3. q + 1 \in 1..n /\ ((q + 1) - 1) * size = q * size /\ (q + 1) * size = q * size + size
          /\ q * size \in Nat
      BY <2>1, <2>2, <3>1, <3>2
    <3> DEFINE i == q + 1
    <3>4. i \in 1..n
      BY <3>3
    <3>5. k \in (i - 1) * size + 1 .. End(i)
      BY <2>1, <3>1, <3>3
    <3> HIDE DEF i, End
    <3> QED BY <3>4, <3>5
  <2> HIDE DEF part, End
  <2>6. \A i \in 1..n : Range(part(i)) \subseteq Range(report)
    BY <2>4 DEF Range
  <2>7. \A item \in Range(report) : \E i \in 1..n : item \in Range(part(i))
    <3> SUFFICES ASSUME NEW k \in 1..Len(report) PROVE \E i \in 1..n : report[k] \in Range(part(i))
      BY DEF Range
    <3> QED BY <2>4, <2>5
  <2> QED BY <2>3, <2>6, <2>7
<1> QED BY <1>1, <1>2

\* What an import keeps when one of them goes on and saves nothing.
LEMMA AloneKeeps ==
    ASSUME RowsOK, TestsFixed, RowsOK', NEW hash \in HashCodes, ImportsOK(hash),
           NEW u \in Imports, NEW now, import' = [import EXCEPT ![u] = now], now.stage /= "none",
           UNCHANGED <<finding, todo>>, changed \ Own(u) \subseteq changed',
           \A v \in Imports \ {u} : test'[v] = test[v],
           test[u] = None \/ test'[u] = test[u],
           now.stage /= "over" =>
               /\ \A t \in now.todo :
                      \/ Live(u) /\ t \in import[u].todo
                      \/ t.id \in Findings /\ t.row = finding[t.id]
               /\ \A c \in DOMAIN now.half : now.half[c] /= 0 =>
                      Live(u) /\ c \in DOMAIN import[u].half /\ import[u].half[c] = now.half[c],
           Reports(hash, u)', Closings(hash, u)'
    PROVE  ImportInv'
<1>1. TypeOK /\ HashOf(hash) /\ Findings' = Findings
  BY DEF RowsOK, ImportsOK, Findings
<1>2. import'[u] = now /\ \A v \in Imports \ {u} : import'[v] = import[v]
  BY <1>1 DEF TypeOK
<1>3. \A f \in Findings : test[finding[f].test] \in Targets
  BY DEF RowsOK, RowsSound, Saved
<1>4. \A f \in Findings : target(f)' = target(f)
  <2> SUFFICES ASSUME NEW f \in Findings PROVE test'[finding[f].test] = test[finding[f].test]
    BY DEF target
  <2>1. finding[f].test \in Imports
    BY <1>1, FindingTyped DEF Row
  <2>2. test[finding[f].test] /= None
    BY <1>3, ImportAssumption
  <2> QED BY <2>1, <2>2
<1>5. \A v \in Imports : Live(v) =>
          \A c \in DOMAIN import[v].half : import[v].half[c] /= 0 => hash[import[v].half[c]] = None
  BY <1>1 DEF HashOf
<1>6. \A v \in Imports : Live(v)' =>
          /\ \A t \in import'[v].todo :
                 \/ Live(v) /\ t \in import[v].todo
                 \/ t.id \in Findings /\ t.row = finding[t.id]
          /\ \A c \in DOMAIN import'[v].half : import'[v].half[c] /= 0 =>
                 /\ hash[import'[v].half[c]] = None
                 /\ Live(v) /\ c \in DOMAIN import[v].half
                 /\ import[v].half[c] = import'[v].half[c]
  BY <1>2, <1>5 DEF Live
<1>7. \A v \in Imports : import'[v].stage = "none" => test'[v] = None
  BY <1>2 DEF TestsFixed
<1>8. \A f \in Findings : finding[f].hash \in {None, hash[f]}
  BY <1>1 DEF HashOf
<1>9. HashOf(hash)' /\ TestsFixed'
  BY <1>1, <1>6, <1>7, <1>8, CopiesKeep
<1>10. ASSUME NEW v \in Imports \ {u}
       PROVE  Reports(hash, v)' /\ Closings(hash, v)'
  <2>1. Reports(hash, v) /\ Closings(hash, v)
    BY DEF ImportsOK
  <2>2. \A f \in Own(v) : f \in changed => f \in changed'
    BY DEF Own
  <2>3. import'[v] = import[v] /\ test'[v] = test[v]
    BY <1>2
  <2> QED BY <1>1, <1>4, <2>1, <2>2, <2>3, OthersKeep
<1> QED BY <1>9, <1>10 DEF ImportInv, ImportsOK

LEMMA ScanKeepsImports ==
    ASSUME ImportInv, NEW u \in Imports, import_scan(u), UNCHANGED todo, crossed' \in BOOLEAN
    PROVE  ImportInv'
<1>1. PICK hash \in HashCodes : ImportsOK(hash)
  BY DEF ImportInv
<1>2. RowsOK /\ TestsFixed /\ TypeOK /\ RowsOK'
  BY ScanKeepsRows DEF ImportInv, RowsOK
<1>3. PICK r \in Requests :
          /\ test' = [test EXCEPT ![u] = r.to]
          /\ import' = [import EXCEPT ![u] =
                 [stage |-> "processing", report |-> r.report, close_old |-> r.close_old,
                  items |-> Chunks(r.report), half |-> [c \in DOMAIN Chunks(r.report) |-> 0],
                  todo |-> {}, since |-> {}]]
  BY DEF import_scan
<1> DEFINE chunks == Chunks(r.report)
           now == [stage |-> "processing", report |-> r.report, close_old |-> r.close_old,
                   items |-> chunks, half |-> [c \in DOMAIN chunks |-> 0],
                   todo |-> {}, since |-> {}]
<1>4. /\ \A c \in DOMAIN chunks : Range(chunks[c]) \subseteq Range(r.report)
      /\ \A item \in Range(r.report) : \E c \in DOMAIN chunks : item \in Range(chunks[c])
  BY RequestsAssumption, ChunksCover
<1> HIDE DEF chunks
<1>5. /\ now.stage = "processing" /\ now.report = r.report /\ now.items = chunks /\ now.todo = {}
      /\ \A c \in DOMAIN now.half : now.half[c] = 0
  OBVIOUS
<1>6. import' = [import EXCEPT ![u] = now]
  BY <1>3 DEF chunks
<1> HIDE DEF now
<1>7. import'[u] = now
  BY <1>2, <1>6 DEF TypeOK
<1>8. test[u] = None /\ \A v \in Imports \ {u} : test'[v] = test[v]
  BY <1>2, <1>3 DEF import_scan, TestsFixed, TypeOK
<1>9. Own(u)' = {}
  <2>1. \A f \in Findings : finding[f].test /= u
    BY <1>2, <1>8, ImportAssumption DEF RowsOK, RowsSound, Saved
  <2> QED BY <2>1 DEF Own, Findings, import_scan
<1>10. Reports(hash, u)' /\ Closings(hash, u)'
  BY <1>4, <1>5, <1>7, <1>9 DEF Reports, Closings
<1> QED BY <1>1, <1>2, <1>5, <1>6, <1>8, <1>10, AloneKeeps DEF import_scan

LEMMA EndKeepsImports ==
    ASSUME ImportInv, NEW u \in Imports, Live(u), Finish(u) \/ Fail(u), UNCHANGED todo,
           crossed' \in BOOLEAN
    PROVE  ImportInv'
<1>1. PICK hash \in HashCodes : ImportsOK(hash)
  BY DEF ImportInv
<1>2. RowsOK /\ TestsFixed /\ TypeOK /\ RowsOK' /\ import[u] \in Handling
  BY EndKeepsRows, LiveTyped DEF ImportInv, RowsOK
<1>3. UNCHANGED <<finding, test>> /\ changed \ Own(u) \subseteq changed'
  BY DEF Finish, Fail
<1> DEFINE failed == [import[u] EXCEPT !.stage = "failed", !.report = <<>>, !.close_old = None]
<1>4. /\ failed.stage = "failed" /\ failed.half = import[u].half
      /\ failed.todo = import[u].todo
  BY <1>2 DEF Handling
<1>5. PICK now \in {Over, failed} : import' = [import EXCEPT ![u] = now]
  BY <1>2 DEF Finish, Fail, TypeOK
<1> HIDE DEF failed
<1>6. /\ now.stage \in {"over", "failed"}
      /\ now.stage /= "over" => now.half = import[u].half /\ now.todo = import[u].todo
  BY <1>4, <1>5 DEF Over
<1>7. import'[u] = now
  BY <1>2, <1>5 DEF TypeOK
<1>8. Reports(hash, u)' /\ Closings(hash, u)'
  BY <1>6, <1>7 DEF Reports, Closings
<1> QED BY <1>1, <1>2, <1>3, <1>5, <1>6, <1>8, AloneKeeps

\* What is on the list of the new test is in the report, but for what others have changed: a
\* finding of it that nobody has changed is what its item makes it.
LEMMA ListIsReport ==
    ASSUME RowsOK, NEW hash \in HashCodes, HashOf(hash), NEW u \in Imports, Reports(hash, u), Ready(u),
           NEW own \in SetToSeqs(Own(u)), NEW h, h /= None, ~Touched(hash, u, h)
    PROVE  /\ Lists(u, h) /\ ~ListsFixed(u, h) => Contains(new_hash_codes(own), h)
           /\ ~Lists(u, h) => ~Contains(new_hash_codes(own), h)
<1>1. own \in Seq(Own(u)) /\ Range(own) = Own(u)
  BY OwnFinite, ListsAll
<1>2. own \in Seq(Findings) /\ \A f \in Findings : finding[f].hash \in Hashes \cup {None}
  BY <1>1, FindingTyped DEF Own, Row, RowsOK
<1> DEFINE codes == new_hash_codes(own)
<1>3. /\ codes \in Seq(Hashes \cup {None})
      /\ (\A f \in Own(u) : finding[f].hash = h => finding[f].s.is_mitigated) => h \notin Range(codes)
      /\ /\ \A f \in Own(u) : finding[f].hash = h => ~finding[f].s.is_mitigated
         /\ \E f \in Own(u) : finding[f].hash = h
         => h \in Range(codes)
  BY <1>1, <1>2, NewHashCodes
<1> HIDE DEF codes
<1>4. Contains(codes, h) <=> h \in Range(codes)
  BY <1>3 DEF Contains, Range
<1>5. \A f \in Own(u) : hash[f] = h =>
          /\ finding[f].hash = h
          /\ \E item \in Range(import[u].report) :
                 item.hash = h /\ finding[f].s = created(item.status)
  BY DEF Touched, Reports, Ready
<1>6. \A f \in Own(u) : finding[f].hash = h => hash[f] = h
  BY DEF HashOf, Own
<1>7. \A item \in Range(import[u].report) : \E f \in Own(u) : hash[f] = item.hash
  BY DEF Ready, Reports, Range
<1>8. /\ Lists(u, h) => \E item \in Range(import[u].report) : item.hash = h
      /\ ~Lists(u, h) => \A item \in Range(import[u].report) :
             item.hash = h => created(item.status).is_mitigated
      /\ ~ListsFixed(u, h) => \A item \in Range(import[u].report) :
             item.hash = h => ~created(item.status).is_mitigated
  BY DEF Lists, ListsFixed, Range
<1>9. ASSUME Lists(u, h), ~ListsFixed(u, h) PROVE h \in Range(codes)
  <2>1. \A f \in Own(u) : finding[f].hash = h => ~finding[f].s.is_mitigated
    BY <1>5, <1>6, <1>8, <1>9
  <2>2. \E f \in Own(u) : finding[f].hash = h
    BY <1>5, <1>7, <1>8, <1>9
  <2> QED BY <1>3, <2>1, <2>2
<1>10. ASSUME ~Lists(u, h) PROVE h \notin Range(codes)
  <2>1. \A f \in Own(u) : finding[f].hash = h => finding[f].s.is_mitigated
    BY <1>5, <1>6, <1>8, <1>10
  <2> QED BY <1>3, <2>1
<1> QED BY <1>4, <1>9, <1>10 DEF codes

LEMMA CloseOldKeepsImports ==
    ASSUME ImportInv, NEW u \in Imports, close_old_findings(u), UNCHANGED todo, crossed' \in BOOLEAN
    PROVE  ImportInv'
<1>1. PICK hash \in HashCodes : ImportsOK(hash)
  BY DEF ImportInv
<1>2. /\ RowsOK /\ TestsFixed /\ TypeOK /\ RowsOK' /\ Live(u) /\ import[u] \in Handling
      /\ HashOf(hash) /\ Reports(hash, u) /\ Ready(u)
  BY <1>1, CloseOldKeepsRows, LiveTyped DEF ImportInv, RowsOK, ImportsOK, close_old_findings, Ready
<1>3. PICK own \in SetToSeqs(Own(u)) :
          import' = [import EXCEPT ![u].stage = "closing", ![u].since = {},
              ![u].todo = {[id |-> f, row |-> finding[f]] : f \in Old(u, new_hash_codes(own))}]
  BY DEF close_old_findings
<1> DEFINE codes == new_hash_codes(own)
           old == Old(u, codes)
           copies == {[id |-> f, row |-> finding[f]] : f \in old}
           now == [import[u] EXCEPT !.stage = "closing", !.since = {}, !.todo = copies]
<1>4. \A h : h /= None /\ ~Touched(hash, u, h) =>
          /\ Lists(u, h) /\ ~ListsFixed(u, h) => Contains(codes, h)
          /\ ~Lists(u, h) => ~Contains(codes, h)
  BY <1>2, ListIsReport
<1> HIDE DEF codes
<1>5. /\ \A f \in old : f \in Findings /\ (finding[f].hash = None \/ ~Contains(codes, finding[f].hash))
      /\ \A f \in Findings \ Own(u) : InScope(u, f) /\ finding[f].s.active =>
             \/ f \in old
             \/ finding[f].hash /= None /\ Contains(codes, finding[f].hash)
  BY DEF Old, InScope
<1> HIDE DEF old
<1>6. /\ \A t \in copies : t.id \in Findings /\ t.row = finding[t.id] /\ t.id \in old
      /\ \A f \in old : \E t \in copies : t.id = f
  <2>1. ASSUME NEW t \in copies
        PROVE  t.id \in Findings /\ t.row = finding[t.id] /\ t.id \in old
    <3>1. PICK f \in old : t = [id |-> f, row |-> finding[f]]
      OBVIOUS
    <3>2. t.id = f /\ t.row = finding[f]
      BY <3>1
    <3> QED BY <3>2, <1>5
  <2>2. ASSUME NEW f \in old
        PROVE  \E t \in copies : t.id = f
    <3>1. [id |-> f, row |-> finding[f]] \in copies /\ [id |-> f, row |-> finding[f]].id = f
      OBVIOUS
    <3> HIDE DEF copies
    <3> QED BY <3>1
  <2> QED BY <2>1, <2>2
<1>7. import' = [import EXCEPT ![u] = now]
  BY <1>2, <1>3 DEF old, codes, TypeOK
<1> HIDE DEF copies
<1>8. /\ now.stage = "closing" /\ now.half = import[u].half /\ now.items = import[u].items
      /\ now.report = import[u].report /\ now.close_old = import[u].close_old
      /\ now.todo = copies /\ now.since = {}
  BY <1>2 DEF Handling
<1> HIDE DEF now
<1>9. import'[u] = now
  BY <1>2, <1>7 DEF TypeOK
<1>10. UNCHANGED <<finding, test, changed>> /\ Findings' = Findings /\ Own(u)' = Own(u)
  BY DEF close_old_findings, Findings, Own
<1>11. Reports(hash, u)'
  BY <1>8, <1>9 DEF Reports
<1>12. Closings(hash, u)'
  <2>1. \A h : /\ Lists(u, h)' <=> Lists(u, h)
               /\ ListsFixed(u, h)' <=> ListsFixed(u, h)
               /\ Touched(hash, u, h)' <=> Touched(hash, u, h)
    BY <1>8, <1>9, <1>10 DEF Lists, ListsFixed, Touched
  <2>2. \A t \in copies : \/ t.row.hash = None
                          \/ ~Lists(u, t.row.hash) \/ ListsFixed(u, t.row.hash)
                          \/ Touched(hash, u, t.row.hash)
    BY <1>4, <1>5, <1>6
  <2>3. ASSUME NEW f \in Findings \ Own(u), InScope(u, f)', finding[f].s.active
        PROVE  \/ \E t \in copies : t.id = f
               \/ /\ finding[f].hash /= None
                  /\ Lists(u, finding[f].hash) \/ Touched(hash, u, finding[f].hash)
    <3>1. InScope(u, f)
      BY <2>3, <1>8, <1>9, <1>10 DEF InScope, target
    <3> QED BY <2>3, <3>1, <1>4, <1>5, <1>6
  <2> QED BY <2>1, <2>2, <2>3, <1>8, <1>9, <1>10 DEF Closings
<1> QED BY <1>1, <1>2, <1>6, <1>7, <1>8, <1>10, <1>11, <1>12, AloneKeeps DEF close_old_findings

\* What an import does to the others when it saves f, a finding of its own.
OthersNote(u, f) ==
    \A v \in Imports \ {u} :
        /\ import'[v].stage = import[v].stage
        /\ Live(v) =>
               /\ import'[v].items = import[v].items
               /\ import'[v].half = import[v].half
               /\ import'[v].report = import[v].report
               /\ import'[v].close_old = import[v].close_old
               /\ import'[v].todo = import[v].todo
        /\ import[v].stage = "closing" => import'[v].since = import[v].since \cup {f}

LEMMA ChunkStep ==
    ASSUME RowsOK, NEW u \in Imports, Running(u), NEW now, now.stage = import[u].stage,
           NEW f \in Ids, import' = Opened([import EXCEPT ![u] = now], {f})
    PROVE  import'[u] = now /\ OthersNote(u, f)
<1> DEFINE base == [import EXCEPT ![u] = now]
<1>1. import \in [Imports -> {NoImport, Over} \cup Handling] /\ {f} \in SUBSET Ids
  BY DEF RowsOK, TypeOK
<1>2. base[u] = now /\ \A v \in Imports \ {u} : base[v] = import[v]
  BY <1>1
<1>3. import' = Opened(base, {f})
  OBVIOUS
<1> HIDE DEF base
<1>4. import'[u] = now
  BY <1>2, <1>3 DEF Opened, Running
<1>5. ASSUME NEW v \in Imports \ {u} PROVE import'[v] = Opened(import, {f})[v]
  BY <1>2, <1>3 DEF Opened
<1>6. ASSUME NEW v \in Imports \ {u}
      PROVE  /\ import'[v].stage = import[v].stage
             /\ Live(v) =>
                    /\ import'[v].items = import[v].items
                    /\ import'[v].half = import[v].half
                    /\ import'[v].report = import[v].report
                    /\ import'[v].close_old = import[v].close_old
                    /\ import'[v].todo = import[v].todo
             /\ import[v].stage = "closing" => import'[v].since = import[v].since \cup {f}
  <2>1. Live(v) => import[v].stage \in {"processing", "closing", "failed"}
    BY LiveTyped DEF Handling, RowsOK
  <2>2. /\ Opened(import, {f})[v].stage = import[v].stage
        /\ Opened(import, {f})[v].items = import[v].items
        /\ Opened(import, {f})[v].half = import[v].half
        /\ Opened(import, {f})[v].todo = import[v].todo
    BY <1>1, OpenedKeeps
  <2>3. /\ import[v].stage \in {"processing", "closing", "failed"} =>
               /\ Opened(import, {f})[v].report = import[v].report
               /\ Opened(import, {f})[v].close_old = import[v].close_old
        /\ import[v].stage = "closing" => Opened(import, {f})[v].since = import[v].since \cup {f}
    BY <1>1, OpenedNotes
  <2> QED BY <2>1, <2>2, <2>3, <1>5
<1> QED BY <1>4, <1>6 DEF OthersNote

LEMMA ChunkKeepsOthers ==
    ASSUME RowsOK, NEW hash \in HashCodes, ImportsOK(hash), NEW known \in HashCodes,
           NEW u \in Imports, NEW f \in Ids, OthersNote(u, f),
           \A g \in Ids \ {f} : known[g] = hash[g],
           UNCHANGED <<test, changed>>,
           Findings \subseteq Findings', Findings' \subseteq Findings \cup {f},
           \A g \in Findings \ {f} : finding'[g] = finding[g],
           f \in Findings => finding[f].test = u, finding'[f].test = u
    PROVE  \A v \in Imports \ {u} : Reports(known, v)' /\ Closings(known, v)'
<1> SUFFICES ASSUME NEW v \in Imports \ {u} PROVE Reports(known, v)' /\ Closings(known, v)'
  OBVIOUS
<1>1. Reports(hash, v) /\ Closings(hash, v)
  BY DEF ImportsOK
<1>2. /\ import'[v].stage = import[v].stage
      /\ Live(v) =>
             /\ import'[v].items = import[v].items
             /\ import'[v].report = import[v].report
             /\ import'[v].close_old = import[v].close_old
             /\ import'[v].todo = import[v].todo
      /\ import[v].stage = "closing" => import'[v].since = import[v].since \cup {f}
  BY DEF OthersNote
<1>3. import[v].stage \in {"processing", "closing"} => Live(v)
  BY DEF Live
<1>4. \A g \in Findings : finding'[g].test = finding[g].test /\ target(g)' = target(g)
  BY DEF target
<1>5. \A g \in Own(v) : g \in Findings /\ g /= f /\ g \in Ids
  BY DEF Own, Findings
<1>6. \A g \in Findings' : finding'[g].s.active =>
          (g \in Findings /\ finding'[g] = finding[g]) \/ g \in {f}
  OBVIOUS
<1>7. \A g \in Findings' \ Findings : finding'[g].test = v => known[g] = None
  OBVIOUS
<1>8. \A g \in Own(v) : known[g] = hash[g] /\ finding'[g] = finding[g]
  BY <1>5
<1>9. import[v].stage = "closing" =>
          /\ import[v].since \subseteq import'[v].since
          /\ \A t \in import[v].todo \ import'[v].todo : ~finding'[t.id].s.active
          /\ \A g \in Findings' : finding'[g].s.active =>
                 \/ g \in Findings /\ finding'[g] = finding[g]
                 \/ g \in import'[v].since
  BY <1>2, <1>3, <1>6
<1>10. import[v].stage \in {"processing", "closing"} =>
          /\ import'[v].items = import[v].items
          /\ import'[v].report = import[v].report
          /\ import'[v].close_old = import[v].close_old
          /\ import'[v].todo \subseteq import[v].todo
  BY <1>2, <1>3
<1> QED BY <1>1, <1>2, <1>4, <1>7, <1>8, <1>9, <1>10, OthersKeep

\* The finding of an item has no hash code yet.
LEMMA CreateKeepsImports ==
    ASSUME ImportInv, NEW u \in Imports, NEW c \in DOMAIN import[u].items, Create(u, c),
           UNCHANGED todo, crossed' \in BOOLEAN
    PROVE  ImportInv'
<1>1. PICK hash \in HashCodes : ImportsOK(hash)
  BY DEF ImportInv
<1>2. /\ RowsOK /\ TestsFixed /\ HashOf(hash) /\ Reports(hash, u) /\ Closings(hash, u)
      /\ TypeOK /\ Running(u) /\ next_id \in Ids /\ import[u].items[c] /= <<>>
  BY <1>1 DEF ImportInv, ImportsOK, RowsOK, Create
<1>3. /\ RowsOK' /\ next_id \notin Findings /\ Findings' = Findings \cup {next_id}
      /\ finding'[next_id].hash = None
      /\ \A f \in Findings : finding'[f] = finding[f]
  BY <1>2, CreateKeepsRows
<1>4. /\ Live(u) /\ import[u] \in Handling /\ c \in DOMAIN import[u].half
  BY <1>2, ChunkTyped
<1>5. PICK f \in Ids : f = next_id
  BY <1>2
<1>6. finding'[f].test = u
  BY <1>2, <1>5 DEF Create, TypeOK
<1>7. PICK known \in HashCodes : known[f] = None /\ \A g \in Ids \ {f} : known[g] = hash[g]
  <2>1. [hash EXCEPT ![f] = None] \in HashCodes
    BY DEF HashCodes
  <2> QED BY <2>1 DEF HashCodes
<1> DEFINE now == [import[u] EXCEPT !.half[c] = f]
<1>8. /\ now.stage = import[u].stage /\ now.items = import[u].items
      /\ now.report = import[u].report /\ now.close_old = import[u].close_old
      /\ now.todo = import[u].todo
      /\ DOMAIN now.half = DOMAIN import[u].half
      /\ \A d \in DOMAIN import[u].half : now.half[d] = IF d = c THEN f ELSE import[u].half[d]
  BY <1>4 DEF Handling
<1>9. import' = Opened([import EXCEPT ![u] = now], {f})
  <2>1. import' = Opened([import EXCEPT ![u].half[c] = f], {f})
    BY <1>5 DEF Create
  <2>2. [import EXCEPT ![u].half[c] = f] = [import EXCEPT ![u] = now]
    BY <1>2 DEF TypeOK
  <2> QED BY <2>1, <2>2
<1> HIDE DEF now
<1>10. UNCHANGED <<test, changed>>
  BY DEF Create
<1>11. \A g \in Findings : g /= f /\ g \in Ids /\ known[g] = hash[g]
  BY <1>3, <1>5, <1>7 DEF Findings
<1>12. import'[u] = now /\ OthersNote(u, f)
  BY <1>2, <1>8, <1>9, ChunkStep
<1>13. \A v \in Imports \ {u} : Reports(known, v)' /\ Closings(known, v)'
  <2>1. /\ Findings \subseteq Findings' /\ Findings' \subseteq Findings \cup {f}
        /\ \A g \in Findings \ {f} : finding'[g] = finding[g]
        /\ f \notin Findings
    BY <1>3, <1>5
  <2> QED BY <1>1, <1>2, <1>6, <1>7, <1>10, <1>12, <2>1, ChunkKeepsOthers
<1>14. Reports(known, u)' /\ Closings(known, u)'
  <2>1. import[u].stage /= "closing"
    BY <1>2 DEF Running
  <2>2. \A g \in Findings : finding'[g].test = finding[g].test /\ target(g)' = target(g)
    BY <1>3, <1>10 DEF target
  <2>3. \A g \in Own(u) : g \in Findings
    BY DEF Own
  <2>4. /\ import'[u].stage = import[u].stage
        /\ import'[u].items = import[u].items
        /\ import'[u].report = import[u].report
        /\ import'[u].close_old = import[u].close_old
        /\ import'[u].todo \subseteq import[u].todo
    BY <1>8, <1>12
  <2>5. /\ Findings \subseteq Findings'
        /\ \A g \in Findings' \ Findings : finding'[g].test = u => known[g] = None
    BY <1>3, <1>5, <1>7
  <2>6. \A g \in Own(u) :
            /\ known[g] = hash[g]
            /\ g \in changed => g \in changed'
            /\ import[u].stage = "processing" => g \in changed' \/ finding'[g] = finding[g]
    BY <1>3, <1>10, <1>11, <2>3
  <2> QED BY <1>2, <1>10, <2>1, <2>2, <2>4, <2>5, <2>6, OthersKeep
<1>15. HashOf(known)' /\ TestsFixed'
  <2>1. \A v \in Imports : Live(v)' =>
            /\ Live(v) /\ import'[v].todo = import[v].todo
            /\ DOMAIN import'[v].half = DOMAIN import[v].half
            /\ \A d \in DOMAIN import[v].half :
                   import'[v].half[d] = import[v].half[d] \/ (v = u /\ import'[v].half[d] = f)
    BY <1>4, <1>8, <1>12 DEF Live, OthersNote
  <2>2. \A v \in Imports : Live(v) => \A d \in DOMAIN import[v].half :
            import[v].half[d] /= 0 => known[import[v].half[d]] = None
    BY <1>2, <1>11 DEF HashOf, RowsOK, HalvesApart
  <2>3. \A v \in Imports : Live(v)' => \A d \in DOMAIN import'[v].half : import'[v].half[d] /= 0 =>
            /\ known[import'[v].half[d]] = None
            /\ \/ Live(v) /\ d \in DOMAIN import[v].half /\ import[v].half[d] = import'[v].half[d]
               \/ finding'[import'[v].half[d]].test = v
    BY <2>1, <2>2, <1>6, <1>7
  <2>4. \A g \in Findings' : finding'[g].hash \in {None, known[g]}
    BY <1>2, <1>3, <1>5, <1>11 DEF HashOf
  <2>5. \A v \in Imports : import'[v].stage = "none" => test'[v] = None
    BY <1>2, <1>4, <1>8, <1>10, <1>12 DEF TestsFixed, OthersNote
  <2>6. Findings \subseteq Findings' /\ \A g \in Findings : finding'[g].test = finding[g].test
    BY <1>3
  <2> QED BY <1>2, <1>11, <2>1, <2>3, <2>4, <2>5, <2>6, CopiesKeep
<1> QED BY <1>3, <1>13, <1>14, <1>15 DEF ImportInv, ImportsOK

\* The second save: the item leaves its chunk, and its finding has the hash code.
LEMMA CompleteKeepsImports ==
    ASSUME ImportInv, NEW u \in Imports, NEW c \in DOMAIN import[u].items, Complete(u, c),
           UNCHANGED todo, crossed' \in BOOLEAN
    PROVE  ImportInv'
<1>1. PICK hash \in HashCodes : ImportsOK(hash)
  BY DEF ImportInv
<1>2. /\ RowsOK /\ TestsFixed /\ HashOf(hash) /\ Reports(hash, u)
      /\ TypeOK /\ Running(u)
  BY <1>1 DEF ImportInv, ImportsOK, RowsOK, Complete
<1>3. PICK f : f = import[u].half[c]
  OBVIOUS
<1>4. /\ RowsOK' /\ f \in Findings /\ Findings' = Findings
      /\ finding[f].hash = None
      /\ \A g \in Findings \ {f} : finding'[g] = finding[g]
  BY <1>2, <1>3, CompleteKeepsRows
<1>5. /\ Live(u) /\ import[u] \in Handling /\ c \in DOMAIN import[u].half /\ f /= 0
      /\ import[u].items \in Seq(Seq(Item)) /\ import[u].half \in Seq(Nat)
  <2>1. Live(u) /\ import[u] \in Handling
    BY <1>2, LiveTyped DEF Running
  <2>2. import[u].items \in Seq(Seq(Item)) /\ import[u].half \in Seq(Nat)
    BY <2>1 DEF Handling
  <2>3. DOMAIN import[u].items = DOMAIN import[u].half
    BY <1>2, <2>1, <2>2, LenProperties DEF RowsOK, HalvesApart
  <2> QED BY <1>3, <2>1, <2>2, <2>3 DEF Complete
<1>6. import[u].items[c] /= <<>> /\ hash[f] = None /\ finding[f].test = u
  BY <1>2, <1>3, <1>5 DEF RowsOK, HalvesApart, HashOf, TestsFixed
<1> DEFINE list == import[u].items[c]
           item == Head(list)
<1>7. /\ list \in Seq(Item) /\ item \in Item
      /\ item \in Range(list) /\ Range(Tail(list)) \subseteq Range(list)
      /\ \A x \in Range(list) : x = item \/ x \in Range(Tail(list))
  <2>1. list \in Seq(Item) /\ list /= <<>>
    BY <1>5, <1>6, ElementOfSeq, LenProperties
  <2>2. Len(list) \in Nat \ {0} /\ Head(list) = list[1] /\ DOMAIN list = 1..Len(list)
        /\ Tail(list) \in Seq(Item) /\ Len(Tail(list)) = Len(list) - 1
        /\ \A i \in 1..Len(Tail(list)) : Tail(list)[i] = list[i + 1]
        /\ DOMAIN Tail(list) = 1..Len(Tail(list))
    <3> HIDE DEF list
    <3> QED BY <2>1, HeadTailProperties, LenProperties, EmptySeq
  <2> HIDE DEF list
  <2>3. \A i \in 1..Len(list) : i = 1 \/ (i - 1 \in 1..Len(Tail(list)) /\ Tail(list)[i - 1] = list[i])
    BY <2>2
  <2>4. \A x \in Range(list) : x = Head(list) \/ x \in Range(Tail(list))
    <3> DEFINE tail == Tail(list)
    <3>1. \A i \in 1..Len(list) : list[i] = Head(list) \/ \E k \in DOMAIN tail : tail[k] = list[i]
      BY <2>2, <2>3
    <3> HIDE DEF tail
    <3>2. Range(tail) = {tail[k] : k \in DOMAIN tail} /\ Range(list) = {list[i] : i \in 1..Len(list)}
      BY <2>2 DEF Range
    <3> QED BY <3>1, <3>2 DEF tail
  <2>5. Range(Tail(list)) \subseteq Range(list)
    BY <2>2 DEF Range
  <2> QED BY <2>1, <2>2, <2>4, <2>5 DEF Range
<1>8. f \in Ids /\ finding[f] \in Row
  BY <1>2, <1>4, FindingTyped
<1>9. /\ finding'[f].hash = item.hash /\ finding'[f].s = created(item.status)
      /\ finding'[f].test = u
  <2>1. finding' = [finding EXCEPT ![f] = [finding[f] EXCEPT !.hash = item.hash,
                                                             !.s = created(item.status)]]
    BY <1>2, <1>3, <1>8 DEF Complete, TypeOK
  <2>2. finding'[f] = [finding[f] EXCEPT !.hash = item.hash, !.s = created(item.status)]
    BY <2>1, <1>2, <1>8 DEF TypeOK
  <2> HIDE DEF item
  <2> QED BY <2>2, <1>6, <1>8 DEF Row
<1>10. PICK known \in HashCodes : known[f] = item.hash /\ \A g \in Ids \ {f} : known[g] = hash[g]
  <2>1. [hash EXCEPT ![f] = item.hash] \in HashCodes
    BY <1>7 DEF HashCodes, Item
  <2> QED BY <1>8, <2>1 DEF HashCodes
<1> DEFINE rest == [import[u].items EXCEPT ![c] = Tail(list)]
           half == [import[u].half EXCEPT ![c] = 0]
           now == [import[u] EXCEPT !.items = rest, !.half = half]
<1>11. /\ DOMAIN rest = DOMAIN import[u].items /\ rest[c] = Tail(list)
       /\ \A d \in DOMAIN rest : d /= c => rest[d] = import[u].items[d]
       /\ DOMAIN half = DOMAIN import[u].half
       /\ \A d \in DOMAIN half : half[d] = IF d = c THEN 0 ELSE import[u].half[d]
  BY <1>5
<1>12. import' = Opened([import EXCEPT ![u] = now], {f})
  <2>1. import' = Opened([import EXCEPT ![u].items[c] = Tail(@), ![u].half[c] = 0], {f})
    BY <1>3 DEF Complete
  <2>2. [import EXCEPT ![u].items[c] = Tail(@), ![u].half[c] = 0] = [import EXCEPT ![u] = now]
    <3>1. [import[u] EXCEPT !.items[c] = Tail(@), !.half[c] = 0] = now
      BY <1>5 DEF Handling, half, rest
    <3> HIDE DEF now
    <3> QED BY <3>1, <1>2 DEF TypeOK
  <2> QED BY <2>1, <2>2
<1> HIDE DEF rest, half
<1>13. /\ now.stage = import[u].stage /\ now.items = rest /\ now.half = half
       /\ now.report = import[u].report /\ now.todo = import[u].todo
  BY <1>5 DEF Handling
<1> HIDE DEF now
<1>14. import'[u] = now /\ OthersNote(u, f)
  BY <1>2, <1>8, <1>12, <1>13, ChunkStep
<1>15. UNCHANGED <<test, changed>>
  BY DEF Complete
<1>16. \A v \in Imports \ {u} : Reports(known, v)' /\ Closings(known, v)'
  <2>1. /\ Findings \subseteq Findings' /\ Findings' \subseteq Findings \cup {f}
    BY <1>4
  <2> QED BY <1>1, <1>2, <1>4, <1>6, <1>8, <1>9, <1>10, <1>14, <1>15, <2>1, ChunkKeepsOthers
<1> HIDE DEF item, list
<1>17. Own(u)' = Own(u) /\ f \in Own(u) /\ \A g \in Own(u) : g \in Findings /\ g \in Ids
  BY <1>4, <1>6, <1>9 DEF Own, Findings
<1>18. Reports(known, u)' /\ Closings(known, u)'
  <2>1. import'[u].stage /= "closing"
    BY <1>2, <1>13, <1>14 DEF Running
  <2> SUFFICES ASSUME import[u].stage = "processing" PROVE Reports(known, u)'
    BY <2>1, <1>13, <1>14 DEF Closings, Reports
  <2>2. /\ \A d \in DOMAIN rest : Range(rest[d]) \subseteq Range(import[u].report)
        /\ item \in Range(import[u].report)
    BY <1>2, <1>7, <1>11 DEF Reports, list
  <2>3. ASSUME NEW x \in Range(import[u].report)
        PROVE  \/ \E d \in DOMAIN rest : x \in Range(rest[d])
               \/ \E g \in Own(u) : known[g] = x.hash
    <3>1. CASE \E d \in DOMAIN import[u].items : x \in Range(import[u].items[d])
      <4>1. PICK d \in DOMAIN import[u].items : x \in Range(import[u].items[d])
        BY <3>1
      <4>2. CASE d /= c
        BY <4>1, <4>2, <1>11
      <4>3. CASE d = c
        <5>1. x = item \/ x \in Range(rest[c])
          BY <4>1, <4>3, <1>7, <1>11 DEF list
        <5> QED BY <5>1, <4>3, <1>10, <1>11, <1>17
      <4> QED BY <4>2, <4>3
    <3>2. CASE \E g \in Own(u) : hash[g] = x.hash
      <4>1. PICK g \in Own(u) : hash[g] = x.hash
        BY <3>2
      <4>2. x.hash /= None
        <5>1. x \in Item
          BY <1>5 DEF Handling, Range
        <5> QED BY <5>1, ImportAssumption DEF Item
      <4> QED BY <4>1, <4>2, <1>6, <1>10, <1>17
    <3> QED BY <3>1, <3>2, <1>2 DEF Reports
  <2>4. ASSUME NEW g \in Own(u) \ changed, known[g] /= None
        PROVE  /\ finding'[g].hash = known[g]
               /\ \E x \in Range(import[u].report) :
                      x.hash = known[g] /\ finding'[g].s = created(x.status)
    <3>1. CASE g = f
      BY <3>1, <2>2, <1>9, <1>10
    <3>2. CASE g /= f
      BY <3>2, <2>4, <1>2, <1>4, <1>10, <1>17 DEF Reports
    <3> QED BY <3>1, <3>2
  <2> QED BY <2>2, <2>3, <2>4, <1>13, <1>14, <1>15, <1>17 DEF Reports
<1>19. \A g \in Findings : known[g] = hash[g] \/ hash[g] = None
  BY <1>6, <1>10 DEF Findings
\* its chunk is done with f, and another chunk has another one
<1>20. ASSUME NEW v \in Imports, Live(v)', NEW d \in DOMAIN import'[v].half,
              import'[v].half[d] /= 0
       PROVE  /\ Live(v) /\ d \in DOMAIN import[v].half
              /\ import'[v].half[d] = import[v].half[d]
              /\ known[import'[v].half[d]] = None
  <2>1. /\ Live(v) /\ d \in DOMAIN import[v].half /\ ~(v = u /\ d = c)
        /\ import'[v].half[d] = import[v].half[d]
    <3>1. CASE v = u
      BY <3>1, <1>5, <1>11, <1>13, <1>14, <1>20
    <3>2. CASE v /= u
      BY <3>2, <1>14, <1>20 DEF OthersNote, Live
    <3> QED BY <3>1, <3>2
  <2>2. import[v].half[d] \in Findings /\ import[v].half[d] /= f /\ hash[import[v].half[d]] = None
    BY <2>1, <1>2, <1>3, <1>5, <1>20 DEF RowsOK, HalvesApart, HashOf
  <2> QED BY <2>1, <2>2, <1>10 DEF Findings
<1>21. \A v \in Imports : Live(v)' => Live(v) /\ import'[v].todo = import[v].todo
  BY <1>5, <1>13, <1>14 DEF OthersNote, Live
<1>22. \A g \in Findings' : finding'[g].hash \in {None, known[g]}
  BY <1>2, <1>4, <1>9, <1>10 DEF HashOf, Findings
<1>23. \A v \in Imports : import'[v].stage = "none" => test'[v] = None
  BY <1>2, <1>5, <1>13, <1>14, <1>15 DEF OthersNote, TestsFixed
<1>24. Findings \subseteq Findings' /\ \A g \in Findings : finding'[g].test = finding[g].test
  BY <1>4, <1>6, <1>9
<1>25. HashOf(known)' /\ TestsFixed'
  BY <1>2, <1>19, <1>20, <1>21, <1>22, <1>23, <1>24, CopiesKeep
<1> QED BY <1>4, <1>16, <1>18, <1>25 DEF ImportInv, ImportsOK

-----------------------------------------------------------------------------
(* All steps. *)

LEMMA InitImports ==
    ASSUME Init
    PROVE  ImportInv
<1>1. RowsOK /\ Findings = {} /\ \A u \in Imports : import[u].stage = "none" /\ ~Live(u)
  BY InitHistory DEF HistoryInv, Init, Init_Import, Findings, Live, NoImport
<1>2. TestsFixed
  BY <1>1 DEF TestsFixed, Init, Init_Import
<1>3. PICK hash \in HashCodes : HashOf(hash)
  BY <1>1 DEF RowsOK, HashesFixed, HashCodes
<1>4. ImportsOK(hash)
  BY <1>1, <1>3 DEF ImportsOK, Reports, Closings
<1> QED BY <1>1, <1>2, <1>4 DEF ImportInv

LEMMA StepKeepsImports ==
    ASSUME ImportInv, ByHashCode, [Next]_vars
    PROVE  ImportInv'
<1>1. TypeOK /\ \A f \in Findings : finding[f].s \in Status
  BY DEF ImportInv, RowsOK, RowsSound, Saved, Sound
<1>2. CASE Import_Next /\ Crossed /\ UNCHANGED <<todo, bulk, decisions>>
  <2>1. crossed' \in BOOLEAN
    BY <1>1, <1>2 DEF Crossed, TypeOK
  <2>2. PICK u \in Imports :
            \/ import_scan(u)
            \/ import[u].stage \notin {"none", "over"} /\ (Importer(u) \/ Fail(u))
    BY <1>2 DEF Import_Next
  <2>3. CASE import_scan(u)
    BY <1>2, <2>1, <2>3, ScanKeepsImports
  <2>4. ASSUME NEW c \in 1..Len(import[u].items), Create(u, c) PROVE ImportInv'
    BY <1>2, <2>1, <2>4, CreateKeepsImports DEF Create
  <2>5. ASSUME NEW c \in 1..Len(import[u].items), Complete(u, c) PROVE ImportInv'
    BY <1>2, <2>1, <2>5, CompleteKeepsImports DEF Complete
  <2>6. CASE close_old_findings(u)
    BY <1>2, <2>1, <2>6, CloseOldKeepsImports
  <2>7. ASSUME NEW t \in import[u].todo, close_old_finding(u, t) PROVE ImportInv'
    BY <1>2, <2>1, <2>7, CloseKeepsImports
  <2>8. CASE Live(u) /\ (Finish(u) \/ Fail(u))
    BY <1>2, <2>1, <2>8, EndKeepsImports
  <2> QED BY <2>2, <2>3, <2>4, <2>5, <2>6, <2>7, <2>8 DEF Importer, Live
<1>3. CASE \E w \in Workers : Task(w) /\ Crossed
  <2>1. crossed' \in BOOLEAN
    BY <1>1, <1>3 DEF Crossed, TypeOK
  <2> QED BY <1>3, <2>1, TaskKeepsImports, MarkKeepsImports DEF Task
<1>4. CASE Pages /\ Crossed
  <2>1. crossed' \in BOOLEAN
    BY <1>1, <1>4 DEF Crossed, TypeOK
  <2> QED BY <1>4, <2>1, PagesKeepImports DEF Pages
<1>5. CASE UNCHANGED vars
  <2>1. ImportInv' <=> ImportInv
    <3>1. UNCHANGED <<next_id, finding, test, import, queue, changed, todo, bulk, crossed, decisions>>
      BY <1>5 DEF vars, importVars
    <3>2. (RowsOK' <=> RowsOK) /\ (TestsFixed' <=> TestsFixed)
      BY <3>1 DEF RowsOK, TypeOK, RowsSound, HalvesApart, HashesFixed, HashOf, Live, Saved,
                  Findings, TestsFixed
    <3>3. \A hash : ImportsOK(hash)' <=> ImportsOK(hash)
      BY <3>1 DEF ImportsOK, HashOf, Reports, Closings, Live, Findings, Own, InScope, target,
                  Lists, ListsFixed, Touched
    <3> QED BY <3>2, <3>3 DEF ImportInv
  <2> QED BY <2>1
<1> QED BY <1>2, <1>3, <1>4, <1>5 DEF Next

\* Whoever has had a hand in a finding with this hash code has disturbed it.
LEMMA TouchedIsDisturbed ==
    ASSUME NEW hash \in HashCodes, HashOf(hash), NEW u, NEW code, Touched(hash, u, code)
    PROVE  Disturbed(u, code)
BY DEF Touched, Disturbed, HashOf, Own

LEMMA ImportsFollow ==
    ASSUME ImportInv
    PROVE  PresentStays /\ AbsentIsClosed
<1>1. PICK hash \in HashCodes : ImportsOK(hash)
  BY DEF ImportInv
<1>2. HashOf(hash) /\ \A u \in Imports : Closings(hash, u)
  BY <1>1 DEF ImportsOK
<1>3. \A u \in Imports : \A code : Touched(hash, u, code) => Disturbed(u, code)
  BY <1>2, TouchedIsDisturbed
<1>4. PresentStays
  BY <1>2, <1>3 DEF PresentStays, Closings
<1>5. AbsentIsClosed
  <2> SUFFICES ASSUME NEW u \in Imports, import[u].stage = "closing", import[u].todo = {},
                      NEW f \in Findings \ (Own(u) \cup import[u].since), InScope(u, f),
                      finding[f].s.active
               PROVE  Lists(u, finding[f].hash) \/ Disturbed(u, finding[f].hash)
    BY DEF AbsentIsClosed, InScope
  <2> QED BY <1>2, <1>3 DEF Closings
<1> QED BY <1>4, <1>5

\* close_old_findings: an import closes no finding whose hash code its report lists as open and
\* not as fixed too, for any number of reports, chunks, imports and findings, unless someone
\* else has saved what it made of the item; where tests are deduplicated by hash code.
THEOREM ClosesNoneReported ==
    ASSUME ByHashCode
    PROVE  Spec => []PresentStays
<1>1. Init => ImportInv
  BY InitImports
<1>2. ByHashCode /\ ImportInv /\ [Next]_vars => ImportInv'
  BY StepKeepsImports
<1>3. ImportInv => PresentStays
  BY ImportsFollow
<1>4. []ByHashCode
  BY PTL
<1> QED BY <1>1, <1>2, <1>3, <1>4, PTL DEF Spec

\* ... and when it is through with what it has found, nothing is open in its scope that the
\* report does not list as open, but for what others have opened since it looked.
THEOREM ClosesAllAbsent ==
    ASSUME ByHashCode
    PROVE  Spec => []AbsentIsClosed
<1>1. Init => ImportInv
  BY InitImports
<1>2. ByHashCode /\ ImportInv /\ [Next]_vars => ImportInv'
  BY StepKeepsImports
<1>3. ImportInv => AbsentIsClosed
  BY ImportsFollow
<1>4. []ByHashCode
  BY PTL
<1> QED BY <1>1, <1>2, <1>3, <1>4, PTL DEF Spec

=============================================================================
