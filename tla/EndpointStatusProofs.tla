------------------------- MODULE EndpointStatusProofs -------------------------
(***************************************************************************)
(* For any number of endpoints, uploads and requests, chunks of any size   *)
(* and any order of the tasks: what an upload that was answered promises   *)
(* of the endpoints holds once its tasks are done, unless users had a hand.*)
(***************************************************************************)
EXTENDS EndpointStatus, FiniteSetTheorems, TLAPS

TypeOK ==
    /\ async \in BOOLEAN
    /\ finding \in Status \cup {None}
    /\ row \in [Locations -> Rows \cup {None}]
    /\ tasks \subseteq Tasks
    /\ upload \in UploadSet \cup {None}
    /\ upload /= None => Len(upload.inline) <= 1
    /\ uploads \in Nat
    /\ told \in [open : SUBSET Locations, shut : SUBSET Locations]
    /\ own \subseteq Locations

\* the copies the jobs in J have to save, each with what is done to it
Pairs(J) == UNION {{<<j.kind, c>> : c \in Range(j.copies)} : j \in J}

Waiting == Pairs(tasks \cup (IF upload = None THEN {} ELSE Range(upload.inline)))

Gone == IF upload = None THEN {} ELSE Range(upload.gone)

\* Has the running upload decided about the endpoints of an item?  Of which?
Aimed == upload /= None /\ (upload.stage \in {"mitigate", "add"} \/ upload.said /= None)
Aim == IF upload.said = None THEN upload.item ELSE upload.said

\* The stages of the upload that runs.
UploadInv ==
    upload /= None =>
        /\ told = Silent
        /\ upload.stage \in {"match", "reactivate", "update", "mitigate", "add", "save"}
                \/ upload.said /= None \/ upload.rest /= <<>>
                => upload.item \in Items
        /\ upload.stage \in {"reactivate", "update", "mitigate", "add", "save", "closed"}
                => upload.found \in Status
        /\ upload.stage = "save" => upload.said /= None
        /\ upload.said /= None => upload.stage \in {"match", "save", "collect", "close", "closed"}
        /\ upload.closed => upload.stage \in {"close", "closed"}
        /\ upload.gone /= <<>> => upload.stage = "mitigate"
        /\ upload.stage = "reactivate" => upload.inline = <<>> /\ ~upload.late
        /\ upload.item = None => ~upload.late

\* An upload that no older task can disturb begins with no tasks, and queues
\* none but those that reactivate the whole finding before it decides.
TaskInv ==
    /\ ~async => tasks = {}
    /\ \A w \in Waiting : w[1] /= "add" => w[2].row \in Rows
    /\ \A c \in Gone : c.row \in Rows
    /\ upload /= None => (upload.late => async)
    /\ upload /= None /\ own /= Locations /\ ~Aimed =>
            /\ ~upload.late => tasks = {}
            /\ \A t \in tasks : t.kind = "reactivate"

\* Before the finding is found it is nowhere.
FindingInv ==
    finding = None =>
        /\ \A l \in Locations : row[l] = None
        /\ tasks = {}
        /\ upload /= None => /\ upload.stage \in {"match", "collect", "close"}
                             /\ upload.before = None
                             /\ upload.left = {}
                             /\ upload.inline = <<>>

\* where the upload that runs, or the last one, has promised it open and shut
OpenAim ==
    IF upload = None THEN told.open
    ELSE IF Aimed /\ ~Aim.fixed /\ ~upload.closed THEN Aim.at ELSE {}

ShutAim ==
    IF upload = None THEN told.shut
    ELSE IF upload.late THEN {}
    ELSE IF upload.closed /\ (~async \/ upload.item = None) THEN Locations
    ELSE IF Aimed THEN Locations \ Aim.at
    ELSE {}

\* Where it is to be open nothing is left that would close it, and it is open
\* or a task is left that opens it.
OpenInv ==
    \A l \in OpenAim \ own :
        /\ \A w \in Waiting : w[2].at = l => w[1] /= "mitigate"
        /\ \A c \in Gone : c.at /= l
        /\ \/ row[l] = None
           \/ ~row[l].mitigated
           \/ \E w \in Waiting : w[1] = "reactivate" /\ w[2].at = l /\ w[2].row.mitigated
        /\ \/ row[l] /= None
           \/ \E w \in Waiting : w[1] = "add" /\ w[2].at = l
           \/ upload /= None /\ upload.said = None

\* Where it is to be shut nothing is left that would open it, and it is shut
\* or something is left that shuts it.
ShutInv ==
    \A l \in ShutAim \ own :
        /\ \A w \in Waiting : w[2].at = l => w[1] = "mitigate"
        /\ \/ row[l] = None
           \/ row[l].mitigated
           \/ \E w \in Waiting : w[1] = "mitigate" /\ w[2].at = l /\ ~w[2].row.mitigated
           \/ \E c \in Gone : c.at = l /\ ~c.row.mitigated

Inv == TypeOK /\ UploadInv /\ TaskInv /\ FindingInv /\ OpenInv /\ ShutInv

-----------------------------------------------------------------------------
(* Rows, copies and chunks. *)

\* A query lists every row once, in some order.
LEMMA QueryLists ==
    ASSUME NEW S, IsFiniteSet(S)
    PROVE  /\ SetToSeq(S) \in [1..Cardinality(S) -> S]
           /\ Range(SetToSeq(S)) = S
           /\ Cardinality(S) \in Nat
<1> DEFINE n == Cardinality(S)
<1>1. n \in Nat /\ ExistsBijection(1..n, S)
  BY FS_CardinalityType
<1>2. \E f \in [1..n -> S] : IsInjective(f)
  BY <1>1 DEF ExistsBijection, Bijection, Injection
<1>3. SetToSeq(S) \in Injection(1..n, S)
  BY <1>2 DEF SetToSeq, Injection
<1>4. IsFiniteSet(1..n) /\ Cardinality(1..n) = n
  BY <1>1, FS_Interval
<1>5. SetToSeq(S) \in Surjection(1..n, S)
  BY <1>3, <1>4, FS_Injection
<1> QED BY <1>1, <1>3, <1>5 DEF Injection, Surjection, Range

\* The copies of the rows at S are those rows.
LEMMA CopiesCopy ==
    ASSUME TypeOK, NEW S \in SUBSET Locations
    PROVE  /\ Copies(S) \in Seq(CopySet)
           /\ Range(Copies(S)) = {[at |-> l, row |-> row[l]] : l \in S}
<1> DEFINE s == SetToSeq(S)
           n == Cardinality(S)
<1>1. IsFiniteSet(S)
  BY LocationsAssumption, FS_Subset
<1>2. s \in [1..n -> S] /\ Range(s) = S /\ n \in Nat
  BY <1>1, QueryLists
<1> HIDE DEF s, n
<1>3. Copies(S) = [i \in 1..n |-> [at |-> s[i], row |-> row[s[i]]]]
  BY <1>2 DEF Copies, s
<1>4. \A l \in S : [at |-> l, row |-> row[l]] \in CopySet
  BY DEF TypeOK, CopySet
<1>5. \A i \in 1..n : Copies(S)[i] = [at |-> s[i], row |-> row[s[i]]] /\ s[i] \in S
  BY <1>2, <1>3
<1>6. Copies(S) \in [1..n -> CopySet]
  BY <1>3, <1>4, <1>5
<1>7. Range(Copies(S)) = {[at |-> l, row |-> row[l]] : l \in S}
  <2>1. ASSUME NEW l \in S
        PROVE  [at |-> l, row |-> row[l]] \in Range(Copies(S))
    <3>1. PICK i \in 1..n : s[i] = l
      BY <1>2 DEF Range
    <3> QED BY <1>3, <1>5, <3>1 DEF Range
  <2>2. ASSUME NEW c \in Range(Copies(S))
        PROVE  \E l \in S : c = [at |-> l, row |-> row[l]]
    <3>1. PICK i \in 1..n : c = Copies(S)[i]
      BY <1>3 DEF Range
    <3> QED BY <1>5, <3>1
  <2> QED BY <2>1, <2>2
<1> QED BY <1>2, <1>6, <1>7

\* Division of a position by the size of the chunks.
LEMMA ChunkStart ==
    ASSUME NEW n \in Nat \ {0}, NEW i \in Nat \ {0}
    PROVE  \E j \in 1..i : (j - 1) % n = 0 /\ i <= j + n - 1
<1> DEFINE q == (i - 1) \div n
           r == (i - 1) % n
<1>1. i - 1 \in Nat
  OBVIOUS
<1>2. r \in 0..(n - 1) /\ i - 1 = n * q + r /\ q \in Nat
  BY <1>1, Z3
<1> HIDE DEF q, r
<1>3. n * q \in Nat /\ (n * q) % n = 0
  BY <1>2, SMTT(30)
<1> DEFINE m == n * q
<1> HIDE DEF m
<1>4. m \in Nat /\ m % n = 0 /\ i - 1 = m + r
  BY <1>2, <1>3 DEF m
<1>5. m + 1 \in 1..i /\ (m + 1) - 1 = m /\ i <= (m + 1) + n - 1
  BY <1>2, <1>4
<1> QED BY <1>4, <1>5

\* The chunks are parts of the list, none is empty, and no element is left out.
LEMMA ChunksCover ==
    ASSUME NEW copies \in Seq(CopySet)
    PROVE  /\ chunk_list(copies) \subseteq Seq(CopySet) \ {<<>>}
           /\ \A c \in chunk_list(copies) : Range(c) \subseteq Range(copies)
           /\ \A x \in Range(copies) : \E c \in chunk_list(copies) : x \in Range(c)
<1> DEFINE Stop(i) == IF i + ChunkSize > Len(copies) THEN Len(copies) ELSE i + ChunkSize - 1
           Starts == {j \in 1..Len(copies) : (j - 1) % ChunkSize = 0}
<1>1. chunk_list(copies) = {SubSeq(copies, i, Stop(i)) : i \in Starts}
  BY DEF chunk_list
<1>2. ChunkSize \in Nat \ {0} /\ Len(copies) \in Nat /\ DOMAIN copies = 1..Len(copies)
  BY ChunkAssumption
<1>3. ASSUME NEW i \in 1..Len(copies)
      PROVE  /\ Stop(i) \in i..Len(copies)
             /\ Stop(i) = Len(copies) \/ Stop(i) = i + ChunkSize - 1
             /\ SubSeq(copies, i, Stop(i)) \in Seq(CopySet)
             /\ Len(SubSeq(copies, i, Stop(i))) = Stop(i) - i + 1
             /\ \A k \in 1..(Stop(i) - i + 1) : SubSeq(copies, i, Stop(i))[k] = copies[i + k - 1]
  <2>1. Stop(i) \in i..Len(copies)
    BY <1>2
  <2>2. Stop(i) = Len(copies) \/ Stop(i) = i + ChunkSize - 1
    OBVIOUS
  <2> HIDE DEF Stop
  <2>3. SubSeq(copies, i, Stop(i)) \in Seq(CopySet)
    BY <1>2, <2>1
  <2>4. /\ Len(SubSeq(copies, i, Stop(i))) = Stop(i) - i + 1
        /\ \A k \in 1..(Stop(i) - i + 1) : SubSeq(copies, i, Stop(i))[k] = copies[i + k - 1]
    BY <1>2, <2>1
  <2> QED BY <2>1, <2>2, <2>3, <2>4
<1> HIDE DEF Stop
<1>4. ASSUME NEW i \in Starts
      PROVE  /\ SubSeq(copies, i, Stop(i)) \in Seq(CopySet) \ {<<>>}
             /\ Range(SubSeq(copies, i, Stop(i))) \subseteq Range(copies)
  <2> DEFINE c == SubSeq(copies, i, Stop(i))
  <2>1. c \in Seq(CopySet) /\ Len(c) = Stop(i) - i + 1 /\ Stop(i) \in i..Len(copies)
           /\ i \in 1..Len(copies)
    BY <1>3
  <2>2. \A k \in 1..Len(c) : c[k] = copies[i + k - 1]
    BY <1>3, <2>1
  <2> HIDE DEF c
  <2>3. \A k \in 1..Len(c) : i + k - 1 \in 1..Len(copies)
    BY <1>2, <2>1
  <2>4. Range(c) \subseteq Range(copies)
    BY <1>2, <2>1, <2>2, <2>3 DEF Range
  <2>5. c /= <<>>
    BY <1>2, <2>1
  <2> QED BY <2>1, <2>4, <2>5 DEF c
<1>5. ASSUME NEW x \in Range(copies)
      PROVE  \E i \in Starts : x \in Range(SubSeq(copies, i, Stop(i)))
  <2>1. PICK k \in 1..Len(copies) : copies[k] = x
    BY <1>2 DEF Range
  <2>2. PICK i \in 1..k : (i - 1) % ChunkSize = 0 /\ k <= i + ChunkSize - 1
    <3>1. k \in Nat \ {0}
      BY <1>2
    <3> QED BY <1>2, <3>1, ChunkStart
  <2>3. i \in 1..Len(copies)
    BY <1>2
  <2>4. i \in Starts
    BY <2>2, <2>3
  <2> DEFINE c == SubSeq(copies, i, Stop(i))
             m == k - i + 1
  <2>5. /\ Stop(i) \in i..Len(copies)
        /\ Stop(i) = Len(copies) \/ Stop(i) = i + ChunkSize - 1
        /\ c \in Seq(CopySet) /\ Len(c) = Stop(i) - i + 1
        /\ \A kk \in 1..(Stop(i) - i + 1) : c[kk] = copies[i + kk - 1]
    BY <1>3, <2>3
  <2> HIDE DEF c
  <2>6. m \in 1..(Stop(i) - i + 1) /\ i + m - 1 = k
    BY <1>2, <2>2, <2>5
  <2>7. c[m] = x
    BY <2>1, <2>5, <2>6
  <2>8. m \in DOMAIN c
    BY <2>5, <2>6
  <2>9. x \in Range(c)
    BY <2>7, <2>8 DEF Range
  <2> QED BY <2>4, <2>9 DEF c
<1> QED BY <1>1, <1>4, <1>5

\* Whether it stays in the request or is cut for the workers, every copy is
\* handed to somebody.
LEMMA Handed ==
    ASSUME NEW kind \in Kinds, NEW copies \in Seq(CopySet), NEW stage \in Stages,
           async \in BOOLEAN, uploads \in Nat
    PROVE  /\ Inline(kind, copies) \in Seq(Done) /\ Len(Inline(kind, copies)) <= 1
           /\ Queued(kind, copies, stage) \subseteq Tasks
           /\ \A t \in Queued(kind, copies, stage) : t.kind = kind
           /\ ~Apart(copies) => Queued(kind, copies, stage) = {}
           /\ Pairs(Range(Inline(kind, copies)) \cup Queued(kind, copies, stage))
                  = {<<kind, c>> : c \in Range(copies)}
<1> DEFINE J == Range(Inline(kind, copies)) \cup Queued(kind, copies, stage)
<1>1. CASE Apart(copies)
  <2>1. /\ Inline(kind, copies) = <<>>
        /\ Queued(kind, copies, stage) =
              {[kind |-> kind, copies |-> c, of |-> <<uploads, stage>>] : c \in chunk_list(copies)}
    BY <1>1 DEF Inline, Queued
  <2>2. Queued(kind, copies, stage) \subseteq Tasks
    BY <2>1, ChunksCover DEF Tasks
  <2>3. J = Queued(kind, copies, stage)
    BY <2>1 DEF Range
  <2>4. Pairs(J) = {<<kind, c>> : c \in Range(copies)}
    <3>1. ASSUME NEW w \in Pairs(J)
          PROVE  w \in {<<kind, c>> : c \in Range(copies)}
      <4>1. PICK j \in J : w \in {<<j.kind, c>> : c \in Range(j.copies)}
        BY DEF Pairs
      <4>2. PICK c \in chunk_list(copies) : j = [kind |-> kind, copies |-> c, of |-> <<uploads, stage>>]
        BY <2>1, <2>3
      <4> QED BY <4>1, <4>2, ChunksCover
    <3>2. ASSUME NEW x \in Range(copies)
          PROVE  <<kind, x>> \in Pairs(J)
      <4>1. PICK c \in chunk_list(copies) : x \in Range(c)
        BY ChunksCover
      <4> DEFINE j == [kind |-> kind, copies |-> c, of |-> <<uploads, stage>>]
      <4>2. j \in J /\ j.kind = kind /\ j.copies = c
        BY <2>1, <2>3
      <4> HIDE DEF j
      <4> QED BY <4>1, <4>2 DEF Pairs
    <3> QED BY <3>1, <3>2
  <2> QED BY <1>1, <2>1, <2>2, <2>4
<1>2. CASE ~Apart(copies)
  <2> DEFINE d == [kind |-> kind, copies |-> copies]
  <2>1. Inline(kind, copies) = <<d>> /\ Queued(kind, copies, stage) = {}
    BY <1>2 DEF Inline, Queued
  <2>2. d \in Done /\ d.kind = kind /\ d.copies = copies
    BY DEF Done
  <2> HIDE DEF d
  <2>3. Range(<<d>>) = {d}
    BY DEF Range
  <2>4. Pairs(J) = {<<kind, c>> : c \in Range(copies)}
    BY <2>1, <2>2, <2>3 DEF Pairs
  <2> QED BY <2>1, <2>2, <2>4
<1> QED BY <1>1, <1>2

\* Saving the first copy of a job takes it, and no other, off the work.
LEMMA Saving ==
    ASSUME NEW J, NEW K, NEW j \in J, j.copies \in Seq(CopySet) \ {<<>>},
           NEW rest, rest.kind = j.kind, rest.copies = Tail(j.copies),
           \/ K = (J \ {j}) \cup {rest}
           \/ rest.copies = <<>> /\ K = J \ {j}
    PROVE  LET w == <<j.kind, Head(j.copies)>> IN
           /\ w \in Pairs(J)
           /\ Pairs(K) \subseteq Pairs(J)
           /\ Pairs(J) \ {w} \subseteq Pairs(K)
<1> DEFINE w == <<j.kind, Head(j.copies)>>
           s == j.copies
<1>1. Len(s) \in Nat \ {0} /\ DOMAIN s = 1..Len(s) /\ Head(s) = s[1]
  OBVIOUS
<1>2. /\ Len(Tail(s)) = Len(s) - 1 /\ DOMAIN Tail(s) = 1..(Len(s) - 1)
      /\ \A i \in 1..(Len(s) - 1) : Tail(s)[i] = s[i + 1]
  BY <1>1
<1>3. Head(s) \in Range(s)
  BY <1>1 DEF Range
<1>4. Range(Tail(s)) \subseteq Range(s)
  BY <1>1, <1>2 DEF Range
<1>5. \A c \in Range(s) : c = Head(s) \/ c \in Range(Tail(s))
  <2> SUFFICES ASSUME NEW i \in 1..Len(s), i /= 1
               PROVE  s[i] \in Range(Tail(s))
    BY <1>1 DEF Range
  <2>1. i - 1 \in 1..(Len(s) - 1) /\ (i - 1) + 1 = i
    BY <1>1
  <2> QED BY <1>2, <2>1 DEF Range
<1>6. Tail(s) = <<>> => Range(Tail(s)) = {}
  <2>1. Range(<<>>) = {}
    BY DEF Range
  <2> QED BY <2>1
<1> HIDE DEF s
<1>7. w \in Pairs(J)
  BY <1>3 DEF Pairs, s
<1>8. Pairs(K) \subseteq Pairs(J)
  BY <1>4 DEF Pairs, s
<1>9. Pairs(J) \ {w} \subseteq Pairs(K)
  <2> SUFFICES ASSUME NEW i \in J, NEW c \in Range(i.copies), <<i.kind, c>> /= w
               PROVE  <<i.kind, c>> \in Pairs(K)
    BY DEF Pairs
  <2>1. CASE i /= j
    BY <2>1 DEF Pairs
  <2>2. CASE i = j
    <3>1. c \in Range(Tail(s))
      BY <1>5, <2>2 DEF s
    <3>2. rest \in K
      BY <1>6, <3>1 DEF s
    <3> QED BY <2>2, <3>1, <3>2 DEF Pairs, s
  <2> QED BY <2>1, <2>2
<1> QED BY <1>7, <1>8, <1>9

-----------------------------------------------------------------------------
(* Steps that save a row. *)

\* What waits is a copy with the kind of its job.
LEMMA WaitingTyped ==
    ASSUME TypeOK
    PROVE  Waiting \subseteq Kinds \X CopySet
<1>1. ASSUME NEW j \in tasks \cup (IF upload = None THEN {} ELSE Range(upload.inline))
      PROVE  j.kind \in Kinds /\ j.copies \in Seq(CopySet)
  <2>1. CASE j \in tasks
    BY <2>1 DEF TypeOK, Tasks
  <2>2. CASE upload /= None /\ j \in Range(upload.inline)
    <3>1. upload.inline \in Seq(Done)
      BY <2>2 DEF TypeOK, UploadSet
    <3>2. j \in Done
      BY <2>2, <3>1 DEF Range
    <3> QED BY <3>2 DEF Done
  <2> QED BY <1>1, <2>1, <2>2
<1>2. \A s \in Seq(CopySet) : Range(s) \subseteq CopySet
  BY DEF Range
<1> QED BY <1>1, <1>2 DEF Waiting, Pairs

\* w is saved, and is off the work unless another job has it too.
SavedNow(w) ==
    /\ w \in Waiting
    /\ Waiting' \subseteq Waiting
    /\ Waiting \ {w} \subseteq Waiting'
    /\ row' = [row EXCEPT ![w[2].at] = Saved(w[1], w[2])]

\* Jobs of two sets wait together.
LEMMA PairsUnion ==
    ASSUME NEW J, NEW K
    PROVE  Pairs(J \cup K) = Pairs(J) \cup Pairs(K)
BY DEF Pairs

\* A step of a task.
LEMMA WorkSaves ==
    ASSUME TypeOK, NEW job \in tasks, Work(job)
    PROVE  /\ \E w \in Waiting : SavedNow(w)
           /\ tasks' \subseteq Tasks
           /\ \A t \in tasks' : \E u \in tasks : t.kind = u.kind
<1> DEFINE rest == [job EXCEPT !.copies = Tail(@)]
           w == <<job.kind, Head(job.copies)>>
           U == Pairs(IF upload = None THEN {} ELSE Range(upload.inline))
<1>1. job \in Tasks /\ job.copies \in Seq(CopySet) \ {<<>>}
  BY DEF TypeOK, Tasks
<1>2. /\ rest.kind = job.kind /\ rest.copies = Tail(job.copies)
      /\ rest.copies /= <<>> => rest \in Tasks
  <2>1. job \in [kind : Kinds, copies : Seq(CopySet), of : Nat \X Stages]
           /\ Tail(job.copies) \in Seq(CopySet)
    BY <1>1 DEF Tasks
  <2>2. /\ rest \in [kind : Kinds, copies : Seq(CopySet), of : Nat \X Stages]
        /\ rest.kind = job.kind /\ rest.copies = Tail(job.copies)
    BY <2>1
  <2> HIDE DEF rest
  <2>3. rest.copies /= <<>> => rest \in Tasks
    BY <2>2 DEF Tasks
  <2> QED BY <2>2, <2>3
<1>3. /\ row' = [row EXCEPT ![Head(job.copies).at] = Saved(job.kind, Head(job.copies))]
      /\ tasks' = (tasks \ {job}) \cup (IF rest.copies = <<>> THEN {} ELSE {rest})
      /\ upload' = upload
  BY DEF Work
<1> HIDE DEF rest
<1>4. \/ tasks' = (tasks \ {job}) \cup {rest}
      \/ rest.copies = <<>> /\ tasks' = tasks \ {job}
  <2>1. CASE rest.copies = <<>>
    BY <1>3, <2>1
  <2>2. CASE rest.copies /= <<>>
    BY <1>3, <2>2
  <2> QED BY <2>1, <2>2
<1>5. w \in Pairs(tasks) /\ Pairs(tasks') \subseteq Pairs(tasks) /\ Pairs(tasks) \ {w} \subseteq Pairs(tasks')
  BY <1>1, <1>2, <1>4, Saving
<1>6. Waiting = Pairs(tasks) \cup U /\ Waiting' = Pairs(tasks') \cup U
  BY <1>3, PairsUnion DEF Waiting
<1>7. row' = [row EXCEPT ![w[2].at] = Saved(w[1], w[2])]
  BY <1>3
<1>8. SavedNow(w)
  BY <1>5, <1>6, <1>7 DEF SavedNow
<1>9. tasks' \subseteq Tasks /\ \A t \in tasks' : \E u \in tasks : t.kind = u.kind
  BY <1>2, <1>3 DEF TypeOK
<1> QED BY <1>5, <1>6, <1>8, <1>9

\* A list of one job.
LEMMA OneJob ==
    ASSUME NEW s \in Seq(Done), s /= <<>>, Len(s) <= 1
    PROVE  \E d \in Done : s = <<d>>
<1>1. s \in Seq(Done) \ {<<>>}
  OBVIOUS
<1>2. Len(s) \in Nat \ {0}
  BY <1>1
<1>3. Len(s) = 1
  BY <1>2
<1> QED BY <1>3

\* What the request does itself is a job of its kind.
LEMMA InlineTyped ==
    ASSUME NEW u \in UploadSet, NEW s \in Seq(Done)
    PROVE  [u EXCEPT !.inline = s] \in UploadSet /\ [u EXCEPT !.inline = s].inline = s
BY DEF UploadSet

\* A step of a job the upload does itself; nothing else of the upload moves.
LEMMA WorkInlineSaves ==
    ASSUME TypeOK, WorkInline
    PROVE  /\ \/ UNCHANGED <<row, Waiting>>
              \/ \E w \in Waiting : SavedNow(w)
           /\ upload /= None /\ upload' \in UploadSet /\ Len(upload'.inline) <= 1
           /\ \E s : upload' = [upload EXCEPT !.inline = s]
           /\ upload.inline /= <<>>
           /\ UNCHANGED <<async, finding, tasks, uploads, told, own>>
<1> DEFINE job == Head(upload.inline)
           rest == [job EXCEPT !.copies = Tail(@)]
           w == <<job.kind, Head(job.copies)>>
<1>1. /\ upload /= None /\ upload.inline /= <<>>
      /\ UNCHANGED <<async, finding, tasks, uploads, told, own>>
  BY DEF WorkInline
<1>2. PICK d \in Done : upload.inline = <<d>>
  <2>0. upload \in UploadSet /\ Len(upload.inline) <= 1
    BY <1>1 DEF TypeOK
  <2>1. upload.inline \in Seq(Done)
    BY <2>0 DEF UploadSet
  <2> QED BY <1>1, <2>0, <2>1, OneJob
<1>3. job = d /\ Range(upload.inline) = {d} /\ Tail(upload.inline) = <<>>
  BY <1>2 DEF Range
<1>4. upload \in UploadSet
  BY <1>1 DEF TypeOK
<1>5. Range(<<>>) = {} /\ \A x : Range(<<x>>) = {x}
  BY DEF Range
<1>6. CASE job.copies = <<>>
  <2>1. upload' = [upload EXCEPT !.inline = <<>>] /\ row' = row
    BY <1>3, <1>6 DEF WorkInline
  <2>2. upload' \in UploadSet /\ upload'.inline = <<>> /\ Len(upload'.inline) = 0
    <3>1. <<>> \in Seq(Done) /\ Len(<<>>) = 0
      OBVIOUS
    <3> QED BY <1>4, <2>1, <3>1, InlineTyped
  <2>3. Pairs({d}) = {} /\ Pairs({}) = {}
    BY <1>3, <1>5, <1>6 DEF Pairs
  <2>4. Waiting = Pairs(tasks) \cup Pairs({d})
    BY <1>1, <1>3, PairsUnion DEF Waiting
  <2>5. Waiting' = Pairs(tasks) \cup Pairs({})
    BY <1>1, <1>5, <2>2, NoneAssumption, PairsUnion DEF Waiting
  <2>6. Waiting' = Waiting
    BY <2>3, <2>4, <2>5
  <2>7. Len(upload'.inline) <= 1
    BY <2>2
  <2> QED BY <1>1, <2>1, <2>2, <2>6, <2>7
<1>7. CASE job.copies /= <<>>
  <2>1. /\ upload' = [upload EXCEPT !.inline = <<rest>>]
        /\ row' = [row EXCEPT ![Head(job.copies).at] = Saved(job.kind, Head(job.copies))]
    BY <1>7 DEF WorkInline
  <2>2. /\ rest \in Done /\ rest.kind = job.kind /\ rest.copies = Tail(job.copies)
        /\ job.copies \in Seq(CopySet) \ {<<>>}
    <3>1. job \in Done /\ job.copies \in Seq(CopySet) \ {<<>>}
      BY <1>3, <1>7 DEF Done
    <3>2. Tail(job.copies) \in Seq(CopySet)
      BY <3>1
    <3> QED BY <3>1, <3>2 DEF Done
  <2> HIDE DEF rest
  <2>3. upload' \in UploadSet /\ upload'.inline = <<rest>> /\ Len(upload'.inline) = 1
    <3>1. <<rest>> \in Seq(Done) /\ Len(<<rest>>) = 1
      BY <2>2
    <3> QED BY <1>4, <2>1, <3>1, InlineTyped
  <2>4. /\ w \in Pairs({d}) /\ Pairs({rest}) \subseteq Pairs({d})
        /\ Pairs({d}) \ {w} \subseteq Pairs({rest})
    <3>1. {rest} = ({d} \ {d}) \cup {rest}
      OBVIOUS
    <3> QED BY <1>3, <2>2, <3>1, Saving
  <2>5. Waiting = Pairs(tasks) \cup Pairs({d})
    BY <1>1, <1>3, PairsUnion DEF Waiting
  <2>6. Waiting' = Pairs(tasks) \cup Pairs({rest})
    BY <1>1, <1>5, <2>3, NoneAssumption, PairsUnion DEF Waiting
  <2>8. row' = [row EXCEPT ![w[2].at] = Saved(w[1], w[2])]
    BY <2>1
  <2>9. w \in Waiting /\ SavedNow(w)
    BY <2>4, <2>5, <2>6, <2>8 DEF SavedNow
  <2>10. Len(upload'.inline) <= 1
    BY <2>3
  <2> QED BY <1>1, <2>1, <2>3, <2>9, <2>10
<1> QED BY <1>6, <1>7

\* What the save of a copy does to the rows.
LEMMA SavedRow ==
    ASSUME TypeOK, TaskInv, NEW w, SavedNow(w)
    PROVE  LET l == w[2].at IN
           /\ w[1] \in Kinds /\ l \in Locations
           /\ row' \in [Locations -> Rows \cup {None}]
           /\ \A x \in Locations \ {l} : row'[x] = row[x]
           /\ row[l] /= None \/ w[1] = "add" => row'[l] /= None
           /\ w[1] = "mitigate" => row'[l] = row[l] \/ row'[l].mitigated
           /\ w[1] = "mitigate" /\ ~w[2].row.mitigated => row'[l].mitigated
           /\ w[1] = "reactivate" => row'[l] = row[l] \/ ~row'[l].mitigated
           /\ w[1] = "reactivate" /\ w[2].row.mitigated => ~row'[l].mitigated
           /\ w[1] = "add" => row'[l] = row[l] \/ ~row'[l].mitigated
<1> DEFINE kind == w[1]
           c == w[2]
           l == c.at
<1>1. /\ kind \in Kinds /\ c \in CopySet
      /\ kind /= "add" => c.row \in Rows
      /\ row' = [row EXCEPT ![l] = Saved(kind, c)]
  BY WaitingTyped DEF SavedNow, TaskInv
<1> HIDE DEF kind, c
<1>2. l \in Locations /\ row \in [Locations -> Rows \cup {None}]
  BY <1>1 DEF CopySet, TypeOK
<1>3. row'[l] = Saved(kind, c) /\ \A x \in Locations \ {l} : row'[x] = row[x]
  BY <1>1, <1>2
<1>4. CASE kind = "mitigate"
  <2>1. Saved(kind, c) = IF c.row.mitigated THEN row[l] ELSE [c.row EXCEPT !.mitigated = TRUE]
    BY <1>4 DEF Saved
  <2>2. [c.row EXCEPT !.mitigated = TRUE] \in Rows /\ [c.row EXCEPT !.mitigated = TRUE].mitigated
    BY <1>1, <1>4 DEF Rows
  <2> QED BY <1>1, <1>2, <1>3, <1>4, <2>1, <2>2, NoneAssumption DEF kind, c
<1>5. CASE kind = "reactivate"
  <2>1. Saved(kind, c) = IF c.row.mitigated THEN [c.row EXCEPT !.mitigated = FALSE] ELSE row[l]
    BY <1>5 DEF Saved
  <2>2. [c.row EXCEPT !.mitigated = FALSE] \in Rows /\ ~[c.row EXCEPT !.mitigated = FALSE].mitigated
    BY <1>1, <1>5 DEF Rows
  <2> QED BY <1>1, <1>2, <1>3, <1>5, <2>1, <2>2, NoneAssumption DEF kind, c
<1>6. CASE kind = "add"
  <2> DEFINE new == [mitigated |-> FALSE, flagged |-> FALSE]
  <2>1. Saved(kind, c) = IF row[l] = None THEN new ELSE row[l]
    BY <1>6 DEF Saved
  <2>2. new \in Rows /\ ~new.mitigated
    BY DEF Rows
  <2> HIDE DEF new
  <2> QED BY <1>1, <1>2, <1>3, <1>6, <2>1, <2>2, NoneAssumption DEF kind, c
<1> QED BY <1>1, <1>4, <1>5, <1>6 DEF Kinds

\* An endpoint that is aimed at is there already, or will be added.
Unsaid == upload /= None /\ upload.said = None

\* Saving a copy disturbs neither aim: it is the work that was left for it.
LEMMA SavingKeepsAims ==
    ASSUME TypeOK, UploadInv, TaskInv, OpenInv, ShutInv, NEW w, SavedNow(w),
           OpenAim' = OpenAim, ShutAim' = ShutAim, Gone' = Gone, own' = own,
           Unsaid' = Unsaid
    PROVE  OpenInv' /\ ShutInv'
<1> DEFINE at == w[2].at
<1>1. /\ w[1] \in Kinds /\ at \in Locations
      /\ \A x \in Locations \ {at} : row'[x] = row[x]
      /\ row[at] /= None \/ w[1] = "add" => row'[at] /= None
      /\ w[1] = "mitigate" => row'[at] = row[at] \/ row'[at].mitigated
      /\ w[1] = "mitigate" /\ ~w[2].row.mitigated => row'[at].mitigated
      /\ w[1] = "reactivate" => row'[at] = row[at] \/ ~row'[at].mitigated
      /\ w[1] = "reactivate" /\ w[2].row.mitigated => ~row'[at].mitigated
      /\ w[1] = "add" => row'[at] = row[at] \/ ~row'[at].mitigated
  BY SavedRow
<1>2. w \in Waiting /\ Waiting' \subseteq Waiting /\ Waiting \ {w} \subseteq Waiting'
  BY DEF SavedNow
<1>3. OpenAim \subseteq Locations /\ ShutAim \subseteq Locations
  BY DEF OpenAim, ShutAim, TypeOK, UploadInv, Items, UploadSet, Aimed, Aim
<1>4. ASSUME NEW l \in OpenAim \ own
      PROVE  /\ \A v \in Waiting' : v[2].at = l => v[1] /= "mitigate"
             /\ \A c \in Gone : c.at /= l
             /\ \/ row'[l] = None
                \/ ~row'[l].mitigated
                \/ \E v \in Waiting' : v[1] = "reactivate" /\ v[2].at = l /\ v[2].row.mitigated
             /\ \/ row'[l] /= None
                \/ \E v \in Waiting' : v[1] = "add" /\ v[2].at = l
                \/ Unsaid
  <2>1. /\ \A v \in Waiting : v[2].at = l => v[1] /= "mitigate"
        /\ \A c \in Gone : c.at /= l
        /\ \/ row[l] = None
           \/ ~row[l].mitigated
           \/ \E v \in Waiting : v[1] = "reactivate" /\ v[2].at = l /\ v[2].row.mitigated
        /\ \/ row[l] /= None
           \/ \E v \in Waiting : v[1] = "add" /\ v[2].at = l
           \/ Unsaid
    BY <1>4 DEF OpenInv, Unsaid
  <2>2. CASE l /= at
    BY <1>1, <1>2, <1>3, <2>1, <2>2
  <2>3. CASE l = at
    <3>1. w[1] \in {"reactivate", "add"}
      BY <1>1, <1>2, <2>1, <2>3 DEF Kinds
    <3>2. \/ row'[l] = None
          \/ ~row'[l].mitigated
          \/ \E v \in Waiting' : v[1] = "reactivate" /\ v[2].at = l /\ v[2].row.mitigated
      BY <1>1, <1>2, <2>1, <2>3, <3>1
    <3>3. \/ row'[l] /= None
          \/ \E v \in Waiting' : v[1] = "add" /\ v[2].at = l
          \/ Unsaid
      BY <1>1, <1>2, <2>1, <2>3
    <3> QED BY <1>2, <2>1, <3>2, <3>3
  <2> QED BY <2>2, <2>3
<1>5. ASSUME NEW l \in ShutAim \ own
      PROVE  /\ \A v \in Waiting' : v[2].at = l => v[1] = "mitigate"
             /\ \/ row'[l] = None
                \/ row'[l].mitigated
                \/ \E v \in Waiting' : v[1] = "mitigate" /\ v[2].at = l /\ ~v[2].row.mitigated
                \/ \E c \in Gone : c.at = l /\ ~c.row.mitigated
  <2>1. /\ \A v \in Waiting : v[2].at = l => v[1] = "mitigate"
        /\ \/ row[l] = None
           \/ row[l].mitigated
           \/ \E v \in Waiting : v[1] = "mitigate" /\ v[2].at = l /\ ~v[2].row.mitigated
           \/ \E c \in Gone : c.at = l /\ ~c.row.mitigated
    BY <1>5 DEF ShutInv
  <2>2. CASE l /= at
    BY <1>1, <1>2, <1>3, <2>1, <2>2
  <2>3. CASE l = at
    <3>1. w[1] = "mitigate"
      BY <1>2, <2>1, <2>3
    <3> QED BY <1>1, <1>2, <2>1, <2>3, <3>1
  <2> QED BY <2>2, <2>3
<1>6. OpenInv'
  BY <1>4 DEF OpenInv, Unsaid
<1>7. ShutInv'
  BY <1>5 DEF ShutInv
<1> QED BY <1>6, <1>7

-----------------------------------------------------------------------------
(* Steps of the upload.  First those that leave rows and tasks alone. *)

\* What waits, and what is gone, stays when the jobs do.
LEMMA WorkSame ==
    ASSUME upload /= None, upload' /= None, tasks' = tasks,
           upload'.inline = upload.inline, upload'.gone = upload.gone
    PROVE  Waiting' = Waiting /\ Gone' = Gone
BY DEF Waiting, Gone

\* When the rows, the jobs and the aims stay, so does what they have to do with one another.
LEMMA AimsSame ==
    ASSUME OpenInv, ShutInv, row' = row, own' = own, Waiting' = Waiting, Gone' = Gone,
           OpenAim' = OpenAim, ShutAim' = ShutAim, Unsaid' = Unsaid
    PROVE  OpenInv' /\ ShutInv'
BY DEF OpenInv, ShutInv, Unsaid

\* Without an aim there is nothing to keep.
LEMMA NoAims ==
    ASSUME OpenAim' = {}, ShutAim' = {}
    PROVE  OpenInv' /\ ShutInv'
BY DEF OpenInv, ShutInv

\* A new upload has no aim yet, and shares the queue with older tasks only if
\* nothing is promised.
LEMMA ScanKeeps ==
    ASSUME Inv, reimport_scan
    PROVE  Inv'
<1> USE DEF Inv
<1>1. PICK items \in Reports, elsewhere, close_old, dnr \in BOOLEAN :
        /\ elsewhere => async
        /\ upload' = [item |-> IF items = <<>> THEN None ELSE Head(items),
                      rest |-> IF items = <<>> THEN <<>> ELSE Tail(items),
                      close_old |-> close_old, do_not_reactivate |-> dnr,
                      stage |-> IF items = <<>> THEN "collect" ELSE "match",
                      found |-> None, listed |-> FALSE, late |-> FALSE, said |-> None,
                      before |-> IF items = <<>> /\ async THEN None ELSE finding,
                      elsewhere |-> elsewhere, inline |-> <<>>, gone |-> <<>>,
                      left |-> {}, closed |-> FALSE]
  BY DEF reimport_scan
<1>2. /\ upload = None
      /\ uploads' = uploads + 1
      /\ own' = IF tasks = {} THEN {} ELSE Locations
      /\ told' = Silent
      /\ UNCHANGED <<async, finding, row, tasks>>
  BY DEF reimport_scan
<1> DEFINE item == IF items = <<>> THEN None ELSE Head(items)
           rest == IF items = <<>> THEN <<>> ELSE Tail(items)
<1>0. /\ item \in Items \cup {None} /\ rest \in Seq(Items)
      /\ items /= <<>> => item \in Items
      /\ items = <<>> => rest = <<>>
  BY ReportsAssumption
<1>3. /\ upload'.item = item /\ upload'.rest = rest
      /\ upload'.stage = IF items = <<>> THEN "collect" ELSE "match"
      /\ ~upload'.late /\ upload'.said = None /\ ~upload'.closed
      /\ upload'.before \in Status \cup {None}
      /\ finding = None => upload'.before = None
      /\ upload'.inline = <<>> /\ upload'.gone = <<>> /\ upload'.left = {}
  BY <1>1 DEF TypeOK
<1>4. upload' \in UploadSet
  <2>1. <<>> \in Seq(Done) /\ <<>> \in Seq(CopySet)
    OBVIOUS
  <2>2. (IF items = <<>> /\ async THEN None ELSE finding) \in Status \cup {None}
    BY DEF TypeOK
  <2> HIDE DEF item, rest
  <2>3. upload' = [item |-> item, rest |-> rest,
                      close_old |-> close_old, do_not_reactivate |-> dnr,
                      stage |-> IF items = <<>> THEN "collect" ELSE "match",
                      found |-> None, listed |-> FALSE, late |-> FALSE, said |-> None,
                      before |-> IF items = <<>> /\ async THEN None ELSE finding,
                      elsewhere |-> elsewhere, inline |-> <<>>, gone |-> <<>>,
                      left |-> {}, closed |-> FALSE]
    BY <1>1 DEF item, rest
  <2> QED BY <1>0, <2>1, <2>2, <2>3 DEF UploadSet, Stages
<1> HIDE DEF item, rest
<1>5. upload' /= None
  BY <1>4, NoneAssumption
<1>6. TypeOK'
  BY <1>2, <1>3, <1>4 DEF TypeOK, Silent
<1>7. Waiting' = Waiting
  <2>1. Range(<<>>) = {}
    BY DEF Range
  <2> QED BY <1>2, <1>3, <1>5, <2>1 DEF Waiting
<1>8. ~Aimed' /\ OpenAim' = {} /\ ShutAim' = {}
  BY <1>3, <1>5 DEF Aimed, Aim, OpenAim, ShutAim
<1>9. UploadInv'
  BY <1>0, <1>2, <1>3, <1>5 DEF UploadInv
<1>10. TaskInv'
  <2>1. Gone' = {}
    BY <1>3, <1>5 DEF Gone, Range
  <2> QED BY <1>2, <1>3, <1>7, <2>1 DEF TaskInv
<1>11. FindingInv'
  BY <1>2, <1>3 DEF FindingInv
<1> QED BY <1>6, <1>8, <1>9, <1>10, <1>11, NoAims

\* Another chunk starts, with the findings of now.
LEMMA StartKeeps ==
    ASSUME Inv, StartElsewhere
    PROVE  Inv'
<1> USE DEF Inv
<1> DEFINE left == LeftOver("elsewhere", finding)
<1>1. /\ upload /= None
      /\ upload' = [upload EXCEPT !.elsewhere = FALSE, !.left = left]
      /\ UNCHANGED <<async, finding, row, tasks, uploads, told, own>>
  BY DEF StartElsewhere
<1>2. left \subseteq {"here", "elsewhere"} \X Status /\ (finding = None => left = {})
  BY DEF LeftOver, TypeOK
<1> HIDE DEF left
<1>3. upload \in UploadSet
  BY <1>1 DEF TypeOK
<1>4. /\ upload' \in UploadSet
      /\ upload'.left = left
      /\ UNCHANGED <<upload.item, upload.rest, upload.stage, upload.found, upload.late, upload.said,
                     upload.before, upload.inline, upload.gone, upload.closed>>
  BY <1>1, <1>2, <1>3 DEF UploadSet
<1>5. upload' /= None
  BY <1>4, NoneAssumption
<1>6. TypeOK'
  BY <1>1, <1>4 DEF TypeOK
<1>7. Waiting' = Waiting /\ Gone' = Gone
  BY <1>1, <1>4, <1>5, WorkSame
<1>8. Aimed' = Aimed /\ OpenAim' = OpenAim /\ ShutAim' = ShutAim /\ Unsaid' = Unsaid
  BY <1>1, <1>4, <1>5 DEF Aimed, Aim, OpenAim, ShutAim, Unsaid
<1>9. UploadInv'
  BY <1>1, <1>4, <1>5 DEF UploadInv
<1>10. TaskInv'
  BY <1>1, <1>4, <1>5, <1>7, <1>8 DEF TaskInv
<1>11. FindingInv'
  BY <1>1, <1>2, <1>4 DEF FindingInv
<1> QED BY <1>1, <1>6, <1>7, <1>8, <1>9, <1>10, <1>11, AimsSame

\* The loop goes on with the next item, or ends.
LEMMA NextItemMoves ==
    ASSUME NEW u \in UploadSet, u.rest /= <<>> => u.item \in Items
    PROVE  LET n == NextItem(u) IN
           /\ n \in UploadSet
           /\ n.stage \in {"match", "collect"}
           /\ n.stage = "match" \/ n.rest /= <<>> => n.item \in Items
           /\ n.item = None \/ u.item \in Items => n.item = u.item \/ n.item \in Items
           /\ n.item = None => u.item = None
           /\ n.found = u.found /\ n.late = u.late /\ n.said = u.said /\ n.before = u.before
           /\ n.inline = u.inline /\ n.gone = u.gone /\ n.left = u.left /\ n.closed = u.closed
<1>1. u.rest \in Seq(Items) /\ u.item \in Items \cup {None} /\ "collect" \in Stages /\ "match" \in Stages
  BY DEF UploadSet, Stages
<1>2. CASE u.rest = <<>>
  <2>1. NextItem(u) = [u EXCEPT !.stage = "collect"]
    BY <1>2 DEF NextItem
  <2> QED BY <1>1, <1>2, <2>1 DEF UploadSet
<1>3. CASE u.rest /= <<>>
  <2> DEFINE head == Head(u.rest)
             tail == Tail(u.rest)
  <2>1. head \in Items /\ tail \in Seq(Items)
    BY <1>1, <1>3
  <2>2. NextItem(u) = [u EXCEPT !.stage = "match", !.item = head, !.rest = tail]
    BY <1>3 DEF NextItem
  <2> HIDE DEF head, tail
  <2>3. head /= None
    BY <2>1, NoneAssumption
  <2> QED BY <1>1, <2>1, <2>2, <2>3 DEF UploadSet
<1> QED BY <1>2, <1>3

\* The upload goes on to the next item, and what it has said stands.
LEMMA NextItemKeeps ==
    ASSUME Inv, upload /= None, upload.inline = <<>>, upload.gone = <<>>,
           upload.stage \in {"match", "save"},
           NEW u \in UploadSet, upload' = NextItem(u),
           u.item = upload.item, u.rest = upload.rest, u.late = upload.late,
           u.said = upload.said, u.before = upload.before, u.inline = upload.inline,
           u.gone = upload.gone, u.left = upload.left, u.closed = upload.closed,
           finding' \in Status,
           UNCHANGED <<async, row, tasks, uploads, told, own>>
    PROVE  Inv'
<1> USE DEF Inv
<1>1. /\ upload.item \in Items /\ told = Silent /\ ~upload.closed
      /\ upload.stage = "match" \/ upload.said /= None
  BY DEF UploadInv
<1>2. /\ upload' \in UploadSet
      /\ upload'.stage \in {"match", "collect"}
      /\ upload'.stage = "match" \/ upload'.rest /= <<>> => upload'.item \in Items
      /\ upload'.item \in Items
      /\ UNCHANGED <<upload.late, upload.said, upload.before, upload.inline, upload.gone,
                     upload.left, upload.closed>>
  BY <1>1, NextItemMoves
<1>3. upload' /= None /\ upload'.item /= None
  BY <1>2, NoneAssumption
<1>4. TypeOK'
  BY <1>2 DEF TypeOK
<1>5. Waiting' = Waiting /\ Gone' = Gone
  BY <1>2, <1>3, WorkSame
<1>6. Aimed' = Aimed /\ (Aimed <=> upload.said /= None) /\ (Aimed => Aim' = Aim) /\ Unsaid' = Unsaid
  BY <1>2, <1>3 DEF Aimed, Aim, Unsaid
<1>7. OpenAim' = OpenAim /\ ShutAim' = ShutAim
  BY <1>1, <1>2, <1>3, <1>6 DEF OpenAim, ShutAim
<1>8. UploadInv'
  BY <1>1, <1>2, <1>3 DEF UploadInv
<1>9. TaskInv'
  BY <1>2, <1>3, <1>5, <1>6 DEF TaskInv
<1>10. FindingInv'
  BY NoneAssumption DEF FindingInv
<1> QED BY <1>4, <1>5, <1>6, <1>7, <1>8, <1>9, <1>10, AimsSame

\* The branches of the loop: the item is left, or goes on.
LEMMA Branches ==
    ASSUME Inv, Match
    PROVE  \/ \E listed \in BOOLEAN :
                 /\ upload' = NextItem([upload EXCEPT !.listed = @ \/ listed])
                 /\ finding' = finding /\ finding /= None /\ own' = own
           \/ \E stage \in {"add", "update", "reactivate"}, found \in Status, listed \in BOOLEAN :
                 /\ upload' = [upload EXCEPT !.stage = stage, !.found = found,
                                  !.listed = @ \/ listed, !.said = None, !.late = FALSE]
                 /\ stage = "add" <=> finding = None
                 /\ finding' = IF stage \in {"add", "reactivate"} THEN found ELSE finding
                 /\ own' = IF tasks = {} THEN own ELSE Locations
<1> DEFINE Leave(listed) ==
               /\ upload' = NextItem([upload EXCEPT !.listed = @ \/ listed])
               /\ finding' = finding /\ own' = own
           Go(stage, found, listed) ==
               /\ upload' = [upload EXCEPT !.stage = stage, !.found = found,
                                !.listed = @ \/ listed, !.said = None, !.late = FALSE]
               /\ finding' = IF stage \in {"add", "reactivate"} THEN found ELSE finding
               /\ own' = IF tasks = {} THEN own ELSE Locations
           new == [mitigated |-> upload.item.fixed, rejected |-> upload.item.rejected]
           same == [finding EXCEPT !.rejected = upload.item.rejected]
<1>1. upload.item.fixed \in BOOLEAN /\ upload.item.rejected \in BOOLEAN
  BY DEF Match, At, Inv, UploadInv, Items
<1>2. new \in Status /\ Open \in Status /\ Fixed \in Status
  BY <1>1 DEF Status, Open, Fixed
<1>3. CASE finding = None
  <2>1. Go("add", new, FALSE)
    BY <1>3 DEF Match
  <2> HIDE DEF Go, new
  <2> QED BY <1>2, <1>3, <2>1 DEF Go
<1>4. CASE finding /= None
  <2>1. finding \in Status
    BY <1>4 DEF Inv, TypeOK
  <2>2. same \in Status
    BY <1>1, <2>1 DEF Status
  <2>3. \/ Leave(TRUE)
        \/ Leave(FALSE)
        \/ Go("update", finding, FALSE)
        \/ Go("reactivate", Open, TRUE)
        \/ Go("update", Fixed, FALSE)
        \/ Go("update", same, ~upload.item.rejected)
    BY <1>4 DEF Match
  <2>4. (~upload.item.rejected) \in BOOLEAN
    BY <1>1
  <2> HIDE DEF Go, Leave, same
  <2>5. ASSUME NEW b \in BOOLEAN, Leave(b)
        PROVE  \E listed \in BOOLEAN :
                 /\ upload' = NextItem([upload EXCEPT !.listed = @ \/ listed])
                 /\ finding' = finding /\ finding /= None /\ own' = own
    BY <1>4, <2>5 DEF Leave
  <2>6. ASSUME NEW stage \in {"update", "reactivate"}, NEW found \in Status,
               NEW b \in BOOLEAN, Go(stage, found, b)
        PROVE  \E st \in {"add", "update", "reactivate"}, fo \in Status, listed \in BOOLEAN :
                 /\ upload' = [upload EXCEPT !.stage = st, !.found = fo,
                                  !.listed = @ \/ listed, !.said = None, !.late = FALSE]
                 /\ st = "add" <=> finding = None
                 /\ finding' = IF st \in {"add", "reactivate"} THEN fo ELSE finding
                 /\ own' = IF tasks = {} THEN own ELSE Locations
    BY <1>4, <2>6 DEF Go
  <2>7. CASE Leave(TRUE) \/ Leave(FALSE)
    BY <2>5, <2>7
  <2>8. CASE \/ Go("update", finding, FALSE)
             \/ Go("reactivate", Open, TRUE)
             \/ Go("update", Fixed, FALSE)
             \/ Go("update", same, ~upload.item.rejected)
    BY <1>2, <2>1, <2>2, <2>4, <2>6, <2>8
  <2> QED BY <2>3, <2>7, <2>8
<1> QED BY <1>3, <1>4

\* A finding that is new is nowhere: nothing needs to be closed, and all that
\* the report lists is added.
LEMMA MatchKeeps ==
    ASSUME Inv, Match
    PROVE  Inv'
<1> USE DEF Inv
<1>1. /\ upload /= None /\ upload.stage = "match" /\ upload.inline = <<>>
      /\ UNCHANGED <<async, row, tasks, uploads, told>>
  BY DEF Match, At
<1>2. /\ upload \in UploadSet /\ upload.item \in Items
      /\ ~upload.closed /\ told = Silent /\ upload.gone = <<>>
  BY <1>1 DEF TypeOK, UploadInv
<1>3. ASSUME NEW listed \in BOOLEAN,
             upload' = NextItem([upload EXCEPT !.listed = @ \/ listed]),
             finding' = finding, finding /= None, own' = own
      PROVE  Inv'
  <2> DEFINE u == [upload EXCEPT !.listed = @ \/ listed]
  <2>1. /\ u \in UploadSet
        /\ u.item = upload.item /\ u.rest = upload.rest /\ u.late = upload.late
        /\ u.said = upload.said /\ u.before = upload.before /\ u.inline = upload.inline
        /\ u.gone = upload.gone /\ u.left = upload.left /\ u.closed = upload.closed
    BY <1>2 DEF UploadSet
  <2>2. upload' = NextItem(u) /\ finding' \in Status
    BY <1>3 DEF TypeOK
  <2> HIDE DEF u, Inv
  <2> QED BY <1>1, <1>2, <1>3, <2>1, <2>2, NextItemKeeps
<1>4. ASSUME NEW stage \in {"add", "update", "reactivate"}, NEW found \in Status,
             NEW listed \in BOOLEAN,
             upload' = [upload EXCEPT !.stage = stage, !.found = found,
                          !.listed = @ \/ listed, !.said = None, !.late = FALSE],
             stage = "add" <=> finding = None,
             finding' = IF stage \in {"add", "reactivate"} THEN found ELSE finding,
             own' = IF tasks = {} THEN own ELSE Locations
      PROVE  Inv'
  <2>1. /\ upload' \in UploadSet
        /\ upload'.stage = stage /\ upload'.found = found
        /\ upload'.said = None /\ ~upload'.late
        /\ UNCHANGED <<upload.item, upload.rest, upload.inline, upload.gone, upload.closed>>
    <3> DEFINE b == upload.listed \/ listed
    <3>1. b \in BOOLEAN /\ stage \in Stages /\ None \in Items \cup {None}
      BY <1>2 DEF UploadSet, Stages
    <3>2. upload' = [upload EXCEPT !.stage = stage, !.found = found, !.listed = b,
                                  !.said = None, !.late = FALSE]
      BY <1>4
    <3> HIDE DEF b
    <3> QED BY <1>2, <3>1, <3>2 DEF UploadSet
  <2>2. upload' /= None
    BY <2>1, NoneAssumption
  <2>3. finding' \in Status /\ finding' /= None
    BY <1>4, NoneAssumption DEF TypeOK
  <2>4. TypeOK'
    BY <1>1, <1>4, <2>1, <2>3 DEF TypeOK
  <2>5. Waiting' = Waiting /\ Gone' = Gone
    BY <1>1, <2>1, <2>2, WorkSame
  <2>6. UploadInv'
    BY <1>1, <1>2, <1>4, <2>1, <2>2 DEF UploadInv
  <2>7. TaskInv'
    BY <1>1, <1>4, <2>1, <2>5 DEF TaskInv
  <2>8. FindingInv'
    BY <2>3 DEF FindingInv
  <2>9. CASE stage /= "add"
    <3>1. OpenAim' = {} /\ ShutAim' = {}
      BY <1>2, <1>4, <2>1, <2>2, <2>9 DEF Aimed, OpenAim, ShutAim
    <3> QED BY <2>4, <2>6, <2>7, <2>8, <3>1, NoAims
  <2>10. CASE stage = "add"
    <3>1. /\ tasks = {} /\ \A l \in Locations : row'[l] = None
      BY <1>1, <1>4, <2>10 DEF FindingInv
    <3>2. Waiting = {} /\ Gone = {}
      <4>1. Range(<<>>) = {}
        BY DEF Range
      <4> QED BY <1>1, <1>2, <3>1, <4>1 DEF Waiting, Pairs, Gone
    <3>3. OpenAim' \subseteq Locations /\ ShutAim' \subseteq Locations
      BY <1>2, <2>1, <2>2 DEF OpenAim, ShutAim, Items, Aimed, Aim
    <3>4. OpenInv' /\ ShutInv'
      BY <2>1, <2>2, <2>5, <3>1, <3>2, <3>3 DEF OpenInv, ShutInv
    <3> QED BY <2>4, <2>6, <2>7, <2>8, <3>4
  <2> QED BY <2>9, <2>10
<1> HIDE DEF Inv
<1> QED BY <1>3, <1>4, Branches

-----------------------------------------------------------------------------
(* Steps that queue work, or hand it to the request itself. *)

\* The copies handed out are what is waiting on top of the tasks.
LEMMA Pushed ==
    ASSUME TypeOK, NEW kind \in Kinds, NEW copies \in Seq(CopySet), NEW stage \in Stages,
           upload /= None, upload' /= None, upload.inline = <<>>,
           upload'.inline = Inline(kind, copies),
           tasks' = tasks \cup Queued(kind, copies, stage)
    PROVE  /\ Waiting' = Waiting \cup {<<kind, c>> : c \in Range(copies)}
           /\ tasks' \subseteq Tasks
           /\ \A t \in tasks' : t \in tasks \/ t.kind = kind
           /\ ~Apart(copies) => tasks' = tasks
<1>1. async \in BOOLEAN /\ uploads \in Nat /\ tasks \subseteq Tasks
  BY DEF TypeOK
<1>2. /\ Queued(kind, copies, stage) \subseteq Tasks
      /\ \A t \in Queued(kind, copies, stage) : t.kind = kind
      /\ ~Apart(copies) => Queued(kind, copies, stage) = {}
      /\ Pairs(Range(Inline(kind, copies)) \cup Queued(kind, copies, stage))
             = {<<kind, c>> : c \in Range(copies)}
  BY <1>1, Handed
<1>3. Waiting = Pairs(tasks)
  <2>1. Range(<<>>) = {}
    BY DEF Range
  <2> QED BY <2>1 DEF Waiting
<1>4. Waiting' = Pairs(tasks \cup (Range(Inline(kind, copies)) \cup Queued(kind, copies, stage)))
  <2>1. tasks' \cup Range(upload'.inline)
          = tasks \cup (Range(Inline(kind, copies)) \cup Queued(kind, copies, stage))
    OBVIOUS
  <2> QED BY <2>1 DEF Waiting
<1>5. Waiting' = Pairs(tasks) \cup {<<kind, c>> : c \in Range(copies)}
  BY <1>2, <1>4, PairsUnion
<1> QED BY <1>1, <1>2, <1>3, <1>5

\* An upload that fails promises nothing.
LEMMA FailKeeps ==
    ASSUME Inv, upload /= None, upload' = None, upload.inline = <<>>,
           UNCHANGED <<async, finding, row, tasks, uploads, told, own>>
    PROVE  Inv'
<1> USE DEF Inv
<1>1. told' = Silent
  BY DEF UploadInv
<1>2. OpenAim' = {} /\ ShutAim' = {}
  BY <1>1 DEF OpenAim, ShutAim, Silent
<1>3. Waiting' = Waiting
  <2>1. Range(<<>>) = {}
    BY DEF Range
  <2> QED BY <2>1 DEF Waiting
<1>4. TypeOK'
  BY DEF TypeOK
<1>5. UploadInv' /\ FindingInv'
  BY DEF UploadInv, FindingInv
<1>6. TaskInv'
  <2>1. Gone' = {}
    BY DEF Gone
  <2> QED BY <1>3, <2>1 DEF TaskInv
<1> QED BY <1>2, <1>4, <1>5, <1>6, NoAims

\* The rows at S, copied to be reactivated or mitigated.
LEMMA RowsCopied ==
    ASSUME TypeOK, NEW S \in SUBSET Here
    PROVE  /\ Copies(S) \in Seq(CopySet)
           /\ \A c \in Range(Copies(S)) : c.at \in S /\ c.row = row[c.at] /\ c.row \in Rows
           /\ \A l \in S : \E c \in Range(Copies(S)) : c.at = l /\ c.row = row[l]
<1>1. S \in SUBSET Locations /\ \A l \in S : row[l] \in Rows
  BY DEF Here, TypeOK
<1>2. Copies(S) \in Seq(CopySet) /\ Range(Copies(S)) = {[at |-> l, row |-> row[l]] : l \in S}
  BY <1>1, CopiesCopy
<1>3. ASSUME NEW c \in Range(Copies(S))
      PROVE  c.at \in S /\ c.row = row[c.at] /\ c.row \in Rows
  BY <1>1, <1>2
<1>4. ASSUME NEW l \in S
      PROVE  \E c \in Range(Copies(S)) : c.at = l /\ c.row = row[l]
  <2> DEFINE c == [at |-> l, row |-> row[l]]
  <2>1. c \in Range(Copies(S)) /\ c.at = l /\ c.row = row[l]
    BY <1>2
  <2> QED BY <2>1
<1> QED BY <1>2, <1>3, <1>4

\* Reactivation of the whole finding comes before the upload aims at anything.
LEMMA ReactivateAllKeeps ==
    ASSUME Inv, ReactivateAll
    PROVE  Inv'
<1> USE DEF Inv
<1> DEFINE S == {l \in Here : ~row[l].flagged}
           copies == Copies(S)
<1>1. /\ upload /= None /\ upload.stage = "reactivate" /\ upload.inline = <<>>
      /\ UNCHANGED <<async, finding, row, uploads, told, own>>
      /\ Reactivate(copies, [upload EXCEPT !.stage = "update", !.late = Apart(copies)])
  BY DEF ReactivateAll, At
<1>2. /\ copies \in Seq(CopySet)
      /\ \A c \in Range(copies) : c.row \in Rows
  <2>1. S \in SUBSET Here
    OBVIOUS
  <2> HIDE DEF S
  <2> QED BY <2>1, RowsCopied
<1> HIDE DEF copies
<1>3. CASE upload' = None /\ UNCHANGED tasks
  BY <1>1, <1>3, FailKeeps
<1>4. ASSUME upload' = [[upload EXCEPT !.stage = "update", !.late = Apart(copies)]
                            EXCEPT !.inline = Inline("reactivate", copies)],
             tasks' = tasks \cup Queued("reactivate", copies, upload.stage)
      PROVE  Inv'
  <2>1. upload \in UploadSet /\ async \in BOOLEAN /\ uploads \in Nat /\ Apart(copies) \in BOOLEAN
    BY <1>1 DEF TypeOK, Apart
  <2>2. Inline("reactivate", copies) \in Seq(Done) /\ Len(Inline("reactivate", copies)) <= 1
    BY <1>2, <2>1, Handed DEF Kinds, Stages
  <2>3. /\ upload' \in UploadSet
        /\ upload'.stage = "update" /\ upload'.late = Apart(copies)
        /\ upload'.inline = Inline("reactivate", copies)
        /\ UNCHANGED <<upload.item, upload.rest, upload.found, upload.said, upload.gone, upload.closed>>
    BY <1>4, <2>1, <2>2 DEF UploadSet, Stages
  <2>4. upload' /= None
    BY <2>3, NoneAssumption
  <2>5. /\ Waiting' = Waiting \cup {<<"reactivate", c>> : c \in Range(copies)}
        /\ tasks' \subseteq Tasks
        /\ \A t \in tasks' : t \in tasks \/ t.kind = "reactivate"
        /\ ~Apart(copies) => tasks' = tasks
    <3>1. "reactivate" \in Kinds /\ "reactivate" \in Stages
      BY DEF Kinds, Stages
    <3> QED BY <1>1, <1>2, <1>4, <2>3, <2>4, <3>1, Pushed
  <2>6. /\ upload.item \in Items /\ upload.found \in Status /\ told = Silent
        /\ upload.said = None /\ ~upload.closed /\ ~upload.late /\ upload.gone = <<>>
    BY <1>1, <2>1 DEF UploadInv
  <2>7. TypeOK'
    BY <1>1, <2>2, <2>3, <2>5 DEF TypeOK
  <2>8. UploadInv'
    <3>1. upload'.item /= None \/ ~upload'.late
      BY <2>3, <2>6, NoneAssumption
    <3> QED BY <1>1, <2>3, <2>4, <2>6, <3>1 DEF UploadInv
  <2>9. TaskInv'
    <3>1. Apart(copies) => async
      BY DEF Apart
    <3>2. \A w \in Waiting' : w[1] /= "add" => w[2].row \in Rows
      BY <1>2, <2>5 DEF TaskInv
    <3>3. own /= Locations => tasks = {}
      BY <1>1, <2>6 DEF TaskInv, Aimed, Aim
    <3>4. Gone' = {}
      BY <2>3, <2>4, <2>6 DEF Gone, Range
    <3> QED BY <1>1, <2>3, <2>5, <3>1, <3>2, <3>3, <3>4 DEF TaskInv
  <2>10. FindingInv'
    BY <1>1 DEF FindingInv
  <2>11. OpenAim' = {} /\ ShutAim' = {}
    BY <2>3, <2>4, <2>6 DEF OpenAim, ShutAim, Aimed, Aim
  <2> QED BY <2>7, <2>8, <2>9, <2>10, <2>11, NoAims
<1> QED BY <1>1, <1>3, <1>4 DEF Reactivate

\* Deciding: of what is there, what the report lists is to be opened and the
\* rest is to be shut.  Nothing that waits stands against it, but for the
\* reactivation of the whole finding, which makes the upload promise nothing
\* shut.
LEMMA UpdateKeeps ==
    ASSUME Inv, update_endpoint_status
    PROVE  Inv'
<1> USE DEF Inv
<1> DEFINE at == upload.item.at
           open == IF upload.item.fixed THEN {} ELSE Here \cap at
           shut == IF upload.item.fixed THEN Here ELSE Here \ at
           gone == Copies(shut)
           copies == Copies(open)
<1>1. /\ upload /= None /\ upload.stage = "update" /\ upload.inline = <<>>
      /\ UNCHANGED <<async, finding, row, uploads, told, own>>
      /\ IF upload.item.fixed
         THEN upload' = [upload EXCEPT !.stage = "mitigate", !.gone = gone] /\ UNCHANGED tasks
         ELSE Reactivate(copies, [upload EXCEPT !.stage = "mitigate", !.gone = gone])
  BY DEF update_endpoint_status, At
<1>2. /\ upload \in UploadSet /\ upload.item \in Items /\ upload.found \in Status
      /\ told = Silent /\ upload.said = None /\ ~upload.closed /\ upload.gone = <<>>
      /\ async \in BOOLEAN /\ uploads \in Nat
  BY <1>1 DEF TypeOK, UploadInv
<1>3. /\ gone \in Seq(CopySet)
      /\ \A c \in Range(gone) : c.at \in shut /\ c.row \in Rows
      /\ \A l \in shut : \E c \in Range(gone) : c.at = l /\ c.row = row[l]
      /\ copies \in Seq(CopySet)
      /\ \A c \in Range(copies) : c.at \in open /\ c.row \in Rows
      /\ \A l \in open : \E c \in Range(copies) : c.at = l /\ c.row = row[l]
  <2>1. open \in SUBSET Here /\ shut \in SUBSET Here
    OBVIOUS
  <2> HIDE DEF open, shut
  <2> QED BY <2>1, RowsCopied
<1>4. /\ \A l \in open : l \in at
      /\ \A l \in at : l \notin shut \/ upload.item.fixed
      /\ \A l \in Here : ~upload.item.fixed /\ l \in at => l \in open
      /\ \A l \in Here : l \notin at => l \in shut
  OBVIOUS
<1>5. ~upload.item.fixed => Copies(Here \cap at) = copies /\ Copies(Here \ at) = gone
  OBVIOUS
<1>6. at \subseteq Locations /\ Here \subseteq Locations /\ Here = {l \in Locations : row[l] /= None}
  BY <1>2 DEF Items, Here
<1> HIDE DEF gone, copies, open, shut, at
<1>7. CASE upload' = None /\ UNCHANGED tasks
  BY <1>1, <1>7, FailKeeps
\* What waits now, and the state that follows.
<1>8. ASSUME NEW inline \in Seq(Done), Len(inline) <= 1, tasks' \subseteq Tasks,
             upload' = [[upload EXCEPT !.stage = "mitigate", !.gone = gone] EXCEPT !.inline = inline],
             NEW C, C \subseteq Range(copies), ~upload.item.fixed => C = Range(copies),
             upload' /= None => Waiting' = Waiting \cup {<<"reactivate", c>> : c \in C},
             async \/ tasks' = tasks
      PROVE  Inv'
  <2>1. /\ upload' \in UploadSet
        /\ upload'.stage = "mitigate" /\ upload'.gone = gone /\ upload'.inline = inline
        /\ UNCHANGED <<upload.item, upload.rest, upload.found, upload.late, upload.said, upload.closed>>
    BY <1>2, <1>3, <1>8 DEF UploadSet, Stages
  <2>2. upload' /= None
    BY <2>1, NoneAssumption
  <2>3. Waiting' = Waiting \cup {<<"reactivate", c>> : c \in C}
    BY <1>8, <2>2
  <2>4. Gone' = Range(gone)
    BY <2>1, <2>2 DEF Gone
  <2>5. own /= Locations => /\ ~upload.late => Waiting = {}
                            /\ \A w \in Waiting : w[1] = "reactivate"
    <3>1. Waiting = Pairs(tasks)
      <4>1. Range(<<>>) = {}
        BY DEF Range
      <4> QED BY <1>1, <4>1 DEF Waiting
    <3>2. ~Aimed
      BY <1>1, <1>2 DEF Aimed, Aim
    <3> QED BY <1>1, <3>1, <3>2 DEF TaskInv, Pairs
  <2>6. TypeOK'
    BY <1>1, <1>8, <2>1 DEF TypeOK
  <2>7. UploadInv'
    BY <1>1, <1>2, <2>1, <2>2 DEF UploadInv
  <2>8. TaskInv'
    <3>1. \A w \in Waiting' : w[1] /= "add" => w[2].row \in Rows
      BY <1>3, <1>8, <2>3 DEF TaskInv
    <3> QED BY <1>1, <1>3, <1>8, <2>1, <2>2, <2>4, <3>1 DEF TaskInv, Aimed, Aim
  <2>9. FindingInv'
    BY <1>1 DEF FindingInv
  <2>10. OpenInv'
    <3> SUFFICES ASSUME NEW l \in at, l \notin own, ~upload.item.fixed
                 PROVE  /\ \A w \in Waiting' : w[2].at = l => w[1] /= "mitigate"
                        /\ \A c \in Gone' : c.at /= l
                        /\ \/ row'[l] = None
                           \/ ~row'[l].mitigated
                           \/ \E w \in Waiting' : w[1] = "reactivate" /\ w[2].at = l /\ w[2].row.mitigated
                        /\ upload' /= None /\ upload'.said = None
      <4>1. OpenAim' = IF upload.item.fixed THEN {} ELSE at
        BY <1>2, <2>1, <2>2 DEF OpenAim, Aimed, Aim, at
      <4> QED BY <1>1, <4>1 DEF OpenInv
    <3>1. own /= Locations
      BY <1>6
    <3>2. l \in Here => \E c \in C : c.at = l /\ c.row = row[l]
      BY <1>3, <1>4, <1>8
    <3>3. l \in Here /\ row[l].mitigated =>
            \E w \in Waiting' : w[1] = "reactivate" /\ w[2].at = l /\ w[2].row.mitigated
      <4> SUFFICES ASSUME l \in Here, row[l].mitigated
                   PROVE  \E w \in Waiting' : w[1] = "reactivate" /\ w[2].at = l /\ w[2].row.mitigated
        OBVIOUS
      <4>1. PICK c \in C : c.at = l /\ c.row = row[l]
        BY <3>2
      <4> DEFINE w == <<"reactivate", c>>
      <4>2. w \in Waiting' /\ w[1] = "reactivate" /\ w[2] = c
        BY <2>3
      <4> QED BY <4>1, <4>2
    <3> QED BY <1>1, <1>2, <1>3, <1>4, <1>6, <2>1, <2>2, <2>3, <2>4, <2>5, <3>1, <3>3
  <2>11. ShutInv'
    <3> SUFFICES ASSUME NEW l \in Locations, l \notin at, l \notin own, ~upload.late
                 PROVE  /\ \A w \in Waiting' : w[2].at = l => w[1] = "mitigate"
                        /\ \/ row'[l] = None
                           \/ row'[l].mitigated
                           \/ \E c \in Gone' : c.at = l /\ ~c.row.mitigated
      <4>1. ShutAim' = IF upload.late THEN {} ELSE Locations \ at
        BY <1>2, <2>1, <2>2 DEF ShutAim, Aimed, Aim, at
      <4> QED BY <1>1, <4>1 DEF ShutInv
    <3>1. Waiting = {}
      BY <2>5
    <3>2. \A w \in Waiting' : w[2].at /= l
      BY <1>3, <1>4, <1>8, <2>3, <3>1
    <3>3. l \in Here => \E c \in Gone' : c.at = l /\ c.row = row[l]
      BY <1>3, <1>4, <2>4
    <3> QED BY <1>1, <1>6, <3>2, <3>3
  <2> QED BY <2>6, <2>7, <2>8, <2>9, <2>10, <2>11
<1>9. CASE upload.item.fixed
  <2>1. upload' = [[upload EXCEPT !.stage = "mitigate", !.gone = gone] EXCEPT !.inline = <<>>]
    <3>1. upload' = [upload EXCEPT !.stage = "mitigate", !.gone = gone] /\ upload'.inline = <<>>
      BY <1>1, <1>2, <1>9 DEF UploadSet
    <3> QED BY <1>1, <1>2, <3>1 DEF UploadSet
  <2>2. <<>> \in Seq(Done) /\ Len(<<>>) <= 1 /\ tasks' = tasks /\ tasks \subseteq Tasks
    BY <1>1, <1>9 DEF TypeOK
  <2>3. upload' /= None => Waiting' = Waiting
    BY <1>1, <1>2, <2>1, <2>2 DEF Waiting, UploadSet
  <2>4. {<<"reactivate", c>> : c \in {}} = {}
    OBVIOUS
  <2> QED BY <1>8, <1>9, <2>1, <2>2, <2>3, <2>4
<1>10. ASSUME ~upload.item.fixed,
              upload' = [[upload EXCEPT !.stage = "mitigate", !.gone = gone]
                            EXCEPT !.inline = Inline("reactivate", copies)],
              tasks' = tasks \cup Queued("reactivate", copies, upload.stage)
       PROVE  Inv'
  <2>1. "reactivate" \in Kinds /\ upload.stage \in Stages
    BY <1>1 DEF Kinds, Stages
  <2>2. /\ Inline("reactivate", copies) \in Seq(Done) /\ Len(Inline("reactivate", copies)) <= 1
        /\ Queued("reactivate", copies, upload.stage) \subseteq Tasks
        /\ ~Apart(copies) => Queued("reactivate", copies, upload.stage) = {}
    BY <1>2, <1>3, <2>1, Handed
  <2>3. upload'.inline = Inline("reactivate", copies)
    BY <1>2, <1>10 DEF UploadSet
  <2>4. upload' /= None => Waiting' = Waiting \cup {<<"reactivate", c>> : c \in Range(copies)}
    BY <1>1, <1>3, <1>10, <2>1, <2>3, Pushed
  <2>5. async \/ tasks' = tasks
    BY <1>10, <2>2 DEF Apart
  <2>6. tasks' \subseteq Tasks
    BY <1>10, <2>2 DEF TypeOK
  <2> QED BY <1>8, <1>10, <2>2, <2>4, <2>5, <2>6
<1> QED BY <1>1, <1>5, <1>7, <1>9, <1>10 DEF Reactivate

\* What was set aside to be mitigated is handed out.
LEMMA MitigateKeeps ==
    ASSUME Inv, mitigate_endpoint_status
    PROVE  Inv'
<1> USE DEF Inv
<1> DEFINE copies == upload.gone
<1>1. /\ upload /= None /\ upload.stage = "mitigate" /\ upload.inline = <<>>
      /\ UNCHANGED <<async, finding, row, uploads, told, own>>
      /\ upload' = [upload EXCEPT !.stage = "add", !.gone = <<>>,
                                  !.inline = Inline("mitigate", copies)]
      /\ tasks' = tasks \cup Queued("mitigate", copies, upload.stage)
  BY DEF mitigate_endpoint_status, At
<1>2. /\ upload \in UploadSet /\ upload.item \in Items /\ upload.found \in Status
      /\ told = Silent /\ upload.said = None /\ ~upload.closed
      /\ copies \in Seq(CopySet)
      /\ async \in BOOLEAN /\ uploads \in Nat
  <2>1. upload \in UploadSet
    BY <1>1 DEF TypeOK
  <2> QED BY <1>1, <2>1 DEF TypeOK, UploadInv, UploadSet
<1>3. Gone = Range(copies)
  BY <1>1 DEF Gone
<1> HIDE DEF copies
<1>4. "mitigate" \in Kinds /\ "mitigate" \in Stages
  BY DEF Kinds, Stages
<1>5. /\ Inline("mitigate", copies) \in Seq(Done) /\ Len(Inline("mitigate", copies)) <= 1
      /\ Queued("mitigate", copies, upload.stage) \subseteq Tasks
      /\ ~Apart(copies) => Queued("mitigate", copies, upload.stage) = {}
  BY <1>1, <1>2, <1>4, Handed
<1>6. /\ upload' \in UploadSet
      /\ upload'.stage = "add" /\ upload'.gone = <<>>
      /\ upload'.inline = Inline("mitigate", copies)
      /\ UNCHANGED <<upload.item, upload.rest, upload.found, upload.late, upload.said, upload.closed>>
  <2>1. <<>> \in Seq(CopySet)
    OBVIOUS
  <2> QED BY <1>1, <1>2, <1>5, <2>1 DEF UploadSet, Stages
<1>7. upload' /= None
  BY <1>6, NoneAssumption
<1>8. Waiting' = Waiting \cup {<<"mitigate", c>> : c \in Gone} /\ tasks' \subseteq Tasks
  BY <1>1, <1>2, <1>3, <1>4, <1>6, <1>7, Pushed
<1>9. Gone' = {}
  BY <1>6, <1>7 DEF Gone, Range
<1>10. TypeOK'
  BY <1>1, <1>5, <1>6, <1>8 DEF TypeOK
<1>11. UploadInv'
  BY <1>1, <1>2, <1>6, <1>7 DEF UploadInv
<1>12. Aimed /\ Aimed' /\ Unsaid /\ Unsaid' /\ OpenAim' = OpenAim /\ ShutAim' = ShutAim
  BY <1>1, <1>2, <1>6, <1>7 DEF Aimed, Aim, Unsaid, OpenAim, ShutAim
<1>13. OpenInv'
  <2> SUFFICES ASSUME NEW l \in OpenAim \ own
               PROVE  /\ \A w \in Waiting' : w[2].at = l => w[1] /= "mitigate"
                      /\ \/ row'[l] = None
                         \/ ~row'[l].mitigated
                         \/ \E w \in Waiting' : w[1] = "reactivate" /\ w[2].at = l /\ w[2].row.mitigated
    BY <1>1, <1>9, <1>12 DEF OpenInv, Unsaid
  <2>1. /\ \A w \in Waiting : w[2].at = l => w[1] /= "mitigate"
        /\ \A c \in Gone : c.at /= l
        /\ \/ row[l] = None
           \/ ~row[l].mitigated
           \/ \E w \in Waiting : w[1] = "reactivate" /\ w[2].at = l /\ w[2].row.mitigated
    BY DEF OpenInv
  <2> QED BY <1>1, <1>8, <2>1
<1>14. ShutInv'
  <2> SUFFICES ASSUME NEW l \in ShutAim \ own
               PROVE  /\ \A w \in Waiting' : w[2].at = l => w[1] = "mitigate"
                      /\ \/ row'[l] = None
                         \/ row'[l].mitigated
                         \/ \E w \in Waiting' : w[1] = "mitigate" /\ w[2].at = l /\ ~w[2].row.mitigated
    BY <1>1, <1>12 DEF ShutInv
  <2>1. /\ \A w \in Waiting : w[2].at = l => w[1] = "mitigate"
        /\ \/ row[l] = None
           \/ row[l].mitigated
           \/ \E w \in Waiting : w[1] = "mitigate" /\ w[2].at = l /\ ~w[2].row.mitigated
           \/ \E c \in Gone : c.at = l /\ ~c.row.mitigated
    BY DEF ShutInv
  <2>2. \A c \in Gone : <<"mitigate", c>> \in Waiting'
    BY <1>8
  <2>3. ASSUME NEW c \in Gone, c.at = l, ~c.row.mitigated
        PROVE  \E w \in Waiting' : w[1] = "mitigate" /\ w[2].at = l /\ ~w[2].row.mitigated
    <3> DEFINE w == <<"mitigate", c>>
    <3>1. w \in Waiting' /\ w[1] = "mitigate" /\ w[2] = c
      BY <2>2
    <3> QED BY <2>3, <3>1
  <2> QED BY <1>1, <1>8, <2>1, <2>3
<1>15. TaskInv'
  <2>1. \A c \in Gone : c.row \in Rows
    BY DEF TaskInv
  <2>2. \A w \in Waiting' : w[1] /= "add" => w[2].row \in Rows
    BY <1>8, <2>1 DEF TaskInv
  <2>3. ~async => tasks' = {}
    BY <1>1, <1>5 DEF TaskInv, Apart
  <2> QED BY <1>1, <1>6, <1>9, <1>12, <2>2, <2>3 DEF TaskInv
<1>16. FindingInv'
  BY <1>1 DEF FindingInv
<1> QED BY <1>9, <1>10, <1>11, <1>13, <1>14, <1>15, <1>16

\* Rows are made for what the report lists, and for nothing else.
LEMMA AddKeeps ==
    ASSUME Inv, AddEndpoints
    PROVE  Inv'
<1> USE DEF Inv
<1> DEFINE at == upload.item.at
           copies == Copies(at)
<1>1. /\ upload /= None /\ upload.stage = "add" /\ upload.inline = <<>>
      /\ UNCHANGED <<async, finding, row, uploads, told, own>>
      /\ upload' = [upload EXCEPT !.stage = "save", !.said = upload.item,
                                  !.inline = Inline("add", copies)]
      /\ tasks' = tasks \cup Queued("add", copies, upload.stage)
  BY DEF AddEndpoints, At
<1>2. /\ upload \in UploadSet /\ upload.item \in Items /\ upload.found \in Status
      /\ told = Silent /\ upload.said = None /\ ~upload.closed /\ upload.gone = <<>>
      /\ async \in BOOLEAN /\ uploads \in Nat
  BY <1>1 DEF TypeOK, UploadInv
<1>3. at \in SUBSET Locations
  BY <1>2 DEF Items
<1>4. copies \in Seq(CopySet) /\ Range(copies) = {[at |-> l, row |-> row[l]] : l \in at}
  BY <1>3, CopiesCopy
<1> HIDE DEF copies, at
<1>5. "add" \in Kinds /\ "add" \in Stages
  BY DEF Kinds, Stages
<1>6. /\ Inline("add", copies) \in Seq(Done) /\ Len(Inline("add", copies)) <= 1
      /\ ~Apart(copies) => Queued("add", copies, upload.stage) = {}
  BY <1>1, <1>2, <1>4, <1>5, Handed
<1>7. /\ upload' \in UploadSet
      /\ upload'.stage = "save" /\ upload'.said = upload.item
      /\ upload'.inline = Inline("add", copies)
      /\ UNCHANGED <<upload.item, upload.rest, upload.found, upload.late, upload.gone, upload.closed>>
  BY <1>1, <1>2, <1>6 DEF UploadSet, Stages
<1>8. upload' /= None
  BY <1>7, NoneAssumption
<1>9. Waiting' = Waiting \cup {<<"add", c>> : c \in Range(copies)} /\ tasks' \subseteq Tasks
  BY <1>1, <1>2, <1>4, <1>5, <1>7, <1>8, Pushed
<1>10. Gone' = {} /\ Gone = {}
  BY <1>2, <1>7, <1>8 DEF Gone, Range
<1>11. TypeOK'
  BY <1>1, <1>6, <1>7, <1>9 DEF TypeOK
<1>12. UploadInv'
  BY <1>1, <1>2, <1>7, <1>8, NoneAssumption DEF UploadInv
<1>13. Aimed /\ Aimed' /\ OpenAim' = OpenAim /\ ShutAim' = ShutAim
  BY <1>1, <1>2, <1>7, <1>8, NoneAssumption DEF Aimed, Aim, OpenAim, ShutAim
<1>14. OpenAim \subseteq at /\ ShutAim \cap at = {}
  BY <1>1, <1>2, <1>13 DEF OpenAim, ShutAim, Aimed, Aim, at
<1>15. OpenInv'
  <2> SUFFICES ASSUME NEW l \in OpenAim \ own
               PROVE  /\ \A w \in Waiting' : w[2].at = l => w[1] /= "mitigate"
                      /\ \/ row'[l] = None
                         \/ ~row'[l].mitigated
                         \/ \E w \in Waiting' : w[1] = "reactivate" /\ w[2].at = l /\ w[2].row.mitigated
                      /\ \E w \in Waiting' : w[1] = "add" /\ w[2].at = l
    BY <1>1, <1>10, <1>13 DEF OpenInv
  <2>1. /\ \A w \in Waiting : w[2].at = l => w[1] /= "mitigate"
        /\ \/ row[l] = None
           \/ ~row[l].mitigated
           \/ \E w \in Waiting : w[1] = "reactivate" /\ w[2].at = l /\ w[2].row.mitigated
    BY DEF OpenInv
  <2>2. \E w \in Waiting' : w[1] = "add" /\ w[2].at = l
    <3> DEFINE c == [at |-> l, row |-> row[l]]
               w == <<"add", c>>
    <3>1. c \in Range(copies) /\ c.at = l
      BY <1>4, <1>14
    <3> HIDE DEF c
    <3>2. w \in Waiting' /\ w[1] = "add" /\ w[2] = c
      BY <1>9, <3>1
    <3> HIDE DEF w
    <3> QED BY <3>1, <3>2
  <2> QED BY <1>1, <1>9, <2>1, <2>2
<1>16. ShutInv'
  <2> SUFFICES ASSUME NEW l \in ShutAim \ own
               PROVE  /\ \A w \in Waiting' : w[2].at = l => w[1] = "mitigate"
                      /\ \/ row'[l] = None
                         \/ row'[l].mitigated
                         \/ \E w \in Waiting' : w[1] = "mitigate" /\ w[2].at = l /\ ~w[2].row.mitigated
    BY <1>1, <1>13 DEF ShutInv
  <2>1. /\ \A w \in Waiting : w[2].at = l => w[1] = "mitigate"
        /\ \/ row[l] = None
           \/ row[l].mitigated
           \/ \E w \in Waiting : w[1] = "mitigate" /\ w[2].at = l /\ ~w[2].row.mitigated
    BY <1>10 DEF ShutInv
  <2>2. \A c \in Range(copies) : c.at /= l
    BY <1>4, <1>14
  <2> QED BY <1>1, <1>9, <2>1, <2>2
<1>17. TaskInv'
  <2>1. \A w \in Waiting' : w[1] /= "add" => w[2].row \in Rows
    BY <1>9 DEF TaskInv
  <2>2. ~async => tasks' = {}
    BY <1>1, <1>6 DEF TaskInv, Apart
  <2> QED BY <1>1, <1>7, <1>10, <1>13, <2>1, <2>2 DEF TaskInv
<1>18. FindingInv'
  BY <1>1 DEF FindingInv
<1> QED BY <1>11, <1>12, <1>15, <1>16, <1>17, <1>18

-----------------------------------------------------------------------------
(* The end of an upload. *)

\* The save at the end of the loop.
LEMMA SaveKeeps ==
    ASSUME Inv, SaveFinding
    PROVE  Inv'
<1>1. /\ upload /= None /\ upload.stage = "save" /\ upload.inline = <<>>
      /\ finding' = upload.found
      /\ upload' = NextItem(upload)
      /\ UNCHANGED <<async, row, tasks, uploads, told, own>>
  BY DEF SaveFinding, At
<1>2. upload \in UploadSet /\ upload.found \in Status /\ upload.gone = <<>>
  BY <1>1 DEF Inv, TypeOK, UploadInv
<1> QED BY <1>1, <1>2, NextItemKeeps

\* The results of the chunks are collected.
LEMMA CollectKeeps ==
    ASSUME Inv, Collect
    PROVE  Inv'
<1> USE DEF Inv
<1> DEFINE here == IF upload.listed THEN {} ELSE LeftOver("here", upload.before)
           left == IF upload.close_old THEN upload.left \cup here ELSE {}
<1>1. /\ upload /= None /\ upload.stage = "collect"
      /\ upload' = [upload EXCEPT !.stage = "close", !.left = left]
      /\ UNCHANGED <<async, finding, row, tasks, uploads, told, own>>
  BY DEF Collect, At
<1>2. upload \in UploadSet
  BY <1>1 DEF TypeOK
<1>3. left \in SUBSET ({"here", "elsewhere"} \X Status)
  <2>1. upload.left \in SUBSET ({"here", "elsewhere"} \X Status) /\ upload.before \in Status \cup {None}
    BY <1>2 DEF UploadSet
  <2>2. here \in SUBSET ({"here", "elsewhere"} \X Status)
    BY <2>1 DEF LeftOver
  <2> QED BY <2>1, <2>2
<1>4. upload.before = None /\ upload.left = {} => left = {}
  BY DEF LeftOver
<1> HIDE DEF left
<1>5. /\ upload' \in UploadSet
      /\ upload'.stage = "close" /\ upload'.left = left
      /\ UNCHANGED <<upload.item, upload.rest, upload.late, upload.said, upload.before, upload.inline,
                     upload.gone, upload.closed>>
  BY <1>1, <1>2, <1>3 DEF UploadSet, Stages
<1>6. upload' /= None
  BY <1>5, NoneAssumption
<1>7. TypeOK'
  BY <1>1, <1>5 DEF TypeOK
<1>8. Waiting' = Waiting /\ Gone' = Gone
  BY <1>1, <1>5, <1>6, WorkSame
<1>9. Aimed' = Aimed /\ OpenAim' = OpenAim /\ ShutAim' = ShutAim /\ Unsaid' = Unsaid
  BY <1>1, <1>5, <1>6 DEF Aimed, Aim, OpenAim, ShutAim, Unsaid
<1>10. UploadInv'
  BY <1>1, <1>5, <1>6 DEF UploadInv
<1>11. TaskInv'
  BY <1>1, <1>5, <1>6, <1>8, <1>9 DEF TaskInv
<1>12. FindingInv'
  BY <1>1, <1>4, <1>5 DEF FindingInv
<1> QED BY <1>1, <1>7, <1>8, <1>9, <1>10, <1>11, <1>12, AimsSame

\* Closing the finding promises nothing open any more.  Done by the request, or
\* after an empty report, it has no task against it and shuts every row.
LEMMA CloseOldKeeps ==
    ASSUME Inv, close_old_findings
    PROVE  Inv'
<1> USE DEF Inv
<1> DEFINE copies == Copies(Here)
           d == [kind |-> "mitigate", copies |-> copies]
<1>1. PICK c \in upload.left :
        upload' = [upload EXCEPT !.stage = "closed", !.found = c[2], !.left = @ \ {c},
                                !.closed = TRUE, !.inline = <<d>>]
  BY DEF close_old_findings
<1>2. /\ upload /= None /\ upload.stage = "close" /\ upload.inline = <<>> /\ upload.left /= {}
      /\ UNCHANGED <<async, finding, row, tasks, uploads, told, own>>
  BY DEF close_old_findings, At
<1>3. upload \in UploadSet
  BY <1>2 DEF TypeOK
<1>4. /\ copies \in Seq(CopySet)
      /\ \A x \in Range(copies) : x.at \in Here /\ x.row \in Rows
      /\ \A l \in Here : \E x \in Range(copies) : x.at = l /\ x.row = row[l]
  BY RowsCopied
<1> HIDE DEF copies
<1>5. d \in Done /\ d.kind = "mitigate" /\ d.copies = copies
  BY <1>4 DEF Done, Kinds
<1> HIDE DEF d
<1>6. /\ c[2] \in Status
      /\ upload.left \ {c} \in SUBSET ({"here", "elsewhere"} \X Status)
      /\ <<d>> \in Seq(Done) /\ Len(<<d>>) = 1
  <2>1. upload.left \in SUBSET ({"here", "elsewhere"} \X Status)
    BY <1>3 DEF UploadSet
  <2> QED BY <1>5, <2>1
<1>7. /\ upload' \in UploadSet
      /\ upload'.stage = "closed" /\ upload'.closed /\ upload'.found = c[2]
      /\ upload'.inline = <<d>>
      /\ UNCHANGED <<upload.item, upload.rest, upload.late, upload.said, upload.gone>>
  <2>1. "closed" \in Stages
    BY DEF Stages
  <2> DEFINE found == c[2]
             left == upload.left \ {c}
             inline == <<d>>
  <2>2. upload' = [upload EXCEPT !.stage = "closed", !.found = found, !.left = left,
                                !.closed = TRUE, !.inline = inline]
    BY <1>1
  <2>3. found \in Status \cup {None} /\ left \in SUBSET ({"here", "elsewhere"} \X Status)
           /\ inline \in Seq(Done)
    BY <1>6
  <2> HIDE DEF found, left, inline
  <2>4. /\ upload' \in UploadSet
        /\ upload'.stage = "closed" /\ upload'.closed /\ upload'.found = found
        /\ upload'.inline = inline
        /\ UNCHANGED <<upload.item, upload.rest, upload.late, upload.said, upload.gone>>
    BY <1>3, <2>1, <2>2, <2>3 DEF UploadSet
  <2> QED BY <2>4 DEF found, inline
<1>8. upload' /= None
  BY <1>7, NoneAssumption
<1>9. Range(<<>>) = {} /\ Range(<<d>>) = {d}
  BY DEF Range
<1>10. Waiting = Pairs(tasks)
  BY <1>2, <1>9 DEF Waiting
<1>11. Waiting' = Waiting \cup {<<"mitigate", x>> : x \in Range(copies)}
  <2>1. Waiting' = Pairs(tasks \cup {d})
    BY <1>2, <1>7, <1>8, <1>9 DEF Waiting
  <2>2. Pairs({d}) = {<<"mitigate", x>> : x \in Range(copies)}
    BY <1>5 DEF Pairs
  <2> QED BY <1>10, <2>1, <2>2, PairsUnion
<1>12. upload.gone = <<>> /\ Gone = {} /\ Gone' = {}
  BY <1>2, <1>7, <1>8 DEF UploadInv, Gone, Range
<1>13. TypeOK'
  BY <1>2, <1>6, <1>7 DEF TypeOK
<1>14. UploadInv'
  BY <1>2, <1>6, <1>7, <1>8, <1>12 DEF UploadInv
<1>15. Aimed' = Aimed /\ (Aimed <=> upload.said /= None)
  BY <1>2, <1>7, <1>8 DEF Aimed, Aim
<1>16. OpenInv'
  BY <1>7, <1>8 DEF OpenInv, OpenAim
<1>17. ShutInv'
  <2> SUFFICES ASSUME NEW l \in ShutAim' \ own
               PROVE  /\ \A w \in Waiting' : w[2].at = l => w[1] = "mitigate"
                      /\ \/ row'[l] = None
                         \/ row'[l].mitigated
                         \/ \E w \in Waiting' : w[1] = "mitigate" /\ w[2].at = l /\ ~w[2].row.mitigated
    BY <1>2 DEF ShutInv
  <2>1. CASE ~async \/ upload.item = None
    <3>1. l \in Locations
      BY <1>7, <1>8, <2>1 DEF ShutAim
    <3>2. tasks = {}
      <4>1. CASE ~async
        BY <4>1 DEF TaskInv
      <4>2. CASE upload.item = None
        <5>1. ~upload.late /\ upload.said = None
          BY <1>2, <4>2, NoneAssumption DEF UploadInv
        <5>2. own /= Locations
          BY <3>1
        <5> QED BY <1>2, <1>15, <5>1, <5>2 DEF TaskInv
      <4> QED BY <2>1, <4>1, <4>2
    <3>3. Waiting = {}
      BY <1>10, <3>2 DEF Pairs
    <3>4. row[l] = None \/ l \in Here
      BY <3>1 DEF Here
    <3>5. ASSUME l \in Here, ~row[l].mitigated
          PROVE  \E w \in Waiting' : w[1] = "mitigate" /\ w[2].at = l /\ ~w[2].row.mitigated
      <4>1. PICK x \in Range(copies) : x.at = l /\ x.row = row[l]
        BY <1>4, <3>5
      <4> DEFINE w == <<"mitigate", x>>
      <4>2. w \in Waiting' /\ w[1] = "mitigate" /\ w[2] = x
        BY <1>11
      <4> HIDE DEF w
      <4> QED BY <3>5, <4>1, <4>2
    <3> QED BY <1>2, <1>11, <3>3, <3>4, <3>5
  <2>2. CASE async /\ upload.item /= None
    <3>1. l \in ShutAim
      BY <1>2, <1>7, <1>8, <1>15, <2>2 DEF ShutAim, Aim
    <3>2. /\ \A w \in Waiting : w[2].at = l => w[1] = "mitigate"
          /\ \/ row[l] = None
             \/ row[l].mitigated
             \/ \E w \in Waiting : w[1] = "mitigate" /\ w[2].at = l /\ ~w[2].row.mitigated
      BY <1>12, <3>1 DEF ShutInv
    <3> QED BY <1>2, <1>11, <3>2
  <2> QED BY <2>1, <2>2
<1>18. TaskInv'
  <2>1. \A w \in Waiting' : w[1] /= "add" => w[2].row \in Rows
    BY <1>4, <1>11 DEF TaskInv
  <2> QED BY <1>2, <1>7, <1>8, <1>12, <1>15, <2>1 DEF TaskInv
<1>19. FindingInv'
  BY <1>2 DEF FindingInv
<1> QED BY <1>13, <1>14, <1>16, <1>17, <1>18, <1>19

\* The finding that is closed is saved after its rows.
LEMMA SaveClosedKeeps ==
    ASSUME Inv, SaveClosed
    PROVE  Inv'
<1> USE DEF Inv
<1>1. /\ upload /= None /\ upload.stage = "closed"
      /\ finding' = [upload.found EXCEPT !.mitigated = TRUE]
      /\ upload' = [upload EXCEPT !.stage = "close"]
      /\ UNCHANGED <<async, row, tasks, uploads, told, own>>
  BY DEF SaveClosed, At
<1>2. upload \in UploadSet /\ upload.found \in Status
  BY <1>1 DEF TypeOK, UploadInv
<1>3. finding' \in Status
  BY <1>1, <1>2 DEF Status
<1>4. /\ upload' \in UploadSet
      /\ upload'.stage = "close"
      /\ UNCHANGED <<upload.item, upload.rest, upload.late, upload.said, upload.inline, upload.gone, upload.closed>>
  BY <1>1, <1>2 DEF UploadSet, Stages
<1>5. upload' /= None
  BY <1>4, NoneAssumption
<1>6. TypeOK'
  BY <1>1, <1>3, <1>4 DEF TypeOK
<1>7. Waiting' = Waiting /\ Gone' = Gone
  BY <1>1, <1>4, <1>5, WorkSame
<1>8. Aimed' = Aimed /\ OpenAim' = OpenAim /\ ShutAim' = ShutAim /\ Unsaid' = Unsaid
  BY <1>1, <1>4, <1>5 DEF Aimed, Aim, OpenAim, ShutAim, Unsaid
<1>9. UploadInv'
  BY <1>1, <1>4, <1>5 DEF UploadInv
<1>10. TaskInv'
  BY <1>1, <1>4, <1>5, <1>7, <1>8 DEF TaskInv
<1>11. FindingInv'
  BY <1>3, NoneAssumption DEF FindingInv
<1> QED BY <1>1, <1>6, <1>7, <1>8, <1>9, <1>10, <1>11, AimsSame

\* The promise of an upload is what it aimed at.
LEMMA AnswerKeeps ==
    ASSUME Inv, Answer
    PROVE  Inv'
<1> USE DEF Inv
<1>1. /\ upload /= None /\ upload.stage = "close" /\ upload.inline = <<>>
      /\ told' = Promise(upload) /\ upload' = None
      /\ UNCHANGED <<async, finding, row, tasks, uploads, decisions, own>>
  BY DEF Answer, At
<1>2. upload \in UploadSet /\ upload.gone = <<>> /\ (upload.said /= None => upload.item \in Items)
  BY <1>1 DEF TypeOK, UploadInv
<1>3. OpenAim' = OpenAim /\ ShutAim' = ShutAim
  BY <1>1 DEF OpenAim, ShutAim, Aimed, Aim, Promise
<1>4. OpenAim \subseteq Locations /\ ShutAim \subseteq Locations
  BY <1>1, <1>2 DEF OpenAim, ShutAim, Aimed, Aim, Items, UploadSet
<1>5. TypeOK'
  <2>1. told' \in [open : SUBSET Locations, shut : SUBSET Locations]
    BY <1>1, <1>3, <1>4 DEF Promise, OpenAim, ShutAim
  <2> QED BY <1>1, <2>1 DEF TypeOK
<1>6. Waiting' = Waiting
  <2>1. Range(<<>>) = {}
    BY DEF Range
  <2> QED BY <1>1, <2>1 DEF Waiting
<1>7. Gone' = {} /\ Gone = {}
  BY <1>1, <1>2 DEF Gone, Range
<1>8. OpenInv'
  <2>1. ~Unsaid \/ OpenAim = {}
    BY <1>1 DEF Unsaid, OpenAim, Aimed, Aim
  <2> QED BY <1>1, <1>3, <1>6, <1>7, <2>1 DEF OpenInv, Unsaid
<1>9. ShutInv'
  BY <1>1, <1>3, <1>6, <1>7 DEF ShutInv
<1>10. UploadInv' /\ FindingInv'
  BY <1>1 DEF UploadInv, FindingInv
<1>11. TaskInv'
  BY <1>1, <1>6, <1>7 DEF TaskInv
<1> QED BY <1>5, <1>8, <1>9, <1>10, <1>11

-----------------------------------------------------------------------------
(* Users. *)

\* A row that a user changes is the user's from then on.
LEMMA DecideKeeps ==
    ASSUME Inv, NEW status \in Status, NEW new, NEW S \in SUBSET Locations,
           \A l \in S : new[l] \in Rows, Decide(status, new, S)
    PROVE  Inv'
<1> USE DEF Inv
<1>1. /\ finding' = status
      /\ row' = [l \in Locations |-> IF l \in S THEN new[l] ELSE row[l]]
      /\ own' = own \cup S
      /\ UNCHANGED <<async, tasks, upload, uploads, told>>
  BY DEF Decide
<1>2. TypeOK'
  BY <1>1 DEF TypeOK
<1>3. Waiting' = Waiting /\ Gone' = Gone /\ Aimed' = Aimed /\ OpenAim' = OpenAim /\ ShutAim' = ShutAim
  BY <1>1 DEF Waiting, Gone, Aimed, Aim, OpenAim, ShutAim
<1>4. OpenAim \subseteq Locations /\ ShutAim \subseteq Locations
  BY DEF OpenAim, ShutAim, TypeOK, UploadInv, Items, UploadSet, Aimed, Aim
<1>5. \A l \in Locations \ own' : row'[l] = row[l] /\ l \notin own
  BY <1>1
<1>6. OpenInv'
  BY <1>1, <1>3, <1>4, <1>5 DEF OpenInv
<1>7. ShutInv'
  BY <1>1, <1>3, <1>4, <1>5 DEF ShutInv
<1>8. UploadInv'
  BY <1>1 DEF UploadInv
<1>9. TaskInv'
  <2>1. own' /= Locations => own /= Locations
    BY <1>1 DEF TypeOK
  <2> QED BY <1>1, <1>3, <2>1 DEF TaskInv
<1>10. FindingInv'
  BY <1>1, NoneAssumption DEF FindingInv
<1> QED BY <1>2, <1>6, <1>7, <1>8, <1>9, <1>10

\* Every page is a decision about some rows.
LEMMA UsersKeep ==
    ASSUME Inv, Users
    PROVE  Inv'
<1>1. finding /= None /\ finding \in Status
  BY DEF Users, endpoint_status_bulk_update, endpoint_bulk_update_all, close_finding,
         reopen_finding, Reject, Decide, Inv, TypeOK
<1>2. Here \subseteq Locations /\ \A l \in Here : row[l] \in Rows
  BY DEF Here, Inv, TypeOK
<1>3. \A b \in BOOLEAN, l \in Here : Mitigated(b)[l] \in Rows
  BY <1>2 DEF Mitigated, Rows
<1>4. CASE endpoint_status_bulk_update
  <2>1. PICK S \in SUBSET Here \ {{}}, new \in Rows : Decide(finding, [l \in S |-> new], S)
    BY <1>4 DEF endpoint_status_bulk_update
  <2> QED BY <1>1, <1>2, <2>1, DecideKeeps
<1>5. CASE endpoint_bulk_update_all
  <2>1. PICK S \in SUBSET Here \ {{}} : Decide(finding, Mitigated(TRUE), S)
    BY <1>5 DEF endpoint_bulk_update_all
  <2> QED BY <1>1, <1>2, <1>3, <2>1, DecideKeeps
<1>6. CASE close_finding
  <2>1. PICK r \in BOOLEAN :
            Decide([mitigated |-> TRUE, rejected |-> r], Mitigated(TRUE), Here)
    BY <1>6 DEF close_finding
  <2>2. [mitigated |-> TRUE, rejected |-> r] \in Status
    BY DEF Status
  <2> QED BY <1>2, <1>3, <2>1, <2>2, DecideKeeps
<1>7. CASE reopen_finding
  <2>1. [finding EXCEPT !.mitigated = FALSE] \in Status
    BY <1>1 DEF Status
  <2> QED BY <1>2, <1>3, <1>7, <2>1, DecideKeeps DEF reopen_finding
<1>8. CASE Reject
  <2>1. PICK m \in BOOLEAN : Decide([mitigated |-> m, rejected |-> TRUE], row, {})
    BY <1>8 DEF Reject
  <2>2. [mitigated |-> m, rejected |-> TRUE] \in Status
    BY DEF Status
  <2> QED BY <2>1, <2>2, DecideKeeps
<1> QED BY <1>4, <1>5, <1>6, <1>7, <1>8 DEF Users

-----------------------------------------------------------------------------
(* Tasks. *)

\* A task saves one of its copies.
LEMMA WorkKeeps ==
    ASSUME Inv, NEW job \in tasks, Work(job)
    PROVE  Inv'
<1> USE DEF Inv
<1>1. UNCHANGED <<async, finding, upload, uploads, told, own>>
  BY DEF Work
<1>2. PICK w \in Waiting : SavedNow(w)
  BY WorkSaves
<1>3. tasks' \subseteq Tasks /\ \A t \in tasks' : \E u \in tasks : t.kind = u.kind
  BY WorkSaves
<1>4. Gone' = Gone /\ Aimed' = Aimed /\ OpenAim' = OpenAim /\ ShutAim' = ShutAim /\ Unsaid' = Unsaid
  BY <1>1 DEF Gone, Aimed, Aim, OpenAim, ShutAim, Unsaid
<1>5. row' \in [Locations -> Rows \cup {None}]
  BY <1>2, SavedRow
<1>6. TypeOK'
  BY <1>1, <1>3, <1>5 DEF TypeOK
<1>7. OpenInv' /\ ShutInv'
  BY <1>1, <1>2, <1>4, SavingKeepsAims
<1>8. UploadInv'
  BY <1>1 DEF UploadInv
<1>9. TaskInv'
  <2>1. Waiting' \subseteq Waiting
    BY <1>2 DEF SavedNow
  <2>2. tasks = {} => tasks' = {}
    BY <1>3
  <2> QED BY <1>1, <1>3, <1>4, <2>1, <2>2 DEF TaskInv
<1>10. FindingInv'
  BY <1>1 DEF FindingInv
<1> QED BY <1>6, <1>7, <1>8, <1>9, <1>10

\* So does the request.
LEMMA WorkInlineKeeps ==
    ASSUME Inv, WorkInline
    PROVE  Inv'
<1> USE DEF Inv
<1>1. /\ \/ UNCHANGED <<row, Waiting>>
         \/ \E w \in Waiting : SavedNow(w)
      /\ upload /= None /\ upload' \in UploadSet /\ Len(upload'.inline) <= 1
      /\ \E s : upload' = [upload EXCEPT !.inline = s]
      /\ upload.inline /= <<>>
      /\ UNCHANGED <<async, finding, tasks, uploads, told, own>>
  BY WorkInlineSaves
<1>2. upload \in UploadSet /\ upload' /= None
  BY <1>1, NoneAssumption DEF TypeOK
<1>3. UNCHANGED <<upload.item, upload.rest, upload.stage, upload.found, upload.late, upload.said,
                 upload.before, upload.gone, upload.left, upload.closed>>
  BY <1>1, <1>2 DEF UploadSet
<1>4. Gone' = Gone /\ Aimed' = Aimed /\ OpenAim' = OpenAim /\ ShutAim' = ShutAim /\ Unsaid' = Unsaid
  BY <1>1, <1>2, <1>3 DEF Gone, Aimed, Aim, OpenAim, ShutAim, Unsaid
<1>5. row' \in [Locations -> Rows \cup {None}]
  <2>1. CASE UNCHANGED <<row, Waiting>>
    BY <2>1 DEF TypeOK
  <2>2. CASE \E w \in Waiting : SavedNow(w)
    BY <2>2, SavedRow
  <2> QED BY <1>1, <2>1, <2>2
<1>6. TypeOK'
  BY <1>1, <1>5 DEF TypeOK
<1>7. OpenInv' /\ ShutInv'
  <2>1. CASE UNCHANGED <<row, Waiting>>
    BY <1>1, <1>4, <2>1, AimsSame
  <2>2. CASE \E w \in Waiting : SavedNow(w)
    <3>1. PICK w \in Waiting : SavedNow(w)
      BY <2>2
    <3> QED BY <1>1, <1>4, <3>1, SavingKeepsAims
  <2> QED BY <1>1, <2>1, <2>2
<1>8. UploadInv'
  BY <1>1, <1>2, <1>3 DEF UploadInv
<1>9. TaskInv'
  <2>1. Waiting' \subseteq Waiting
    BY <1>1 DEF SavedNow
  <2> QED BY <1>1, <1>3, <1>4, <2>1 DEF TaskInv
<1>10. FindingInv'
  <2>1. CASE UNCHANGED <<row, Waiting>>
    BY <1>1, <1>3, <2>1 DEF FindingInv
  <2>2. CASE \E w \in Waiting : SavedNow(w)
    BY <1>1 DEF FindingInv
  <2> QED BY <1>1, <2>1, <2>2
<1> QED BY <1>6, <1>7, <1>8, <1>9, <1>10
-----------------------------------------------------------------------------
(* The whole specification. *)

\* At first nothing is found, promised or queued.
LEMMA InitInv ==
    ASSUME Init
    PROVE  Inv
<1>1. async \in BOOLEAN /\ finding = None /\ tasks = {} /\ upload = None
  BY ChunkAssumption DEF Init
<1>2. Waiting = {} /\ Gone = {}
  BY <1>1 DEF Waiting, Gone, Pairs
<1>3. TypeOK
  BY <1>1 DEF Init, TypeOK, Silent
<1>4. OpenAim = {} /\ ShutAim = {}
  BY <1>1 DEF Init, OpenAim, ShutAim, Silent
<1>5. UploadInv /\ TaskInv /\ FindingInv
  BY <1>1, <1>2 DEF Init, UploadInv, TaskInv, FindingInv
<1> QED BY <1>3, <1>4, <1>5 DEF Inv, OpenInv, ShutInv

\* A step that changes nothing.
LEMMA StutterKeeps ==
    ASSUME Inv, UNCHANGED vars
    PROVE  Inv'
<1>1. /\ UNCHANGED <<Waiting, Gone, Aimed, OpenAim, ShutAim>>
      /\ UNCHANGED <<async, finding, row, tasks, upload, uploads, told, own>>
  BY DEF vars, Waiting, Gone, Aimed, Aim, OpenAim, ShutAim
<1> QED BY <1>1 DEF Inv, TypeOK, UploadInv, TaskInv, FindingInv, OpenInv, ShutInv

\* Every step, of an upload, of a task or of a user.
LEMMA StepKeepsInv ==
    ASSUME Inv, [Next]_vars
    PROVE  Inv'
<1>1. CASE Upload
  BY <1>1, ScanKeeps, StartKeeps, MatchKeeps, ReactivateAllKeeps, UpdateKeeps,
     MitigateKeeps, AddKeeps, SaveKeeps, CollectKeeps, CloseOldKeeps, SaveClosedKeeps,
     AnswerKeeps DEF Upload
<1>2. CASE WorkInline
  BY <1>2, WorkInlineKeeps
<1>3. CASE \E job \in tasks : Work(job)
  BY <1>3, WorkKeeps
<1>4. CASE Users
  BY <1>4, UsersKeep
<1>5. CASE UNCHANGED vars
  BY <1>5, StutterKeeps
<1> QED BY <1>1, <1>2, <1>3, <1>4, <1>5 DEF Next

\* When all is done nothing waits, and the aims are what was promised.
LEMMA QuietIsDone ==
    ASSUME Quiet
    PROVE  Waiting = {} /\ Gone = {} /\ OpenAim = told.open /\ ShutAim = told.shut
BY DEF Quiet, Waiting, Gone, Pairs, OpenAim, ShutAim

\* Whatever the order of tasks and requests, and whatever items the report has
\* for the finding, an endpoint the last of them to reach update_endpoint_status
\* lists, and does not say is fixed, is active once the tasks it and
\* chunk_endpoints_and_disperse queued are done.
THEOREM ListedIsOpen == Spec => []ReportedActive
<1>1. Init => Inv
  BY InitInv
<1>2. Inv /\ [Next]_vars => Inv'
  BY StepKeepsInv
<1>3. Inv => ReportedActive
  BY QuietIsDone DEF Inv, OpenInv, ReportedActive, Quiet
<1> HIDE DEF Inv
<1> QED BY <1>1, <1>2, <1>3, PTL DEF Spec

\* Nor is one that item lacks, or that close_old_findings closes, left active by
\* a task that comes late.
THEOREM UnlistedIsShut == Spec => []UnreportedMitigated
<1>1. Init => Inv
  BY InitInv
<1>2. Inv /\ [Next]_vars => Inv'
  BY StepKeepsInv
<1>3. Inv => UnreportedMitigated
  BY QuietIsDone DEF Inv, ShutInv, UnreportedMitigated
<1> HIDE DEF Inv
<1> QED BY <1>1, <1>2, <1>3, PTL DEF Spec

=============================================================================
