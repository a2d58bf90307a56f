----------------------- MODULE DuplicateClustersProofs -----------------------
(***************************************************************************)
(* For any number of findings, tests and engagements, any deduplication    *)
(* algorithms and any order of requests and tasks: the duplicate relation  *)
(* has no chains and stays inside the deduplication scope, as long as      *)
(* users do not tick "Duplicate" on the close form nor act on outdated     *)
(* pages, and (for the scope) tests are not copied to other engagements.   *)
(* At the end, the same tasks run by any number of workers at once, which  *)
(* may die, with fix_loop_duplicates in between: what they save is well    *)
(* formed, and some finding is left as the original.                       *)
(***************************************************************************)
EXTENDS DedupeWorkers, TLAPS, WellFoundedInduction, FiniteSetTheorems

\* The switches the chain-freedom rests on are off.
Careful == ~CloseAsDuplicate /\ ~StalePages

\* The inductive invariant: a link with no flag would make a member a
\* candidate original, so chain-freedom is only inductive with LinkHasFlag.
ClusterInv == TypeOK /\ NoTransitiveDuplicates /\ LinkHasFlag

\* A set of keys that is not empty has a lowest one: the loops over a query
\* in key order have a first row.
LEMMA LowestExists ==
    ASSUME NEW S, S \subseteq Nat, S /= {}
    PROVE  \E m \in S : m \in Lowest(S)
<1> DEFINE R == {ss \in Nat \X Nat : ss[1] < ss[2]}
<1>1. OpToRel(<, Nat) = R
  BY DEF OpToRel
<1>2. IsWellFoundedOn(R, Nat)
  BY <1>1, NatLessThanWellFounded
<1>3. PICK m \in S : \A y \in S : ~ (<<y, m>> \in R)
  <2> HIDE DEF R
  <2> QED BY <1>2, WFMin
<1>4. ASSUME NEW y \in S PROVE m <= y
  <2>1. ~ (<<y, m>> \in R)
    BY <1>3
  <2>2. <<y, m>> \in Nat \X Nat /\ <<y, m>>[1] = y /\ <<y, m>>[2] = m
    BY <1>3
  <2>3. ~ (y < m)
    BY <2>1, <2>2
  <2> QED BY <2>3, <1>3
<1> QED BY <1>3, <1>4 DEF Lowest

\* The findings a dedupe task can choose from exist, are not flagged, and are
\* in the scope of the new finding.
LEMMA MatchInScope ==
    ASSUME NEW n, NEW e \in Match(n)
    PROVE  /\ e \in exists \ {n}
           /\ ~duplicate[e]
           /\ SameScope(n, e)
<1>1. /\ e \in Candidates(n)
      /\ ~is_deduplication_on_engagement_mismatch(n, e)
  BY DEF Match, Lowest
<1>2. e \in exists \ {n} /\ ~duplicate[e] /\ (Eng(n) \in InEngagement => Eng(e) = Eng(n))
  BY <1>1 DEF Candidates
<1>3. SameScope(n, e)
  BY <1>1, <1>2 DEF is_deduplication_on_engagement_mismatch, SameScope
<1> QED BY <1>2, <1>3

\* The heir of a deleted original is one of the duplicates that stay, and is
\* the finding that reconfigure_duplicate_cluster makes an original.
LEMMA HeirIsSurvivor ==
    ASSUME TypeOK, NEW S, S \subseteq exists, NEW f \in Orphans(S)
    PROVE  LET o == duplicate_finding[f] IN
           /\ HeirOf(o, S) \in Survivors(o, S)
           /\ HeirOf(o, S) \in Heirs(S)
<1> DEFINE o == duplicate_finding[f]
<1>1. f \in Survivors(o, S) /\ o \in S
  BY DEF Orphans, Survivors, Members
<1>2. Survivors(o, S) \subseteq Nat
  BY IdsAssumption DEF Survivors, Members, TypeOK
<1>3. HeirOf(o, S) \in Lowest(Survivors(o, S))
  BY <1>1, <1>2, LowestExists DEF HeirOf
<1>4. HeirOf(o, S) \in Survivors(o, S)
  BY <1>3 DEF Lowest
<1>5. HeirOf(o, S) \in Heirs(S)
  BY <1>1, <1>3, <1>4 DEF Heirs, Survivors, Members
<1> QED BY <1>4, <1>5

-----------------------------------------------------------------------------
\* A deletion keeps the relation: duplicates of a deleted original go to its
\* heir, or with it when clusters are deleted in cascade.
LEMMA DeleteKeepsClusterInv ==
    ASSUME ClusterInv, NEW S, S \subseteq exists, Delete(S)
    PROVE  ClusterInv'
<1> USE DEF ClusterInv, TypeOK, Put
<1>1. CASE CascadeDelete
  <2> DEFINE D == S \cup Orphans(S)
  <2>1. Forget(D) /\ UNCHANGED <<data, pending>>
    BY <1>1 DEF Delete
  <2>2. D \subseteq exists
    BY DEF Orphans
  <2>3. \A f \in exists \ D : duplicate_finding[f] /= None => duplicate_finding[f] \in exists \ D
    BY NoneAssumption DEF Orphans, NoTransitiveDuplicates
  <2> HIDE DEF D
  <2>4. /\ exists' = exists \ D
        /\ \A f \in Ids : /\ f \in D => duplicate_finding'[f] = None
                          /\ f \notin D => /\ duplicate_finding'[f] = duplicate_finding[f]
                                           /\ duplicate'[f] = duplicate[f]
    BY <2>1 DEF Forget
  <2>5. TypeOK'
    <3>1. duplicate_finding' \in [Ids -> exists' \cup {None}]
      BY <2>1, <2>2, <2>3, <2>4 DEF Forget
    <3> QED BY <2>1, <2>2, <2>4, <3>1 DEF Forget, data
  <2>6. NoTransitiveDuplicates'
    BY <2>2, <2>3, <2>4 DEF NoTransitiveDuplicates
  <2>7. LinkHasFlag'
    BY <2>2, <2>4 DEF LinkHasFlag
  <2> QED BY <2>5, <2>6, <2>7
<1>2. CASE ~CascadeDelete
  <2>1. HandOver(S) /\ UNCHANGED <<data, pending>>
    BY <1>2 DEF Delete
  <2>2. Heirs(S) \subseteq Orphans(S) /\ Orphans(S) \subseteq exists \ S
    BY DEF Heirs, Orphans
  <2>3. \A f \in Orphans(S) : HeirOf(duplicate_finding[f], S) \in Heirs(S)
    BY HeirIsSurvivor
  <2>4. \A f \in exists \ S : f \notin Orphans(S) /\ duplicate_finding[f] /= None =>
            duplicate_finding[f] \in exists \ (S \cup Heirs(S))
    <3>1. \A h \in Heirs(S) : duplicate_finding[h] /= None
      BY NoneAssumption DEF Heirs
    <3> QED BY <3>1 DEF Orphans, NoTransitiveDuplicates
  <2>5. /\ exists' = exists \ S
        /\ \A f \in Ids :
            /\ f \in S \cup Heirs(S) => duplicate_finding'[f] = None /\ ~duplicate'[f]
            /\ f \in Orphans(S) \ Heirs(S) =>
                    /\ duplicate_finding'[f] = HeirOf(duplicate_finding[f], S)
                    /\ duplicate'[f] = duplicate[f]
            /\ f \notin S \cup Orphans(S) =>
                    /\ duplicate_finding'[f] = duplicate_finding[f]
                    /\ duplicate'[f] = duplicate[f]
    BY <2>1, <2>2 DEF HandOver
  <2>6. TypeOK'
    <3>1. duplicate_finding' \in [Ids -> exists' \cup {None}]
      <4>1. \A f \in Ids : duplicate_finding'[f] \in exists' \cup {None}
        BY <2>2, <2>3, <2>4, <2>5
      <4> QED BY <2>1, <4>1 DEF HandOver
    <3>2. /\ duplicate' \in [Ids -> BOOLEAN]
          /\ active' \in [Ids -> BOOLEAN]
          /\ is_mitigated' \in [Ids -> BOOLEAN]
          /\ false_p' \in [Ids -> BOOLEAN]
      <4>1. \A h \in Heirs(S) : duplicate_finding[h] \in Ids
        BY DEF Heirs
      <4> QED BY <2>1, <2>2, <4>1 DEF HandOver
    <3> QED BY <2>1, <2>2, <2>5, <3>1, <3>2 DEF data
  <2>7. NoTransitiveDuplicates'
    <3> SUFFICES ASSUME NEW f \in exists \ S, duplicate_finding'[f] /= None
                 PROVE  /\ duplicate_finding'[duplicate_finding'[f]] = None
                        /\ ~duplicate'[duplicate_finding'[f]]
      BY <2>5 DEF NoTransitiveDuplicates
    <3>1. CASE f \in Orphans(S) \ Heirs(S)
      <4>1. duplicate_finding'[f] \in Heirs(S)
        BY <2>3, <2>5, <3>1
      <4> QED BY <2>2, <2>5, <4>1
    <3>2. CASE f \in Heirs(S)
      BY <2>2, <2>5, <3>2
    <3>3. CASE f \notin Orphans(S)
      <4> DEFINE g == duplicate_finding[f]
      <4>1. g = duplicate_finding'[f] /\ g \in exists \ (S \cup Heirs(S))
        BY <2>4, <2>5, <3>3
      <4>2. duplicate_finding[g] = None /\ ~duplicate[g]
        BY <4>1 DEF NoTransitiveDuplicates
      <4>3. g \notin Orphans(S)
        BY <4>2, NoneAssumption DEF Orphans
      <4> QED BY <2>5, <4>1, <4>2, <4>3
    <3> QED BY <2>2, <3>1, <3>2, <3>3
  <2>8. LinkHasFlag'
    <3>1. \A f \in Orphans(S) : duplicate_finding[f] /= None
      BY NoneAssumption DEF Orphans
    <3> QED BY <2>2, <2>5, <3>1 DEF LinkHasFlag
  <2> QED BY <2>6, <2>7, <2>8
<1> QED BY <1>1, <1>2

-----------------------------------------------------------------------------
\* A dedupe task: flattening takes the duplicates of the new finding along, and
\* the finding it moves them to is an original.
LEMMA DedupeKeepsClusterInv ==
    ASSUME ClusterInv, NEW n \in Ids, Dedupe(n)
    PROVE  ClusterInv'
<1> USE DEF ClusterInv, TypeOK, Put
<1>1. CASE Match(n) = {} /\ pending' = pending \ {n} /\ UNCHANGED <<link, active, is_mitigated>>
  BY <1>1 DEF Dedupe, data, link, NoTransitiveDuplicates, LinkHasFlag
<1>2. ASSUME NEW e \in Match(n), set_duplicate(n, e)
      PROVE  ClusterInv'
  <2> DEFINE moved == {n} \cup Members(n)
  <2>1. e \in exists \ {n} /\ ~duplicate[e]
    BY MatchInScope
  <2>2. duplicate_finding[e] = None
    BY <2>1 DEF LinkHasFlag
  <2>3. n \in exists /\ moved \subseteq exists /\ e \notin moved
    BY <2>1, <2>2, NoneAssumption DEF Dedupe, Members
  <2>4. /\ MoveBelow(moved, e)
        /\ UNCHANGED <<data, exists, false_p>>
        /\ pending' = (pending \ {n}) \cup Reopened(moved, e)
    BY <1>2 DEF set_duplicate, Dedupe
  <2>5. \A f \in exists \ moved : duplicate_finding[f] /= None => duplicate_finding[f] \notin moved
    BY NoneAssumption DEF Members, NoTransitiveDuplicates
  <2> HIDE DEF moved
  <2>6. /\ duplicate' = Put(duplicate, moved, TRUE)
        /\ duplicate_finding' = Put(duplicate_finding, moved, e)
        /\ exists' = exists
    BY <2>4 DEF MoveBelow
  <2>7. TypeOK'
    <3>1. active' \in [Ids -> BOOLEAN] /\ is_mitigated' \in [Ids -> BOOLEAN]
      BY <2>4 DEF MoveBelow
    <3> QED BY <2>1, <2>3, <2>4, <2>6, <3>1 DEF data, Reopened
  <2>8. NoTransitiveDuplicates'
    BY <2>1, <2>2, <2>3, <2>5, <2>6 DEF NoTransitiveDuplicates
  <2>9. LinkHasFlag'
    BY <2>3, <2>6 DEF LinkHasFlag
  <2> QED BY <2>7, <2>8, <2>9
<1> QED BY <1>1, <1>2 DEF Dedupe

\* "Set as original": everything that pointed to the moved findings moves too.
LEMMA SetAsOriginalKeepsClusterInv ==
    ASSUME ClusterInv, NEW f \in Ids, NEW n \in Ids, set_finding_as_original(f, n)
    PROVE  ClusterInv'
<1> USE DEF ClusterInv, TypeOK, Put
<1> DEFINE old == {duplicate_finding[f]} \cap exists
           cluster == duplicate[f] \/ Members(f) /= {}
           moved == (IF cluster THEN {f} \cup old \cup duplicate_finding_set(f) ELSE {f}) \ {n}
<1>1. /\ f \in exists /\ n \in exists
      /\ duplicate' = [Put(duplicate, moved, TRUE) EXCEPT ![n] = FALSE]
      /\ duplicate_finding' = [Put(duplicate_finding, moved, n) EXCEPT ![n] = None]
      /\ active' = IF cluster THEN active ELSE Put(active, moved, FALSE)
      /\ UNCHANGED <<data, exists, is_mitigated, false_p, pending>>
  BY DEF set_finding_as_original
<1>2. moved \subseteq exists \ {n}
  BY <1>1 DEF duplicate_finding_set, Members
\* no finding that stays points to one that moves
<1>3. \A g \in exists \ (moved \cup {n}) : duplicate_finding[g] \notin moved
  <2> SUFFICES ASSUME NEW g \in exists \ (moved \cup {n}), duplicate_finding[g] \in moved
               PROVE  FALSE
    OBVIOUS
  <2> DEFINE h == duplicate_finding[g]
  <2>1. h \in exists /\ h /= None /\ duplicate_finding[h] = None /\ ~duplicate[h]
    BY <1>2, NoneAssumption DEF NoTransitiveDuplicates
  <2>2. CASE h = f
    BY <2>1, <2>2 DEF duplicate_finding_set, Members
  <2>3. CASE h /= f /\ h \in old /\ cluster
    <3>1. duplicate[f] /\ duplicate_finding[f] = h
      BY <1>1, <2>1, <2>3 DEF LinkHasFlag
    <3> QED BY <2>1, <2>3, <3>1 DEF duplicate_finding_set, Members
  <2>4. CASE h \in duplicate_finding_set(f)
    BY <1>1, <2>1, <2>4, NoneAssumption DEF duplicate_finding_set, Members
  <2> QED BY <2>2, <2>3, <2>4
<1> HIDE DEF moved, cluster
<1>4. TypeOK'
  <2>1. active' \in [Ids -> BOOLEAN]
    BY <1>1
  <2> QED BY <1>1, <1>2, <2>1 DEF data
<1>5. NoTransitiveDuplicates'
  <2> SUFFICES ASSUME NEW g \in exists, duplicate_finding'[g] /= None
               PROVE  /\ duplicate_finding'[duplicate_finding'[g]] = None
                      /\ ~duplicate'[duplicate_finding'[g]]
    BY <1>1 DEF NoTransitiveDuplicates
  <2>1. CASE g \in moved
    BY <1>1, <1>2, <2>1
  <2>2. CASE g = n
    BY <1>1, <2>2
  <2>3. CASE g \notin moved \cup {n}
    BY <1>1, <1>2, <1>3, <2>3 DEF NoTransitiveDuplicates
  <2> QED BY <2>1, <2>2, <2>3
<1>6. LinkHasFlag'
  BY <1>1, <1>2 DEF LinkHasFlag
<1> QED BY <1>4, <1>5, <1>6

\* The other requests of users, one at a time.
LEMMA ManageKeepsClusterInv ==
    ASSUME Careful, ClusterInv, Manage
    PROVE  ClusterInv'
<1> USE DEF ClusterInv, TypeOK, Careful
<1>1. ASSUME NEW f \in Ids, NEW t \in Tests, Copy(f, t)
      PROVE  ClusterInv'
  <2>1. /\ next_id \in Ids \ exists
        /\ \A g \in exists : duplicate_finding[g] /= next_id
    BY <1>1, NoneAssumption DEF Copy, Create
  <2>2. TypeOK'
    BY <1>1, IdsAssumption DEF Copy, Create
  <2>3. NoTransitiveDuplicates' /\ LinkHasFlag'
    BY <1>1, <2>1, NoneAssumption DEF Copy, Create, NoTransitiveDuplicates, LinkHasFlag
  <2> QED BY <2>2, <2>3
<1>2. ASSUME NEW f \in Ids, NEW fp \in BOOLEAN, NEW dup \in BOOLEAN, Close(f, fp, dup)
      PROVE  ClusterInv'
  BY <1>2, NoneAssumption DEF Close, data, NoTransitiveDuplicates, LinkHasFlag
<1>3. ASSUME NEW f \in Ids, Reopen(f)
      PROVE  ClusterInv'
  BY <1>3 DEF Reopen, data, link, NoTransitiveDuplicates, LinkHasFlag
<1>4. ASSUME NEW o \in Ids, NEW d \in Ids, mark_finding_duplicate(o, d)
      PROVE  ClusterInv'
  <2> DEFINE g == IF duplicate[o] THEN duplicate_finding[o] ELSE o
  <2>1. /\ o \in exists /\ d \in exists /\ o /= d
        /\ duplicate_finding[o] /= d
        /\ \A m \in exists : duplicate_finding[m] /= d
        /\ duplicate' = [duplicate EXCEPT ![d] = TRUE]
        /\ duplicate_finding' = [duplicate_finding EXCEPT ![d] = g]
        /\ duplicate[o] => duplicate_finding[o] /= None
    BY <1>4 DEF mark_finding_duplicate, MarkOffered, Members
  <2>2. g \in exists \ {d} /\ duplicate_finding[g] = None /\ ~duplicate[g]
    BY <2>1 DEF NoTransitiveDuplicates, LinkHasFlag
  <2> HIDE DEF g
  <2>3. TypeOK'
    BY <1>4, <2>1, <2>2 DEF mark_finding_duplicate, data
  <2>4. NoTransitiveDuplicates' /\ LinkHasFlag'
    BY <1>4, <2>1, <2>2 DEF mark_finding_duplicate, NoTransitiveDuplicates, LinkHasFlag
  <2> QED BY <2>3, <2>4
<1>5. ASSUME NEW f \in Ids, reset_finding_duplicate_status(f)
      PROVE  ClusterInv'
  BY <1>5, NoneAssumption
     DEF reset_finding_duplicate_status, data, NoTransitiveDuplicates, LinkHasFlag
<1>6. ASSUME NEW f \in Ids, NEW n \in Ids, set_finding_as_original(f, n)
      PROVE  ClusterInv'
  BY <1>6, SetAsOriginalKeepsClusterInv
<1> QED BY <1>1, <1>2, <1>3, <1>4, <1>5, <1>6 DEF Manage

\* Every deletion, of users and of the periodic task, is one of a set of rows.
LEMMA RemoveKeepsClusterInv ==
    ASSUME ClusterInv, Remove
    PROVE  ClusterInv'
<1>1. \E S \in SUBSET exists : Delete(S)
  BY DEF Remove, DeleteFinding, DeleteTest, DeleteEngagement, async_dupe_delete
<1> QED BY <1>1, DeleteKeepsClusterInv

\* Every step of the system keeps the relation flat.
LEMMA StepKeepsClusterInv ==
    ASSUME Careful, ClusterInv, [Next]_vars
    PROVE  ClusterInv'
<1> USE DEF ClusterInv, TypeOK
<1>1. CASE Scan
  <2> PICK t \in Tests, a \in Attrs, s \in NewStatus : Import(t, a, s)
    BY <1>1 DEF Scan
  <2>1. s.active \in BOOLEAN /\ s.is_mitigated \in BOOLEAN /\ s.false_p \in BOOLEAN
    BY DEF NewStatus
  <2>2. /\ next_id \in Ids \ exists
        /\ \A g \in exists : duplicate_finding[g] /= next_id
    BY NoneAssumption DEF Import, Create
  <2>3. TypeOK'
    BY <2>1, IdsAssumption DEF Import, Create
  <2>4. NoTransitiveDuplicates' /\ LinkHasFlag'
    BY <2>2, NoneAssumption DEF Import, Create, NoTransitiveDuplicates, LinkHasFlag
  <2> QED BY <2>3, <2>4
<1>2. CASE Task
  <2> PICK n \in Ids : Dedupe(n) \/ DropTask(n)
    BY <1>2 DEF Task
  <2>1. CASE DropTask(n)
    BY <2>1 DEF DropTask, data, link, status, NoTransitiveDuplicates, LinkHasFlag
  <2> QED BY <2>1, DedupeKeepsClusterInv
<1>3. CASE Manage
  BY <1>3, ManageKeepsClusterInv
<1>4. CASE Remove
  BY <1>4, RemoveKeepsClusterInv
<1>5. CASE UNCHANGED vars
  BY <1>5 DEF vars, NoTransitiveDuplicates, LinkHasFlag
<1> QED BY <1>1, <1>2, <1>3, <1>4, <1>5 DEF Next

\* Whatever the order of imports, tasks, user requests and deletions, no
\* duplicate of a duplicate ever comes about: a finding's original is itself
\* neither linked nor flagged (DuplicateClusters.NoTransitiveDuplicates).
THEOREM ClustersAreFlat ==
    ASSUME Careful
    PROVE  Spec => [](TypeOK /\ NoTransitiveDuplicates /\ LinkHasFlag)
<1>1. Init => ClusterInv
  BY DEF Init, ClusterInv, TypeOK, NoTransitiveDuplicates, LinkHasFlag
<1>2. ClusterInv /\ [Next]_vars => ClusterInv'
  BY StepKeepsClusterInv
<1>3. ClusterInv => TypeOK /\ NoTransitiveDuplicates /\ LinkHasFlag
  BY DEF ClusterInv
<1> QED BY <1>1, <1>2, <1>3, PTL DEF Spec

-----------------------------------------------------------------------------
\* The condition of the duplicate actions is an equivalence, which is why
\* moving whole clusters on a check of two findings stays in scope.
LEMMA SameScopeTransitive ==
    ASSUME NEW f, NEW g, NEW h, SameScope(f, g), SameScope(g, h)
    PROVE  SameScope(f, h) /\ SameScope(g, f)
BY DEF SameScope

\* Where a step leaves the tests alone, it is enough that every link it writes
\* joins two findings in scope of one another.
LEMMA ScopeByLinks ==
    ASSUME ClusterInv, ScopeRespected, exists' \subseteq exists, test' = test,
           \A f \in exists' : \/ duplicate_finding'[f] \in {duplicate_finding[f], None}
                              \/ SameScope(f, duplicate_finding'[f])
    PROVE  ScopeRespected'
<1>1. \A f, g : SameScope(f, g)' <=> SameScope(f, g)
  BY DEF SameScope, Eng
<1>2. SUFFICES ASSUME NEW f \in exists', duplicate_finding'[f] /= None
               PROVE  SameScope(f, duplicate_finding'[f])
  BY <1>1 DEF ScopeRespected
<1> QED BY <1>2 DEF ScopeRespected

\* A new row, with no link or with the link of a finding of its engagement.
LEMMA CreateInScope ==
    ASSUME ClusterInv, ScopeRespected, NEW t \in Tests, NEW a, NEW s, NEW dup, NEW g,
           Create(t, a, s, dup, g),
           g = None \/ \E f \in exists : g = duplicate_finding[f] /\ engagement[t] = Eng(f)
    PROVE  ScopeRespected'
<1> USE DEF ClusterInv, TypeOK
<1>1. /\ next_id \in Ids \ exists
      /\ exists' = exists \cup {next_id}
      /\ \A f \in exists : test'[f] = test[f] /\ duplicate_finding'[f] = duplicate_finding[f]
      /\ test'[next_id] = t /\ duplicate_finding'[next_id] = g
  BY DEF Create
<1>2. SUFFICES ASSUME NEW f \in exists', duplicate_finding'[f] /= None
               PROVE  LET o == duplicate_finding'[f] IN
                      \/ engagement[test'[f]] = engagement[test'[o]]
                      \/ /\ engagement[test'[f]] \notin InEngagement
                         /\ engagement[test'[o]] \notin InEngagement
  BY DEF ScopeRespected, SameScope, Eng
<1>3. CASE f \in exists
  <2>1. duplicate_finding[f] \in exists /\ SameScope(f, duplicate_finding[f])
    BY <1>1, <1>2, <1>3 DEF ScopeRespected
  <2> QED BY <1>1, <1>3, <2>1 DEF SameScope, Eng
<1>4. CASE f = next_id
  <2>1. PICK m \in exists : g = duplicate_finding[m] /\ engagement[t] = Eng(m) /\ g /= None
    BY <1>1, <1>2, <1>4
  <2>2. SameScope(m, g) /\ g \in exists
    BY <2>1 DEF ScopeRespected
  <2> QED BY <1>1, <1>4, <2>1, <2>2 DEF SameScope, Eng
<1> QED BY <1>1, <1>3, <1>4

\* The heir of a deleted original is in the scope of the other members, because
\* each of them was in the scope of the original.
LEMMA DeleteInScope ==
    ASSUME ClusterInv, ScopeRespected, NEW S, S \subseteq exists, Delete(S)
    PROVE  ScopeRespected'
<1> USE DEF ClusterInv, TypeOK, Put
<1>1. exists' \subseteq exists /\ test' = test
  BY DEF Delete, Forget, HandOver, data
<1>2. SUFFICES ASSUME NEW f \in exists'
               PROVE  \/ duplicate_finding'[f] \in {duplicate_finding[f], None}
                      \/ SameScope(f, duplicate_finding'[f])
  BY <1>1, ScopeByLinks
<1>3. CASE CascadeDelete
  BY <1>1, <1>3 DEF Delete, Forget
<1>4. CASE ~CascadeDelete /\ f \in Orphans(S) \ Heirs(S)
  <2> DEFINE o == duplicate_finding[f]
             h == HeirOf(o, S)
  <2>1. h \in exists /\ duplicate_finding[h] = o /\ o \in exists
    BY <1>4, HeirIsSurvivor DEF Orphans, Survivors, Members
  <2>2. SameScope(f, o) /\ SameScope(h, o)
    BY <1>4, <2>1, NoneAssumption DEF ScopeRespected, Orphans
  <2>3. f \notin S /\ duplicate_finding'[f] = h
    BY <1>1, <1>4 DEF Delete, HandOver, Orphans
  <2> QED BY <2>2, <2>3 DEF SameScope
<1>5. CASE ~CascadeDelete /\ f \notin Orphans(S) \ Heirs(S)
  BY <1>1, <1>5 DEF Delete, HandOver
<1> QED BY <1>3, <1>4, <1>5

\* "Set as original" checks two findings and moves a whole cluster.
LEMMA SetAsOriginalInScope ==
    ASSUME ClusterInv, ScopeRespected, NEW f \in Ids, NEW n \in Ids,
           set_finding_as_original(f, n)
    PROVE  ScopeRespected'
<1> USE DEF ClusterInv, TypeOK, Put
<1> DEFINE old == {duplicate_finding[f]} \cap exists
           cluster == duplicate[f] \/ Members(f) /= {}
           moved == (IF cluster THEN {f} \cup old \cup duplicate_finding_set(f) ELSE {f}) \ {n}
<1>1. /\ f \in exists /\ n \in exists /\ SameScope(f, n)
      /\ duplicate_finding' = [Put(duplicate_finding, moved, n) EXCEPT ![n] = None]
      /\ exists' = exists /\ test' = test
  BY DEF set_finding_as_original, data
<1>2. \A m \in moved : SameScope(f, m)
  <2>1. \A m \in Members(f) : SameScope(m, f)
    BY <1>1, NoneAssumption DEF Members, ScopeRespected
  <2>2. ASSUME duplicate_finding[f] /= None
        PROVE  /\ SameScope(f, duplicate_finding[f])
               /\ \A m \in Members(duplicate_finding[f]) : SameScope(m, duplicate_finding[f])
    BY <1>1, <2>2 DEF Members, ScopeRespected
  <2>3. SameScope(f, f)
    BY DEF SameScope
  <2> QED BY <2>1, <2>2, <2>3, NoneAssumption DEF duplicate_finding_set, SameScope
<1>3. \A m \in moved : SameScope(m, n)
  BY <1>1, <1>2 DEF SameScope
<1> HIDE DEF moved
<1> QED BY <1>1, <1>3, ScopeByLinks

\* The other requests of users, with copies kept within an engagement.
LEMMA ManageInScope ==
    ASSUME Careful, ~CopyAcross, ClusterInv, ScopeRespected, Manage
    PROVE  ScopeRespected'
<1> USE DEF ClusterInv, TypeOK
<1>1. ASSUME NEW f \in Ids, NEW t \in Tests, Copy(f, t)
      PROVE  ScopeRespected'
  BY <1>1, CreateInScope DEF Copy
<1>2. ASSUME NEW f \in Ids, NEW fp \in BOOLEAN, NEW dup \in BOOLEAN, Close(f, fp, dup)
      PROVE  ScopeRespected'
  BY <1>2, ScopeByLinks DEF Close, data
<1>3. ASSUME NEW f \in Ids, Reopen(f)
      PROVE  ScopeRespected'
  BY <1>3, ScopeByLinks DEF Reopen, data, link
<1>4. ASSUME NEW o \in Ids, NEW d \in Ids, mark_finding_duplicate(o, d)
      PROVE  ScopeRespected'
  <2> DEFINE g == IF duplicate[o] THEN duplicate_finding[o] ELSE o
  <2>1. /\ o \in exists /\ d \in exists /\ SameScope(o, d)
        /\ duplicate[o] => duplicate_finding[o] /= None
        /\ exists' = exists /\ test' = test
        /\ duplicate_finding' = [duplicate_finding EXCEPT ![d] = g]
    BY <1>4 DEF mark_finding_duplicate, data
  <2>2. SameScope(d, g)
    BY <2>1, SameScopeTransitive DEF ScopeRespected, SameScope
  <2> HIDE DEF g
  <2> QED BY <2>1, <2>2, ScopeByLinks
<1>5. ASSUME NEW f \in Ids, reset_finding_duplicate_status(f)
      PROVE  ScopeRespected'
  BY <1>5, ScopeByLinks DEF reset_finding_duplicate_status, data
<1>6. ASSUME NEW f \in Ids, NEW n \in Ids, set_finding_as_original(f, n)
      PROVE  ScopeRespected'
  BY <1>6, SetAsOriginalInScope
<1> QED BY <1>1, <1>2, <1>3, <1>4, <1>5, <1>6 DEF Manage

\* A dedupe task checks the finding it was started for; the duplicates it takes
\* along were in the scope of that one.
LEMMA DedupeInScope ==
    ASSUME ClusterInv, ScopeRespected, NEW n \in Ids, Dedupe(n)
    PROVE  ScopeRespected'
<1> USE DEF ClusterInv, TypeOK, Put
<1>1. exists' = exists /\ test' = test
  BY DEF Dedupe, data
<1>2. CASE UNCHANGED link
  BY <1>1, <1>2, ScopeByLinks DEF link
<1>3. ASSUME NEW e \in Match(n), set_duplicate(n, e)
      PROVE  ScopeRespected'
  <2>1. duplicate_finding' = Put(duplicate_finding, {n} \cup Members(n), e)
    BY <1>3 DEF set_duplicate, MoveBelow
  <2>2. SameScope(n, e)
    BY MatchInScope
  <2>3. \A m \in Members(n) : SameScope(m, e)
    BY <2>2, NoneAssumption, SameScopeTransitive DEF Members, ScopeRespected
  <2> QED BY <1>1, <2>1, <2>2, <2>3, ScopeByLinks
<1> QED BY <1>2, <1>3 DEF Dedupe

\* As long as nothing is copied from one engagement to another, a duplicate and
\* its original are in one engagement, or in two that both deduplicate across
\* the product (DuplicateClusters.ScopeRespected).
THEOREM ClustersStayInScope ==
    ASSUME Careful, ~CopyAcross
    PROVE  Spec => []ScopeRespected
<1> DEFINE Inv == ClusterInv /\ ScopeRespected
<1>1. Init => Inv
  BY DEF Init, ClusterInv, TypeOK, NoTransitiveDuplicates, LinkHasFlag, ScopeRespected
<1>2. Inv /\ [Next]_vars => Inv'
  <2> SUFFICES ASSUME ClusterInv, ScopeRespected, [Next]_vars
               PROVE  ScopeRespected'
    BY StepKeepsClusterInv
  <2>1. CASE Scan
    BY <2>1, CreateInScope DEF Scan, Import
  <2>2. CASE Task
    <3> PICK n \in Ids : Dedupe(n) \/ DropTask(n)
      BY <2>2 DEF Task
    <3>1. CASE DropTask(n)
      BY <3>1, ScopeByLinks DEF DropTask, data, link
    <3> QED BY <3>1, DedupeInScope
  <2>3. CASE Manage
    BY <2>3, ManageInScope
  <2>4. CASE Remove
    <3>1. \E S \in SUBSET exists : Delete(S)
      BY <2>4 DEF Remove, DeleteFinding, DeleteTest, DeleteEngagement, async_dupe_delete
    <3> QED BY <3>1, DeleteInScope
  <2>5. CASE UNCHANGED vars
    BY <2>5, ScopeByLinks DEF vars
  <2> QED BY <2>1, <2>2, <2>3, <2>4, <2>5 DEF Next
<1>3. Inv => ScopeRespected
  OBVIOUS
<1> HIDE DEF Inv
<1> QED BY <1>1, <1>2, <1>3, PTL DEF Spec

-----------------------------------------------------------------------------
\* What a status means to the reopen check of set_duplicate: nothing is open
\* and fixed at once.  It holds whatever users do, chains of duplicates or not.
StatusInv ==
    /\ exists \subseteq Ids
    /\ active \in [Ids -> BOOLEAN]
    /\ is_mitigated \in [Ids -> BOOLEAN]
    /\ false_p \in [Ids -> BOOLEAN]
    /\ DOMAIN duplicate_finding = Ids
    /\ \A f \in Ids : ~ (active[f] /\ is_mitigated[f])

\* What moving findings below e does to the status columns.
LEMMA MoveBelowStatus ==
    ASSUME StatusInv, NEW moved, NEW e \in Ids, MoveBelow(moved, e)
    PROVE  /\ active' \in [Ids -> BOOLEAN]
           /\ is_mitigated' \in [Ids -> BOOLEAN]
           /\ \A f \in Ids : ~ (active'[f] /\ is_mitigated'[f])
           /\ DOMAIN duplicate_finding' = Ids
           /\ \A f \in Ids : active[f] /\ ~active'[f] => f \in moved
           /\ \A f \in moved \cap Ids : duplicate_finding'[f] = e
           /\ is_duplicate_reopen(moved, e) => active'[e]
<1> DEFINE reopen == is_duplicate_reopen(moved, e)
<1>1. reopen \in BOOLEAN
  BY DEF is_duplicate_reopen
<1>2. /\ duplicate_finding' = Put(duplicate_finding, moved, e)
      /\ active' = [Put(active, moved, FALSE) EXCEPT ![e] = @ \/ reopen]
      /\ is_mitigated' = [is_mitigated EXCEPT ![e] = @ /\ ~reopen]
  BY DEF MoveBelow
<1> HIDE DEF reopen
<1>3. Put(active, moved, FALSE) = [f \in Ids |-> IF f \in moved THEN FALSE ELSE active[f]]
  BY DEF Put, StatusInv
<1>4. \A f \in Ids : active'[f] = IF f = e THEN (f \notin moved /\ active[f]) \/ reopen
                                          ELSE f \notin moved /\ active[f]
  BY <1>1, <1>2, <1>3 DEF StatusInv
<1>5. \A f \in Ids : is_mitigated'[f] = IF f = e THEN is_mitigated[f] /\ ~reopen
                                                ELSE is_mitigated[f]
  BY <1>1, <1>2 DEF StatusInv
<1>6. active' \in [Ids -> BOOLEAN] /\ is_mitigated' \in [Ids -> BOOLEAN]
  BY <1>1, <1>2, <1>3 DEF StatusInv
<1>7. \A f \in Ids : ~ (active'[f] /\ is_mitigated'[f])
  BY <1>4, <1>5 DEF StatusInv
<1>8. DOMAIN duplicate_finding' = Ids /\ \A f \in moved \cap Ids : duplicate_finding'[f] = e
  BY <1>2 DEF Put, StatusInv
<1>9. /\ \A f \in Ids : active[f] /\ ~active'[f] => f \in moved
      /\ reopen => active'[e]
  BY <1>1, <1>4 DEF StatusInv
<1> QED BY <1>6, <1>7, <1>8, <1>9 DEF reopen

\* Every step keeps it: a new original takes the whole status of the old one.
LEMMA StepKeepsStatusInv ==
    ASSUME StatusInv, [Next]_vars
    PROVE  StatusInv'
<1> USE DEF StatusInv, Put
<1>1. ASSUME NEW t, NEW a, NEW s \in NewStatus, NEW dup, NEW o, Create(t, a, s, dup, o)
      PROVE  StatusInv'
  BY <1>1 DEF Create, NewStatus
<1>2. CASE Task
  <2> PICK n \in Ids : Dedupe(n) \/ DropTask(n)
    BY <1>2 DEF Task
  <2>1. ASSUME NEW e \in Match(n), Dedupe(n), set_duplicate(n, e)
        PROVE  StatusInv'
    <3>1. e \in Ids /\ MoveBelow({n} \cup Members(n), e)
      BY <2>1, MatchInScope DEF set_duplicate
    <3>2. exists' = exists /\ false_p' = false_p
      BY <2>1 DEF Dedupe
    <3> QED BY <3>1, <3>2, MoveBelowStatus
  <2>2. CASE UNCHANGED <<exists, link, active, is_mitigated, false_p>>
    BY <2>2 DEF link
  <2> QED BY <2>1, <2>2 DEF Dedupe, DropTask, link, status
<1>3. CASE Manage
  <2>1. ASSUME NEW f \in Ids, NEW t \in Tests, Copy(f, t)
        PROVE  StatusInv'
    BY <2>1 DEF Copy, Create
  <2>2. ASSUME NEW f \in Ids, NEW fp \in BOOLEAN, NEW dup \in BOOLEAN, Close(f, fp, dup)
        PROVE  StatusInv'
    BY <2>2 DEF Close
  <2>3. ASSUME NEW f \in Ids, Reopen(f)
        PROVE  StatusInv'
    BY <2>3 DEF Reopen, link
  <2>4. ASSUME NEW o \in Ids, NEW d \in Ids, mark_finding_duplicate(o, d)
        PROVE  StatusInv'
    BY <2>4 DEF mark_finding_duplicate
  <2>5. ASSUME NEW f \in Ids, reset_finding_duplicate_status(f)
        PROVE  StatusInv'
    BY <2>5 DEF reset_finding_duplicate_status
  <2>6. ASSUME NEW f \in Ids, NEW n \in Ids, set_finding_as_original(f, n)
        PROVE  StatusInv'
    <3> PICK moved :
            /\ duplicate_finding' = [Put(duplicate_finding, moved, n) EXCEPT ![n] = None]
            /\ active' = active \/ active' = Put(active, moved, FALSE)
            /\ UNCHANGED <<exists, is_mitigated, false_p>>
      BY <2>6 DEF set_finding_as_original
    <3>2. active' \in [Ids -> BOOLEAN] /\ \A g \in Ids : active'[g] => active[g]
      OBVIOUS
    <3> QED BY <3>2
  <2> QED BY <1>3, <2>1, <2>2, <2>3, <2>4, <2>5, <2>6 DEF Manage
<1>4. CASE Remove
  <2>1. PICK S \in SUBSET exists : Delete(S)
    BY <1>4 DEF Remove, DeleteFinding, DeleteTest, DeleteEngagement, async_dupe_delete
  <2>2. CASE CascadeDelete
    BY <2>1, <2>2 DEF Delete, Forget
  <2>3. CASE ~CascadeDelete
    <3>1. HandOver(S)
      BY <2>1, <2>3 DEF Delete
    <3>2. \A f \in Heirs(S) : duplicate_finding[f] \in Ids
      BY DEF Heirs
    <3>3. \A f \in Ids : /\ active'[f] = CASE f \in S -> FALSE
                                           [] f \in Heirs(S) -> active[duplicate_finding[f]]
                                           [] OTHER -> active[f]
                         /\ is_mitigated'[f] = CASE f \in S -> FALSE
                                           [] f \in Heirs(S) -> is_mitigated[duplicate_finding[f]]
                                           [] OTHER -> is_mitigated[f]
      BY <3>1 DEF HandOver
    <3>4. active' \in [Ids -> BOOLEAN] /\ is_mitigated' \in [Ids -> BOOLEAN]
             /\ false_p' \in [Ids -> BOOLEAN]
      BY <3>1, <3>2 DEF HandOver
    <3>5. \A f \in Ids : ~ (active'[f] /\ is_mitigated'[f])
      BY <3>2, <3>3
    <3> QED BY <3>1, <3>4, <3>5 DEF HandOver
  <2> QED BY <2>2, <2>3
<1>5. CASE UNCHANGED vars
  BY <1>5 DEF vars
<1> QED BY <1>1, <1>2, <1>3, <1>4, <1>5 DEF Next, Scan, Import

\* For every finding a task moves, with the duplicates it takes along: if it was
\* open, the original it moves below is open after the task, or never was fixed
\* (DuplicateClusters.OpenFindingNotHidden).  No assumption on what users do.
THEOREM OpenFindingsStaySeen ==
    Spec => OpenFindingNotHidden
<1> DEFINE Seen == Task => \A f \in exists, e \in exists :
                        (active[f] /\ ~active'[f] /\ duplicate_finding'[f] = e)
                            => (active'[e] \/ false_p[e] \/ ~is_mitigated[e])
<1>1. Init => StatusInv
  BY DEF Init, StatusInv
<1>2. ASSUME StatusInv, Task
      PROVE  Seen
  <2> SUFFICES ASSUME NEW f \in exists, NEW e \in exists, active[f], ~active'[f],
                      duplicate_finding'[f] = e, ~false_p[e], is_mitigated[e]
               PROVE  active'[e]
    OBVIOUS
  <2>1. PICK n \in Ids : Dedupe(n) \/ DropTask(n)
    BY <1>2 DEF Task
  <2>2. PICK e0 \in Match(n) : set_duplicate(n, e0)
    BY <2>1 DEF Dedupe, DropTask, status
  <2> DEFINE moved == {n} \cup Members(n)
  <2>3. f \in Ids /\ e0 \in Ids /\ MoveBelow(moved, e0)
    BY <1>2, <2>2, MatchInScope DEF set_duplicate, StatusInv
  <2> HIDE DEF moved
  <2>4. f \in moved /\ e0 = e
    BY <1>2, <2>3, MoveBelowStatus
  <2>5. is_duplicate_reopen(moved, e0)
    BY <1>2, <2>3, <2>4 DEF is_duplicate_reopen, StatusInv
  <2> QED BY <1>2, <2>3, <2>4, <2>5, MoveBelowStatus
<1>3. StatusInv /\ [Next]_vars => StatusInv' /\ [Seen]_vars
  BY <1>2, StepKeepsStatusInv
<1> QED BY <1>1, <1>3, PTL DEF Spec, OpenFindingNotHidden

-----------------------------------------------------------------------------
\* Would the task of n take e for its original, if nothing stood in the way?
\* Nothing here changes while both are in the table.
Linkable(n, e) ==
    /\ Eng(n) \in InEngagement => Eng(e) = Eng(n)
    /\ Queried(n, e)
    /\ ~is_deduplication_on_engagement_mismatch(n, e)
    /\ Accepted(n, e)

\* Of the originals whose task has run no two would take each other.
ApartInv ==
    /\ exists \subseteq {f \in Ids : f < next_id}
    /\ next_id \in Nat
    /\ DOMAIN test = Ids /\ DOMAIN attr = Ids
    /\ duplicate \in [Ids -> BOOLEAN]
    /\ \A f, g \in exists \ pending :
            f /= g /\ ~duplicate[f] /\ ~duplicate[g] => ~ (Linkable(f, g) /\ Linkable(g, f))

\* The loops of three of the algorithms go on until they find a match: a task
\* without one has looked at every candidate.
LEMMA NoMatchNoCandidate ==
    ASSUME ApartInv, NEW n \in exists, algorithm[test[n]] /= "uid_or_hash_code"
    PROVE  /\ Match(n) = {} => \A e \in exists \ {n} : ~duplicate[e] => ~Linkable(n, e)
           /\ \A e \in Match(n) : e \in exists \ {n} /\ ~duplicate[e] /\ Linkable(n, e)
<1> DEFINE S == {e \in {x \in Candidates(n) : ~is_deduplication_on_engagement_mismatch(n, x)} :
                    Accepted(n, e)}
<1>1. Match(n) = Lowest(S)
  BY DEF Match
<1>2. \A e : e \in S <=> e \in exists \ {n} /\ ~duplicate[e] /\ Linkable(n, e)
  BY DEF Candidates, Linkable
<1>3. S \subseteq Nat
  BY <1>2, IdsAssumption DEF ApartInv
<1> HIDE DEF S
<1>4. S /= {} => Match(n) /= {}
  BY <1>1, <1>3, LowestExists
<1>5. Match(n) \subseteq S
  BY <1>1 DEF Lowest
<1> QED BY <1>2, <1>4, <1>5

\* Whether one finding would take another is not touched while both are there.
LEMMA LinkableIsFixed ==
    ASSUME NEW f, NEW g, test'[f] = test[f], test'[g] = test[g],
           attr'[f] = attr[f], attr'[g] = attr[g]
    PROVE  Linkable(f, g)' = Linkable(f, g)
BY DEF Linkable, Eng, Queried, Accepted, is_deduplication_on_engagement_mismatch,
       SameHash, SameUid, SameTool, SameEndpoints, SameLegacy

\* Once the queue of a scan is empty nothing two-way equal is left apart, for
\* every order of imports and tasks (DuplicateClusters.Deduplicated).  The
\* algorithm uid_or_hash_code has to be left out: its loop gives up after the
\* first row, and there are four findings it leaves apart.
THEOREM ScansDeduplicate ==
    ASSUME \A t \in Tests : algorithm[t] /= "uid_or_hash_code"
    PROVE  ScanSpec => []Deduplicated
<1> DEFINE Inv == ApartInv /\ \A f \in Ids : test[f] \in Tests
<1>1. Init => Inv
  <2> SUFFICES ASSUME Init PROVE Inv
    OBVIOUS
  <2>1. PICK t \in Tests, a \in Attrs : test = [f \in Ids |-> t] /\ attr = [f \in Ids |-> a]
    BY DEF Init
  <2> QED BY <2>1 DEF Init, ApartInv
<1>2. Inv /\ [Scan \/ Task]_vars => Inv'
  <2> SUFFICES ASSUME Inv, [Scan \/ Task]_vars PROVE Inv'
    OBVIOUS
  <2>1. CASE Scan
    <3> PICK t \in Tests, a \in Attrs, s \in NewStatus : Import(t, a, s)
      BY <2>1 DEF Scan
    <3>1. /\ next_id \in Ids \ exists
          /\ next_id' = next_id + 1
          /\ exists' = exists \cup {next_id}
          /\ pending' = pending \cup {next_id}
          /\ test' = [test EXCEPT ![next_id] = t]
          /\ attr' = [attr EXCEPT ![next_id] = a]
          /\ duplicate' = [duplicate EXCEPT ![next_id] = FALSE]
      BY DEF Import, Create, ApartInv
    <3>2. \A f, g \in exists : Linkable(f, g)' = Linkable(f, g)
      BY <3>1, LinkableIsFixed DEF ApartInv
    <3>3. exists' \ pending' \subseteq exists \ pending
      BY <3>1
    <3>4. \A f, g \in exists' \ pending' :
            f /= g /\ ~duplicate'[f] /\ ~duplicate'[g] => ~ (Linkable(f, g)' /\ Linkable(g, f)')
      BY <3>1, <3>2, <3>3 DEF ApartInv
    <3>5. exists' \subseteq {f \in Ids : f < next_id'} /\ next_id' \in Nat
      BY <3>1, IdsAssumption DEF ApartInv
    <3> QED BY <3>1, <3>4, <3>5 DEF ApartInv
  <2>2. CASE Task
    <3> PICK n \in Ids : Dedupe(n) \/ DropTask(n)
      BY <2>2 DEF Task
    <3>1. exists' = exists /\ UNCHANGED data
      BY DEF Dedupe, DropTask
    <3>2. \A f, g : Linkable(f, g)' = Linkable(f, g)
      BY <3>1, LinkableIsFixed DEF data
    <3>3. ASSUME NEW e \in Match(n), Dedupe(n), set_duplicate(n, e)
          PROVE  Inv'
      <4>1. /\ duplicate' = Put(duplicate, {n} \cup Members(n), TRUE)
            /\ pending \ {n} \subseteq pending'
        BY <3>3 DEF set_duplicate, MoveBelow
      <4>2. /\ duplicate' \in [Ids -> BOOLEAN]
            /\ duplicate'[n]
            /\ \A f \in Ids : duplicate[f] => duplicate'[f]
        BY <4>1 DEF Put, ApartInv
      <4>3. \A f, g \in exists' \ pending' :
              f /= g /\ ~duplicate'[f] /\ ~duplicate'[g] => ~ (Linkable(f, g)' /\ Linkable(g, f)')
        BY <3>1, <3>2, <4>1, <4>2 DEF ApartInv
      <4> QED BY <3>1, <4>2, <4>3 DEF ApartInv, data
    <3>4. CASE Dedupe(n) /\ Match(n) = {} /\ pending' = pending \ {n} /\ UNCHANGED link
      <4>1. \A e \in exists \ {n} : ~duplicate[e] => ~Linkable(n, e)
        BY <3>4, NoMatchNoCandidate DEF Dedupe
      <4>2. \A f, g \in exists' \ pending' :
              f /= g /\ ~duplicate'[f] /\ ~duplicate'[g] => ~ (Linkable(f, g)' /\ Linkable(g, f)')
        BY <3>1, <3>2, <3>4, <4>1 DEF ApartInv, link
      <4> QED BY <3>1, <3>4, <4>2 DEF ApartInv, data, link
    <3>5. CASE DropTask(n)
      <4>1. exists' \ pending' = exists \ pending
        BY <3>1, <3>5 DEF DropTask
      <4>2. \A f, g \in exists' \ pending' :
              f /= g /\ ~duplicate'[f] /\ ~duplicate'[g] => ~ (Linkable(f, g)' /\ Linkable(g, f)')
        BY <3>1, <3>2, <3>5, <4>1 DEF DropTask, ApartInv, link
      <4> QED BY <3>1, <3>5, <4>2 DEF DropTask, ApartInv, data, link
    <3> QED BY <3>3, <3>4, <3>5 DEF Dedupe
  <2>3. CASE UNCHANGED vars
    <3>1. \A f, g : Linkable(f, g)' = Linkable(f, g)
      BY <2>3, LinkableIsFixed DEF vars
    <3> QED BY <2>3, <3>1 DEF vars, ApartInv
  <2> QED BY <2>1, <2>2, <2>3
<1>3. Inv => Deduplicated
  <2> SUFFICES ASSUME Inv, pending = {}, NEW f \in exists, NEW g \in exists,
                      g \in Match(f), f \in Match(g)
               PROVE  FALSE
    BY DEF Deduplicated
  <2>1. /\ g \in exists \ {f} /\ ~duplicate[g] /\ Linkable(f, g)
        /\ ~duplicate[f] /\ Linkable(g, f)
    BY NoMatchNoCandidate DEF ApartInv
  <2> QED BY <2>1 DEF ApartInv
<1> HIDE DEF Inv
<1> QED BY <1>1, <1>2, <1>3, PTL DEF ScanSpec

-----------------------------------------------------------------------------
(* DuplicateClusters implements ClusterPartition, for any number of findings *)
(* and any order of scans, tasks, requests and deletions.  Each kind of      *)
(* write to the links is a step of the partition, and each operation is one  *)
(* of these kinds.                                                           *)

Roots == [f \in Ids |-> Root(f)]

\* A root is in the table and is its own root; a key not in the table, too.
LEMMA RootsAreRoots ==
    ASSUME ClusterInv
    PROVE  /\ \A f \in Ids \ exists : Root(f) = f
           /\ \A f \in exists : Root(f) \in exists /\ Root(Root(f)) = Root(f)
           /\ exists \subseteq Ids
BY DEF ClusterInv, TypeOK, NoTransitiveDuplicates, Root

\* A step that touches neither links nor rows leaves the partition alone.
LEMMA SameLinks ==
    ASSUME exists' = exists, duplicate_finding' = duplicate_finding
    PROVE  UNCHANGED Partition!vars
<1>1. \A f \in Ids : Root(f)' = Root(f)
  BY DEF Root
<1> QED BY <1>1 DEF Partition!vars

\* One finding loses its link.
LEMMA UnlinkLeaves ==
    ASSUME ClusterInv, NEW f \in exists, exists' = exists,
           duplicate_finding' = [duplicate_finding EXCEPT ![f] = None]
    PROVE  Partition!Leave(f)
<1>1. \A g \in Ids : Root(g)' = IF g = f THEN f ELSE Root(g)
  BY DEF Root, ClusterInv, TypeOK
<1> QED BY <1>1 DEF Partition!Leave, Partition!Into

\* A finding and its members get a new original.
LEMMA MoveJoins ==
    ASSUME ClusterInv, NEW f \in exists, NEW r \in exists \ {f},
           duplicate_finding[r] = None, exists' = exists,
           duplicate_finding' = Put(duplicate_finding, {f} \cup Members(f), r)
    PROVE  Partition!Join(f, r)
<1>1. exists \subseteq Ids /\ Root(r) = r /\ r /= None
  BY NoneAssumption DEF Root, ClusterInv, TypeOK
<1>2. \A g \in exists : Root(g) = f \/ g = f <=> g \in {f} \cup Members(f)
  BY NoneAssumption, <1>1 DEF Root, Members
<1>3. \A g \in Ids : Root(g)' = IF g \in {f} \cup Members(f) THEN r ELSE Root(g)
  <2>1. \A g \in Ids : duplicate_finding'[g] =
            IF g \in {f} \cup Members(f) THEN r ELSE duplicate_finding[g]
    BY DEF Put, ClusterInv, TypeOK
  <2> QED BY <1>1, <2>1 DEF Root
<1>4. Partition!With(f) = {f} \cup Members(f)
  BY <1>1, <1>2 DEF Partition!With, Partition!Cluster, Members
<1>5. r \in Partition!Representatives
  BY <1>1 DEF Partition!Representatives
<1> QED BY <1>3, <1>4, <1>5 DEF Partition!Join, Partition!Into

\* A new row, without a link or with the link of a row in the table.
LEMMA CreateAppears ==
    ASSUME ClusterInv, NEW t, NEW a, NEW s, NEW dup, NEW o,
           Create(t, a, s, dup, o),
           o = None \/ \E f \in exists : o = duplicate_finding[f]
    PROVE  \E f, r \in Ids : Partition!Appear(f, r)
<1>1. /\ next_id \in Ids \ exists
      /\ exists' = exists \cup {next_id}
      /\ duplicate_finding' = [duplicate_finding EXCEPT ![next_id] = o]
  BY DEF Create, ClusterInv, TypeOK
<1> DEFINE r == IF o = None THEN next_id ELSE o
<1>2. r \in Ids /\ r \in Partition!Representatives \cup {next_id}
  BY <1>1, NoneAssumption
     DEF Partition!Representatives, Root, ClusterInv, TypeOK, NoTransitiveDuplicates
<1>3. \A g \in Ids : Root(g)' = IF g = next_id THEN r ELSE Root(g)
  BY <1>1 DEF Root, ClusterInv, TypeOK
<1>4. Partition!Appear(next_id, r)
  BY <1>1, <1>2, <1>3 DEF Partition!Appear, Partition!Into
<1> QED BY <1>1, <1>2, <1>4

\* "Set as original" crowns the chosen finding.
LEMMA SetAsOriginalCrowns ==
    ASSUME ClusterInv, NEW f \in Ids, NEW n \in Ids, set_finding_as_original(f, n)
    PROVE  Partition!Crown(f, n)
<1> USE DEF ClusterInv, TypeOK, Put
<1> DEFINE old == {duplicate_finding[f]} \cap exists
           cluster == duplicate[f] \/ Members(f) /= {}
           moved == (IF cluster THEN {f} \cup old \cup duplicate_finding_set(f) ELSE {f}) \ {n}
<1>1. /\ f \in exists /\ n \in exists /\ exists' = exists
      /\ duplicate_finding' = [Put(duplicate_finding, moved, n) EXCEPT ![n] = None]
  BY DEF set_finding_as_original
<1>2. n /= None
  BY NoneAssumption
<1>3. moved \cup {n} = Partition!Cluster(Root(f)) \cup {n}
  <2>1. CASE duplicate_finding[f] = None
    <3>1. Partition!Cluster(Root(f)) = {f} \cup Members(f)
      BY <1>1, <2>1, NoneAssumption DEF Partition!Cluster, Root, Members
    <3>2. old = {}
      BY <2>1, NoneAssumption
    <3>3. duplicate_finding_set(f) = Members(f) \/ duplicate_finding_set(f) = {}
      BY <2>1 DEF duplicate_finding_set
    <3>4. duplicate[f] => Members(f) = {}
      BY <1>1, NoneAssumption DEF Members, NoTransitiveDuplicates
    <3> QED BY <3>1, <3>2, <3>3, <3>4 DEF duplicate_finding_set
  <2>2. CASE duplicate_finding[f] /= None
    <3> DEFINE o == duplicate_finding[f]
    <3>1. duplicate[f] /\ o \in exists /\ duplicate_finding[o] = None
      BY <1>1, <2>2 DEF LinkHasFlag, NoTransitiveDuplicates
    <3>2. Partition!Cluster(Root(f)) = {o} \cup Members(o)
      BY <1>1, <2>2, <3>1, NoneAssumption DEF Partition!Cluster, Root, Members
    <3>3. duplicate_finding_set(f) = Members(o) /\ old = {o} /\ f \in Members(o)
      BY <1>1, <2>2, <3>1 DEF duplicate_finding_set, Members
    <3> QED BY <3>1, <3>2, <3>3
  <2> QED BY <2>1, <2>2
<1>4. n \notin moved
  OBVIOUS
<1> HIDE DEF moved
<1>5. \A g \in Ids : Root(g)' = IF g \in moved \cup {n} THEN n ELSE Root(g)
  <2>1. \A g \in Ids : duplicate_finding'[g] =
            IF g = n THEN None ELSE IF g \in moved THEN n ELSE duplicate_finding[g]
    BY <1>1
  <2> QED BY <1>2, <1>4, <2>1 DEF Root
<1>6. [g \in Ids |-> Root(g)]' = Partition!Into(Partition!Cluster(Root(f)) \cup {n}, n)
  BY <1>3, <1>5 DEF Partition!Into
<1> QED BY <1>1, <1>6 DEF Partition!Crown
-----------------------------------------------------------------------------
\* What a deletion does to the links: survivors of a deleted original point to
\* its heir, which points nowhere.
LEMMA DeleteMoves ==
    ASSUME ClusterInv, NEW S, S \subseteq exists, Delete(S), ~CascadeDelete
    PROVE  /\ exists' = exists \ S
           /\ \A f \in S : duplicate_finding'[f] = None
           /\ \A f \in exists \ S :
                /\ duplicate_finding[f] \in S =>
                    LET h == HeirOf(duplicate_finding[f], S) IN
                    /\ h \in Survivors(duplicate_finding[f], S)
                    /\ Root(f)' = h
                    /\ duplicate_finding'[h] = None
                    /\ ~duplicate'[h]
                    /\ active'[h] = active[duplicate_finding[f]]
                /\ duplicate_finding[f] \notin S => duplicate_finding'[f] = duplicate_finding[f]
<1> USE DEF ClusterInv, TypeOK, Put
<1>1. HandOver(S)
  BY DEF Delete
<1>2. /\ exists' = exists \ S
      /\ \A f \in Ids : /\ f \in S => duplicate_finding'[f] = None
                        /\ f \in Heirs(S) => /\ duplicate_finding'[f] = None
                                             /\ ~duplicate'[f]
                        /\ f \in Orphans(S) \ Heirs(S) =>
                                duplicate_finding'[f] = HeirOf(duplicate_finding[f], S)
                        /\ f \notin S \cup Orphans(S) \cup Heirs(S) =>
                                duplicate_finding'[f] = duplicate_finding[f]
                        /\ f \in Heirs(S) \ S => active'[f] = active[duplicate_finding[f]]
  BY <1>1 DEF HandOver, Orphans
<1>3. \A f \in exists \ S : f \in Orphans(S) <=> duplicate_finding[f] \in S
  BY DEF Orphans
<1>4. Heirs(S) \subseteq Orphans(S)
  BY DEF Heirs, Orphans
<1>5. ASSUME NEW f \in exists \ S, duplicate_finding[f] \in S
      PROVE  LET h == HeirOf(duplicate_finding[f], S) IN
             /\ h \in Survivors(duplicate_finding[f], S)
             /\ Root(f)' = h
             /\ duplicate_finding'[h] = None
             /\ ~duplicate'[h]
             /\ active'[h] = active[duplicate_finding[f]]
  <2> DEFINE o == duplicate_finding[f]
             h == HeirOf(o, S)
  <2>1. f \in Orphans(S)
    BY <1>3, <1>5
  <2>2. h \in Survivors(o, S) /\ h \in Heirs(S)
    BY <2>1, HeirIsSurvivor
  <2>3. duplicate_finding[h] = o /\ h \in exists \ S
    BY <2>2 DEF Survivors, Members
  <2>4. f \in Heirs(S) => h = f
    <3> SUFFICES ASSUME f \in Heirs(S) PROVE h = f
      OBVIOUS
    <3>1. f \in Lowest(Survivors(o, S)) /\ h \in Lowest(Survivors(o, S))
      BY <2>2, <2>3 DEF Heirs
    <3>2. f <= h /\ h <= f
      BY <3>1 DEF Lowest
    <3>3. f \in Nat /\ h \in Nat
      BY <2>3, IdsAssumption
    <3> HIDE DEF h
    <3> QED BY <3>2, <3>3
  <2>5. Root(f)' = h
    BY <1>2, <2>1, <2>3, <2>4, NoneAssumption DEF Root
  <2> QED BY <1>2, <2>2, <2>3, <2>5
<1> QED BY <1>2, <1>3, <1>4, <1>5

\* A deletion is a Vanish: of the rows, or with their duplicates in cascade.
LEMMA DeleteVanishes ==
    ASSUME ClusterInv, NEW S, S \subseteq exists, Delete(S)
    PROVE  \E D \in SUBSET exists : Partition!Vanish(D)
<1>0. ClusterInv'
  BY DeleteKeepsClusterInv
<1>1. \A f \in exists' : Root(f)' \in exists' /\ Root(Root(f))' = Root(f)'
  BY <1>0 DEF ClusterInv, TypeOK, NoTransitiveDuplicates, Root
<1>2. exists \subseteq Ids
  BY DEF ClusterInv, TypeOK
<1>3. CASE CascadeDelete
  <2> DEFINE D == S \cup Orphans(S)
  <2>1. exists' = exists \ D /\ D \in SUBSET exists
    BY <1>3 DEF Delete, Forget, Orphans
  <2>2. \A f \in Ids : Root(f)' = IF f \in D THEN f ELSE Root(f)
    BY <1>3 DEF Delete, Forget, Root, Put, ClusterInv, TypeOK
  <2>3. \A f \in Ids \ D : Root(f) \notin D
    BY NoneAssumption DEF Root, Orphans, ClusterInv, TypeOK, NoTransitiveDuplicates
  <2> HIDE DEF D
  <2>4. Partition!Vanish(D)
    <3> DEFINE idf == [f \in Ids |-> f]
    <3>1. idf \in [Ids -> Ids]
      OBVIOUS
    <3> HIDE DEF idf
    <3>2. [f \in Ids |-> Root(f)]' = [f \in Ids |->
              CASE f \in D -> f
                [] f \notin D /\ Root(f) \in D -> idf[Root(f)]
                [] OTHER -> Root(f)]
      BY <2>2, <2>3
    <3>3. \A f \in exists' : Root(f)' \in Ids /\ f \in Ids
      BY <1>1, <1>2, <2>1
    <3> QED BY <1>1, <2>1, <3>1, <3>2, <3>3 DEF Partition!Vanish
  <2> QED BY <2>1, <2>4
<1>4. CASE ~CascadeDelete
  <2> DEFINE heir == [o \in Ids |-> IF \E f \in exists \ S : duplicate_finding[f] = o
                                    THEN HeirOf(o, S) ELSE o]
  <2>1. /\ exists' = exists \ S
        /\ \A f \in S : duplicate_finding'[f] = None
        /\ \A f \in exists \ S :
                /\ duplicate_finding[f] \in S =>
                    LET h == HeirOf(duplicate_finding[f], S) IN
                    /\ h \in Survivors(duplicate_finding[f], S)
                    /\ Root(f)' = h
                /\ duplicate_finding[f] \notin S => duplicate_finding'[f] = duplicate_finding[f]
    BY <1>4, DeleteMoves
  <2>2. \A f \in Ids \ exists : Root(f)' = f /\ Root(f) = f
    BY <1>0, <2>1 DEF Root, ClusterInv, TypeOK
  <2>3. \A f \in S : Root(f)' = f
    BY <2>1 DEF Root
  <2>4. \A f \in exists \ S : duplicate_finding[f] \in S =>
            Root(f) = duplicate_finding[f] /\ Root(f)' = heir[Root(f)]
    BY <1>2, <2>1, NoneAssumption DEF Root
  <2>5. \A f \in exists \ S : duplicate_finding[f] \notin S =>
            Root(f) \notin S /\ Root(f)' = Root(f)
    BY <2>1 DEF Root
  <2>6. \E hr \in [Ids -> Ids] : \A o \in S : (\E f \in exists \ S : duplicate_finding[f] = o)
                                    => hr[o] = heir[o]
    <3> DEFINE hr == [o \in Ids |-> IF heir[o] \in Ids THEN heir[o] ELSE o]
    <3>1. \A o \in S : (\E f \in exists \ S : duplicate_finding[f] = o) => heir[o] \in Ids
      BY <1>2, <2>1 DEF Survivors, Members
    <3>2. hr \in [Ids -> Ids]
      OBVIOUS
    <3> HIDE DEF heir
    <3>3. \A o \in S : (\E f \in exists \ S : duplicate_finding[f] = o) => hr[o] = heir[o]
      BY <1>2, <3>1
    <3> QED BY <3>2, <3>3
  <2> HIDE DEF heir
  <2>7. PICK hr \in [Ids -> Ids] : \A o \in S :
            (\E f \in exists \ S : duplicate_finding[f] = o) => hr[o] = heir[o]
    BY <2>6
  <2>8. \A f \in Ids : Root(f)' = CASE f \in S -> f
                                    [] f \notin S /\ Root(f) \in S -> hr[Root(f)]
                                    [] OTHER -> Root(f)
    <3> SUFFICES ASSUME NEW f \in Ids
                 PROVE  Root(f)' = CASE f \in S -> f
                                    [] f \notin S /\ Root(f) \in S -> hr[Root(f)]
                                    [] OTHER -> Root(f)
      OBVIOUS
    <3>1. CASE f \in S
      BY <2>3, <3>1
    <3>2. CASE f \notin exists
      BY <2>2, <3>2
    <3>3. CASE f \in exists \ S /\ duplicate_finding[f] \in S
      BY <2>4, <2>7, <3>3
    <3>4. CASE f \in exists \ S /\ duplicate_finding[f] \notin S
      BY <2>5, <3>4
    <3> QED BY <3>1, <3>2, <3>3, <3>4
  <2>9. [f \in Ids |-> Root(f)]' = [f \in Ids |->
              CASE f \in S -> f
                [] f \notin S /\ Root(f) \in S -> hr[Root(f)]
                [] OTHER -> Root(f)]
    BY <2>8
  <2>10. \A f \in exists' : Root(f)' \in Ids /\ f \in Ids
    BY <1>1, <1>2, <2>1
  <2>11. Partition!Vanish(S)
    BY <1>1, <2>1, <2>9, <2>10 DEF Partition!Vanish
  <2> QED BY <2>11
<1> QED BY <1>3, <1>4

-----------------------------------------------------------------------------
\* Every operation is a step of the partition, or leaves it alone.
LEMMA ManageImplements ==
    ASSUME Careful, ClusterInv, Manage
    PROVE  [Partition!Next]_(Partition!vars)
<1> USE DEF Careful
<1>1. ASSUME NEW f \in Ids, NEW t \in Tests, Copy(f, t)
      PROVE  Partition!Next
  BY <1>1, CreateAppears DEF Copy, Partition!Next
<1>2. ASSUME NEW f \in Ids, NEW fp \in BOOLEAN, NEW dup \in BOOLEAN, Close(f, fp, dup)
      PROVE  Partition!Next
  BY <1>2, UnlinkLeaves DEF Close, data, Partition!Next
<1>3. ASSUME NEW f \in Ids, Reopen(f)
      PROVE  UNCHANGED Partition!vars
  BY <1>3, SameLinks DEF Reopen, link
<1>4. ASSUME NEW o \in Ids, NEW d \in Ids, mark_finding_duplicate(o, d)
      PROVE  Partition!Next
  <2> DEFINE r == IF duplicate[o] THEN duplicate_finding[o] ELSE o
  <2>1. /\ o \in exists /\ d \in exists /\ o /= d
        /\ duplicate_finding[o] /= d
        /\ Members(d) = {}
        /\ exists' = exists
        /\ duplicate_finding' = [duplicate_finding EXCEPT ![d] = r]
        /\ duplicate[o] => duplicate_finding[o] /= None
    BY <1>4 DEF mark_finding_duplicate, MarkOffered
  <2>2. r \in exists \ {d} /\ duplicate_finding[r] = None
    BY <2>1 DEF ClusterInv, TypeOK, NoTransitiveDuplicates, LinkHasFlag
  <2> HIDE DEF r
  <2>3. duplicate_finding' = Put(duplicate_finding, {d} \cup Members(d), r)
    BY <2>1 DEF Put, ClusterInv, TypeOK
  <2>4. Partition!Join(d, r)
    BY <2>1, <2>2, <2>3, MoveJoins
  <2> QED BY <2>2, <2>4, RootsAreRoots DEF Partition!Next
<1>5. ASSUME NEW f \in Ids, reset_finding_duplicate_status(f)
      PROVE  Partition!Next
  BY <1>5, UnlinkLeaves DEF reset_finding_duplicate_status, data, Partition!Next
<1>6. ASSUME NEW f \in Ids, NEW n \in Ids, set_finding_as_original(f, n)
      PROVE  Partition!Next
  BY <1>6, SetAsOriginalCrowns DEF Partition!Next
<1> QED BY <1>1, <1>2, <1>3, <1>4, <1>5, <1>6 DEF Manage

LEMMA TaskImplements ==
    ASSUME ClusterInv, NEW n \in Ids, Dedupe(n) \/ DropTask(n)
    PROVE  [Partition!Next]_(Partition!vars)
<1>1. CASE DropTask(n)
  BY <1>1, SameLinks DEF DropTask, link
<1>2. CASE Dedupe(n) /\ UNCHANGED link
  BY <1>2, SameLinks DEF Dedupe, link
<1>3. ASSUME NEW e \in Match(n), Dedupe(n), set_duplicate(n, e)
      PROVE  Partition!Next
  <2>1. e \in exists \ {n} /\ ~duplicate[e]
    BY MatchInScope
  <2>2. duplicate_finding[e] = None
    BY <2>1 DEF ClusterInv, LinkHasFlag
  <2>3. /\ n \in exists /\ exists' = exists
        /\ duplicate_finding' = Put(duplicate_finding, {n} \cup Members(n), e)
    BY <1>3 DEF Dedupe, set_duplicate, MoveBelow
  <2>4. Partition!Join(n, e)
    BY <2>1, <2>2, <2>3, MoveJoins
  <2> QED BY <2>1, <2>4, RootsAreRoots DEF Partition!Next
<1> QED BY <1>1, <1>2, <1>3 DEF Dedupe

LEMMA StepImplements ==
    ASSUME Careful, ClusterInv, [Next]_vars
    PROVE  [Partition!Next]_(Partition!vars)
<1>1. CASE Scan
  BY <1>1, CreateAppears DEF Scan, Import, Partition!Next
<1>2. CASE Task
  BY <1>2, TaskImplements DEF Task
<1>3. CASE Manage
  BY <1>3, ManageImplements
<1>4. CASE Remove
  <2>1. \E S \in SUBSET exists : Delete(S)
    BY <1>4 DEF Remove, DeleteFinding, DeleteTest, DeleteEngagement, async_dupe_delete
  <2> QED BY <2>1, DeleteVanishes DEF Partition!Next
<1>5. CASE UNCHANGED vars
  BY <1>5, SameLinks DEF vars
<1> QED BY <1>1, <1>2, <1>3, <1>4, <1>5 DEF Next

\* The duplicate relation is a partition of the findings that scans, tasks,
\* users and deletions change only by appearing, leaving, joining, crowning and
\* vanishing (DuplicateClusters.ImplementsPartition).
THEOREM ClustersArePartitioned ==
    ASSUME Careful
    PROVE  Spec => ImplementsPartition
<1>1. Init => ClusterInv /\ Partition!Init
  BY DEF Init, ClusterInv, TypeOK, NoTransitiveDuplicates, LinkHasFlag, Partition!Init, Root
<1>2. ClusterInv /\ [Next]_vars => ClusterInv' /\ [Partition!Next]_(Partition!vars)
  BY StepKeepsClusterInv, StepImplements
<1> QED BY <1>1, <1>2, PTL DEF Spec, ImplementsPartition, Partition!Spec

-----------------------------------------------------------------------------
\* A row only goes by a deletion.
LEMMA OnlyDeletionsDelete ==
    ASSUME ClusterInv, [Next]_vars, ~ (exists \subseteq exists')
    PROVE  \E S \in SUBSET exists : Delete(S)
<1>1. Remove
  BY DEF Next, vars, Scan, Import, Create, Task, Dedupe, DropTask, Manage, Copy, Close, Reopen,
         mark_finding_duplicate, reset_finding_duplicate_status, set_finding_as_original
<1> QED BY <1>1 DEF Remove, DeleteFinding, DeleteTest, DeleteEngagement, async_dupe_delete

\* When an original goes, the duplicates that stay are one cluster, open exactly
\* if the old original was (DuplicateClusters.ClusterSurvives).
THEOREM ClustersSurviveDeletion ==
    ASSUME Careful
    PROVE  Spec => ClusterSurvives
<1> DEFINE Kept == \A o \in exists \ exists' :
                    LET left == Members(o) \cap exists' IN
                    left /= {} => \E h \in left : /\ ~duplicate'[h]
                                                  /\ active'[h] = active[o]
                                                  /\ \A m \in left : Root(m)' = h
<1>1. ASSUME ClusterInv, [Next]_vars
      PROVE  Kept
  <2> SUFFICES ASSUME NEW o \in exists \ exists', NEW g \in Members(o) \cap exists'
               PROVE  \E h \in Members(o) \cap exists' :
                            /\ ~duplicate'[h]
                            /\ active'[h] = active[o]
                            /\ \A m \in Members(o) \cap exists' : Root(m)' = h
    OBVIOUS
  <2>1. PICK S \in SUBSET exists : Delete(S)
    BY <1>1, OnlyDeletionsDelete
  <2>2. CASE CascadeDelete
    <3>1. exists' = exists \ (S \cup Orphans(S))
      BY <2>1, <2>2 DEF Delete, Forget
    <3>2. o \in S
      BY <1>1, <2>1, <3>1, NoneAssumption
         DEF Orphans, Members, ClusterInv, TypeOK, NoTransitiveDuplicates
    <3> QED BY <3>1, <3>2 DEF Orphans, Members
  <2>3. CASE ~CascadeDelete
    <3> DEFINE h == HeirOf(o, S)
    <3>1. exists' = exists \ S
      BY <1>1, <2>1, <2>3, DeleteMoves
    <3>2. \A m \in Members(o) \cap exists' : m \in exists \ S /\ duplicate_finding[m] = o /\ o \in S
      BY <3>1 DEF Members
    <3>3. \A m \in Members(o) \cap exists' :
            h \in Survivors(o, S) /\ Root(m)' = h /\ ~duplicate'[h] /\ active'[h] = active[o]
      BY <1>1, <2>1, <2>3, <3>2, DeleteMoves
    <3>4. h \in Members(o) \cap exists'
      BY <3>1, <3>3 DEF Survivors, Members
    <3> QED BY <3>3, <3>4
  <2> QED BY <2>2, <2>3
<1>2. Init => ClusterInv
  BY DEF Init, ClusterInv, TypeOK, NoTransitiveDuplicates, LinkHasFlag
<1>3. ClusterInv /\ [Next]_vars => ClusterInv' /\ [Kept]_vars
  BY <1>1, StepKeepsClusterInv
<1> QED BY <1>2, <1>3, PTL DEF Spec, ClusterSurvives

\* Making a finding an original moves its whole cluster below it: the old
\* original, the finding the page was of, and every other duplicate
\* (DuplicateClusters.ClusterMovesTogether).
THEOREM ClustersMoveTogether ==
    ASSUME Careful
    PROVE  Spec => ClusterMovesTogether
<1> DEFINE Together == \A f, n \in exists : set_finding_as_original(f, n) =>
                            \A g \in exists : Root(g) = Root(f) => Root(g)' = n
<1>1. ASSUME ClusterInv
      PROVE  Together
  <2> SUFFICES ASSUME NEW f \in exists, NEW n \in exists, set_finding_as_original(f, n),
                      NEW g \in exists, Root(g) = Root(f)
               PROVE  Root(g)' = n
    OBVIOUS
  <2>1. exists \subseteq Ids
    BY <1>1 DEF ClusterInv, TypeOK
  <2>2. Partition!Crown(f, n)
    BY <1>1, <2>1, SetAsOriginalCrowns
  <2>3. g \in Partition!Cluster(Root(f))
    BY <2>1 DEF Partition!Cluster
  <2>4. [h \in Ids |-> Root(h)]' = Partition!Into(Partition!Cluster(Root(f)) \cup {n}, n)
    BY <2>1, <2>2 DEF Partition!Crown
  <2>5. [h \in Ids |-> Root(h)]'[g] = n
    BY <2>1, <2>3, <2>4 DEF Partition!Into
  <2> QED BY <2>1, <2>5
<1>2. Init => ClusterInv
  BY DEF Init, ClusterInv, TypeOK, NoTransitiveDuplicates, LinkHasFlag
<1>3. ClusterInv /\ [Next]_vars => ClusterInv' /\ [Together]_vars
  BY <1>1, StepKeepsClusterInv
<1> QED BY <1>2, <1>3, PTL DEF Spec, ClusterMovesTogether

-----------------------------------------------------------------------------
(* Deduplication by several workers, and the repair of what they leave.    *)
(* The lists they work through first: what a loop over a list makes of     *)
(* what it is given, and what a query sorted by keys returns.              *)

\* What is so before the first round and stays so in every round is so after each.
LEMMA RoundByRound ==
    ASSUME NEW n \in Nat, NEW S \in SUBSET (0..n), 0 \in S,
           \A i \in 1..n : i - 1 \in S => i \in S
    PROVE  S = 0..n
<1> DEFINE T == (0..n) \ S
<1>1. SUFFICES ASSUME T /= {} PROVE FALSE
  OBVIOUS
<1>2. PICK m \in T : m \in Lowest(T)
  <2> T \subseteq Nat
    OBVIOUS
  <2> HIDE DEF T
  <2> QED BY <1>1, LowestExists
<1>3. m \in 1..n /\ m - 1 \in 0..n /\ m - 1 \notin T
  BY <1>2 DEF Lowest
<1> QED BY <1>2, <1>3

\* what there is after each of n rounds
Rounds(n, V, first, step) ==
    {f \in [0..n -> V] : f[0] = first /\ \A i \in 1..n : f[i] = step[i][f[i - 1]]}

\* Each round makes something of what the round before it left.
LEMMA RoundsExist ==
    ASSUME NEW n \in Nat, NEW V, NEW first \in V, NEW step \in [1..n -> [V -> V]]
    PROVE  Rounds(n, V, first, step) /= {}
<1> DEFINE Upto(m) == \E f \in [0..m -> V] :
                          f[0] = first /\ \A i \in 1..m : f[i] = step[i][f[i - 1]]
           S == {m \in 0..n : Upto(m)}
<1>1. Upto(0)
  <2> DEFINE f == [i \in 0..0 |-> first]
  <2>1. f \in [0..0 -> V] /\ f[0] = first /\ \A i \in 1..0 : f[i] = step[i][f[i - 1]]
    OBVIOUS
  <2> HIDE DEF f
  <2> QED BY <2>1
<1>2. ASSUME NEW m \in 1..n, Upto(m - 1)
      PROVE  Upto(m)
  <2>1. PICK f \in [0..(m - 1) -> V] :
            f[0] = first /\ \A i \in 1..(m - 1) : f[i] = step[i][f[i - 1]]
    BY <1>2
  <2> DEFINE g == [i \in 0..m |-> IF i = m THEN step[m][f[m - 1]] ELSE f[i]]
  <2>2. f[m - 1] \in V /\ step[m][f[m - 1]] \in V
    OBVIOUS
  <2>3. g \in [0..m -> V]
    BY <2>2
  <2>4. g[0] = first /\ g[m] = step[m][f[m - 1]] /\ \A i \in 0..(m - 1) : g[i] = f[i]
    BY <2>1
  <2> HIDE DEF g
  <2>5. \A i \in 1..m : g[i] = step[i][g[i - 1]]
    BY <2>1, <2>4
  <2> QED BY <2>3, <2>4, <2>5
<1> HIDE DEF Upto
<1>3. S = 0..n
  <2>1. 0 \in S /\ S \in SUBSET (0..n) /\ \A i \in 1..n : i - 1 \in S => i \in S
    BY <1>1, <1>2
  <2> HIDE DEF S
  <2> QED BY <2>1, RoundByRound
<1>4. Upto(n)
  BY <1>3
<1> QED BY <1>4 DEF Upto, Rounds

\* A loop over a list stays in V when every round does.
LEMMA LoopStays ==
    ASSUME NEW V, NEW X, NEW list \in Seq(X), NEW db \in V, NEW body,
           \A acc \in V, x \in X : body[acc][x] \in V
    PROVE  Loop(list, db, body) \in V
<1> DEFINE n == Len(list)
           IsRun(f) == f = [i \in 0..n |-> IF i = 0 THEN db ELSE body[f[i - 1]][list[i]]]
           after == CHOOSE f : IsRun(f)
<1>1. n \in Nat /\ \A i \in 1..n : list[i] \in X
  OBVIOUS
<1>2. Loop(list, db, body) = after[n]
  BY DEF Loop
<1>3. \E f : IsRun(f)
  <2> DEFINE step == [i \in 1..n |-> [acc \in V |-> body[acc][list[i]]]]
  <2>1. step \in [1..n -> [V -> V]] /\ \A i \in 1..n, acc \in V : step[i][acc] = body[acc][list[i]]
    BY <1>1
  <2> HIDE DEF step, n
  <2>2. PICK f \in [0..n -> V] : f[0] = db /\ \A i \in 1..n : f[i] = step[i][f[i - 1]]
    <3>1. n \in Nat /\ step \in [1..n -> [V -> V]]
      BY <1>1, <2>1
    <3>2. Rounds(n, V, db, step) /= {}
      BY <3>1, RoundsExist
    <3> QED BY <3>2 DEF Rounds
  <2>3. \A i \in 1..n : i - 1 \in 0..n /\ f[i - 1] \in V
    BY <1>1, <2>2
  <2>4. \A i \in 0..n : f[i] = IF i = 0 THEN db ELSE body[f[i - 1]][list[i]]
    BY <1>1, <2>1, <2>2, <2>3
  <2>5. f = [i \in 0..n |-> f[i]]
    OBVIOUS
  <2>6. IsRun(f)
    BY <2>4, <2>5
  <2> HIDE DEF IsRun
  <2> QED BY <2>6
<1>4. IsRun(after)
  <2> HIDE DEF IsRun
  <2> QED BY <1>3
<1>5. after[0] = db /\ \A i \in 1..n : after[i] = body[after[i - 1]][list[i]]
  <2> HIDE DEF after
  <2> QED BY <1>1, <1>4
<1> HIDE DEF after, IsRun
<1> DEFINE S == {i \in 0..n : after[i] \in V}
<1>6. S = 0..n
  <2>1. 0 \in S /\ S \in SUBSET (0..n) /\ \A i \in 1..n : i - 1 \in S => i \in S
    BY <1>1, <1>5
  <2> HIDE DEF S
  <2> QED BY <1>1, <2>1, RoundByRound
<1> QED BY <1>1, <1>2, <1>6

\* Sorting by keys that differ lists members of the set, and nothing else.
LEMMA ListsMembers ==
    ASSUME NEW S, IsFiniteSet(S), NEW key, \A f \in S : key[f] \in Int,
           \A f, g \in S : f /= g => key[f] /= key[g]
    PROVE  InOrder(S, key) \in Seq(S)
<1> DEFINE n == Cardinality(S)
           UpTo(f) == {g \in S : key[g] <= key[f]}
           rank == [f \in S |-> Cardinality(UpTo(f))]
<1>1. n \in Nat
  BY FS_CardinalityType
<1>2. ASSUME NEW f \in S
      PROVE  IsFiniteSet(UpTo(f)) /\ Cardinality(UpTo(f)) \in 1..n
  <2>1. UpTo(f) \in SUBSET S /\ f \in UpTo(f)
    OBVIOUS
  <2> HIDE DEF UpTo
  <2>2. IsFiniteSet(UpTo(f)) /\ Cardinality(UpTo(f)) <= n
    BY <2>1, FS_Subset
  <2>3. Cardinality(UpTo(f)) \in Nat /\ Cardinality(UpTo(f)) /= 0
    BY <2>1, <2>2, FS_CardinalityType, FS_EmptySet
  <2> QED BY <1>1, <2>2, <2>3
<1>3. ASSUME NEW f \in S, NEW g \in S, key[f] < key[g]
      PROVE  Cardinality(UpTo(f)) < Cardinality(UpTo(g))
  <2>1. UpTo(f) \in SUBSET UpTo(g) /\ UpTo(f) /= UpTo(g)
    <3>1. g \in UpTo(g) /\ g \notin UpTo(f)
      BY <1>3
    <3>2. UpTo(f) \in SUBSET UpTo(g)
      BY <1>3
    <3> QED BY <3>1, <3>2
  <2>2. IsFiniteSet(UpTo(g)) /\ Cardinality(UpTo(f)) \in 1..n /\ Cardinality(UpTo(g)) \in 1..n
    BY <1>2
  <2> HIDE DEF UpTo
  <2>3. Cardinality(UpTo(f)) <= Cardinality(UpTo(g)) /\ Cardinality(UpTo(g)) /= Cardinality(UpTo(f))
    BY <2>1, <2>2, FS_Subset
  <2> QED BY <1>1, <2>2, <2>3
<1>4. rank \in [S -> 1..n] /\ \A f \in S : rank[f] = Cardinality(UpTo(f))
  BY <1>2
<1> HIDE DEF rank
<1>5. ASSUME NEW f \in S, NEW g \in S, rank[f] = rank[g]
      PROVE  f = g
  <2>1. CASE key[f] < key[g]
    <3> HIDE DEF UpTo, n
    <3> QED BY <1>1, <1>2, <1>3, <1>4, <1>5, <2>1
  <2>2. CASE key[g] < key[f]
    <3> HIDE DEF UpTo, n
    <3> QED BY <1>1, <1>2, <1>3, <1>4, <1>5, <2>2
  <2>3. CASE key[f] = key[g]
    BY <2>3
  <2>4. key[f] \in Int /\ key[g] \in Int
    OBVIOUS
  <2> QED BY <2>1, <2>2, <2>3, <2>4
<1>6. rank \in Surjection(S, 1..n)
  <2>1. rank \in Injection(S, 1..n)
    BY <1>4, <1>5 DEF Injection, IsInjective
  <2>2. IsFiniteSet(1..n) /\ Cardinality(1..n) = n
    <3> HIDE DEF n
    <3> QED BY <1>1, FS_Interval
  <2> HIDE DEF n
  <2> QED BY <2>1, <2>2, FS_Injection DEF n
<1>7. ASSUME NEW i \in 1..n
      PROVE  (CHOOSE f \in S : Cardinality(UpTo(f)) = i) \in S
  <2>1. PICK f \in S : rank[f] = i
    BY <1>6 DEF Surjection
  <2> HIDE DEF UpTo
  <2> QED BY <1>4, <2>1
<1>8. InOrder(S, key) \in [1..n -> S]
  BY <1>7 DEF InOrder
<1> QED BY <1>1, <1>8
-----------------------------------------------------------------------------
(* fix_loop_duplicates: links may go or lead elsewhere, but no finding that   *)
(* was an original gets one.                                                  *)

WithLink(db) == {f \in Ids : db[f] /= None}

\* what db may become
NoNewLink(db) == {d \in Links : WithLink(d) \subseteq WithLink(db)}

\* what a call of removeLoop may make of each db
Removals == {c \in [Links -> [Ids -> Links]] :
                \A db \in Links, f \in Ids : c[db][f] \in NoNewLink(db)}

\* One call of removeLoop links no original, if the calls it makes do not.
LEMMA RemoveLoopAddsNone ==
    ASSUME exists = Ids, NEW order \in Orders, NEW counter \in Nat, NEW db \in Links, NEW f \in Ids,
           NEW nested, counter /= 0 => nested \in Removals
    PROVE  removeLoop(nested, order, counter, db, f) \in NoNewLink(db)
<1> DEFINE swap == db[f] > f /\ db[db[f]] /= None
           finding == IF swap THEN db[f] ELSE f
           real == IF swap THEN f ELSE db[f]
           cut == IF db[real] = finding THEN [db EXCEPT ![real] = None] ELSE db
           each == [acc \in Links |-> [m \in Ids |->
                       nested[[acc EXCEPT ![m] = real, ![real] = db[real]]][m]]]
           result == Loop(InOrder(Linked(cut, finding), order), cut, each)
<1>0. removeLoop(nested, order, counter, db, f) =
        IF db[f] = None THEN db
        ELSE IF db[f] = f THEN [db EXCEPT ![f] = None]
        ELSE IF counter = 0 THEN cut ELSE result
  BY DEF removeLoop
<1>1. db \in NoNewLink(db) /\ [db EXCEPT ![f] = None] \in NoNewLink(db)
  BY DEF NoNewLink, WithLink, Links
<1>2. ASSUME db[f] /= None
      PROVE  finding \in Ids /\ real \in Ids /\ cut \in NoNewLink(db)
  <2>1. finding \in Ids /\ real \in Ids
    BY <1>2 DEF Links
  <2> HIDE DEF finding, real
  <2> QED BY <2>1 DEF NoNewLink, WithLink, Links
<1>3. ASSUME db[f] /= None, counter /= 0
      PROVE  result \in NoNewLink(db)
  <2> DEFINE X == Linked(cut, finding)
  <2> HIDE DEF finding, real, cut
  <2>1. finding \in Ids /\ real \in Ids /\ cut \in NoNewLink(db)
    BY <1>2, <1>3
  <2>2. X \in SUBSET Ids /\ \A m \in X : cut[m] = finding
    BY DEF Linked
  <2> HIDE DEF X
  <2>3. InOrder(X, order) \in Seq(X)
    <3>1. IsFiniteSet(X)
      BY <2>2, WorkersAssumption, FS_Subset
    <3>2. \A m \in X : order[m] \in Int
      BY <2>2 DEF Orders
    <3>3. \A m, g \in X : m /= g => order[m] /= order[g]
      BY <2>2 DEF Orders
    <3> QED BY <3>1, <3>2, <3>3, ListsMembers
  <2>4. ASSUME NEW acc \in NoNewLink(db), NEW m \in X
        PROVE  each[acc][m] \in NoNewLink(db)
    <3> DEFINE arg == [acc EXCEPT ![m] = real, ![real] = db[real]]
    <3>1. acc \in Links /\ m \in Ids /\ m \in WithLink(db)
      BY <2>1, <2>2, NoneAssumption DEF NoNewLink, WithLink
    <3>2. arg \in NoNewLink(db)
      BY <2>1, <3>1 DEF NoNewLink, WithLink, Links
    <3>3. each[acc][m] = nested[arg][m]
      BY <3>1
    <3> HIDE DEF arg, each
    <3>4. nested[arg][m] \in NoNewLink(arg)
      BY <1>3, <3>1, <3>2 DEF Removals, NoNewLink
    <3> QED BY <3>2, <3>3, <3>4 DEF NoNewLink
  <2> HIDE DEF each
  <2> QED BY <2>1, <2>3, <2>4, LoopStays DEF X
<1> HIDE DEF cut, result
<1> QED BY <1>0, <1>1, <1>2, <1>3

\* So does the call from fix_loop_duplicates, with all the calls below it.
LEMMA RemoveLoopIsRemoval ==
    ASSUME exists = Ids, NEW order \in Orders
    PROVE  RemoveLoop(order) \in Removals
<1> DEFINE Body(nested, counter) ==
              [db \in Links |-> [f \in Ids |-> removeLoop(nested, order, counter, db, f)]]
           IsCall(c) == c = [counter \in 0..MaxDepth |->
                              [db \in Links |-> [f \in Ids |->
                                  removeLoop(c[counter - 1], order, counter, db, f)]]]
           call == CHOOSE c : IsCall(c)
<1>1. MaxDepth \in Nat
  BY WorkersAssumption
<1>2. RemoveLoop(order) = call[MaxDepth]
  BY DEF RemoveLoop
<1>3. ASSUME NEW counter \in Nat, NEW nested, counter /= 0 => nested \in Removals
      PROVE  Body(nested, counter) \in Removals
  <2>1. \A db \in Links, f \in Ids : removeLoop(nested, order, counter, db, f) \in NoNewLink(db)
    BY <1>3, RemoveLoopAddsNone
  <2>2. \A db \in Links, f \in Ids : removeLoop(nested, order, counter, db, f) \in Links
    BY <2>1 DEF NoNewLink
  <2> QED BY <2>1, <2>2 DEF Removals
<1>4. \A a, b : Body(a, 0) = Body(b, 0)
  BY DEF removeLoop
<1>5. \E c : IsCall(c)
  <2> DEFINE step == [i \in 1..MaxDepth |-> [nested \in Removals |-> Body(nested, i)]]
             first == Body(0, 0)
  <2>1. \A i \in 1..MaxDepth, nested \in Removals : step[i][nested] = Body(nested, i)
    OBVIOUS
  <2>2. step \in [1..MaxDepth -> [Removals -> Removals]] /\ first \in Removals
    <3> HIDE DEF Body
    <3> QED BY <1>3
  <2>3. Rounds(MaxDepth, Removals, first, step) /= {}
    <3> HIDE DEF step, first
    <3> QED BY <1>1, <2>2, RoundsExist
  <2>4. PICK c \in [0..MaxDepth -> Removals] :
            c[0] = first /\ \A i \in 1..MaxDepth : c[i] = step[i][c[i - 1]]
    <3> HIDE DEF step, first
    <3> QED BY <2>3 DEF Rounds
  <2>5. \A i \in 0..MaxDepth : c[i] = Body(c[i - 1], i)
    <3> HIDE DEF step, Body
    <3>1. \A i \in 1..MaxDepth : i - 1 \in 0..MaxDepth
      BY <1>1
    <3>2. c[0] = Body(c[0 - 1], 0)
      BY <1>4, <2>4
    <3>3. \A i \in 1..MaxDepth : c[i] = Body(c[i - 1], i)
      BY <2>1, <2>4, <3>1
    <3> QED BY <1>1, <3>2, <3>3
  <2>6. c = [i \in 0..MaxDepth |-> c[i]]
    OBVIOUS
  <2>7. IsCall(c)
    BY <2>5, <2>6
  <2> HIDE DEF IsCall
  <2> QED BY <2>7
<1>6. IsCall(call)
  <2> HIDE DEF IsCall
  <2> QED BY <1>5
<1>7. \A i \in 0..MaxDepth : call[i] = Body(call[i - 1], i)
  <2> HIDE DEF call
  <2> QED BY <1>6
<1> HIDE DEF call, IsCall, Body
<1> DEFINE S == {i \in 0..MaxDepth : call[i] \in Removals}
<1>8. S = 0..MaxDepth
  <2>1. 0 \in S /\ S \in SUBSET (0..MaxDepth)
    BY <1>1, <1>3, <1>7
  <2>2. \A i \in 1..MaxDepth : i - 1 \in S => i \in S
    BY <1>1, <1>3, <1>7
  <2> HIDE DEF S
  <2> QED BY <1>1, <2>1, <2>2, RoundByRound
<1> QED BY <1>1, <1>2, <1>8

\* Newest lists each member of a set of findings, and nothing else.
LEMMA NewestLists ==
    ASSUME NEW X \in SUBSET Ids
    PROVE  Newest(X) \in Seq(X)
<1> DEFINE key == [f \in X |-> -f]
<1>1. IsFiniteSet(X)
  BY WorkersAssumption, FS_Subset
<1>2. \A f \in X : f \in Int /\ key[f] = -f
  BY IdsAssumption
<1> HIDE DEF key
<1>3. InOrder(X, key) \in Seq(X)
  <2>1. \A f \in X : key[f] \in Int
    BY <1>2
  <2>2. \A f, g \in X : f /= g => key[f] /= key[g]
    BY <1>2
  <2> QED BY <1>1, <2>1, <2>2, ListsMembers
<1> QED BY <1>3 DEF Newest, key

\* So does the whole of fix_loop_duplicates, with a candidate met once for each
\* of its duplicates.
LEMMA RepairAddsNone ==
    ASSUME exists = Ids, duplicate_finding \in Links, NEW order \in Orders
    PROVE  Repaired(order) \in NoNewLink(duplicate_finding)
<1> DEFINE old == duplicate_finding
           X == Candidates_for_repair(old)
           again == [f \in Ids |-> [acc \in Links |-> [m \in Ids |-> RemoveLoop(order)[acc][f]]]]
           rounds == [db \in Links |-> [f \in Ids |-> Loop(Newest(Linked(old, f)), db, again[f])]]
<1>1. X \in SUBSET Ids /\ \A f \in Ids : Linked(old, f) \in SUBSET Ids
  BY DEF Candidates_for_repair, Linked
<1>2. Newest(X) \in Seq(X) /\ \A f \in Ids : Newest(Linked(old, f)) \in Seq(Linked(old, f))
  BY <1>1, NewestLists
<1>3. \A acc \in Links, f \in Ids, m \in Ids : again[f][acc][m] \in NoNewLink(acc)
  <2>1. RemoveLoop(order) \in Removals
    BY RemoveLoopIsRemoval
  <2>2. \A acc \in Links, f \in Ids, m \in Ids : again[f][acc][m] = RemoveLoop(order)[acc][f]
    OBVIOUS
  <2> HIDE DEF again
  <2> QED BY <2>1, <2>2 DEF Removals
<1>4. old \in NoNewLink(old)
  BY DEF NoNewLink
<1>5. Repaired(order) = Loop(Newest(X), old, rounds)
  BY DEF Repaired
<1> HIDE DEF again, X, old
<1>6. ASSUME NEW acc \in NoNewLink(old), NEW f \in X
      PROVE  rounds[acc][f] \in NoNewLink(old)
  <2> DEFINE Y == Linked(old, f)
  <2>1. f \in Ids /\ acc \in Links /\ Newest(Y) \in Seq(Y) /\ Y \in SUBSET Ids
    BY <1>1, <1>2 DEF NoNewLink
  <2>2. rounds[acc][f] = Loop(Newest(Y), acc, again[f])
    BY <2>1
  <2> HIDE DEF Y, rounds
  <2>3. ASSUME NEW db \in NoNewLink(old), NEW m \in Y
        PROVE  again[f][db][m] \in NoNewLink(old)
    BY <1>3, <2>1 DEF NoNewLink
  <2> QED BY <2>1, <2>2, <2>3, LoopStays
<1> HIDE DEF rounds
<1>7. Loop(Newest(X), old, rounds) \in NoNewLink(old)
  BY <1>2, <1>4, <1>6, LoopStays
<1> QED BY <1>5, <1>7 DEF old

-----------------------------------------------------------------------------
(* What the processes hold: rows whose link has its flag, and candidate      *)
(* originals that were read without either.                                  *)

Saved == {r \in [id : Ids, active : BOOLEAN, is_mitigated : BOOLEAN, false_p : BOOLEAN,
                 duplicate : BOOLEAN, original : Ids \cup {None}] :
             r.original /= None => r.duplicate}

Original == {r \in Saved : ~r.duplicate}

Frame == [new : Saved, todo : Seq(Saved)]

Querying == [stage : {"query"}, page : Seq(Saved) \ {<<>>}]

Setting == [stage : {"set", "each", "saved"}, stack : Seq(Frame) \ {<<>>}, old : Original,
            rows : Seq(Original), page : Seq(Saved)]

Jobs == {Idle} \cup Querying \cup Setting

RowsTyped ==
    /\ exists = Ids /\ pending \subseteq Ids
    /\ active \in [Ids -> BOOLEAN] /\ is_mitigated \in [Ids -> BOOLEAN]
    /\ false_p \in [Ids -> BOOLEAN] /\ duplicate \in [Ids -> BOOLEAN]
    /\ duplicate_finding \in Links
    /\ \A f \in Ids : duplicate_finding[f] /= None => duplicate[f]

\* the inductive invariant of the types: a save writes what a process holds
WorkersInv == RowsTyped /\ job \in [Processes -> Jobs]

LEMMA RowIsSaved ==
    ASSUME RowsTyped, NEW f \in Ids
    PROVE  Row(f) \in Saved /\ Row(f).id = f /\ (~duplicate[f] => Row(f) \in Original)
BY DEF RowsTyped, Links, Row, Saved, Original

\* saving a row that is well formed leaves the table well formed
LEMMA StoreTyped ==
    ASSUME RowsTyped, NEW r \in Saved, Store(r), exists' = exists, pending' \subseteq Ids
    PROVE  RowsTyped'
<1>1. /\ r.id \in Ids /\ r.active \in BOOLEAN /\ r.is_mitigated \in BOOLEAN
      /\ r.false_p \in BOOLEAN /\ r.duplicate \in BOOLEAN /\ r.original \in Ids \cup {None}
      /\ (r.original /= None => r.duplicate)
  BY DEF Saved
<1> QED BY <1>1 DEF RowsTyped, Links, Store

\* the rows of a query of findings
LEMMA RowsOfList ==
    ASSUME RowsTyped, NEW S \in SUBSET Ids, NEW list \in Seq(S)
    PROVE  /\ Rows(list) \in Seq(Saved)
           /\ (\A f \in S : ~duplicate[f]) => Rows(list) \in Seq(Original)
<1>1. DOMAIN list = 1..Len(list) /\ Len(list) \in Nat /\ \A i \in 1..Len(list) : list[i] \in Ids
  OBVIOUS
<1>2. \A i \in 1..Len(list) : Row(list[i]) \in Saved
  BY <1>1, RowIsSaved
<1>3. Rows(list) \in [1..Len(list) -> Saved]
  BY <1>1, <1>2 DEF Rows
<1>4. ASSUME \A f \in S : ~duplicate[f]
      PROVE  Rows(list) \in [1..Len(list) -> Original]
  <2>1. \A i \in 1..Len(list) : list[i] \in S
    OBVIOUS
  <2>2. \A i \in 1..Len(list) : Row(list[i]) \in Original
    BY <1>1, <1>4, <2>1, RowIsSaved
  <2> QED BY <1>1, <2>2 DEF Rows
<1> QED BY <1>1, <1>3, <1>4

LEMMA ListsSorted ==
    ASSUME NEW S \in SUBSET Ids
    PROVE  Newest(S) \in Seq(S) /\ Oldest(S) \in Seq(S)
<1> DEFINE up == [f \in S |-> f]
           down == [f \in S |-> -f]
<1>1. IsFiniteSet(S)
  BY WorkersAssumption, FS_Subset
<1>2. \A f \in S : f \in Int /\ up[f] = f /\ down[f] = -f
  BY IdsAssumption
<1> HIDE DEF up, down
<1>3. InOrder(S, up) \in Seq(S)
  <2>1. \A f \in S : up[f] \in Int
    BY <1>2
  <2>2. \A f, g \in S : f /= g => up[f] /= up[g]
    BY <1>2
  <2> QED BY <1>1, <2>1, <2>2, ListsMembers
<1>4. InOrder(S, down) \in Seq(S)
  <2>1. \A f \in S : down[f] \in Int
    BY <1>2
  <2>2. \A f, g \in S : f /= g => down[f] /= down[g]
    BY <1>2
  <2> QED BY <1>1, <2>1, <2>2, ListsMembers
<1> QED BY <1>3, <1>4 DEF Newest, Oldest, up, down

LEMMA WorkTyped ==
    ASSUME NEW page \in Seq(Saved)
    PROVE  Work(page) \in Jobs
BY DEF Work, Jobs, Querying

LEMMA TryTyped ==
    ASSUME NEW new \in Saved, NEW rows \in Seq(Original), NEW page \in Seq(Saved)
    PROVE  Try(new, rows, page) \in Jobs
<1>1. CASE rows = <<>>
  BY <1>1, WorkTyped DEF Try
<1>2. CASE rows /= <<>>
  <2>1. Call(new) \in Frame
    BY DEF Call, Frame
  <2>2. <<Call(new)>> \in Seq(Frame) \ {<<>>}
    BY <2>1
  <2>3. Head(rows) \in Original /\ Tail(rows) \in Seq(Original)
    BY <1>2
  <2> DEFINE stack == <<Call(new)>>
             old == Head(rows)
             rest == Tail(rows)
  <2>4. Try(new, rows, page) =
            [stage |-> "set", stack |-> stack, old |-> old, rows |-> rest, page |-> page]
    BY <1>2 DEF Try
  <2> HIDE DEF stack, old, rest
  <2>5. stack \in Seq(Frame) \ {<<>>} /\ old \in Original /\ rest \in Seq(Original)
    BY <2>2, <2>3 DEF stack, old, rest
  <2> QED BY <2>4, <2>5 DEF Jobs, Setting
<1> QED BY <1>1, <1>2

\* what a process in the middle of set_duplicate holds
LEMMA SettingTyped ==
    ASSUME NEW j \in Jobs, j.stage \in {"set", "each", "saved"}
    PROVE  /\ j \in Setting
           /\ j.stack \in Seq(Frame) \ {<<>>} /\ j.old \in Original
           /\ j.rows \in Seq(Original) /\ j.page \in Seq(Saved)
           /\ Top(j) \in Frame /\ Tail(j.stack) \in Seq(Frame)
           /\ Top(j).new \in Saved /\ Top(j).todo \in Seq(Saved)
           /\ j.stack[Len(j.stack)] \in Frame
<1>1. j \in Setting
  BY DEF Jobs, Idle, Querying
<1>2. /\ j.stack \in Seq(Frame) \ {<<>>} /\ j.old \in Original
      /\ j.rows \in Seq(Original) /\ j.page \in Seq(Saved)
  BY <1>1 DEF Setting
<1>3. /\ Head(j.stack) \in Frame /\ Tail(j.stack) \in Seq(Frame)
      /\ j.stack[Len(j.stack)] \in Frame
  BY <1>2
<1>4. Top(j) \in Frame /\ Top(j).new \in Saved /\ Top(j).todo \in Seq(Saved)
  BY <1>3 DEF Top, Frame
<1> QED BY <1>1, <1>2, <1>3, <1>4

LEMMA QueryingTyped ==
    ASSUME NEW j \in Jobs, j.stage = "query"
    PROVE  Head(j.page) \in Saved /\ Tail(j.page) \in Seq(Saved)
<1>1. j \in Querying
  BY DEF Jobs, Idle, Setting
<1>2. j.page \in Seq(Saved) \ {<<>>}
  BY <1>1 DEF Querying
<1> QED BY <1>2

\* the stack after a call or a return
LEMMA Pushed ==
    ASSUME NEW j \in Setting, NEW stage \in {"set", "each", "saved"},
           NEW stack \in Seq(Frame) \ {<<>>}
    PROVE  [j EXCEPT !.stage = stage, !.stack = stack] \in Jobs
BY DEF Jobs, Setting

-----------------------------------------------------------------------------
(* The steps of a process.                                                   *)

\* a process goes on with another job
LEMMA NextJob ==
    ASSUME job \in [Processes -> Jobs], NEW p \in Processes, NEW j \in Jobs,
           job' = [job EXCEPT ![p] = j]
    PROVE  job' \in [Processes -> Jobs]
OBVIOUS

LEMMA InitWorkers == WorkersInit => WorkersInv
BY DEF WorkersInit, WorkersInv, RowsTyped, Links, Jobs, Processes

LEMMA TakeTyped ==
    ASSUME WorkersInv, NEW w \in Workers, NEW n \in Ids, take(w, n)
    PROVE  WorkersInv'
<1> USE DEF WorkersInv
<1>1. <<Row(n)>> \in Seq(Saved)
  BY RowIsSaved
<1>2. RowsTyped'
  BY DEF take, RowsTyped, Links, data, link, status
<1> QED BY <1>1, <1>2, WorkTyped, NextJob DEF take, Processes

LEMMA DedupeTyped ==
    ASSUME WorkersInv, dedupe
    PROVE  WorkersInv'
<1> USE DEF WorkersInv
<1>1. Rows(Newest(exists)) \in Seq(Saved)
  BY ListsSorted, RowsOfList DEF RowsTyped
<1>2. RowsTyped'
  BY DEF dedupe, RowsTyped, Links, vars
<1> QED BY <1>1, <1>2, WorkTyped, NextJob DEF dedupe, Processes

LEMMA QueryTyped ==
    ASSUME WorkersInv, NEW p \in Processes, query(p)
    PROVE  WorkersInv'
<1> USE DEF WorkersInv
<1> DEFINE new == Head(job[p].page)
           found == {e \in Candidates(new.id) :
                        /\ ~is_deduplication_on_engagement_mismatch(new.id, e)
                        /\ Accepted(new.id, e)}
           page == Tail(job[p].page)
           rows == Rows(Oldest(found))
<1>1. job[p].stage = "query" /\ job' = [job EXCEPT ![p] = Try(new, rows, page)]
  BY DEF query
<1>2. new \in Saved /\ page \in Seq(Saved)
  BY <1>1, QueryingTyped
<1>3. found \in SUBSET Ids /\ \A f \in found : ~duplicate[f]
  BY DEF Candidates, RowsTyped
<1> HIDE DEF found, new, page
<1>4. rows \in Seq(Original)
  BY <1>3, ListsSorted, RowsOfList
<1> HIDE DEF rows
<1>5. Try(new, rows, page) \in Jobs
  BY <1>2, <1>4, TryTyped
<1>6. job' \in [Processes -> Jobs]
  BY <1>1, <1>5, NextJob
<1>7. RowsTyped'
  BY DEF query, RowsTyped, Links, vars
<1> QED BY <1>6, <1>7

LEMMA ReopenTyped ==
    ASSUME WorkersInv, NEW p \in Processes, set_duplicate_reopen(p)
    PROVE  WorkersInv' /\ job'[p].old \in Original
<1> USE DEF WorkersInv
<1> DEFINE j == job[p]
           old == [j.old EXCEPT !.active = TRUE, !.is_mitigated = FALSE]
<1>1. j \in Jobs /\ j.stage = "set"
  BY DEF set_duplicate_reopen
<1>2. j \in Setting /\ j.old \in Original
  BY <1>1, SettingTyped
<1>3. old \in Original /\ old.id = j.old.id
  <2>1. j.old \in Original
    BY <1>2
  <2> QED BY <2>1 DEF Original, Saved
<1>4. job' = [job EXCEPT ![p] = [j EXCEPT !.old = old]]
  BY DEF set_duplicate_reopen
<1> HIDE DEF old
<1>5. [j EXCEPT !.old = old] \in Jobs
  BY <1>2, <1>3 DEF Jobs, Setting
<1>6. job' \in [Processes -> Jobs] /\ job'[p].old = old
  <2>1. [j EXCEPT !.old = old].old = old
    BY <1>2 DEF Setting
  <2>2. job'[p] = [j EXCEPT !.old = old]
    BY <1>4
  <2>3. job' \in [Processes -> Jobs]
    BY <1>4, <1>5, NextJob
  <2> QED BY <2>1, <2>2, <2>3
<1>7. Store(old)
  BY <1>6 DEF set_duplicate_reopen
<1>8. exists' = exists /\ pending' \subseteq Ids
  BY <1>2 DEF set_duplicate_reopen, RowsTyped, Original, Saved
<1>9. RowsTyped'
  BY <1>3, <1>7, <1>8, StoreTyped DEF Original
<1> QED BY <1>3, <1>6, <1>9

LEMMA RefuseTyped ==
    ASSUME WorkersInv, NEW p \in Processes, refuse(p)
    PROVE  WorkersInv'
<1> USE DEF WorkersInv
<1> DEFINE j == job[p]
           new == j.stack[Len(j.stack)].new
<1>1. j \in Jobs /\ j.stage = "set"
  BY DEF refuse
<1>2. new \in Saved /\ j.rows \in Seq(Original) /\ j.page \in Seq(Saved)
  BY <1>1, SettingTyped DEF Frame
<1>3. job' = [job EXCEPT ![p] = Try(new, j.rows, j.page)]
  BY DEF refuse
<1>4. Try(new, j.rows, j.page) \in Jobs
  BY <1>2, TryTyped
<1>5. RowsTyped'
  BY DEF refuse, RowsTyped, Links, vars
<1> QED BY <1>3, <1>4, <1>5, NextJob

LEMMA ReadTyped ==
    ASSUME WorkersInv, NEW p \in Processes, read_members(p)
    PROVE  WorkersInv'
<1> USE DEF WorkersInv
<1> DEFINE j == job[p]
           new == Top(j).new
           old == j.old
           moved == [new EXCEPT !.duplicate = TRUE, !.active = FALSE, !.original = old.id]
           members == Rows(Newest(Members(new.id)))
           frame == [new |-> moved, todo |-> members]
           stack == <<frame>> \o Tail(j.stack)
<1>1. j \in Jobs /\ j.stage = "set"
  BY DEF read_members
<1>2. j \in Setting /\ new \in Saved /\ old \in Original /\ Tail(j.stack) \in Seq(Frame)
  BY <1>1, SettingTyped
<1>3. moved \in Saved
  BY <1>2 DEF Saved, Original
<1>4. members \in Seq(Saved)
  <2>1. Members(new.id) \in SUBSET Ids
    BY DEF Members, RowsTyped
  <2> QED BY <2>1, ListsSorted, RowsOfList
<1>5. job' = [job EXCEPT ![p] = [j EXCEPT !.stage = "each", !.stack = stack]]
  BY DEF read_members
<1> HIDE DEF moved, members
<1>6. frame \in Frame
  BY <1>3, <1>4 DEF Frame
<1> HIDE DEF frame
<1>7. stack \in Seq(Frame) \ {<<>>}
  BY <1>2, <1>6
<1> HIDE DEF stack
<1>8. [j EXCEPT !.stage = "each", !.stack = stack] \in Jobs
  BY <1>2, <1>7, Pushed
<1>9. RowsTyped'
  BY DEF read_members, RowsTyped, Links, vars
<1> QED BY <1>5, <1>8, <1>9, NextJob

LEMMA UnlinkTyped ==
    ASSUME WorkersInv, NEW p \in Processes, unlink_member(p)
    PROVE  WorkersInv'
<1> USE DEF WorkersInv
<1> DEFINE j == job[p]
           member == Head(Top(j).todo)
           rest == [Top(j) EXCEPT !.todo = Tail(@)]
           stack == <<Call(member), rest>> \o Tail(j.stack)
<1>1. j \in Jobs /\ j.stage = "each" /\ Top(j).todo /= <<>>
  BY DEF unlink_member
<1>2. j \in Setting /\ Top(j) \in Frame /\ Top(j).todo \in Seq(Saved) /\ Tail(j.stack) \in Seq(Frame)
  BY <1>1, SettingTyped
<1>3. member \in Saved /\ Tail(Top(j).todo) \in Seq(Saved)
  BY <1>1, <1>2
<1>4. Call(member) \in Frame /\ rest \in Frame
  BY <1>2, <1>3 DEF Call, Frame
<1>5. job' = [job EXCEPT ![p] = [j EXCEPT !.stage = "set", !.stack = stack]]
  BY DEF unlink_member
<1>6. stack \in Seq(Frame) \ {<<>>}
  <2> DEFINE call == Call(member)
  <2> HIDE DEF call, rest
  <2> QED BY <1>2, <1>4 DEF call
<1> HIDE DEF stack
<1>7. [j EXCEPT !.stage = "set", !.stack = stack] \in Jobs
  BY <1>2, <1>6, Pushed
<1>8. RowsTyped'
  <2>1. member.id \in Ids
    BY <1>3 DEF Saved
  <2>2. /\ UNCHANGED <<exists, active, is_mitigated, false_p, duplicate, pending>>
        /\ \E v : duplicate_finding' = [duplicate_finding EXCEPT ![member.id] = v]
                  /\ v \in {None, duplicate_finding[member.id]}
    BY DEF unlink_member, status
  <2> HIDE DEF member
  <2> QED BY <2>1, <2>2 DEF RowsTyped, Links
<1> QED BY <1>5, <1>7, <1>8, NextJob

LEMMA SaveNewTyped ==
    ASSUME WorkersInv, NEW p \in Processes, save_new(p)
    PROVE  WorkersInv'
<1> USE DEF WorkersInv
<1> DEFINE j == job[p]
<1>1. j \in Jobs /\ j.stage = "each"
  BY DEF save_new
<1>2. j \in Setting /\ Top(j).new \in Saved
  BY <1>1, SettingTyped
<1>3. job' = [job EXCEPT ![p] = [j EXCEPT !.stage = "saved"]]
  BY DEF save_new
<1>4. [j EXCEPT !.stage = "saved"] \in Jobs
  BY <1>2 DEF Jobs, Setting
<1>5. RowsTyped'
  BY <1>2, StoreTyped DEF save_new, RowsTyped
<1> QED BY <1>3, <1>4, <1>5, NextJob

LEMMA SaveExistingTyped ==
    ASSUME WorkersInv, NEW p \in Processes, save_existing(p)
    PROVE  WorkersInv'
<1> USE DEF WorkersInv
<1> DEFINE j == job[p]
           back == [j EXCEPT !.stage = "each", !.stack = Tail(j.stack)]
<1>1. j \in Jobs /\ j.stage = "saved"
  BY DEF save_existing
<1>2. /\ j \in Setting /\ j.old \in Original /\ j.page \in Seq(Saved)
      /\ j.stack \in Seq(Frame) \ {<<>>} /\ Tail(j.stack) \in Seq(Frame)
  BY <1>1, SettingTyped
<1>3. job' = [job EXCEPT ![p] = Return(j)]
  BY DEF save_existing
<1>4. ASSUME Len(j.stack) /= 1
      PROVE  back \in Jobs
  <2> DEFINE stack == Tail(j.stack)
  <2>1. stack \in Seq(Frame) \ {<<>>}
    <3> DEFINE full == j.stack
    <3>1. full \in Seq(Frame) \ {<<>>} /\ Len(full) /= 1
      BY <1>2, <1>4
    <3> HIDE DEF full
    <3>2. Tail(full) \in Seq(Frame) /\ Len(Tail(full)) = Len(full) - 1 /\ Len(full) \in Nat
          /\ Len(full) /= 0
      BY <3>1
    <3>3. Len(Tail(full)) /= 0
      BY <3>1, <3>2
    <3>4. Tail(full) /= <<>>
      <4>1. Len(<<>>) = 0
        OBVIOUS
      <4> QED BY <3>3, <4>1, Zenon
    <3> QED BY <3>2, <3>4 DEF full
  <2> HIDE DEF stack
  <2> QED BY <1>2, <2>1, Pushed DEF stack
<1>5. Return(j) \in Jobs
  <2> HIDE DEF j
  <2> QED BY <1>2, <1>4, WorkTyped DEF Return
<1>6. RowsTyped'
  BY <1>2, StoreTyped DEF save_existing, RowsTyped, Original
<1> QED BY <1>3, <1>5, <1>6, NextJob

LEMMA CrashTyped ==
    ASSUME WorkersInv, NEW p \in Processes, crash(p)
    PROVE  WorkersInv'
<1> USE DEF WorkersInv
<1>1. RowsTyped'
  BY DEF crash, RowsTyped, Links, vars
<1>2. Idle \in Jobs
  BY DEF Jobs
<1> QED BY <1>1, <1>2, NextJob DEF crash

LEMMA RepairTyped ==
    ASSUME WorkersInv, fix_loop_duplicates
    PROVE  WorkersInv' /\ \A f \in Ids : duplicate'[f] => duplicate[f]
<1> USE DEF WorkersInv
<1>1. job' = job /\ UNCHANGED <<exists, pending, active, is_mitigated, false_p>>
  BY DEF fix_loop_duplicates, status
<1>2. CASE UNCHANGED link
  BY <1>1, <1>2 DEF RowsTyped, Links, link
<1>3. CASE \E order \in Orders : duplicate_finding' = Repaired(order)
  <2>1. PICK order \in Orders : duplicate_finding' = Repaired(order)
    BY <1>3
  <2>2. duplicate_finding' \in NoNewLink(duplicate_finding)
    BY <2>1, RepairAddsNone DEF RowsTyped
  <2>3. CASE duplicate' = [f \in Ids |-> duplicate[f] /\ duplicate_finding'[f] /= None]
    <3>1. \A f \in Ids : duplicate'[f] <=> duplicate[f] /\ duplicate_finding'[f] /= None
      BY <2>3
    <3>2. duplicate' \in [Ids -> BOOLEAN]
      BY <2>3
    <3>3. \A f \in Ids : duplicate_finding'[f] /= None => duplicate[f]
      BY <2>2 DEF NoNewLink, WithLink, RowsTyped
    <3>4. duplicate_finding' \in Links
      BY <2>2 DEF NoNewLink
    <3> QED BY <1>1, <3>1, <3>2, <3>3, <3>4 DEF RowsTyped, Links
  <2>4. CASE UNCHANGED link
    BY <1>2, <2>4
  <2> QED BY <2>3, <2>4 DEF fix_loop_duplicates
<1> QED BY <1>2, <1>3 DEF fix_loop_duplicates

\* Every step leaves rows and jobs well formed.
LEMMA StepTyped == WorkersInv /\ [WorkersNext]_all => WorkersInv'
<1> SUFFICES ASSUME WorkersInv, [WorkersNext]_all
             PROVE  WorkersInv'
  OBVIOUS
<1>1. CASE UNCHANGED all
  BY <1>1 DEF all, vars, WorkersInv, RowsTyped, Links
<1>2. ASSUME NEW p \in Processes, Run(p)
      PROVE  WorkersInv'
  BY <1>2, QueryTyped, ReopenTyped, RefuseTyped, ReadTyped, UnlinkTyped, SaveNewTyped,
     SaveExistingTyped DEF Run
<1>3. ASSUME NEW w \in Workers, Take(w)
      PROVE  WorkersInv'
  BY <1>3, TakeTyped DEF Take
<1>4. CASE Repairing
  BY <1>4, DedupeTyped, RepairTyped DEF Repairing
<1>5. ASSUME NEW p \in Processes, crash(p)
      PROVE  WorkersInv'
  BY <1>5, CrashTyped
<1> QED BY <1>1, <1>2, <1>3, <1>4, <1>5 DEF WorkersNext, Working

\* The columns keep their types and no link is ever without its flag, however
\* many workers save rows they read before others changed them, whenever they
\* die, and whatever removeLoop cuts: set_duplicate writes link and flag
\* together, and original_finding.remove clears the link first.
THEOREM LinksStayFlagged == WorkersSpec => []WorkersTypeOK
<1>1. WorkersInv => WorkersTypeOK
  BY DEF WorkersInv, RowsTyped, WorkersTypeOK, LinkHasFlag, Links
<1> QED BY <1>1, InitWorkers, StepTyped, PTL DEF WorkersSpec

-----------------------------------------------------------------------------
\* Some finding counts as an original, or will when the row of the candidate is
\* saved that a task flagged and that its new finding has just been saved before.
OriginalLeft ==
    \/ \E f \in Ids : ~duplicate[f]
    \/ \E p \in Processes : job[p].stage = "saved"

LeftInv == crashes \in Nat /\ (crashes = 0 => OriginalLeft)

\* Saving a candidate leaves an original: it was one when it was read.
LEMMA CandidateSaved ==
    ASSUME WorkersInv, NEW r \in Original, Store(r)
    PROVE  \E f \in Ids : ~duplicate'[f]
<1>1. r.id \in Ids /\ ~r.duplicate
  BY DEF Original, Saved
<1>2. ~duplicate'[r.id]
  BY <1>1 DEF Store, WorkersInv, RowsTyped
<1> QED BY <1>1, <1>2

\* A step that touches no flag and takes nobody off "saved" leaves an original.
LEMMA OthersLeave ==
    ASSUME LeftInv, WorkersInv, NEW p \in Processes, NEW j, job[p].stage /= "saved",
           job' = [job EXCEPT ![p] = j], UNCHANGED <<duplicate, crashes>>
    PROVE  LeftInv'
<1>1. ASSUME NEW q \in Processes, job[q].stage = "saved"
      PROVE  job'[q].stage = "saved"
  BY <1>1 DEF WorkersInv
<1> QED BY <1>1 DEF LeftInv, OriginalLeft

LEMMA StepLeaves == LeftInv /\ WorkersInv /\ [WorkersNext]_all => LeftInv'
<1> SUFFICES ASSUME LeftInv, WorkersInv, [WorkersNext]_all
             PROVE  LeftInv'
  OBVIOUS
<1>1. CASE UNCHANGED all
  BY <1>1 DEF all, vars, LeftInv, OriginalLeft
<1>2. ASSUME NEW w \in Workers, NEW n \in Ids, take(w, n)
      PROVE  LeftInv'
  <2>1. w \in Processes /\ job[w].stage /= "saved"
    BY <1>2 DEF take, Processes, Idle
  <2>2. UNCHANGED <<duplicate, crashes>> /\ job' = [job EXCEPT ![w] = Work(<<Row(n)>>)]
    BY <1>2 DEF take, link
  <2> QED BY <2>1, <2>2, OthersLeave
<1>3. CASE dedupe
  <2>1. Command \in Processes /\ job[Command].stage /= "saved"
    BY <1>3 DEF dedupe, Quiet, Processes, Idle
  <2>2. UNCHANGED <<duplicate, crashes>>
        /\ job' = [job EXCEPT ![Command] = Work(Rows(Newest(exists)))]
    BY <1>3 DEF dedupe, vars
  <2> QED BY <2>1, <2>2, OthersLeave
<1>4. CASE fix_loop_duplicates
  <2>1. \A p \in Processes : job[p].stage /= "saved"
    BY <1>4 DEF fix_loop_duplicates, Quiet, Idle
  <2>2. UNCHANGED crashes /\ \A f \in Ids : duplicate'[f] => duplicate[f]
    BY <1>4, RepairTyped DEF fix_loop_duplicates
  <2> QED BY <2>1, <2>2 DEF LeftInv, OriginalLeft
<1>5. ASSUME NEW p \in Processes, crash(p)
      PROVE  LeftInv'
  BY <1>5 DEF crash, LeftInv
<1>6. ASSUME NEW p \in Processes, query(p)
      PROVE  LeftInv'
  <2>1. job[p].stage /= "saved" /\ UNCHANGED <<duplicate, crashes>>
    BY <1>6 DEF query, vars
  <2>2. \E j : job' = [job EXCEPT ![p] = j]
    BY <1>6 DEF query
  <2> QED BY <2>1, <2>2, OthersLeave
<1>7. ASSUME NEW p \in Processes, refuse(p)
      PROVE  LeftInv'
  <2>1. job[p].stage /= "saved" /\ UNCHANGED <<duplicate, crashes>>
    BY <1>7 DEF refuse, vars
  <2>2. \E j : job' = [job EXCEPT ![p] = j]
    BY <1>7 DEF refuse
  <2> QED BY <2>1, <2>2, OthersLeave
<1>8. ASSUME NEW p \in Processes, read_members(p)
      PROVE  LeftInv'
  <2>1. job[p].stage /= "saved" /\ UNCHANGED <<duplicate, crashes>>
    BY <1>8 DEF read_members, vars
  <2>2. \E j : job' = [job EXCEPT ![p] = j]
    BY <1>8 DEF read_members
  <2> QED BY <2>1, <2>2, OthersLeave
<1>9. ASSUME NEW p \in Processes, unlink_member(p)
      PROVE  LeftInv'
  <2>1. job[p].stage /= "saved" /\ UNCHANGED <<duplicate, crashes>>
    BY <1>9 DEF unlink_member
  <2>2. \E j : job' = [job EXCEPT ![p] = j]
    BY <1>9 DEF unlink_member
  <2> QED BY <2>1, <2>2, OthersLeave
<1>10. ASSUME NEW p \in Processes, set_duplicate_reopen(p)
       PROVE  LeftInv'
  <2>1. job'[p].old \in Original /\ Store(job'[p].old) /\ UNCHANGED crashes
    BY <1>10, ReopenTyped DEF set_duplicate_reopen
  <2>2. \E f \in Ids : ~duplicate'[f]
    BY <2>1, CandidateSaved
  <2> QED BY <2>1, <2>2 DEF LeftInv, OriginalLeft
<1>11. ASSUME NEW p \in Processes, save_new(p)
       PROVE  LeftInv'
  <2>1. job'[p].stage = "saved" /\ UNCHANGED crashes
    <3>1. job[p] \in Setting
      BY <1>11, SettingTyped DEF save_new, WorkersInv
    <3>2. job' = [job EXCEPT ![p] = [job[p] EXCEPT !.stage = "saved"]]
      BY <1>11 DEF save_new
    <3>3. job'[p] = [job[p] EXCEPT !.stage = "saved"]
      BY <3>2 DEF WorkersInv
    <3>4. UNCHANGED crashes
      BY <1>11 DEF save_new
    <3> QED BY <3>1, <3>3, <3>4 DEF Setting
  <2> QED BY <2>1 DEF LeftInv, OriginalLeft
<1>12. ASSUME NEW p \in Processes, save_existing(p)
       PROVE  LeftInv'
  <2>1. job[p].old \in Original
    BY <1>12, SettingTyped DEF save_existing, WorkersInv
  <2>2. Store(job[p].old) /\ UNCHANGED crashes
    BY <1>12 DEF save_existing
  <2>3. \E f \in Ids : ~duplicate'[f]
    BY <2>1, <2>2, CandidateSaved
  <2> QED BY <2>2, <2>3 DEF LeftInv, OriginalLeft
<1>13. ASSUME NEW p \in Processes, Run(p)
       PROVE  LeftInv'
  BY <1>6, <1>7, <1>8, <1>9, <1>10, <1>11, <1>12, <1>13 DEF Run
<1> QED BY <1>1, <1>2, <1>3, <1>4, <1>5, <1>13 DEF WorkersNext, Working, Take, Repairing

\* However many tasks take each other's finding for the original, and in whatever
\* order their saves come, a cluster whose tasks all finished has a finding that
\* is no duplicate: the last save of set_duplicate is the candidate's, which was
\* no duplicate when it was read.
THEOREM AnOriginalIsLeft == WorkersSpec => []SomeoneIsOriginal
<1>1. WorkersInit => LeftInv
  BY WorkersAssumption DEF WorkersInit, LeftInv, OriginalLeft
<1>2. LeftInv => SomeoneIsOriginal
  BY DEF LeftInv, OriginalLeft, SomeoneIsOriginal, Quiet, Idle
<1> QED BY <1>1, <1>2, InitWorkers, StepTyped, StepLeaves, PTL DEF WorkersSpec

==============================================================================
