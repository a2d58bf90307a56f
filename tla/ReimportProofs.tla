---------------------------- MODULE ReimportProofs ----------------------------
(***************************************************************************)
(* What an upload without chunks does to the findings of a test, for any   *)
(* reports, any number of findings and uploads, and each of the matching   *)
(* algorithms.                                                             *)
(***************************************************************************)
EXTENDS Reimport, WellFoundedInduction, TLAPS

-----------------------------------------------------------------------------
(* Statuses. *)

\* no finding is active and mitigated
Sound == {x \in Status : ~(x.active /\ x.is_mitigated)}

\* The signal never makes a finding active and mitigated, nor does a save.
LEMMA UpdateSound ==
    ASSUME NEW x \in Sound, NEW c
    PROVE  update_finding_status(x, c) \in Sound
<1>1. ASSUME NEW y \in Sound
      PROVE  /\ unmitigated(y, c) \in Sound /\ dated(y) \in Sound
             /\ activated(y, c) \in Sound /\ rejected(y, c) \in Sound /\ no_duplicate(y) \in Sound
  BY <1>1 DEF Sound, Status, unmitigated, dated, activated, rejected, no_duplicate
<1> QED BY <1>1 DEF update_finding_status

\* No save breaks it.
LEMMA SavedSound ==
    ASSUME NEW old, NEW new \in Sound, NEW touched
    PROVE  saved(old, new, touched) \in Sound
BY UpdateSound DEF saved

\* A save that changes nothing writes what was read.
LEMMA SavedSame ==
    ASSUME NEW x
    PROVE  saved(x, x, {}) = x
BY DEF saved, changed_fields

\* A finding that is opened again is not mitigated.
LEMMA SavedOpen ==
    ASSUME NEW x \in Sound, x.is_mitigated, ~Rejected(x)
    PROVE  LET y == saved(x, [x EXCEPT !.mitigated = FALSE, !.is_mitigated = FALSE,
                                       !.active = TRUE], {"mitigated_by"})
           IN  y \in Sound /\ ~y.is_mitigated
<1> DEFINE new == [x EXCEPT !.mitigated = FALSE, !.is_mitigated = FALSE, !.active = TRUE]
           c == changed_fields(x, new) \cup {"mitigated_by"}
<1>1. new \in Sound /\ ~new.is_mitigated /\ ~new.false_p /\ ~new.out_of_scope
  BY DEF Sound, Status, Rejected
<1>2. update_finding_status(new, c) \in Sound /\ ~update_finding_status(new, c).is_mitigated
  <2> HIDE DEF new, c
  <2>1. ASSUME NEW y \in Sound, ~y.is_mitigated, ~y.false_p, ~y.out_of_scope
        PROVE  LET Alike(z) == z \in Sound /\ ~z.is_mitigated /\ ~z.false_p /\ ~z.out_of_scope
               IN  /\ Alike(unmitigated(y, c)) /\ Alike(dated(y)) /\ Alike(activated(y, c))
                   /\ Alike(rejected(y, c)) /\ Alike(no_duplicate(y))
    BY <2>1 DEF Sound, Status, unmitigated, dated, activated, rejected, no_duplicate
  <2> QED BY <1>1, <2>1 DEF update_finding_status
<1> QED BY <1>2 DEF saved

Closed(x) == saved(x, Mitigated(x), {"mitigated", "mitigated_by"})

\* Closing a finding leaves the decisions about it alone.
LEMMA ClosedKeeps ==
    ASSUME NEW x \in Status
    PROVE  /\ Closed(x) \in Sound /\ ~Closed(x).active
           /\ Closed(x).false_p = x.false_p /\ Closed(x).out_of_scope = x.out_of_scope
           /\ Closed(x).risk_accepted = x.risk_accepted
<1> DEFINE c == changed_fields(x, Mitigated(x)) \cup {"mitigated", "mitigated_by"}
           Alike(y) == /\ y \in Status /\ ~y.active
                      /\ y.false_p = x.false_p /\ y.out_of_scope = x.out_of_scope
                      /\ y.risk_accepted = x.risk_accepted
<1>1. Alike(Mitigated(x))
  BY DEF Mitigated, Status
<1>2. c /= {} /\ Closed(x) = update_finding_status(Mitigated(x), c)
  BY DEF Closed, saved
<1> HIDE DEF c
<1>3. ASSUME NEW y, Alike(y)
      PROVE  /\ Alike(unmitigated(y, c)) /\ Alike(dated(y)) /\ Alike(activated(y, c))
             /\ Alike(rejected(y, c)) /\ Alike(no_duplicate(y))
  BY <1>3 DEF Status, unmitigated, dated, activated, rejected, no_duplicate
<1>4. Alike(Closed(x))
  BY <1>1, <1>2, <1>3 DEF update_finding_status
<1> QED BY <1>4 DEF Sound

\* A new finding is not active and mitigated, and not mitigated at all unless the
\* report says so.
LEMMA CreatedKeeps ==
    ASSUME NEW x \in Status
    PROVE  /\ created(x) \in Sound
           /\ ~x.is_mitigated /\ ~Rejected(x) => ~created(x).is_mitigated
<1> DEFINE first == update_finding_status(x, {"id"})
           Plainly(y) == ~y.is_mitigated /\ ~y.false_p /\ ~y.out_of_scope
<1>1. ASSUME NEW y \in Status, NEW c
      PROVE  /\ update_finding_status(y, c) \in Status
             /\ Plainly(y) => Plainly(update_finding_status(y, c))
             /\ y \in Sound => update_finding_status(y, c) \in Sound
  <2>1. ASSUME NEW z \in Status
        PROVE  /\ unmitigated(z, c) \in Status /\ dated(z) \in Status
               /\ activated(z, c) \in Status /\ rejected(z, c) \in Status
               /\ no_duplicate(z) \in Status
               /\ Plainly(z) => /\ Plainly(unmitigated(z, c)) /\ Plainly(dated(z))
                                /\ Plainly(activated(z, c)) /\ Plainly(rejected(z, c))
                                /\ Plainly(no_duplicate(z))
    BY <2>1 DEF Status, unmitigated, dated, activated, rejected, no_duplicate
  <2>2. y \in Sound => update_finding_status(y, c) \in Sound
    BY UpdateSound
  <2> HIDE DEF Plainly
  <2> QED BY <2>1, <2>2 DEF update_finding_status
<1>2. first \in Sound
  <2> DEFINE y == dated(unmitigated(x, {"id"}))
  <2>1. y \in Status
    BY DEF Status, unmitigated, dated
  <2> HIDE DEF y
  <2>2. activated(y, {"id"}) \in Sound
    BY <2>1 DEF Sound, Status, activated, is_new_finding
  <2>3. rejected(activated(y, {"id"}), {"id"}) \in Sound
    BY <2>2 DEF Sound, Status, rejected
  <2>4. \A z \in Sound : no_duplicate(z) \in Sound
    BY DEF Sound, Status, no_duplicate
  <2> QED BY <2>3, <2>4 DEF update_finding_status, y
<1>3. ASSUME NEW old, NEW y \in Sound, NEW touched
      PROVE  saved(old, y, touched) \in Sound /\ (Plainly(y) => Plainly(saved(old, y, touched)))
  BY <1>1, <1>3, SavedSound DEF saved, Sound
<1>4. ~x.is_mitigated /\ ~Rejected(x) => Plainly(first)
  BY <1>1 DEF Rejected
<1> HIDE DEF first, Plainly
<1>5. created(x) = saved(first, saved(x, first, {}), {"id"})
  BY DEF created, first
<1>6. ~x.is_mitigated /\ ~Rejected(x) => Plainly(created(x))
  BY <1>2, <1>3, <1>4, <1>5
<1> QED BY <1>2, <1>3, <1>5, <1>6 DEF Plainly

-----------------------------------------------------------------------------
(* The invariant: first the table, then what holds while the items of the   *)
(* report are handled, then what holds while findings are closed.  Without  *)
(* Async there is one chunk, whose local variables these are.               *)

items == chunk[1].items
original == chunk[1].original
found == chunk[1].found
listed == chunk[1].reactivated \cup chunk[1].unchanged

Rows == [Ids -> Sound \cup {None}]

Args == [report : Reports, close_old : BOOLEAN, do_not_reactivate : BOOLEAN,
         active : BOOLEAN \cup {None}]

Local == [items : Seq(Reported), original : Rows \cup {None},
          found : Instance \cup {None}, new : SUBSET Ids,
          reactivated : SUBSET Ids, unchanged : SUBSET Ids]

TableInv ==
    /\ next_id \in Nat /\ row \in Rows
    /\ attr = [f \in Ids |-> attr[f]]
    /\ \A f \in Ids : f >= next_id => row[f] = None
    /\ NoTwins

\* the place in the report of the next item
Place == Len(args.report) - Len(items) + 1

AllPlain(f) == \A i \in ItemsOf(f) : Plain(i)

\* an item of f has been handled, or has been saved for the first time
Handled(f) ==
    \/ \E i \in ItemsOf(f) : i < Place
    \/ found /= None /\ found.handled /\ found.id = f

\* what plain items leave behind
Kept(f) ==
    \/ original[f] /= None /\ Rejected(original[f])
    \/ ~row[f].is_mitigated /\ (original[f] = None \/ f \in listed)
    \/ args.do_not_reactivate /\ original[f] /= None /\ original[f].is_mitigated

\* the rest of the report
ItemsInv ==
    /\ args \in Args
    /\ Len(items) <= Len(args.report)
    /\ \A j \in DOMAIN items : items[j] = args.report[Place + j - 1]

\* what was found is what the table has, and nothing is found when nothing matches
FoundInv ==
    found /= None =>
        /\ items /= <<>>
        /\ found.id /= 0 => Place \in ItemsOf(found.id) /\ found.status = row[found.id]
        /\ found.id = 0 => ~found.handled /\ \A f \in Findings : ~Matches(Item(1).attr, f)

FindingInv(f) ==
    /\ original[f] /= None => row[f] /= None
    /\ original[f] /= None /\ Rejected(original[f]) => row[f] = original[f]
    /\ row[f] /= None /\ ~Handled(f) => row[f] = original[f] /\ f \notin listed
    /\ row[f] /= None /\ Handled(f) /\ AllPlain(f) => Kept(f)

ProcessingInv ==
    /\ chunk \in [{1} -> Local]
    /\ ItemsInv
    /\ original = None => items = args.report /\ found = None /\ listed = {}
    /\ original /= None => FoundInv /\ \A f \in Ids : FindingInv(f)

\* an old finding as close_old_findings gets it
Left_over(f) == [id |-> f, status |-> original[f], chunk |-> 1]

ClosingInv ==
    /\ original \in Rows /\ args \in Args
    /\ \A t \in to_mitigate :
        t.id \in Ids /\ original[t.id] /= None /\ t = Left_over(t.id) /\ t.id \notin listed
    /\ \A f \in Ids : original[f] /= None => row[f] /= None
    /\ \A f \in Findings :
        /\ original[f] /= None /\ Rejected(original[f])
           => row[f] \in {original[f], Closed(original[f])}
        /\ args.close_old /\ ItemsOf(f) = {}
           => ~row[f].active \/ (row[f] = original[f] /\ Left_over(f) \in to_mitigate)
        /\ ItemsOf(f) /= {} /\ AllPlain(f) => Kept(f)

UploadInv ==
    /\ TableInv
    /\ phase \in {"idle", "processing", "closing"}
    /\ phase = "processing" => ProcessingInv
    /\ phase = "closing" => ClosingInv

\* An item that comes back finds the finding it has made: for the hash code that
\* is so once it has been computed, for the unique id when the tool gives one.
Identified ==
    \A x \in Reported :
        \/ algorithm = "legacy"
        \/ algorithm \in {"hash_code", "unique_id_from_tool_or_hash_code"} /\ x.attr.hash /= None
        \/ /\ algorithm \in {"unique_id_from_tool", "unique_id_from_tool_or_hash_code"}
           /\ x.attr.uid /= None

-----------------------------------------------------------------------------
(* The queries. *)

\* Of some findings one has the lowest key.
LEMMA Lowest ==
    ASSUME NEW S \in SUBSET Ids, S /= {}
    PROVE  \E f \in S : \A g \in S : f <= g
<1>1. S \subseteq Nat
  BY IdsAssumption
<1>2. PICK f \in S : \A g \in S : ~(<<g, f>> \in OpToRel(<, Nat))
  BY <1>1, NatLessThanWellFounded, WFMin, Zenon
<1>3. \A g \in S : g \in Nat /\ f \in Nat /\ ~(g < f)
  BY <1>1, <1>2 DEF OpToRel
<1> QED BY <1>3

\* A query without a result: nothing matches.
LEMMA EmptyQuery ==
    ASSUME NEW a, NEW seen, match_new_finding_to_existing_finding(a, seen) = {}
    PROVE  \A f \in Findings : ~Matches(a, f)
<1> DEFINE S == {f \in Findings : Matches(a, f)}
<1>1. CASE S /= {}
  <2>1. PICK f \in S : \A g \in S : f <= g
    <3> S \in SUBSET Ids
      BY DEF Findings
    <3> HIDE DEF S
    <3> QED BY <1>1, Lowest
  <2>2. f \in match_new_finding_to_existing_finding(a, seen)
    BY <2>1 DEF match_new_finding_to_existing_finding
  <2> QED BY <2>2
<1>2. CASE S = {}
  BY <1>2
<1> QED BY <1>1, <1>2

\* A query has one result.
LEMMA OneResult ==
    ASSUME NEW i, NEW f, NEW g, i \in ItemsOf(f), i \in ItemsOf(g)
    PROVE  f = g
<1>1. f \in Findings /\ g \in Findings /\ f <= g /\ g <= f
  BY DEF ItemsOf, match_new_finding_to_existing_finding
<1> QED BY <1>1, IdsAssumption DEF Findings

\* Whether a finding matches depends on what identifies it.
LEMMA MatchesSame ==
    ASSUME NEW a, NEW f, attr'[f] = attr[f]
    PROVE  (\A g : attr[g] = attr[f] => (Matches(a, g) <=> Matches(a, f)))
           /\ (Matches(a, f)' <=> Matches(a, f))
BY DEF Matches, Same

\* The items of a finding depend on the report and on what identifies findings.
LEMMA SameItems ==
    ASSUME Findings' = Findings, UNCHANGED <<attr, args>>
    PROVE  /\ \A f : ItemsOf(f)' = ItemsOf(f)
           /\ \A f : AllPlain(f)' <=> AllPlain(f)
<1>1. \A a, f : Matches(a, f)' <=> Matches(a, f)
  BY DEF Matches, Same
<1>2. \A f : ItemsOf(f)' = ItemsOf(f)
  BY <1>1 DEF ItemsOf, match_new_finding_to_existing_finding
<1> QED BY <1>2 DEF AllPlain, Plain

-----------------------------------------------------------------------------
(* The steps of the loop. *)

\* All branches for a finding that exists: f ends with the row x, at most f is
\* listed, and the item is done or has been saved for the first time.
Effect(f, x, L) ==
    /\ row' = [row EXCEPT ![f] = x]
    /\ UNCHANGED <<next_id, attr, args, phase>>
    /\ chunk' \in [{1} -> Local]
    /\ original' = original
    /\ listed' = listed \cup L
    /\ \/ items' = Tail(items) /\ found' = None
       \/ items' = items /\ found' = [id |-> f, status |-> x, handled |-> TRUE]

\* A branch for an existing finding keeps the invariant if the row is what the finding's
\* decision, or its plain items, ask for.
LEMMA EffectKeeps ==
    ASSUME UploadInv, phase = "processing", original /= None, found /= None,
           NEW f, found.id = f, f /= 0, NEW x \in Sound, NEW L \in SUBSET {f},
           Effect(f, x, L),
           original[f] /= None /\ Rejected(original[f]) => x = row[f],
           AllPlain(f) =>
               \/ original[f] /= None /\ Rejected(original[f])
               \/ ~x.is_mitigated /\ (original[f] = None \/ f \in listed \cup L)
               \/ args.do_not_reactivate /\ original[f] /= None /\ original[f].is_mitigated
    PROVE  UploadInv'
<1>1. /\ TableInv /\ ProcessingInv /\ ItemsInv /\ FoundInv /\ chunk \in [{1} -> Local]
      /\ \A g \in Ids : FindingInv(g)
  BY DEF UploadInv, ProcessingInv
<1>2. /\ Place \in ItemsOf(f) /\ items /= <<>> /\ f \in Findings /\ f \in Ids
      /\ original \in Rows
  <2>1. Place \in ItemsOf(f) /\ items /= <<>>
    BY <1>1 DEF FoundInv
  <2>2. f \in Findings /\ f \in Ids
    BY <2>1 DEF ItemsOf, match_new_finding_to_existing_finding, Findings
  <2> QED BY <1>1, <2>1, <2>2 DEF Local, original
<1>3. row' \in Rows /\ Findings' = Findings /\ row'[f] = x
      /\ \A g \in Ids : g /= f => row'[g] = row[g]
  BY <1>1, <1>2, NoneAssumption DEF TableInv, Rows, Findings, Effect, Sound
<1>4. \A g : ItemsOf(g)' = ItemsOf(g) /\ (AllPlain(g)' <=> AllPlain(g))
  BY <1>3, SameItems DEF Effect
<1>5. TableInv'
  <2>1. NoTwins'
    BY <1>1, <1>3 DEF TableInv, NoTwins, Matches, Same, Effect
  <2>2. \A g \in Ids : g >= next_id => row'[g] = None
    BY <1>1, <1>2, <1>3 DEF TableInv, Findings
  <2> QED BY <1>1, <1>3, <2>1, <2>2 DEF TableInv, Effect
<1>6. /\ items \in Seq(Reported) /\ args.report \in Seq(Reported)
      /\ Place \in Nat \ {0} /\ Len(items) \in Nat \ {0}
  <2>1. items \in Seq(Reported)
    BY <1>1 DEF Local, items
  <2>2. args.report \in Seq(Reported)
    BY <1>1, ReportsAssumption DEF ItemsInv, Args
  <2> QED BY <1>1, <1>2, <2>1, <2>2 DEF ItemsInv, Place
<1>7. \A g : \A i \in ItemsOf(g) : i \in Nat \ {0}
  BY <1>6 DEF ItemsOf
<1>8. /\ ItemsInv' /\ FoundInv' /\ Handled(f)'
      /\ \A g \in Ids : g /= f => (Handled(g)' <=> Handled(g))
  <2>1. CASE items' = Tail(items) /\ found' = None
    <3>1. Place' = Place + 1
      BY <1>6, <2>1 DEF Place, Effect
    <3>2. ItemsInv'
      <4>1. /\ Len(items') = Len(items) - 1
            /\ \A j \in DOMAIN items' : items'[j] = items[j + 1] /\ j + 1 \in DOMAIN items
                                        /\ j \in Nat
        BY <1>6, <2>1
      <4>2. \A j \in DOMAIN items' : items'[j] = args.report[Place' + j - 1]
        <5> SUFFICES ASSUME NEW j \in DOMAIN items'
                     PROVE  items'[j] = args.report[Place' + j - 1]
          OBVIOUS
        <5>1. items[j + 1] = args.report[Place + (j + 1) - 1]
          BY <1>1, <4>1 DEF ItemsInv
        <5>2. Place + (j + 1) - 1 = Place' + j - 1
          <6> j \in Nat /\ Place \in Nat
            BY <1>6, <4>1
          <6> QED BY <3>1
        <5> QED BY <4>1, <5>1, <5>2
      <4> QED BY <1>1, <1>6, <4>1, <4>2 DEF ItemsInv, Effect
    <3>3. FoundInv'
      BY <2>1 DEF FoundInv
    <3>4. ASSUME NEW g \in Ids, g /= f
          PROVE  Handled(g)' <=> Handled(g)
      <4>1. Place \notin ItemsOf(g)
        BY <1>2, <3>4, OneResult
      <4>2. \A i \in ItemsOf(g) : i < Place' <=> i < Place
        BY <1>6, <1>7, <3>1, <4>1
      <4> QED BY <1>4, <2>1, <3>4, <4>2 DEF Handled
    <3>5. Handled(f)'
      <4>1. Place \in ItemsOf(f)' /\ Place < Place'
        BY <1>2, <1>4, <1>6, <3>1
      <4> QED BY <4>1 DEF Handled
    <3> QED BY <3>2, <3>3, <3>4, <3>5
  <2>2. CASE items' = items /\ found' = [id |-> f, status |-> x, handled |-> TRUE]
    <3>1. Place' = Place
      BY <2>2 DEF Place, Effect
    <3>2. ItemsInv'
      BY <1>1, <2>2, <3>1 DEF ItemsInv, Effect
    <3>3. FoundInv'
      BY <1>2, <1>3, <1>4, <2>2, <3>1 DEF FoundInv
    <3>4. \A g \in Ids : g /= f => (Handled(g)' <=> Handled(g))
      BY <1>4, <2>2, <3>1 DEF Handled
    <3>5. Handled(f)'
      <4>1. found' /= None
        <5>1. [id |-> f, status |-> x, handled |-> TRUE] \in Instance
          BY <1>2 DEF Instance, Sound
        <5> QED BY <2>2, <5>1, NoneAssumption
      <4> QED BY <2>2, <4>1 DEF Handled
    <3> QED BY <3>2, <3>3, <3>4, <3>5
  <2> QED BY <2>1, <2>2 DEF Effect
<1>9. ASSUME NEW g \in Ids
      PROVE  FindingInv(g)'
  <2>1. CASE g = f
    <3>1. AllPlain(f)' => Kept(f)'
      BY <1>3, <1>4 DEF Kept, Effect
    <3> QED
      BY <1>1, <1>2, <1>3, <1>8, <2>1, <3>1, NoneAssumption DEF FindingInv, Effect, Sound, Findings
  <2>2. CASE g /= f
    BY <1>1, <1>3, <1>4, <1>8, <2>2 DEF FindingInv, Effect, Kept
  <2> QED BY <2>1, <2>2
<1> QED
  BY <1>5, <1>8, <1>9 DEF UploadInv, ProcessingInv, Effect

\* What is known when a finding has been found.
LEMMA FoundFacts ==
    ASSUME UploadInv, phase = "processing", found /= None, found.id /= 0
    PROVE  /\ original /= None /\ chunk \in [{1} -> Local]
           /\ found.id \in Ids /\ items /= <<>>
           /\ s(1) = row[found.id] /\ row[found.id] \in Sound /\ st(1) \in Status
           /\ FindingInv(found.id)
           /\ row[found.id] /= None
           /\ AllPlain(found.id) => ~st(1).is_mitigated /\ ~Rejected(st(1))
<1>1. /\ original /= None /\ chunk \in [{1} -> Local] /\ FoundInv /\ ItemsInv
      /\ TableInv /\ \A f \in Ids : FindingInv(f)
  BY DEF UploadInv, ProcessingInv
<1>2. Place \in ItemsOf(found.id) /\ items /= <<>> /\ found.status = row[found.id]
  BY <1>1 DEF FoundInv
<1>3. found.id \in Ids /\ row[found.id] /= None /\ row[found.id] \in Sound
  BY <1>1, <1>2
  DEF ItemsOf, match_new_finding_to_existing_finding, Findings, TableInv, Rows
<1>4. items \in Seq(Reported) /\ args.report \in Seq(Reported)
  <2>1. items \in Seq(Reported)
    BY <1>1 DEF Local, items
  <2> QED BY <1>1, <2>1, ReportsAssumption DEF ItemsInv, Args
<1>5. Head(items) = args.report[Place] /\ Head(items) \in Reported
  <2>1. 1 \in DOMAIN items /\ Head(items) = items[1] /\ Head(items) \in Reported
        /\ Place \in Nat
    BY <1>2, <1>4 DEF ItemsOf
  <2>2. Place + 1 - 1 = Place
    BY <2>1
  <2> QED BY <1>1, <2>1, <2>2 DEF ItemsInv
<1>6. st(1) = args.report[Place].status /\ st(1) \in Status
  BY <1>5, ReportsAssumption DEF st, Item, items
<1>7. AllPlain(found.id) => Plain(Place)
  BY <1>2 DEF AllPlain
<1> QED
  BY <1>1, <1>2, <1>3, <1>6, <1>7 DEF Plain, s, found

\* The chunk when an item is done.
LEMMA PopIs ==
    ASSUME chunk \in [{1} -> Local], items /= <<>>, NEW f \in Ids,
           NEW l \in {"unchanged", "unlisted"},
           chunk' = [chunk EXCEPT ![1] =
                        [Listed(1, l, f) EXCEPT !.items = Tail(@), !.found = None]]
    PROVE  /\ chunk' \in [{1} -> Local]
           /\ original' = original /\ items' = Tail(items) /\ found' = None
           /\ listed' = listed \cup (IF l = "unlisted" THEN {} ELSE {f})
<1>1. /\ Listed(1, "unchanged", f) = [chunk[1] EXCEPT !.unchanged = @ \cup {f}]
      /\ Listed(1, "unlisted", f) = chunk[1]
  BY DEF Listed, Unlisted
<1>2. /\ chunk[1] \in Local /\ Tail(items) \in Seq(Reported)
      /\ chunk[1].reactivated \in SUBSET Ids /\ chunk[1].unchanged \in SUBSET Ids
  BY DEF Local, items
<1>3. chunk'[1] = [Listed(1, l, f) EXCEPT !.items = Tail(@), !.found = None]
      /\ DOMAIN chunk' = {1} /\ chunk' \in [{1} -> {chunk'[1]}]
  OBVIOUS
<1>4. CASE l = "unchanged"
  <2>1. chunk'[1] = [chunk[1] EXCEPT !.unchanged = chunk[1].unchanged \cup {f},
                                     !.items = Tail(items), !.found = None]
    BY <1>1, <1>2, <1>3, <1>4 DEF Local, items
  <2>2. chunk'[1] \in Local
    <3> DEFINE u == chunk[1].unchanged \cup {f}
               r == Tail(items)
    <3>1. u \in SUBSET Ids /\ r \in Seq(Reported)
      BY <1>2
    <3>2. chunk'[1] = [chunk[1] EXCEPT !.unchanged = u, !.items = r, !.found = None]
      BY <2>1
    <3> HIDE DEF u, r
    <3> QED BY <1>2, <3>1, <3>2 DEF Local
  <2> QED BY <1>2, <1>3, <1>4, <2>1, <2>2 DEF Local, original, items, found, listed
<1>5. CASE l = "unlisted"
  <2>1. chunk'[1] = [chunk[1] EXCEPT !.items = Tail(@), !.found = None]
    BY <1>1, <1>3, <1>5
  <2>2. chunk'[1] \in Local
    BY <1>2, <2>1 DEF Local, items
  <2> QED BY <1>2, <1>3, <1>5, <2>1, <2>2 DEF Local, original, items, found, listed
<1> QED BY <1>4, <1>5

\* The chunk after a first save.
LEMMA HoldIs ==
    ASSUME chunk \in [{1} -> Local], NEW f \in Ids, NEW x \in Status,
           NEW l \in {"new", "reactivated"},
           chunk' = [chunk EXCEPT ![1] =
                        [Listed(1, l, f) EXCEPT
                            !.found = [id |-> f, status |-> x, handled |-> TRUE]]]
    PROVE  /\ chunk' \in [{1} -> Local]
           /\ original' = original /\ items' = items
           /\ found' = [id |-> f, status |-> x, handled |-> TRUE]
           /\ listed' = listed \cup (IF l = "new" THEN {} ELSE {f})
<1>1. /\ Listed(1, "new", f) = [chunk[1] EXCEPT !.new = @ \cup {f}]
      /\ Listed(1, "reactivated", f) = [chunk[1] EXCEPT !.reactivated = @ \cup {f}]
  BY DEF Listed, Unlisted
<1>2. [id |-> f, status |-> x, handled |-> TRUE] \in Instance
  BY DEF Instance
<1>3. CASE l = "new"
  BY <1>1, <1>2, <1>3 DEF Local, original, items, found, listed
<1>4. CASE l = "reactivated"
  BY <1>1, <1>2, <1>4 DEF Local, original, items, found, listed
<1> QED BY <1>3, <1>4

\* The item agrees with the finding: nothing is saved.
LEMMA SkipKeeps ==
    ASSUME UploadInv, phase = "processing", SameRejection(1) \/ StillMitigated(1)
    PROVE  UploadInv'
<1> DEFINE f == found.id
<1>1. found /= None /\ f /= 0 /\ f = id(1)
  BY DEF SameRejection, StillMitigated, Found, Pending, id, found
<1>2. Effect(f, row[f], {f})
  <2>1. Skip(1, "unchanged")
    BY DEF SameRejection, StillMitigated
  <2>2. /\ chunk' \in [{1} -> Local]
        /\ original' = original /\ items' = Tail(items) /\ found' = None
        /\ listed' = listed \cup {f}
    BY <1>1, <2>1, FoundFacts, PopIs, Zenon DEF Skip
  <2>3. row' = [row EXCEPT ![f] = row[f]]
    BY <1>1, <2>1, FoundFacts DEF Skip, UploadInv, TableInv, Rows
  <2> QED BY <2>1, <2>2, <2>3 DEF Effect, Skip, upload
<1>3. ~AllPlain(f)
  BY <1>1, FoundFacts DEF SameRejection, StillMitigated, Rejected
<1> QED BY <1>1, <1>2, <1>3, FoundFacts, EffectKeeps

\* The effect of a save at the end of the loop.
LEMMA StoreEffect ==
    ASSUME UploadInv, phase = "processing", found /= None, found.id /= 0,
           NEW l \in {"unchanged", "unlisted"}, NEW new, NEW touched,
           Store(1, l, new, touched)
    PROVE  Effect(found.id, saved(s(1), new, touched),
                  IF l = "unlisted" THEN {} ELSE {found.id})
<1>1. found.id = id(1)
  BY DEF id, found
<1>2. /\ chunk' \in [{1} -> Local]
      /\ original' = original /\ items' = Tail(items) /\ found' = None
      /\ listed' = listed \cup (IF l = "unlisted" THEN {} ELSE {found.id})
  BY <1>1, FoundFacts, PopIs, Zenon DEF Store
<1> QED BY <1>1, <1>2 DEF Effect, Store, upload

\* Saves that write back what was read.
LEMMA SameKeeps ==
    ASSUME UploadInv, phase = "processing",
           OtherRejection(1) \/ Unchanged(1) \/ Save_again(1)
    PROVE  UploadInv'
<1> DEFINE f == found.id
<1>1. found /= None /\ f /= 0
  BY DEF OtherRejection, Unchanged, OpenBefore, Found, Pending, id, found, Save_again,
         UploadInv, ProcessingInv, FoundInv
<1>2. saved(s(1), s(1), {}) = row[f]
  BY <1>1, FoundFacts, SavedSame
<1>3. ~Handled(f) => row[f] = original[f] /\ row[f] /= None
  BY <1>1, FoundFacts DEF FindingInv
<1>4. Handled(f) /\ AllPlain(f) => Kept(f)
  BY <1>1, FoundFacts DEF FindingInv
<1>5. CASE OtherRejection(1)
  <2>1. Effect(f, row[f], {})
    BY <1>1, <1>2, <1>5, StoreEffect DEF OtherRejection, Unlisted
  <2>2. ~Handled(f) => original[f] /= None /\ Rejected(original[f])
    BY <1>1, <1>3, <1>5, FoundFacts DEF OtherRejection
  <2> QED BY <1>1, <1>4, <2>1, <2>2, FoundFacts, EffectKeeps DEF Kept
<1>6. CASE Unchanged(1)
  <2>1. Effect(f, row[f], {f})
    BY <1>1, <1>2, <1>6, StoreEffect DEF Unchanged
  <2>2. ~row[f].is_mitigated
    BY <1>1, <1>6, FoundFacts DEF Unchanged, OpenBefore
  <2> QED BY <1>1, <2>1, <2>2, FoundFacts, EffectKeeps
<1>7. CASE Save_again(1)
  <2>1. Effect(f, row[f], {})
    BY <1>1, <1>2, <1>7, StoreEffect DEF Save_again, Unlisted
  <2>2. Handled(f)
    BY <1>1, <1>7 DEF Save_again, Handled, found
  <2> QED BY <1>1, <1>4, <2>1, <2>2, FoundFacts, EffectKeeps DEF Kept
<1> QED BY <1>5, <1>6, <1>7

\* The report says that the finding is fixed or rejected.
LEMMA ReportKeeps ==
    ASSUME UploadInv, phase = "processing", CloseReported(1) \/ RejectReported(1)
    PROVE  UploadInv'
<1> DEFINE f == found.id
           closing == [s(1) EXCEPT !.mitigated = st(1).mitigated, !.is_mitigated = TRUE,
                                   !.active = FALSE]
           rejecting == [s(1) EXCEPT !.risk_accepted = st(1).risk_accepted,
                                     !.false_p = st(1).false_p,
                                     !.out_of_scope = st(1).out_of_scope, !.active = FALSE]
<1>1. found /= None /\ f /= 0
  BY DEF CloseReported, RejectReported, OpenBefore, Found, Pending, id, found
<1>2. ~Rejected(s(1)) /\ ~AllPlain(f)
  BY <1>1, FoundFacts DEF CloseReported, RejectReported, OpenBefore
<1>3. closing \in Sound /\ rejecting \in Sound
  BY <1>1, FoundFacts DEF Sound, Status
<1>4. ASSUME NEW x \in Sound, Effect(f, x, {})
      PROVE  UploadInv'
  BY <1>1, <1>2, <1>4, FoundFacts, EffectKeeps DEF FindingInv
<1>5. CASE CloseReported(1)
  <2>1. Effect(f, saved(s(1), closing, {"mitigated_by"}), {})
    BY <1>1, <1>5, StoreEffect DEF CloseReported, Unlisted
  <2> HIDE DEF closing
  <2> QED BY <1>3, <1>4, <2>1, SavedSound
<1>6. CASE RejectReported(1)
  <2>1. Effect(f, saved(s(1), rejecting, {}), {})
    BY <1>1, <1>6, StoreEffect DEF RejectReported, Unlisted
  <2> HIDE DEF rejecting
  <2> QED BY <1>3, <1>4, <2>1, SavedSound
<1> QED BY <1>5, <1>6

\* The finding was fixed and is back.
LEMMA ReactivateKeeps ==
    ASSUME UploadInv, phase = "processing", Reactivate(1)
    PROVE  UploadInv'
<1> DEFINE f == found.id
           x == saved(s(1), [s(1) EXCEPT !.mitigated = FALSE, !.is_mitigated = FALSE,
                                         !.active = TRUE], {"mitigated_by"})
<1>1. found /= None /\ f /= 0 /\ f = id(1)
  BY DEF Reactivate, FixedBefore, Found, Pending, id, found
<1>2. ~Rejected(s(1)) /\ s(1).is_mitigated /\ s(1) \in Sound
  BY <1>1, FoundFacts DEF Reactivate, FixedBefore
<1>3. x \in Sound /\ ~x.is_mitigated
  BY <1>2, SavedOpen
<1> HIDE DEF x
<1>4. Save_first(1, "reactivated", f, x) /\ UNCHANGED <<next_id, attr>>
  BY <1>1 DEF Reactivate, x
<1>5. Effect(f, x, {f})
  <2>1. /\ chunk' \in [{1} -> Local]
        /\ original' = original /\ items' = items
        /\ found' = [id |-> f, status |-> x, handled |-> TRUE]
        /\ listed' = listed \cup {f}
    <3>1. x \in Status
      BY <1>3 DEF Sound
    <3> QED BY <1>1, <1>4, <3>1, FoundFacts, HoldIs, Zenon DEF Save_first
  <2> QED BY <1>4, <2>1 DEF Effect, Save_first, upload
<1> QED BY <1>1, <1>2, <1>3, <1>5, FoundFacts, EffectKeeps DEF FindingInv

\* ... but is not to be reopened: only a note is saved, and once the row as it was.
LEMMA SkipReactivationKeeps ==
    ASSUME UploadInv, phase = "processing", SkipReactivation(1)
    PROVE  UploadInv'
<1> DEFINE f == found.id
<1>1. found /= None /\ f /= 0 /\ f = id(1)
  BY DEF SkipReactivation, FixedBefore, Found, Pending, id, found
<1>2. row' = [row EXCEPT ![f] = row[f]]
  BY <1>1, FoundFacts DEF SkipReactivation, UploadInv, TableInv, Rows
<1>3. Effect(f, row[f], {})
  <2>1. chunk' = [chunk EXCEPT ![1] = [chunk[1] EXCEPT !.items = Tail(@), !.found = None]]
    BY <1>1, FoundFacts DEF SkipReactivation, Local
  <2>2. chunk[1] = Listed(1, "unlisted", f)
    BY DEF Listed, Unlisted
  <2>3. /\ chunk' \in [{1} -> Local]
        /\ original' = original /\ items' = Tail(items) /\ found' = None
        /\ listed' = listed \cup (IF "unlisted" = "unlisted" THEN {} ELSE {f})
    BY <1>1, <2>1, <2>2, FoundFacts, PopIs
  <2> QED BY <1>2, <2>3 DEF Effect, SkipReactivation, upload
<1>4. Handled(f) /\ AllPlain(f) => Kept(f)
  BY <1>1, FoundFacts DEF FindingInv
<1>5. ~Handled(f) => /\ original[f] /= None /\ original[f].is_mitigated
                     /\ args.do_not_reactivate
  BY <1>1, FoundFacts DEF FindingInv, SkipReactivation, FixedBefore
<1> QED BY <1>1, <1>3, <1>4, <1>5, FoundFacts, EffectKeeps DEF Kept

\* When the loop begins no item has been handled, and the copies are the table.
LEMMA StartKeeps ==
    ASSUME UploadInv, phase = "processing", Start(1)
    PROVE  UploadInv'
<1>1. /\ TableInv /\ chunk \in [{1} -> Local] /\ ItemsInv
      /\ items = args.report /\ found = None /\ listed = {}
  BY DEF UploadInv, ProcessingInv, Start, original
<1>2. UNCHANGED <<next_id, attr, row, args, phase>>
  BY DEF Start, upload
<1>3. /\ chunk' \in [{1} -> Local] /\ original' = row
      /\ items' = items /\ found' = found /\ listed' = listed
  BY <1>1 DEF Start, Local, TableInv, original, items, found, listed
<1>4. TableInv'
  BY <1>1, <1>2 DEF TableInv, NoTwins, Findings, Matches, Same
<1>5. ItemsInv' /\ FoundInv'
  BY <1>1, <1>2, <1>3 DEF ItemsInv, FoundInv, Place
<1>6. ASSUME NEW f \in Ids
      PROVE  FindingInv(f)'
  <2>1. Place' = 1
    <3>1. args.report \in Seq(Reported)
      BY <1>1, ReportsAssumption DEF ItemsInv, Args
    <3> QED BY <1>1, <1>2, <1>3, <3>1 DEF Place
  <2>2. \A i \in ItemsOf(f)' : ~(i < 1)
    <3>1. args'.report \in Seq(Reported)
      BY <1>1, <1>2, ReportsAssumption DEF ItemsInv, Args
    <3> QED BY <3>1 DEF ItemsOf
  <2>3. ~Handled(f)'
    BY <1>1, <1>3, <2>1, <2>2 DEF Handled
  <2> QED BY <1>1, <1>2, <1>3, <2>3 DEF FindingInv
<1> QED
  BY <1>1, <1>2, <1>3, <1>4, <1>5, <1>6 DEF UploadInv, ProcessingInv

\* The query reads what the steps before it have left.
LEMMA LookupKeeps ==
    ASSUME UploadInv, phase = "processing", Lookup(1)
    PROVE  UploadInv'
<1> DEFINE m == match_new_finding_to_existing_finding(Item(1).attr, original)
           none == [id |-> 0, status |-> Open, handled |-> FALSE]
           first == CHOOSE f \in m : TRUE
           one == [id |-> first, status |-> row[first], handled |-> FALSE]
<1>1. /\ TableInv /\ chunk \in [{1} -> Local] /\ ItemsInv /\ found = None
      /\ original /= None /\ items /= <<>> /\ \A f \in Ids : FindingInv(f)
  BY DEF UploadInv, ProcessingInv, Lookup, original, items, found
<1>2. UNCHANGED <<next_id, attr, row, args, phase>>
  BY DEF Lookup, upload
<1>3. chunk' = [chunk EXCEPT ![1].found = IF m = {} THEN none ELSE one]
  BY DEF Lookup, original
<1>4. m /= {} => first \in m /\ first \in Findings /\ first \in Ids /\ row[first] \in Sound
  BY <1>1 DEF match_new_finding_to_existing_finding, Findings, TableInv, Rows
<1>5. none \in Instance /\ (m /= {} => one \in Instance)
  BY <1>4 DEF Instance, Open, Status, Sound
<1>6. /\ chunk' \in [{1} -> Local] /\ original' = original /\ items' = items
      /\ listed' = listed /\ found' = IF m = {} THEN none ELSE one
  <2> HIDE DEF m, none, one
  <2> QED BY <1>1, <1>3, <1>5 DEF Local, original, items, found, listed
<1>7. TableInv' /\ ItemsInv' /\ Place' = Place
  BY <1>1, <1>2, <1>6 DEF TableInv, NoTwins, Findings, Matches, Same, ItemsInv, Place
<1>8. Findings' = Findings /\ (\A f : ItemsOf(f)' = ItemsOf(f))
      /\ (\A f : AllPlain(f)' <=> AllPlain(f))
  BY <1>2, SameItems DEF Findings
<1>9. args.report \in Seq(Reported) /\ items \in Seq(Reported)
  <2>1. items \in Seq(Reported)
    BY <1>1 DEF Local, items
  <2> QED BY <1>1, <2>1, ReportsAssumption DEF ItemsInv, Args
<1>10. /\ Place \in DOMAIN args.report /\ Item(1) = args.report[Place]
  <2>1. 1 \in DOMAIN items /\ Item(1) = items[1] /\ Place \in Nat /\ Place >= 1
        /\ Place <= Len(args.report)
    BY <1>1, <1>9 DEF Item, items, ItemsInv, Place
  <2>2. Place + 1 - 1 = Place
    BY <2>1
  <2> QED BY <1>1, <1>9, <2>1, <2>2 DEF ItemsInv
<1>11. FoundInv'
  <2>1. CASE m = {}
    <3>1. \A f \in Findings : ~Matches(Item(1).attr, f)
      BY <2>1, EmptyQuery
    <3>2. \A f \in Findings' : ~Matches(Item(1).attr, f)'
      BY <1>2, <1>6, <1>8, <3>1 DEF Item, items, Matches, Same
    <3> QED BY <1>1, <1>6, <2>1, <3>2 DEF FoundInv
  <2>2. CASE m /= {}
    <3>1. Place \in ItemsOf(first)
      BY <1>4, <1>10, <2>2 DEF ItemsOf, match_new_finding_to_existing_finding
    <3>2. first /= 0
      BY <1>4, <2>2, IdsAssumption
    <3> HIDE DEF first, m
    <3> QED BY <1>1, <1>2, <1>6, <1>7, <1>8, <2>2, <3>1, <3>2 DEF FoundInv
  <2> QED BY <2>1, <2>2
<1>12. ASSUME NEW f \in Ids
       PROVE  FindingInv(f)'
  <2>1. Handled(f)' <=> Handled(f)
    BY <1>1, <1>6, <1>7, <1>8 DEF Handled
  <2> QED BY <1>1, <1>2, <1>6, <1>8, <2>1 DEF FindingInv, Kept
<1> QED
  BY <1>1, <1>2, <1>6, <1>7, <1>11, <1>12 DEF UploadInv, ProcessingInv

\* The finding a new item becomes is the only one that the item matches.
LEMMA CreateKeeps ==
    ASSUME Identified, UploadInv, phase = "processing", Create(1)
    PROVE  UploadInv'
<1>0. PICK f, x, a : f = next_id /\ x = NewStatus(1) /\ a = Item(1).attr
  OBVIOUS
<1>1. /\ TableInv /\ chunk \in [{1} -> Local] /\ ItemsInv /\ original /= None
      /\ found /= None /\ ~found.handled /\ found.id = 0
      /\ items /= <<>> /\ \A g \in Findings : ~Matches(a, g)
      /\ \A g \in Ids : FindingInv(g)
  BY <1>0 DEF UploadInv, ProcessingInv, FoundInv, Create, Pending, id, original, found
<1>2. /\ f \in Ids /\ f \in Nat \ {0} /\ row[f] = None /\ original[f] = None
      /\ original \in Rows
  <2>1. f \in Ids /\ f \in Nat \ {0}
    BY <1>0, IdsAssumption DEF Create
  <2>2. row[f] = None
    BY <1>0, <1>1, <2>1 DEF TableInv
  <2> QED BY <1>1, <2>1, <2>2 DEF FindingInv, Local, original
<1>3. args.report \in Seq(Reported) /\ items \in Seq(Reported)
  <2>1. items \in Seq(Reported)
    BY <1>1 DEF Local, items
  <2> QED BY <1>1, <2>1, ReportsAssumption DEF ItemsInv, Args
<1>4. /\ Place \in DOMAIN args.report /\ Item(1) = args.report[Place]
      /\ Item(1) \in Reported
  <2>1. 1 \in DOMAIN items /\ Item(1) = items[1] /\ Place \in Nat /\ Place >= 1
        /\ Place <= Len(args.report) /\ items[1] \in Reported
    BY <1>1, <1>3 DEF Item, items, ItemsInv, Place
  <2>2. Place + 1 - 1 = Place
    BY <2>1
  <2> QED BY <1>1, <1>3, <2>1, <2>2 DEF ItemsInv
<1>5. x \in Sound /\ (Plain(Place) => ~x.is_mitigated)
  <2> DEFINE y == IF args.active = None THEN st(1) ELSE [st(1) EXCEPT !.active = args.active]
  <2>1. st(1) \in Status
    BY <1>4, ReportsAssumption DEF st
  <2>2. args.active = None \/ args.active \in BOOLEAN
    BY <1>1 DEF ItemsInv, Args
  <2>3. /\ y \in Status /\ y.is_mitigated = st(1).is_mitigated
        /\ Rejected(y) <=> Rejected(st(1))
    BY <2>1, <2>2 DEF Status, Rejected
  <2>4. x = created(y)
    BY <1>0 DEF NewStatus
  <2>5. Plain(Place) => ~st(1).is_mitigated /\ ~Rejected(st(1))
    BY <1>4 DEF Plain, st
  <2> HIDE DEF y
  <2> QED BY <2>3, <2>4, <2>5, CreatedKeeps
<1>6. /\ Save_first(1, "new", f, x) /\ attr' = [attr EXCEPT ![f] = a]
      /\ next_id' = f + 1
  BY <1>0 DEF Create
<1>7. /\ UNCHANGED <<args, phase>> /\ row' = [row EXCEPT ![f] = x]
      /\ chunk' \in [{1} -> Local] /\ original' = original /\ items' = items
      /\ found' = [id |-> f, status |-> x, handled |-> TRUE] /\ listed' = listed
  <2>1. x \in Status
    BY <1>5 DEF Sound
  <2>2. /\ chunk' \in [{1} -> Local] /\ original' = original /\ items' = items
        /\ found' = [id |-> f, status |-> x, handled |-> TRUE]
        /\ listed' = listed \cup (IF "new" = "new" THEN {} ELSE {f})
    BY <1>1, <1>2, <1>6, <2>1, HoldIs, Zenon DEF Save_first
  <2> QED BY <1>6, <2>2 DEF Save_first, upload
<1>8. /\ row' \in Rows /\ row'[f] = x /\ x /= None /\ Findings' = Findings \cup {f}
      /\ f \notin Findings /\ \A g \in Ids : g /= f => row'[g] = row[g]
      /\ \A g \in Findings : g \in Ids /\ g < f
  <2>1. row' \in Rows /\ row'[f] = x /\ x /= None
        /\ \A g \in Ids : g /= f => row'[g] = row[g]
    BY <1>1, <1>2, <1>5, <1>7, NoneAssumption DEF TableInv, Rows, Sound
  <2>2. \A g \in Findings : g \in Ids /\ g < f
    BY <1>0, <1>1, <1>2, IdsAssumption DEF TableInv, Findings
  <2> QED BY <1>2, <2>1, <2>2 DEF Findings
<1>9. /\ attr' = [g \in Ids |-> attr'[g]] /\ attr'[f] = a
      /\ \A g \in Ids : g /= f => attr'[g] = attr[g]
  BY <1>1, <1>2, <1>6 DEF TableInv
<1>10. \A b, g : g \in Findings => (Matches(b, g)' <=> Matches(b, g))
  BY <1>8, <1>9 DEF Matches, Same
<1>11. Matches(a, f)'
  BY <1>0, <1>4, <1>9 DEF Identified, Matches, Same
<1>12. TableInv'
  <2>1. NoTwins'
    <3> SUFFICES ASSUME NEW g \in Findings', NEW h \in Findings', g < h
                 PROVE  ~Matches(attr[h], g)'
      BY DEF NoTwins
    <3>1. g \in Findings
      <4>1. h \in Nat /\ g \in Nat /\ f \in Nat
        BY <1>2, <1>8, IdsAssumption
      <4>2. h = f \/ h < f
        BY <1>8
      <4> QED BY <1>8, <4>1, <4>2
    <3>2. CASE h = f
      <4>1. ~Matches(a, g)'
        BY <1>1, <1>10, <3>1
      <4> QED BY <1>9, <3>2, <4>1 DEF Matches, Same
    <3>3. CASE h \in Findings
      <4>1. ~Matches(attr[h], g)
        BY <1>1, <3>1, <3>3 DEF TableInv, NoTwins
      <4> QED BY <1>8, <1>9, <3>1, <3>3, <4>1 DEF Matches, Same
    <3> QED BY <1>8, <3>2, <3>3
  <2>2. \A g \in Ids : g >= next_id' => row'[g] = None
    <3> SUFFICES ASSUME NEW g \in Ids, g >= f + 1
                 PROVE  row'[g] = None
      BY <1>6
    <3>1. g \in Nat /\ g /= f /\ g >= f
      BY <1>2, IdsAssumption
    <3> QED BY <1>0, <1>1, <1>8, <3>1 DEF TableInv
  <2> QED BY <1>2, <1>6, <1>8, <1>9, <2>1, <2>2 DEF TableInv
<1>13. \A g \in Findings : ItemsOf(g)' = ItemsOf(g)
  <2> SUFFICES ASSUME NEW g \in Findings, NEW b
               PROVE  g \in match_new_finding_to_existing_finding(b, row)'
                      <=> g \in match_new_finding_to_existing_finding(b, row)
    BY <1>7 DEF ItemsOf, match_new_finding_to_existing_finding
  <2>1. g <= f /\ g \in Findings'
    <3>1. g \in Nat /\ g < f
      BY <1>8, IdsAssumption
    <3> QED BY <1>2, <1>8, <3>1
  <2> QED BY <1>8, <1>10, <2>1 DEF match_new_finding_to_existing_finding
<1>14. Place' = Place /\ Place \in ItemsOf(f)'
  <2>1. Place' = Place
    BY <1>7 DEF Place
  <2>2. f \in match_new_finding_to_existing_finding(a, row)'
    BY <1>1, <1>2, <1>8, <1>10, <1>11, IdsAssumption
    DEF match_new_finding_to_existing_finding
  <2> QED BY <1>0, <1>4, <1>7, <2>1, <2>2 DEF ItemsOf
<1>15. ItemsInv' /\ FoundInv'
  BY <1>1, <1>2, <1>7, <1>8, <1>14 DEF ItemsInv, FoundInv
<1>16. ASSUME NEW g \in Ids
       PROVE  FindingInv(g)'
  <2>1. CASE g = f
    <3>1. Handled(f)'
      <4>1. found' /= None
        <5>1. [id |-> f, status |-> x, handled |-> TRUE] \in Instance
          BY <1>2, <1>5 DEF Instance, Sound
        <5> QED BY <1>7, <5>1, NoneAssumption
      <4> QED BY <1>7, <4>1 DEF Handled
    <3>2. AllPlain(f)' => ~x.is_mitigated
      BY <1>5, <1>7, <1>14 DEF AllPlain, Plain
    <3> QED BY <1>2, <1>7, <1>8, <2>1, <3>1, <3>2 DEF FindingInv, Kept
  <2>2. CASE g \in Findings
    <3>1. g /= f /\ (Handled(g)' <=> Handled(g)) /\ (AllPlain(g)' <=> AllPlain(g))
      BY <1>1, <1>7, <1>8, <1>13, <1>14, <2>2 DEF Handled, AllPlain, Plain
    <3> QED BY <1>1, <1>7, <1>8, <3>1 DEF FindingInv, Kept
  <2>3. CASE g /= f /\ g \notin Findings
    BY <1>1, <1>7, <1>8, <2>3 DEF FindingInv, Findings
  <2> QED BY <2>1, <2>2, <2>3
<1> QED
  BY <1>1, <1>7, <1>12, <1>15, <1>16 DEF UploadInv, ProcessingInv

-----------------------------------------------------------------------------
(* The steps before and after the loop. *)

\* A new upload starts from any table.
LEMMA ScanKeeps ==
    ASSUME ~Async, UploadInv, reimport_scan
    PROVE  UploadInv'
<1>1. TableInv'
  BY DEF UploadInv, TableInv, reimport_scan, NoTwins, Findings, Matches, Same
<1>2. PICK r \in Reports, close \in BOOLEAN, dnr \in BOOLEAN, a \in BOOLEAN \cup {None} :
        /\ args' = [report |-> r, close_old |-> close, do_not_reactivate |-> dnr,
                    active |-> a]
        /\ chunk' = [c \in DOMAIN Chunks(r) |->
              [items |-> Chunks(r)[c], original |-> None, found |-> None,
               new |-> {}, reactivated |-> {}, unchanged |-> {}]]
  BY DEF reimport_scan
<1>3. r \in Seq(Reported) /\ args' \in Args /\ args'.report = r
  BY <1>2, ReportsAssumption DEF Args
<1>4. Chunks(r) = <<r>> /\ DOMAIN <<r>> = {1} /\ <<r>>[1] = r
  BY DEF Chunks
<1>5. chunk' = [c \in {1} |-> [items |-> r, original |-> None, found |-> None, new |-> {},
                               reactivated |-> {}, unchanged |-> {}]]
  BY <1>2, <1>4
<1>6. /\ chunk' \in [{1} -> Local] /\ items' = r /\ original' = None /\ found' = None
      /\ listed' = {}
  BY <1>3, <1>5 DEF Local, items, original, found, listed
<1>7. Place' = 1
  BY <1>3, <1>6 DEF Place
<1>8. ItemsInv'
  <2>1. \A j \in DOMAIN r : 1 + j - 1 = j
    BY <1>3
  <2>2. Len(r) \in Nat
    BY <1>3
  <2> QED BY <1>3, <1>6, <1>7, <2>1, <2>2 DEF ItemsInv
<1> QED
  BY <1>1, <1>3, <1>6, <1>8 DEF UploadInv, ProcessingInv, reimport_scan

\* When all items are handled, the findings in no list are those without an item,
\* and some that were rejected or not to be reopened.
LEMMA CollectKeeps ==
    ASSUME UploadInv, Collect
    PROVE  UploadInv'
<1>1. /\ TableInv /\ chunk \in [{1} -> Local] /\ ItemsInv /\ original /= None /\ items = <<>>
      /\ FoundInv /\ \A f \in Ids : FindingInv(f)
  BY DEF UploadInv, ProcessingInv, Collect, AllDone, original, items
<1>2. UNCHANGED <<next_id, attr, row, args, chunk>> /\ phase' = "closing"
  BY DEF Collect
<1>3. /\ original' = original /\ listed' = listed /\ TableInv' /\ original \in Rows
      /\ Findings' = Findings
  BY <1>1, <1>2
  DEF TableInv, NoTwins, Findings, Matches, Same, original, listed, Local
<1>4. \A f : ItemsOf(f)' = ItemsOf(f) /\ (AllPlain(f)' <=> AllPlain(f))
  BY <1>2, <1>3, SameItems
<1>5. \A f \in Ids : ItemsOf(f) = {} <=> ~Handled(f)
  <2>1. args.report \in Seq(Reported)
    BY <1>1, ReportsAssumption DEF ItemsInv, Args
  <2>2. \A f : \A i \in ItemsOf(f) : i < Place
    BY <1>1, <2>1 DEF ItemsOf, Place
  <2>3. found = None
    BY <1>1 DEF FoundInv
  <2> QED BY <2>2, <2>3 DEF Handled
<1>6. Left(1) = {Left_over(f) : f \in {g \in Ids : original[g] /= None} \ listed}
  BY DEF Left, Left_over, original, listed
<1>7. to_mitigate' = IF args.close_old THEN Left(1) ELSE {}
  <2>1. DOMAIN chunk = {1} /\ UNION {Left(c) : c \in {1}} = Left(1)
    BY <1>1
  <2> QED BY <2>1 DEF Collect
<1>8. \A t \in to_mitigate' :
        t.id \in Ids /\ original[t.id] /= None /\ t = Left_over(t.id) /\ t.id \notin listed
  BY <1>6, <1>7 DEF Left_over
<1>9. ASSUME NEW f \in Findings
      PROVE  /\ original[f] /= None /\ Rejected(original[f])
                => row[f] \in {original[f], Closed(original[f])}
             /\ args.close_old /\ ItemsOf(f) = {}
                => ~row[f].active \/ (row[f] = original[f] /\ Left_over(f) \in to_mitigate')
             /\ ItemsOf(f) /= {} /\ AllPlain(f) => Kept(f)
  <2>1. FindingInv(f) /\ f \in Ids /\ row[f] /= None
    BY <1>1 DEF Findings
  <2> QED BY <1>5, <1>6, <1>7, <2>1 DEF FindingInv
<1>10. \A f \in Ids : original[f] /= None => row[f] /= None
  BY <1>1 DEF FindingInv
<1> QED
  BY <1>1, <1>2, <1>3, <1>4, <1>8, <1>9, <1>10
  DEF UploadInv, ClosingInv, ItemsInv, Left_over, Kept

\* Closing saves the copies from the start, which are the rows still.
LEMMA CloseKeeps ==
    ASSUME UploadInv, close_old_findings
    PROVE  UploadInv'
<1>1. TableInv /\ ClosingInv /\ phase = "closing"
  BY DEF UploadInv, close_old_findings
<1>2. PICK t \in to_mitigate :
        /\ to_mitigate' = to_mitigate \ {t}
        /\ IF t.status.mitigated /\ t.status.is_mitigated
           THEN UNCHANGED <<row, closed_findings>>
           ELSE row' = [row EXCEPT ![t.id] = Closed(t.status)]
  BY DEF close_old_findings, Closed
<1>3. PICK f \in Ids : f = t.id /\ original[f] /= None /\ t = Left_over(f) /\ f \notin listed
                       /\ t.status = original[f]
  BY <1>1, <1>2 DEF ClosingInv, Left_over
<1>4. /\ UNCHANGED <<next_id, attr, args, chunk, phase>>
      /\ original' = original /\ listed' = listed
  BY DEF close_old_findings, original, listed
<1>5. original[f] \in Sound /\ original \in Rows /\ f \in Findings /\ row[f] \in Sound
  BY <1>1, <1>3 DEF ClosingInv, Rows, Findings, TableInv
<1>6. /\ \A g \in Ids : g /= f => row'[g] = row[g]
      /\ row'[f] \in {row[f], Closed(original[f])} /\ row' \in Rows
      /\ Findings' = Findings
  <2>1. Closed(original[f]) \in Sound
    BY <1>5, ClosedKeeps DEF Sound
  <2>2. row' = row \/ row' = [row EXCEPT ![f] = Closed(original[f])]
    BY <1>2, <1>3
  <2>3. None \notin Sound
    BY NoneAssumption DEF Sound
  <2> QED BY <1>1, <1>5, <2>1, <2>2, <2>3 DEF TableInv, Rows, Findings
<1>7. \A g : ItemsOf(g)' = ItemsOf(g) /\ (AllPlain(g)' <=> AllPlain(g))
  BY <1>4, <1>6, SameItems
<1>8. TableInv'
  <2>1. NoTwins'
    BY <1>1, <1>4, <1>6 DEF TableInv, NoTwins, Matches, Same
  <2>2. \A g \in Ids : g >= next_id => row'[g] = None
    BY <1>1, <1>5, <1>6 DEF TableInv, Findings
  <2> QED BY <1>1, <1>4, <1>6, <2>1, <2>2 DEF TableInv
<1>9. ASSUME NEW g \in Findings
      PROVE  /\ original[g] /= None /\ Rejected(original[g])
                => row'[g] \in {original[g], Closed(original[g])}
             /\ args.close_old /\ ItemsOf(g) = {}
                => ~row'[g].active \/ (row'[g] = original[g] /\ Left_over(g) \in to_mitigate')
             /\ ItemsOf(g) /= {} /\ AllPlain(g) => Kept(g)'
  <2>1. /\ original[g] /= None /\ Rejected(original[g])
           => row[g] \in {original[g], Closed(original[g])}
        /\ args.close_old /\ ItemsOf(g) = {}
           => ~row[g].active \/ (row[g] = original[g] /\ Left_over(g) \in to_mitigate)
        /\ ItemsOf(g) /= {} /\ AllPlain(g) => Kept(g)
    BY <1>1 DEF ClosingInv
  <2>2. CASE g = f
    <3>1. \/ row'[f] = row[f] /\ original[f].is_mitigated
          \/ row'[f] = Closed(original[f])
      BY <1>1, <1>2, <1>3 DEF TableInv, Rows
    <3>2. ~Closed(original[f]).active
      BY <1>5, ClosedKeeps DEF Sound
    <3>3. args.close_old /\ ItemsOf(f) = {} => ~row'[f].active
      BY <1>5, <2>1, <2>2, <3>1, <3>2 DEF Sound
    <3>4. Kept(f) => Kept(f)'
      BY <1>3, <1>4 DEF Kept
    <3> QED BY <1>3, <1>6, <2>1, <2>2, <3>3, <3>4
  <2>3. CASE g /= f
    <3>1. row'[g] = row[g]
      BY <1>6, <2>3 DEF Findings
    <3>2. Left_over(g) \in to_mitigate => Left_over(g) \in to_mitigate'
      BY <1>2, <1>3, <2>3 DEF Left_over
    <3> QED BY <1>4, <2>1, <3>1, <3>2 DEF Kept
  <2> QED BY <2>2, <2>3
<1>10. \A g \in Ids : original[g] /= None => row'[g] /= None
  BY <1>1, <1>3, <1>5, <1>6 DEF ClosingInv, Findings
<1>11. \A u \in to_mitigate' :
        u.id \in Ids /\ original[u.id] /= None /\ u = Left_over(u.id) /\ u.id \notin listed
  BY <1>1, <1>2 DEF ClosingInv
<1> QED
  BY <1>1, <1>4, <1>6, <1>7, <1>8, <1>9, <1>10, <1>11
  DEF UploadInv, ClosingInv, Left_over

\* Between uploads users change statuses only.
LEMMA DecideKeeps ==
    ASSUME UploadInv, Decide
    PROVE  UploadInv'
<1>1. TableInv /\ phase = "idle"
  BY DEF UploadInv, Decide
<1>2. PICK f \in Findings : \E new \in
            {[row[f] EXCEPT !.active = FALSE, !.is_mitigated = TRUE, !.mitigated = TRUE],
             [row[f] EXCEPT !.active = FALSE, !.false_p = TRUE],
             [row[f] EXCEPT !.active = FALSE, !.risk_accepted = TRUE]} :
        row' = [row EXCEPT ![f] = saved(row[f], new, {})]
  BY DEF Decide
<1>3. f \in Ids /\ row[f] \in Sound
  BY <1>1 DEF TableInv, Rows, Findings
<1>4. \A new \in
            {[row[f] EXCEPT !.active = FALSE, !.is_mitigated = TRUE, !.mitigated = TRUE],
             [row[f] EXCEPT !.active = FALSE, !.false_p = TRUE],
             [row[f] EXCEPT !.active = FALSE, !.risk_accepted = TRUE]} : new \in Sound
  BY <1>3 DEF Sound, Status
<1>5. PICK x \in Sound : row' = [row EXCEPT ![f] = x]
  BY <1>2, <1>4, SavedSound
<1>6. row' \in Rows /\ Findings' = Findings /\ \A g \in Ids : g /= f => row'[g] = row[g]
  BY <1>1, <1>3, <1>5, NoneAssumption DEF TableInv, Rows, Findings, Sound
<1>7. UNCHANGED <<next_id, attr, phase>>
  BY DEF Decide, upload
<1>8. NoTwins'
  BY <1>1, <1>6, <1>7 DEF TableInv, NoTwins, Matches, Same
<1>9. \A g \in Ids : g >= next_id => row'[g] = None
  BY <1>1, <1>6 DEF TableInv, Findings
<1> QED BY <1>1, <1>6, <1>7, <1>8, <1>9 DEF UploadInv, TableInv

-----------------------------------------------------------------------------

\* Every step keeps the invariant.
LEMMA StepKeeps ==
    ASSUME ~Async, Identified, UploadInv, [Next]_vars
    PROVE  UploadInv'
<1>1. CASE reimport_scan
  BY <1>1, ScanKeeps
<1>2. CASE Collect
  BY <1>2, CollectKeeps
<1>3. CASE close_old_findings
  BY <1>3, CloseKeeps
<1>4. CASE Done
  BY <1>4
  DEF Done, UploadInv, TableInv, NoTwins, Findings, Matches, Same
<1>5. CASE Decide
  BY <1>5, DecideKeeps
<1>6. CASE phase = "processing" /\ \E c \in DOMAIN chunk : Worker(c)
  <2>1. Worker(1)
    BY <1>6 DEF UploadInv, ProcessingInv
  <2> QED
    BY <1>6, <2>1, StartKeeps, LookupKeeps, SkipKeeps, SameKeeps, ReportKeeps,
       ReactivateKeeps, SkipReactivationKeeps, CreateKeeps
    DEF Worker
<1>7. CASE UNCHANGED vars
  <2>1. TableInv'
    BY <1>7 DEF vars, UploadInv, TableInv, NoTwins, Findings, Matches, Same
  <2>2. Findings' = Findings /\ UNCHANGED <<attr, args, chunk, row, phase, to_mitigate>>
    BY <1>7 DEF vars, Findings
  <2>3. \A f : ItemsOf(f)' = ItemsOf(f) /\ (AllPlain(f)' <=> AllPlain(f))
    BY <2>2, SameItems
  <2>4. \A a, f : Matches(a, f)' <=> Matches(a, f)
    BY <2>2 DEF Matches, Same
  <2>5. ProcessingInv => ProcessingInv'
    BY <2>2, <2>3, <2>4
    DEF ProcessingInv, ItemsInv, FoundInv, FindingInv, Kept, Handled, Place, Item,
        items, original, found, listed
  <2>6. ClosingInv => ClosingInv'
    BY <2>2, <2>3 DEF ClosingInv, Kept, Left_over, original, listed
  <2> QED BY <2>1, <2>2, <2>5, <2>6 DEF UploadInv
<1> QED BY <1>1, <1>2, <1>3, <1>4, <1>5, <1>6, <1>7 DEF Next

\* Whatever the reports, the number of findings and of uploads, the user's options
\* and decisions, and the order of the items: the invariant above holds of every
\* upload without chunks.
THEOREM UploadInvariant ==
    ASSUME ~Async, Identified
    PROVE  Spec => []UploadInv
<1>1. Init => UploadInv
  <2> SUFFICES ASSUME Init PROVE UploadInv
    OBVIOUS
  <2>1. \A f \in Ids : row[f] = None /\ attr[f] = None
    BY DEF Init
  <2>2. Findings = {}
    BY <2>1 DEF Findings
  <2>3. TableInv
    BY <2>1, <2>2 DEF Init, TableInv, Rows, NoTwins
  <2> QED BY <2>3 DEF Init, UploadInv
<1>2. UploadInv /\ [Next]_vars => UploadInv'
  BY StepKeeps
<1> QED BY <1>1, <1>2, PTL DEF Spec

\* Equal items share a finding: no finding is created that an older one matches.
THEOREM ItemsShareFindings ==
    ASSUME ~Async, Identified
    PROVE  Spec => []NoTwins
<1>1. UploadInv => NoTwins
  BY DEF UploadInv, TableInv
<1> QED BY <1>1, UploadInvariant, PTL

\* What the invariant says of a finding when the upload is over.
LEMMA SettledFacts ==
    ASSUME UploadInv, Settled, NEW f \in Findings
    PROVE  /\ Before(f) = original[f] /\ f \in Ids /\ row[f] \in Sound
           /\ Before(f) /= None => Before(f) \in Sound
           /\ Before(f) /= None /\ Rejected(Before(f))
              => row[f] \in {Before(f), Closed(Before(f))}
           /\ args.close_old /\ ItemsOf(f) = {} => ~row[f].active
           /\ ItemsOf(f) /= {} /\ AllPlain(f) => Kept(f)
<1>1. ClosingInv /\ TableInv /\ to_mitigate = {}
  BY DEF UploadInv, Settled
<1>2. f \in Ids /\ row[f] \in Sound /\ original \in Rows
  BY <1>1 DEF Findings, TableInv, Rows, ClosingInv
<1> QED BY <1>1, <1>2 DEF ClosingInv, Before, original, Rows

\* An upload takes no decision back, whatever the items of a finding say and
\* however many of them there are.
THEOREM DecisionsSurvive ==
    ASSUME ~Async, Identified
    PROVE  Spec => []DecisionSurvives
<1>1. UploadInv => DecisionSurvives
  <2> SUFFICES ASSUME UploadInv, Settled, NEW f \in Findings, Before(f) /= None,
                      Rejected(Before(f))
               PROVE  /\ row[f].active => Before(f).active
                      /\ row[f].false_p = Before(f).false_p
                      /\ row[f].risk_accepted = Before(f).risk_accepted
    BY DEF DecisionSurvives
  <2>1. Before(f) \in Status /\ row[f] \in {Before(f), Closed(Before(f))}
    BY SettledFacts DEF Sound
  <2> QED BY <2>1, ClosedKeeps
<1> QED BY <1>1, UploadInvariant, PTL

\* What the report no longer has is closed if that was asked for, though new
\* findings were made from other items meanwhile.
THEOREM AbsentAreClosed ==
    ASSUME ~Async, Identified
    PROVE  Spec => []AbsentIsClosed
<1>1. UploadInv => AbsentIsClosed
  BY SettledFacts DEF AbsentIsClosed
<1> QED BY <1>1, UploadInvariant, PTL

\* Nothing that the report has open ends closed, unless the user did not want it
\* reopened or has rejected it.
THEOREM PresentStayOpen ==
    ASSUME ~Async, Identified
    PROVE  Spec => []PresentNotClosed
<1>1. UploadInv => PresentNotClosed
  <2> SUFFICES ASSUME UploadInv, Settled, NEW f \in Findings, ItemsOf(f) /= {},
                      \A i \in ItemsOf(f) : Plain(i), ~Rejected(row[f]), row[f].is_mitigated
               PROVE  args.do_not_reactivate /\ Before(f) /= None /\ Before(f).is_mitigated
    BY DEF PresentNotClosed
  <2>1. Kept(f) /\ Before(f) = original[f]
    BY SettledFacts DEF AllPlain
  <2>2. ASSUME Before(f) /= None, Rejected(Before(f))
        PROVE  FALSE
    <3>1. Before(f) \in Status /\ row[f] \in {Before(f), Closed(Before(f))}
      BY <2>2, SettledFacts DEF Sound
    <3> QED BY <2>2, <3>1, ClosedKeeps DEF Rejected
  <2> QED BY <2>1, <2>2 DEF Kept
<1> QED BY <1>1, UploadInvariant, PTL

=============================================================================
