------------------------ MODULE FindingLifecycleProofs ------------------------
(***************************************************************************)
(* For any number of workers, whatever one writes between the load and the *)
(* save of another: as long as neither the API nor an edit of dates has    *)
(* saved it, the status of a finding is consistent; with them it is still  *)
(* never open and rejected.                                                *)
(***************************************************************************)
EXTENDS FindingLifecycle, TLAPS

\* What the three invariants of the pages say of one row; p is the past, and only a
\* past of plain pages has kept the rejected row fixed.
Consistent(s, p) ==
    /\ s \in Status
    /\ s.is_mitigated <=> s.mitigated
    /\ s.false_p \/ s.out_of_scope => ~s.active
    /\ ~(s.active /\ s.is_mitigated)
    /\ p = "pages" => (s.false_p \/ s.out_of_scope => s.is_mitigated)

\* What saving passes on even when the API is used.
Sound(s) == s \in Status /\ ~(s.active /\ (s.false_p \/ s.out_of_scope))

\* What a handler that loaded old may put into the instance, so that the
\* signal can bring it back to a consistent status: it does not mitigate an
\* active finding, it moves the date with the flag, and, if it is a plain page,
\* it takes a mitigation back only while activating or on a finding that is not
\* rejected.
Handled(old, new, p) ==
    /\ new \in Status
    /\ p = "pages" => \/ new.is_mitigated \/ ~old.is_mitigated \/ new.active
                      \/ ~(new.false_p \/ new.out_of_scope)
    /\ new.is_mitigated => old.is_mitigated \/ ~new.active
    /\ new.mitigated = old.mitigated \/ new.mitigated = new.is_mitigated

(* The steps of update_finding_status on consistent and on sound rows. *)

\* The signal never turns a row into something that is no row.
LEMMA UpdateType ==
    ASSUME NEW s \in Status, NEW c
    PROVE  update_finding_status(s, c) \in Status
<1>1. dated(unmitigated(s, c)) \in Status
  BY DEF dated, unmitigated, Status
<1>2. ASSUME NEW t \in Status PROVE activated(t, c) \in Status
  BY DEF activated, Status
<1>3. ASSUME NEW t \in Status PROVE rejected(t, c) \in Status
  BY DEF rejected, Status
<1>4. ASSUME NEW t \in Status PROVE no_duplicate(t) \in Status
  BY DEF no_duplicate, Status
<1> QED BY <1>1, <1>2, <1>3, <1>4 DEF update_finding_status

\* Running the signal handler on a consistent row leaves it consistent.
LEMMA UpdateKeepsConsistent ==
    ASSUME NEW p, NEW s, Consistent(s, p), NEW c
    PROVE  Consistent(update_finding_status(s, c), p)
<1>1. Consistent(unmitigated(s, c), p)
  BY DEF Consistent, unmitigated, Status
<1>2. ASSUME NEW t, Consistent(t, p) PROVE Consistent(dated(t), p)
  BY <1>2 DEF Consistent, dated, Status
<1>3. ASSUME NEW t, Consistent(t, p) PROVE Consistent(activated(t, c), p)
  BY <1>3 DEF Consistent, activated, Status
<1>4. ASSUME NEW t, Consistent(t, p) PROVE Consistent(rejected(t, c), p)
  BY <1>4 DEF Consistent, rejected, Status
<1>5. ASSUME NEW t, Consistent(t, p) PROVE Consistent(no_duplicate(t), p)
  BY <1>5 DEF Consistent, no_duplicate, Status
<1> QED BY <1>1, <1>2, <1>3, <1>4, <1>5 DEF update_finding_status

\* The same for soundness.
LEMMA UpdateKeepsSound ==
    ASSUME NEW s, Sound(s), NEW c
    PROVE  Sound(update_finding_status(s, c))
<1>1. Sound(dated(unmitigated(s, c)))
  BY DEF Sound, dated, unmitigated, Status
<1>2. ASSUME NEW t, Sound(t) PROVE Sound(no_duplicate(rejected(activated(t, c), c)))
  BY <1>2 DEF Sound, activated, rejected, no_duplicate, Status
<1> QED BY <1>1, <1>2 DEF update_finding_status

\* Saving an instance that is consistent, whatever was loaded.
LEMMA SaveConsistent ==
    ASSUME NEW p, NEW old, NEW new, Consistent(new, p), NEW touched
    PROVE  Consistent(saved(old, new, touched), p)
BY UpdateKeepsConsistent DEF saved

\* Saving an instance that is sound, whatever was loaded.
LEMMA SaveSound ==
    ASSUME NEW old, NEW new, Sound(new), NEW touched
    PROVE  Sound(saved(old, new, touched))
BY UpdateKeepsSound DEF saved

\* Creating a row makes it consistent from whatever a parser reports.
LEMMA NewIsConsistent ==
    ASSUME NEW p, NEW s \in Status, NEW c, is_new_finding(c)
    PROVE  Consistent(update_finding_status(s, c), p)
<1>1. /\ dated(unmitigated(s, c)) \in Status
      /\ dated(unmitigated(s, c)).is_mitigated <=> dated(unmitigated(s, c)).mitigated
  BY DEF dated, unmitigated, Status
<1>2. ASSUME NEW t \in Status, t.is_mitigated <=> t.mitigated
      PROVE  /\ activated(t, c) \in Status
             /\ activated(t, c).is_mitigated <=> activated(t, c).mitigated
             /\ ~(activated(t, c).active /\ activated(t, c).is_mitigated)
             /\ ~(activated(t, c).active /\ (activated(t, c).false_p \/ activated(t, c).out_of_scope))
  BY <1>2 DEF activated, Status
<1>3. ASSUME NEW t \in Status, t.is_mitigated <=> t.mitigated,
             ~(t.active /\ t.is_mitigated), ~(t.active /\ (t.false_p \/ t.out_of_scope))
      PROVE  Consistent(no_duplicate(rejected(t, c)), p)
  BY <1>3 DEF Consistent, rejected, no_duplicate, Status
<1> QED BY <1>1, <1>2, <1>3 DEF update_finding_status

\* A changed field of a row is in the set the signal hands over.
LEMMA ChangedFields ==
    ASSUME NEW old, NEW new
    PROVE  /\ \A x \in {"active", "false_p", "out_of_scope", "is_mitigated", "mitigated"} :
                old[x] /= new[x] => x \in changed_fields(old, new)
           /\ "id" \notin changed_fields(old, new)
BY DEF changed_fields, SignalFields

\* A handler that keeps to Handled leaves a consistent row consistent.
LEMMA HandledConsistent ==
    ASSUME NEW p, NEW old, Consistent(old, p), NEW new, Handled(old, new, p),
           NEW touched, touched \subseteq Stamp
    PROVE  Consistent(saved(old, new, touched), p)
<1> DEFINE c == changed_fields(old, new) \cup touched
<1>1. /\ old.active /= new.active => "active" \in c
      /\ old.false_p /= new.false_p => "false_p" \in c
      /\ old.out_of_scope /= new.out_of_scope => "out_of_scope" \in c
      /\ old.is_mitigated /= new.is_mitigated => "is_mitigated" \in c
      /\ old.mitigated /= new.mitigated => "mitigated" \in c
  BY ChangedFields
<1>2. old \in Status /\ new \in Status
  BY DEF Consistent, Handled
<1>3. CASE c = {}
  <2>1. Consistent(new, p)
    BY <1>1, <1>2, <1>3 DEF Consistent, Status
  <2> QED BY <2>1, <1>3 DEF saved
<1>4. CASE c /= {}
  <2> HIDE DEF c
  <2> DEFINE d == dated(unmitigated(new, c))
  <2>1. /\ d \in Status
        /\ d.is_mitigated <=> d.mitigated
        /\ d.active = new.active /\ d.false_p = new.false_p
        /\ d.out_of_scope = new.out_of_scope /\ d.is_mitigated = new.is_mitigated
    BY <1>1, <1>2 DEF dated, unmitigated, Consistent, Handled, Status
  <2> DEFINE a == activated(d, c)
  <2> HIDE DEF d
  <2>2. /\ a \in Status
        /\ a.is_mitigated <=> a.mitigated
        /\ ~(a.active /\ a.is_mitigated)
        /\ a.false_p \/ a.out_of_scope =>
             \/ ~a.active /\ (p = "pages" => a.is_mitigated)
             \/ "false_p" \in c \/ "out_of_scope" \in c
    BY <1>1, <1>2, <2>1 DEF activated, Consistent, Handled, Status
  <2> HIDE DEF a
  <2>3. Consistent(no_duplicate(rejected(a, c)), p)
    BY <2>2 DEF Consistent, rejected, no_duplicate, Status
  <2>4. saved(old, new, touched) = no_duplicate(rejected(a, c))
    BY <1>4 DEF saved, update_finding_status, a, d, c
  <2> QED BY <2>3, <2>4
<1> QED BY <1>3, <1>4

\* Any handler at all leaves a sound row sound.
LEMMA AnySound ==
    ASSUME NEW old, Sound(old), NEW new \in Status, NEW touched, touched \subseteq Stamp
    PROVE  Sound(saved(old, new, touched))
<1> DEFINE c == changed_fields(old, new) \cup touched
<1>1. /\ old.active /= new.active => "active" \in c
      /\ old.false_p /= new.false_p => "false_p" \in c
      /\ old.out_of_scope /= new.out_of_scope => "out_of_scope" \in c
  BY ChangedFields
<1>2. CASE c = {}
  <2>1. Sound(new)
    BY <1>1, <1>2 DEF Sound, Status
  <2> QED BY <2>1, <1>2 DEF saved
<1>3. CASE c /= {}
  <2> HIDE DEF c
  <2> DEFINE d == dated(unmitigated(new, c))
  <2>1. /\ d \in Status
        /\ d.active = new.active /\ d.false_p = new.false_p
        /\ d.out_of_scope = new.out_of_scope
    BY DEF dated, unmitigated, Status
  <2> DEFINE a == activated(d, c)
  <2> HIDE DEF d
  <2>2. /\ a \in Status
        /\ a.active /\ (a.false_p \/ a.out_of_scope) =>
             "false_p" \in c \/ "out_of_scope" \in c
    BY <1>1, <2>1 DEF activated, Sound, Status
  <2> HIDE DEF a
  <2>3. Sound(no_duplicate(rejected(a, c)))
    BY <2>2 DEF Sound, rejected, no_duplicate, Status
  <2>4. saved(old, new, touched) = no_duplicate(rejected(a, c))
    BY <1>3 DEF saved, update_finding_status, a, d, c
  <2> QED BY <2>3, <2>4
<1> QED BY <1>2, <1>3

(* The state machine. *)

\* No request holds an unsound row, by whatever way it came.
SoundInv ==
    /\ TypeOK
    /\ Sound(row)
    /\ \A w \in Workers : loaded[w] /= None => Sound(loaded[w])

\* As long as only pages have saved, requests hold rows that were consistent
\* when they were read.
PagesInv ==
    /\ SoundInv
    /\ ~beyond => /\ Consistent(row, past)
                  /\ \A w \in Workers : loaded[w] /= None => Consistent(loaded[w], past)

\* What the end of a request does to the rest of the state.
Ends(w) ==
    /\ loaded' = [loaded EXCEPT ![w] = None]
    /\ past' = past

\* The end of the hand-over that breaks the rule of rejected findings.
EndsHeir(w) ==
    /\ loaded' = [loaded EXCEPT ![w] = None]
    /\ past' = "inherited"
    /\ ~beyond

\* The end of a save that no page makes.
EndsBeyond(w) ==
    /\ loaded' = [loaded EXCEPT ![w] = None]
    /\ past' = "beyond"

\* Saving what a handler makes of a consistent row writes a consistent row.
LEMMA SaveEnds ==
    ASSUME TypeOK, NEW w \in Workers, NEW p, Consistent(loaded[w], p),
           NEW new, Handled(loaded[w], new, p),
           NEW touched, touched \subseteq Stamp,
           Save(w, new, touched)
    PROVE  Consistent(row', p) /\ Ends(w)
BY HandledConsistent DEF Save, Write, Ends, TypeOK

\* What a form returns is a row that differs only in the fields of the form.
LEMMA FilledIsStatus ==
    ASSUME NEW s \in Status, NEW t \in Filled(s)
    PROVE  /\ t \in Status
           /\ t.is_mitigated = s.is_mitigated /\ t.mitigated = s.mitigated
<1> DEFINE u(e) ==
      [s EXCEPT !.active = e.active, !.verified = e.verified, !.false_p = e.false_p,
                !.out_of_scope = e.out_of_scope, !.risk_accepted = e.risk_accepted,
                !.duplicate = e.duplicate]
<1>1. \E e \in Entries : t = u(e)
  BY DEF Filled
<1>2. ASSUME NEW e \in Entries PROVE u(e) \in Status
  BY DEF Entries, Status
<1>3. ASSUME NEW e \in Entries
      PROVE  u(e).is_mitigated = s.is_mitigated /\ u(e).mitigated = s.mitigated
  BY DEF Entries, Status
<1> HIDE DEF u
<1> QED BY <1>1, <1>2, <1>3

\* Every request of the pages and of deduplication writes a consistent row.
LEMMA RequestConsistent ==
    ASSUME TypeOK, NEW w \in Workers, Request(w), NEW p, p = past,
           Consistent(loaded[w], p)
    PROVE  \/ Consistent(row', p) /\ Ends(w)
           \/ Consistent(row', "inherited") /\ EndsHeir(w)
           \/ EndsBeyond(w)
<1> DEFINE s == loaded[w]
<1>s. s \in Status
  BY DEF Consistent
<1>e. {} \subseteq Stamp /\ {"mitigated_by"} \subseteq Stamp
  BY DEF Stamp
<1>1. CASE close_finding(w)
  <2>1. PICK fp, oos, dup \in BOOLEAN :
          Save(w, [s EXCEPT !.active = FALSE, !.mitigated = TRUE, !.is_mitigated = TRUE,
                            !.false_p = fp, !.out_of_scope = oos, !.duplicate = dup], Stamp)
    BY <1>1 DEF close_finding
  <2> DEFINE new == [s EXCEPT !.active = FALSE, !.mitigated = TRUE, !.is_mitigated = TRUE,
                              !.false_p = fp, !.out_of_scope = oos, !.duplicate = dup]
  <2>2. Handled(s, new, p)
    BY <1>s DEF Handled, Status
  <2> QED BY <2>1, <2>2, SaveEnds
<1>2. CASE defect_finding_review(w)
  <2> DEFINE fixed == [s EXCEPT !.active = FALSE, !.verified = TRUE,
                                !.mitigated = TRUE, !.is_mitigated = TRUE]
             open == [s EXCEPT !.active = TRUE, !.verified = TRUE,
                               !.mitigated = FALSE, !.is_mitigated = FALSE]
  <2>1. Handled(s, fixed, p)
    BY <1>s DEF Handled, Status
  <2>2. Handled(s, open, p)
    BY <1>s DEF Handled, Status
  <2>3. Save(w, fixed, Stamp) \/ Save(w, open, {})
    BY <1>2 DEF defect_finding_review
  <2> HIDE DEF fixed, open
  <2> QED BY <2>1, <2>2, <2>3, <1>e, SaveEnds
<1>3. CASE reopen_finding(w)
  <2> DEFINE new == [s EXCEPT !.active = TRUE, !.mitigated = FALSE, !.is_mitigated = FALSE]
  <2>1. Handled(s, new, p)
    BY <1>s DEF Handled, Status
  <2> QED BY <2>1, <1>3, <1>e, SaveEnds DEF reopen_finding
<1>4. CASE request_finding_review(w)
  <2> DEFINE new == [s EXCEPT !.active = TRUE, !.verified = FALSE, !.is_mitigated = FALSE]
  <2>1. Handled(s, new, p)
    BY <1>s DEF Handled, Status
  <2> QED BY <2>1, <1>4, <1>e, SaveEnds DEF request_finding_review
<1>5. CASE clear_finding_review(w)
  <2>1. PICK a, v, fp, oos, dup \in BOOLEAN :
          Save(w, [s EXCEPT !.active = a, !.verified = v, !.false_p = fp,
                            !.out_of_scope = oos, !.duplicate = dup], {})
    BY <1>5 DEF clear_finding_review
  <2> DEFINE new == [s EXCEPT !.active = a, !.verified = v, !.false_p = fp,
                              !.out_of_scope = oos, !.duplicate = dup]
  <2>2. new \in Status
    BY <1>s DEF Status
  <2>3. new.is_mitigated = s.is_mitigated /\ new.mitigated = s.mitigated
    BY <1>s DEF Status
  <2> HIDE DEF new
  <2>4. Handled(s, new, p)
    BY <2>2, <2>3 DEF Handled
  <2> QED BY <2>1, <2>4, <1>e, SaveEnds DEF new
<1>6. CASE edit_finding(w)
  <2>1. PICK t \in EditForms(s) :
          \/ Save(w, [t EXCEPT !.linked = @ /\ ~(s.duplicate /\ ~t.duplicate)], {})
          \/ \E new : SaveBeyond(w, new, Stamp)
    BY <1>6 DEF edit_finding
  <2> DEFINE new == [t EXCEPT !.linked = @ /\ ~(s.duplicate /\ ~t.duplicate)]
  <2>2. t \in Status /\ t.is_mitigated = s.is_mitigated /\ t.mitigated = s.mitigated
    BY <1>s, FilledIsStatus DEF EditForms
  <2>3. Handled(s, new, p)
    BY <1>s, <2>2 DEF Handled, Status
  <2>4. CASE Save(w, new, {})
    BY <2>3, <2>4, <1>e, SaveEnds
  <2>5. CASE \E x : SaveBeyond(w, x, Stamp)
    BY <2>5 DEF SaveBeyond, Write, EndsBeyond, TypeOK
  <2> QED BY <2>1, <2>4, <2>5
<1>7. CASE finding_bulk_update_all(w)
  <2>1. PICK b \in BulkStatuses :
          LET form == [s EXCEPT !.active = b.active, !.verified = b.verified,
                                !.false_p = b.false_p, !.out_of_scope = b.out_of_scope,
                                !.is_mitigated = b.is_mitigated]
              first == saved(s, form, {})
          IN  \/ Save(w, form, {})
              \/ /\ \/ Write(w, saved(form, accepted(first), {}))
                    \/ Write(w, saved(form, unaccepted(first), {}))
                 /\ UNCHANGED past
    BY <1>7 DEF finding_bulk_update_all
  <2> DEFINE form == [s EXCEPT !.active = b.active, !.verified = b.verified,
                               !.false_p = b.false_p, !.out_of_scope = b.out_of_scope,
                               !.is_mitigated = b.is_mitigated]
             first == saved(s, form, {})
  <2>2. Handled(s, form, p)
    BY <1>s DEF Handled, Status, BulkStatuses
  <2>3. Consistent(first, p)
    BY <2>2, <1>e, HandledConsistent
  <2> HIDE DEF form, first
  <2>4. Consistent(accepted(first), p) /\ Consistent(unaccepted(first), p)
    BY <2>3 DEF Consistent, accepted, unaccepted, Status
  <2>5. /\ Consistent(saved(form, accepted(first), {}), p)
        /\ Consistent(saved(form, unaccepted(first), {}), p)
    BY <2>4, SaveConsistent
  <2>6. CASE Save(w, form, {})
    BY <2>6, <2>2, <1>e, SaveEnds
  <2>7. CASE /\ \/ Write(w, saved(form, accepted(first), {}))
                \/ Write(w, saved(form, unaccepted(first), {}))
             /\ UNCHANGED past
    BY <2>7, <2>5 DEF Write, Ends, TypeOK
  <2> QED BY <2>1, <2>6, <2>7 DEF form, first
<1>8. CASE risk_accept(w)
  <2>1. Consistent(accepted(s), p) /\ Consistent(unaccepted(s), p)
    BY DEF Consistent, accepted, unaccepted, Status
  <2>2. Consistent(saved(s, accepted(s), {}), p) /\ Consistent(saved(s, unaccepted(s), {}), p)
    BY <2>1, SaveConsistent
  <2> QED BY <1>8, <2>2 DEF risk_accept, Save, Write, Ends, TypeOK
<1>9. CASE mark_duplicate(w)
  <2> DEFINE new == [s EXCEPT !.duplicate = TRUE, !.linked = TRUE,
                              !.active = FALSE, !.verified = FALSE]
  <2>1. Handled(s, new, p)
    BY <1>s DEF Handled, Status
  <2> QED BY <2>1, <1>9, <1>e, SaveEnds DEF mark_duplicate
<1>10. CASE reset_duplicate(w)
  <2> DEFINE new == [s EXCEPT !.duplicate = FALSE, !.linked = FALSE, !.active = TRUE]
  <2>1. Handled(s, new, p)
    BY <1>s DEF Handled, Status
  <2> QED BY <2>1, <1>10, <1>e, SaveEnds DEF reset_duplicate
<1>11. CASE set_duplicate_reopen(w)
  <2>1. PICK v \in BOOLEAN :
          Save(w, [s EXCEPT !.mitigated = FALSE, !.is_mitigated = FALSE,
                            !.active = TRUE, !.verified = v], {})
    BY <1>11 DEF set_duplicate_reopen
  <2> DEFINE new == [s EXCEPT !.mitigated = FALSE, !.is_mitigated = FALSE,
                              !.active = TRUE, !.verified = v]
  <2>2. Handled(s, new, p)
    BY <1>s DEF Handled, Status
  <2> QED BY <2>1, <2>2, <1>e, SaveEnds
<1>13. CASE set_finding_as_original(w)
  <2> DEFINE member == [s EXCEPT !.duplicate = TRUE, !.linked = TRUE]
             alone == [s EXCEPT !.duplicate = TRUE, !.linked = TRUE, !.active = FALSE]
             original == [s EXCEPT !.duplicate = FALSE, !.linked = FALSE]
  <2>1. Handled(s, member, p) /\ Handled(s, alone, p) /\ Handled(s, original, p)
    BY <1>s DEF Handled, Status
  <2>2. Save(w, member, {}) \/ Save(w, alone, {}) \/ Save(w, original, {})
    BY <1>13 DEF set_finding_as_original
  <2> HIDE DEF member, alone, original
  <2> QED BY <2>1, <2>2, <1>e, SaveEnds
<1>14. CASE fix_loop_duplicates(w)
  <2>1. PICK l \in BOOLEAN : \/ Save(w, [s EXCEPT !.linked = l], {})
                             \/ Save(w, [s EXCEPT !.duplicate = FALSE], {})
    BY <1>14 DEF fix_loop_duplicates
  <2> DEFINE cut == [s EXCEPT !.linked = l]
             flag == [s EXCEPT !.duplicate = FALSE]
  <2>2. Handled(s, cut, p) /\ Handled(s, flag, p)
    BY <1>s DEF Handled, Status
  <2> HIDE DEF cut, flag
  <2> QED BY <2>1, <2>2, <1>e, SaveEnds DEF cut, flag
<1>15. CASE reconfigure_duplicate_cluster(w)
  <2>1. PICK open, fixed \in BOOLEAN :
          /\ Write(w, saved(s, [s EXCEPT !.duplicate = FALSE, !.linked = FALSE,
                                         !.active = open, !.is_mitigated = fixed], {}))
          /\ past' = IF beyond \/ (open /\ fixed) THEN "beyond"
                     ELSE IF Rejected(s) /\ ~open /\ ~fixed THEN "inherited"
                     ELSE past
    BY <1>15 DEF reconfigure_duplicate_cluster
  <2> DEFINE new == [s EXCEPT !.duplicate = FALSE, !.linked = FALSE,
                              !.active = open, !.is_mitigated = fixed]
  <2>2. loaded' = [loaded EXCEPT ![w] = None] /\ row' = saved(s, new, {})
    BY <2>1 DEF Write
  <2>3. CASE beyond \/ (open /\ fixed)
    BY <2>1, <2>2, <2>3 DEF EndsBeyond
  <2>4. CASE ~beyond /\ ~(open /\ fixed)
    <3>1. Handled(s, new, "inherited")
      BY <1>s, <2>4 DEF Handled, Status
    <3>2. CASE Rejected(s) /\ ~open /\ ~fixed
      <4>1. Consistent(s, "inherited")
        BY DEF Consistent
      <4>2. Consistent(row', "inherited")
        BY <2>2, <3>1, <4>1, <1>e, HandledConsistent
      <4> QED BY <2>1, <2>2, <2>4, <3>2, <4>2 DEF EndsHeir
    <3>3. CASE ~(Rejected(s) /\ ~open /\ ~fixed)
      <4>1. Handled(s, new, p)
        BY <1>s, <2>4, <3>3 DEF Handled, Status, Rejected
      <4>2. Consistent(row', p)
        BY <2>2, <4>1, <1>e, HandledConsistent
      <4> QED BY <2>1, <2>2, <2>4, <3>3, <4>2 DEF Ends
    <3> QED BY <3>2, <3>3
  <2> QED BY <2>3, <2>4
<1>12. CASE update(w) \/ close(w)
  BY <1>12 DEF update, close, SaveBeyond, Write, EndsBeyond, TypeOK
<1> QED
  BY <1>1, <1>2, <1>3, <1>4, <1>5, <1>6, <1>7, <1>8, <1>9, <1>10, <1>11, <1>12,
     <1>13, <1>14, <1>15
  DEF Request

\* With the API as well, every request writes a sound row.
LEMMA RequestSound ==
    ASSUME TypeOK, NEW w \in Workers, Request(w), Sound(loaded[w])
    PROVE  Sound(row') /\ (Ends(w) \/ EndsHeir(w) \/ EndsBeyond(w))
<1> DEFINE s == loaded[w]
<1>s. s \in Status
  BY DEF Sound
<1>e. {} \subseteq Stamp /\ {"mitigated_by"} \subseteq Stamp
  BY DEF Stamp
<1>0. ASSUME NEW new \in Status, NEW touched, touched \subseteq Stamp,
             Save(w, new, touched) \/ SaveBeyond(w, new, touched)
      PROVE  Sound(row') /\ (Ends(w) \/ EndsBeyond(w))
  BY <1>0, AnySound DEF Save, SaveBeyond, Write, Ends, EndsBeyond, TypeOK
<1>1. CASE close_finding(w) \/ close(w)
  <2> DEFINE new(fp, oos, dup, mit) ==
        [s EXCEPT !.active = FALSE, !.mitigated = TRUE, !.is_mitigated = mit,
                  !.false_p = fp, !.out_of_scope = oos, !.duplicate = dup]
  <2>1. PICK fp, oos, dup, mit \in BOOLEAN :
          Save(w, new(fp, oos, dup, mit), Stamp) \/ SaveBeyond(w, new(fp, oos, dup, mit), Stamp)
    BY <1>1 DEF close_finding, close
  <2>2. new(fp, oos, dup, mit) \in Status
    BY <1>s DEF Status
  <2> HIDE DEF new
  <2> QED BY <2>1, <2>2, <1>0
<1>2. CASE defect_finding_review(w)
  <2>1. /\ [s EXCEPT !.active = FALSE, !.verified = TRUE,
                     !.mitigated = TRUE, !.is_mitigated = TRUE] \in Status
        /\ [s EXCEPT !.active = TRUE, !.verified = TRUE,
                     !.mitigated = FALSE, !.is_mitigated = FALSE] \in Status
    BY <1>s DEF Status
  <2> QED BY <1>2, <2>1, <1>0, <1>e DEF defect_finding_review
<1>3. CASE reopen_finding(w)
  <2>1. [s EXCEPT !.active = TRUE, !.mitigated = FALSE, !.is_mitigated = FALSE] \in Status
    BY <1>s DEF Status
  <2> QED BY <1>3, <2>1, <1>0, <1>e DEF reopen_finding
<1>4. CASE request_finding_review(w)
  <2>1. [s EXCEPT !.active = TRUE, !.verified = FALSE, !.is_mitigated = FALSE] \in Status
    BY <1>s DEF Status
  <2> QED BY <1>4, <2>1, <1>0, <1>e DEF request_finding_review
<1>5. CASE clear_finding_review(w)
  <2>1. PICK a, v, fp, oos, dup \in BOOLEAN :
          Save(w, [s EXCEPT !.active = a, !.verified = v, !.false_p = fp,
                            !.out_of_scope = oos, !.duplicate = dup], {})
    BY <1>5 DEF clear_finding_review
  <2>2. [s EXCEPT !.active = a, !.verified = v, !.false_p = fp,
                  !.out_of_scope = oos, !.duplicate = dup] \in Status
    BY <1>s DEF Status
  <2> QED BY <2>1, <2>2, <1>0, <1>e
<1>6. CASE edit_finding(w)
  <2>1. PICK t \in EditForms(s), date \in BOOLEAN :
          LET new == [t EXCEPT !.linked = @ /\ ~(s.duplicate /\ ~t.duplicate)]
          IN  \/ Save(w, new, {})
              \/ SaveBeyond(w, [new EXCEPT !.mitigated = date,
                                           !.is_mitigated = @ \/ Mitigates(t)], Stamp)
    BY <1>6 DEF edit_finding
  <2> DEFINE new == [t EXCEPT !.linked = @ /\ ~(s.duplicate /\ ~t.duplicate)]
             dated_by_hand == [new EXCEPT !.mitigated = date, !.is_mitigated = @ \/ Mitigates(t)]
  <2>2. t \in Status
    BY <1>s, FilledIsStatus DEF EditForms
  <2>3. Mitigates(t) \in BOOLEAN
    BY <2>2 DEF Mitigates, Status
  <2>4. new \in Status
    BY <1>s, <2>2 DEF Status
  <2> HIDE DEF new
  <2>5. dated_by_hand \in Status
    <3>1. (new.is_mitigated \/ Mitigates(t)) \in BOOLEAN
      BY <2>3, <2>4 DEF Status
    <3> QED BY <2>4, <3>1 DEF Status
  <2>6. Save(w, new, {}) \/ SaveBeyond(w, dated_by_hand, Stamp)
    BY <2>1 DEF new
  <2> HIDE DEF dated_by_hand
  <2> QED BY <2>4, <2>5, <2>6, <1>0, <1>e
<1>7. CASE finding_bulk_update_all(w)
  <2>1. PICK b \in BulkStatuses :
          LET form == [s EXCEPT !.active = b.active, !.verified = b.verified,
                                !.false_p = b.false_p, !.out_of_scope = b.out_of_scope,
                                !.is_mitigated = b.is_mitigated]
              first == saved(s, form, {})
          IN  \/ Save(w, form, {})
              \/ /\ \/ Write(w, saved(form, accepted(first), {}))
                    \/ Write(w, saved(form, unaccepted(first), {}))
                 /\ UNCHANGED past
    BY <1>7 DEF finding_bulk_update_all
  <2> DEFINE form == [s EXCEPT !.active = b.active, !.verified = b.verified,
                               !.false_p = b.false_p, !.out_of_scope = b.out_of_scope,
                               !.is_mitigated = b.is_mitigated]
             first == saved(s, form, {})
  <2>2. form \in Status
    BY <1>s DEF Status, BulkStatuses
  <2>3. Sound(first)
    BY <2>2, <1>e, AnySound
  <2> HIDE DEF form, first
  <2>4. Sound(accepted(first)) /\ Sound(unaccepted(first))
    BY <2>3 DEF Sound, accepted, unaccepted, Status
  <2>5. /\ Sound(saved(form, accepted(first), {}))
        /\ Sound(saved(form, unaccepted(first), {}))
    BY <2>4, SaveSound
  <2>6. CASE Save(w, form, {})
    BY <2>6, <2>2, <1>e, <1>0
  <2>7. CASE /\ \/ Write(w, saved(form, accepted(first), {}))
                \/ Write(w, saved(form, unaccepted(first), {}))
             /\ UNCHANGED past
    BY <2>7, <2>5 DEF Write, Ends, TypeOK
  <2> QED BY <2>1, <2>6, <2>7 DEF form, first
<1>8. CASE risk_accept(w)
  <2>1. accepted(s) \in Status /\ unaccepted(s) \in Status
    BY <1>s DEF accepted, unaccepted, Status
  <2> QED BY <1>8, <2>1, <1>0, <1>e DEF risk_accept
<1>9. CASE mark_duplicate(w)
  <2>1. [s EXCEPT !.duplicate = TRUE, !.linked = TRUE,
                  !.active = FALSE, !.verified = FALSE] \in Status
    BY <1>s DEF Status
  <2> QED BY <1>9, <2>1, <1>0, <1>e DEF mark_duplicate
<1>10. CASE reset_duplicate(w)
  <2>1. [s EXCEPT !.duplicate = FALSE, !.linked = FALSE, !.active = TRUE] \in Status
    BY <1>s DEF Status
  <2> QED BY <1>10, <2>1, <1>0, <1>e DEF reset_duplicate
<1>11. CASE set_duplicate_reopen(w)
  <2>1. PICK v \in BOOLEAN :
          Save(w, [s EXCEPT !.mitigated = FALSE, !.is_mitigated = FALSE,
                            !.active = TRUE, !.verified = v], {})
    BY <1>11 DEF set_duplicate_reopen
  <2>2. [s EXCEPT !.mitigated = FALSE, !.is_mitigated = FALSE,
                  !.active = TRUE, !.verified = v] \in Status
    BY <1>s DEF Status
  <2> QED BY <2>1, <2>2, <1>0, <1>e
<1>13. CASE set_finding_as_original(w)
  <2>1. /\ [s EXCEPT !.duplicate = TRUE, !.linked = TRUE] \in Status
        /\ [s EXCEPT !.duplicate = TRUE, !.linked = TRUE, !.active = FALSE] \in Status
        /\ [s EXCEPT !.duplicate = FALSE, !.linked = FALSE] \in Status
    BY <1>s DEF Status
  <2> QED BY <1>13, <2>1, <1>0, <1>e DEF set_finding_as_original
<1>14. CASE fix_loop_duplicates(w)
  <2>1. PICK l \in BOOLEAN : \/ Save(w, [s EXCEPT !.linked = l], {})
                             \/ Save(w, [s EXCEPT !.duplicate = FALSE], {})
    BY <1>14 DEF fix_loop_duplicates
  <2>2. [s EXCEPT !.linked = l] \in Status /\ [s EXCEPT !.duplicate = FALSE] \in Status
    BY <1>s DEF Status
  <2> QED BY <2>1, <2>2, <1>0, <1>e
<1>15. CASE reconfigure_duplicate_cluster(w)
  <2>1. PICK open, fixed \in BOOLEAN :
          /\ Write(w, saved(s, [s EXCEPT !.duplicate = FALSE, !.linked = FALSE,
                                         !.active = open, !.is_mitigated = fixed], {}))
          /\ past' = IF beyond \/ (open /\ fixed) THEN "beyond"
                     ELSE IF Rejected(s) /\ ~open /\ ~fixed THEN "inherited"
                     ELSE past
    BY <1>15 DEF reconfigure_duplicate_cluster
  <2>2. [s EXCEPT !.duplicate = FALSE, !.linked = FALSE,
                  !.active = open, !.is_mitigated = fixed] \in Status
    BY <1>s DEF Status
  <2>3. Sound(row') /\ loaded' = [loaded EXCEPT ![w] = None]
    BY <2>1, <2>2, <1>e, AnySound DEF Write
  <2> QED BY <2>1, <2>3 DEF Ends, EndsHeir, EndsBeyond
<1>12. CASE update(w)
  <2>1. PICK t \in Filled(s), fixed \in BOOLEAN : SaveBeyond(w, [t EXCEPT !.is_mitigated = fixed], {})
    BY <1>12 DEF update
  <2>2. [t EXCEPT !.is_mitigated = fixed] \in Status
    BY <1>s, FilledIsStatus DEF Status
  <2> QED BY <2>1, <2>2, <1>0, <1>e
<1> QED
  BY <1>1, <1>2, <1>3, <1>4, <1>5, <1>6, <1>7, <1>8, <1>9, <1>10, <1>11, <1>12,
     <1>13, <1>14, <1>15
  DEF Request

\* Soundness is inductive.
LEMMA SoundAlways == (Init => SoundInv) /\ (SoundInv /\ [Next]_vars => SoundInv')
<1>1. Init => SoundInv
  <2> SUFFICES ASSUME Init PROVE SoundInv
    OBVIOUS
  <2>1. PICK s \in Reported : row = created(s)
    BY DEF Init
  <2> DEFINE first == update_finding_status(s, {"id"})
             second == saved(s, first, {})
  <2>2. Sound(first)
    BY NewIsConsistent DEF Reported, is_new_finding, Consistent, Sound
  <2> HIDE DEF first
  <2>3. Sound(second)
    BY <2>2, SaveSound
  <2> HIDE DEF second
  <2>4. Sound(saved(first, second, {"id"}))
    BY <2>3, SaveSound
  <2>5. Sound(row)
    BY <2>1, <2>4 DEF created, first, second
  <2>6. \A w \in Workers : loaded[w] = None
    BY DEF Init
  <2> QED BY <2>5, <2>6 DEF Init, SoundInv, TypeOK, Pasts, Sound
<1>2. SoundInv /\ [Next]_vars => SoundInv'
  <2> SUFFICES ASSUME SoundInv, [Next]_vars PROVE SoundInv'
    OBVIOUS
  <2>1. CASE accept_risks
    <3>1. Sound(accepted(row))
      BY DEF SoundInv, Sound, accepted, Status
    <3> QED BY <2>1, <3>1 DEF accept_risks, SoundInv, TypeOK, Sound
  <2>5. CASE merge_finding_product
    <3>1. Sound([row EXCEPT !.active = FALSE])
      BY DEF SoundInv, Sound, Status
    <3> QED BY <2>5, <3>1 DEF merge_finding_product, SoundInv, TypeOK, Sound
  <2>2. ASSUME NEW w \in Workers, Load(w) PROVE SoundInv'
    BY <2>2 DEF Load, SoundInv, TypeOK
  <2>3. ASSUME NEW w \in Workers, Request(w) PROVE SoundInv'
    <3>1. TypeOK /\ Sound(loaded[w])
      BY <2>3 DEF SoundInv, Request
    <3>2. Sound(row') /\ (Ends(w) \/ EndsHeir(w) \/ EndsBeyond(w))
      BY <2>3, <3>1, RequestSound
    <3> QED BY <3>2 DEF Ends, EndsHeir, EndsBeyond, SoundInv, TypeOK, Pasts, Sound
  <2>4. CASE UNCHANGED vars
    BY <2>4 DEF vars, SoundInv, TypeOK
  <2> QED BY <2>1, <2>2, <2>3, <2>4, <2>5 DEF Next
<1> QED BY <1>1, <1>2

\* Pages, API calls and column updates in any interleaving: no finding is
\* open and rejected at once.
THEOREM OpenIsNeverRejected == Spec => []OpenIsNotRejected
<1>1. SoundInv => OpenIsNotRejected
  BY DEF SoundInv, Sound, OpenIsNotRejected, Rejected
<1> QED BY <1>1, SoundAlways, PTL DEF Spec

\* Between the load and the save of one request any number of others may
\* write: as long as neither the API nor an edit of dates has saved it, the
\* row and all copies of it stay consistent.
LEMMA PagesAlways == Spec => []PagesInv
<1>1. Init => PagesInv
  <2> SUFFICES ASSUME Init PROVE PagesInv
    OBVIOUS
  <2>1. PICK s \in Reported : row = created(s)
    BY DEF Init
  <2> DEFINE first == update_finding_status(s, {"id"})
             second == saved(s, first, {})
  <2>2. Consistent(first, past)
    BY NewIsConsistent DEF Reported, is_new_finding
  <2> HIDE DEF first
  <2>3. Consistent(second, past)
    BY <2>2, SaveConsistent
  <2> HIDE DEF second
  <2>4. Consistent(saved(first, second, {"id"}), past)
    BY <2>3, SaveConsistent
  <2>5. Consistent(row, past)
    BY <2>1, <2>4 DEF created, first, second
  <2>6. \A w \in Workers : loaded[w] = None
    BY DEF Init
  <2> QED BY <2>5, <2>6, SoundAlways DEF PagesInv
<1>2. PagesInv /\ [Next]_vars => PagesInv'
  <2> SUFFICES ASSUME PagesInv, [Next]_vars PROVE PagesInv'
    OBVIOUS
  <2>0. SoundInv'
    BY SoundAlways DEF PagesInv
  <2>1. CASE accept_risks
    <3>1. Consistent(row, past) => Consistent(accepted(row), past)
      BY DEF Consistent, accepted, Status
    <3> QED BY <2>0, <2>1, <3>1 DEF accept_risks, PagesInv, beyond
  <2>5. CASE merge_finding_product
    <3>1. Consistent(row, past) => Consistent([row EXCEPT !.active = FALSE], past)
      BY DEF Consistent, Status
    <3> QED BY <2>0, <2>5, <3>1 DEF merge_finding_product, PagesInv, beyond
  <2>2. ASSUME NEW w \in Workers, Load(w) PROVE PagesInv'
    BY <2>0, <2>2 DEF Load, PagesInv, SoundInv, TypeOK, beyond
  <2>3. ASSUME NEW w \in Workers, Request(w) PROVE PagesInv'
    <3>1. TypeOK /\ Sound(loaded[w]) /\ loaded[w] /= None
      BY <2>3 DEF PagesInv, SoundInv, Request
    <3>2. Ends(w) \/ EndsHeir(w) \/ EndsBeyond(w)
      BY <2>3, <3>1, RequestSound
    <3>3. ASSUME ~beyond'
          PROVE  /\ Consistent(row', past')
                 /\ \A v \in Workers : loaded'[v] /= None => Consistent(loaded'[v], past')
      <4>1. ~beyond /\ ~EndsBeyond(w)
        BY <3>2, <3>3 DEF Ends, EndsHeir, EndsBeyond, beyond
      <4>2. Consistent(loaded[w], past)
        BY <3>1, <4>1 DEF PagesInv
      <4>3. \/ Consistent(row', past) /\ Ends(w)
            \/ Consistent(row', "inherited") /\ EndsHeir(w)
        BY <2>3, <3>1, <4>1, <4>2, RequestConsistent
      <4>4. ASSUME NEW v \in Workers, loaded'[v] /= None PROVE Consistent(loaded[v], past)
        BY <3>1, <4>1, <4>3, <4>4 DEF Ends, EndsHeir, PagesInv, TypeOK
      <4>5. ASSUME NEW v \in Workers, loaded'[v] /= None
            PROVE  loaded'[v] = loaded[v] /\ Consistent(loaded[v], past')
        BY <3>1, <4>3, <4>4, <4>5 DEF Ends, EndsHeir, TypeOK, Consistent
      <4>6. Consistent(row', past')
        BY <4>3 DEF Ends, EndsHeir
      <4> QED BY <4>5, <4>6
    <3> QED BY <2>0, <3>3 DEF PagesInv
  <2>4. CASE UNCHANGED vars
    BY <2>0, <2>4 DEF vars, PagesInv, beyond
  <2> QED BY <2>1, <2>2, <2>3, <2>4, <2>5 DEF Next
<1> QED BY <1>1, <1>2, PTL DEF Spec

\* The flag and the date of a mitigation never part, though close, mitigate, reopen and the
\* bulk edit each write them in their own way and save what they loaded before others saved.
THEOREM FixedIsDated == Spec => []MitigationDated
<1>1. PagesInv => MitigationDated
  BY DEF PagesInv, Consistent, MitigationDated
<1> QED BY <1>1, PagesAlways, PTL

\* A rejected finding is closed and fixed, whichever request of whichever worker saved last.
THEOREM RejectedStaysClosed == Spec => []RejectedIsClosed
<1>1. PagesInv => RejectedIsClosed
  BY DEF PagesInv, SoundInv, TypeOK, Pasts, Consistent, RejectedIsClosed, Rejected, beyond, inherited
<1> QED BY <1>1, PagesAlways, PTL

\* No page, alone or on top of another one's save, leaves a finding open and fixed.
THEOREM OpenIsNeverFixed == Spec => []OpenIsNotFixed
<1>1. PagesInv => OpenIsNotFixed
  BY DEF PagesInv, Consistent, OpenIsNotFixed
<1> QED BY <1>1, PagesAlways, PTL

\* The signal handler runs update_finding_status once for every changed
\* field, each time with all of them: the second run changes nothing.
THEOREM UpdateIdempotent ==
    ASSUME NEW s \in Status, NEW c
    PROVE  update_finding_status(update_finding_status(s, c), c) = update_finding_status(s, c)
<1> DEFINE Settled(t) ==
        /\ t \in Status
        /\ t.is_mitigated => t.mitigated
        /\ is_new_finding(c) \/ "is_mitigated" \in c => (t.mitigated => t.is_mitigated)
        /\ t.active /\ (is_new_finding(c) \/ "active" \in c) =>
             ~t.false_p /\ ~t.out_of_scope /\ ~t.is_mitigated /\ ~t.mitigated
        /\ /\ t.false_p \/ t.out_of_scope
           /\ is_new_finding(c) \/ {"false_p", "out_of_scope"} \cap c /= {}
           => t.mitigated /\ t.is_mitigated /\ ~t.active /\ ~t.verified
        /\ t.linked => t.duplicate
<1> DEFINE d == dated(unmitigated(s, c))
           a == activated(d, c)
           r == rejected(a, c)
<1>1. /\ d \in Status
      /\ d.is_mitigated => d.mitigated
      /\ is_new_finding(c) \/ "is_mitigated" \in c => (d.mitigated => d.is_mitigated)
  BY DEF dated, unmitigated, Status
<1> HIDE DEF d
<1>2. /\ a \in Status
      /\ a.is_mitigated => a.mitigated
      /\ is_new_finding(c) \/ "is_mitigated" \in c => (a.mitigated => a.is_mitigated)
      /\ a.active /\ (is_new_finding(c) \/ "active" \in c) =>
           ~a.false_p /\ ~a.out_of_scope /\ ~a.is_mitigated /\ ~a.mitigated
  BY <1>1 DEF activated, Status
<1> HIDE DEF a
<1>3. /\ r \in Status
      /\ r.is_mitigated => r.mitigated
      /\ is_new_finding(c) \/ "is_mitigated" \in c => (r.mitigated => r.is_mitigated)
      /\ r.active /\ (is_new_finding(c) \/ "active" \in c) =>
           ~r.false_p /\ ~r.out_of_scope /\ ~r.is_mitigated /\ ~r.mitigated
      /\ /\ r.false_p \/ r.out_of_scope
         /\ is_new_finding(c) \/ {"false_p", "out_of_scope"} \cap c /= {}
         => r.mitigated /\ r.is_mitigated /\ ~r.active /\ ~r.verified
  BY <1>2 DEF rejected, Status
<1> HIDE DEF r
<1>4. Settled(no_duplicate(r))
  BY <1>3 DEF no_duplicate, Status
<1>5. Settled(update_finding_status(s, c))
  BY <1>4 DEF update_finding_status, r, a, d
<1>6. ASSUME NEW t, Settled(t) PROVE update_finding_status(t, c) = t
  <2>1. unmitigated(t, c) = t
    BY <1>6 DEF unmitigated, Status
  <2>2. dated(t) = t
    BY <1>6 DEF dated, Status
  <2>3. activated(t, c) = t
    BY <1>6 DEF activated, Status
  <2>4. rejected(t, c) = t
    BY <1>6 DEF rejected, Status
  <2>5. no_duplicate(t) = t
    BY <1>6 DEF no_duplicate, Status
  <2> QED BY <2>1, <2>2, <2>3, <2>4, <2>5 DEF update_finding_status
<1> HIDE DEF Settled
<1> QED BY <1>5, <1>6
=============================================================================
