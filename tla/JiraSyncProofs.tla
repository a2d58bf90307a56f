---------------------------- MODULE JiraSyncProofs ----------------------------
(***************************************************************************)
(* For any number of findings, groups, issues, workers and decisions: the  *)
(* reconciliation command never leaves apart what it has compared.  The    *)
(* dates it goes by tell the truth, whatever webhooks are lost or late and *)
(* whichever tasks fail.                                                   *)
(***************************************************************************)
EXTENDS JiraSync, SequenceTheorems, TLAPS

Resolutions == JiraResolutions \cup {Open, "done"}
Issue == [resolution : Resolutions, updated : Nat]
Row == [s : Status, last_status_update : Nat, last_reviewed : Nat, mitigated : Nat]
Link == IssueIds \cup {None}

\* What is open is neither fixed nor rejected; nothing here makes a duplicate.
Sound(s) == ~s.duplicate /\ (s.active => ~s.mitigated /\ ~s.is_mitigated /\ ~s.false_p)

\* A row agrees with an issue that is resolved like this; accepted ones are not compared.
Alike(row, resolution) == row.s.risk_accepted \/ row.s.active = (resolution = Open)

Commands ==
    [stage : {"running"}, todo : SUBSET Findings, finding : [Findings -> Row],
     link : [Objects -> Link], change : [Objects -> Nat], action : {None, "import", "push"}]

TypeOK ==
    /\ clock \in Nat \ {0}
    /\ finding \in [Findings -> Row]
    /\ link \in [Objects -> Link]
    /\ change \in [Objects -> Nat]
    /\ issue \in [IssueIds -> Issue \cup {None}]
    /\ webhooks \in Seq([issue : IssueIds, resolution : Resolutions, updated : Nat])
    /\ DOMAIN job = Workers
    /\ command \in Commands \cup {Done}

\* A status that was never updated is open, as it was imported.
RowsOK ==
    \A f \in Findings :
        /\ Sound(finding[f].s)
        /\ finding[f].last_status_update <= clock
        /\ finding[f].last_status_update = 1 => finding[f].s.active

\* An issue that was never updated is open.
IssuesOK ==
    \A i \in Created :
        /\ issue[i].updated <= clock
        /\ issue[i].updated = 1 => issue[i].resolution = Open

\* An event that carries the date of the issue carries its resolution.
Truthful(e) ==
    /\ e.issue \in Created
    /\ e.updated <= clock
    /\ e.updated = issue[e.issue].updated => e.resolution = issue[e.issue].resolution

EventsOK == \A e \in Range(webhooks) : Truthful(e)

\* Whatever is linked, or is being pushed or reconciled, is in JIRA.
LinksOK ==
    /\ \A o \in Objects : link[o] \in Created \cup {None} /\ change[o] <= clock
    /\ \A w \in Workers : job[w].stage /= "idle" => job[w].obj \in Objects /\ job[w].issue \in Created

\* The rows of a run of the command may be old, but were sound.
CommandOK ==
    command.stage = "running" =>
        \A f \in command.todo : command.link[f] \in Created /\ Sound(command.finding[f].s)

\* A finding and an issue have one date only if it is the first of both.  If the link of a
\* finding bears the date of its issue, the two agree or the finding was updated later.
DatesTell ==
    /\ \A f \in Findings, i \in Created :
          finding[f].last_status_update = issue[i].updated => finding[f].last_status_update = 1
    /\ \A f \in Findings : link[f] /= None /\ change[f] = issue[link[f]].updated =>
          \/ finding[f].last_status_update > change[f]
          \/ Alike(finding[f], issue[link[f]].resolution)

SyncInv == TypeOK /\ RowsOK /\ IssuesOK /\ EventsOK /\ LinksOK /\ CommandOK /\ DatesTell

-----------------------------------------------------------------------------
(* Saving a row. *)

\* What a save may do to a row: if it changes what is compared, it puts the date of now on it.
Stamps(old, new) ==
    /\ new \in Row /\ Sound(new.s)
    /\ \/ new.last_status_update = Now
       \/ /\ new.last_status_update = old.last_status_update
          /\ new.s.active = old.s.active /\ new.s.risk_accepted = old.s.risk_accepted

\* What a handler may hand to save().
Handled(old, new) ==
    /\ new \in Row /\ ~new.s.duplicate
    /\ new.last_status_update = old.last_status_update
    /\ new.s.active =>
           \/ ~old.s.active
           \/ ~new.s.mitigated /\ ~new.s.is_mitigated /\ ~new.s.false_p

\* The signal leaves a sound row, and open what is opened unless it is rejected.
LEMMA SavedSound ==
    ASSUME NEW old \in Status, NEW new \in Status, NEW touched, ~new.duplicate,
           new.active =>
               ~old.active \/ (~new.mitigated /\ ~new.is_mitigated /\ ~new.false_p)
    PROVE  LET s == saved(old, new, touched) IN
           /\ s \in Status /\ Sound(s)
           /\ s.risk_accepted = new.risk_accepted
           /\ s.active => new.active
           /\ new.active /\ ~old.active => s.active
           /\ new.active /\ ~new.false_p /\ ~new.out_of_scope => s.active
           /\ changed_fields(old, new) \cup touched = {} => s = new
<1> DEFINE c == changed_fields(old, new) \cup touched
<1>1. /\ "active" \in c \/ old.active = new.active
      /\ c = {} => old.active = new.active
  BY DEF changed_fields, SignalFields, Status
<1> HIDE DEF c
<1> DEFINE d == dated(unmitigated(new, c))
           a == activated(d, c)
           r == rejected(a, c)
<1>2. /\ d \in Status /\ d.active = new.active /\ d.false_p = new.false_p
      /\ d.out_of_scope = new.out_of_scope /\ d.duplicate = new.duplicate
      /\ d.risk_accepted = new.risk_accepted /\ d.is_mitigated = new.is_mitigated
      /\ ~new.mitigated /\ ~new.is_mitigated => ~d.mitigated
  BY DEF dated, unmitigated, Status
<1> HIDE DEF d
<1>3. /\ a \in Status /\ a.active = new.active /\ a.duplicate = new.duplicate
      /\ a.risk_accepted = new.risk_accepted
      /\ new.active /\ "active" \in c =>
             ~a.false_p /\ ~a.out_of_scope /\ ~a.is_mitigated /\ ~a.mitigated
      /\ ~d.mitigated /\ ~d.is_mitigated /\ ~d.false_p =>
             ~a.false_p /\ ~a.is_mitigated /\ ~a.mitigated
      /\ ~d.false_p /\ ~d.out_of_scope => ~a.false_p /\ ~a.out_of_scope
  BY <1>2 DEF activated, Status
<1> HIDE DEF a
<1>4. /\ r \in Status /\ r.duplicate = new.duplicate /\ r.risk_accepted = new.risk_accepted
      /\ r.active => /\ a.active /\ r.false_p = a.false_p
                     /\ r.mitigated = a.mitigated /\ r.is_mitigated = a.is_mitigated
      /\ a.active /\ ~a.false_p /\ ~a.out_of_scope => r.active
  BY <1>3 DEF rejected, Status
<1> HIDE DEF r
<1> DEFINE u == no_duplicate(r)
<1>5. /\ u \in Status /\ u.duplicate = r.duplicate /\ u.risk_accepted = r.risk_accepted
      /\ u.active = r.active /\ u.false_p = r.false_p /\ u.mitigated = r.mitigated
      /\ u.is_mitigated = r.is_mitigated
  BY <1>4 DEF no_duplicate, Status
<1>6. saved(old, new, touched) = IF c = {} THEN new ELSE u
  BY DEF saved, update_finding_status, c, d, a, r
<1> HIDE DEF u
<1>7. CASE c = {}
  BY <1>1, <1>6, <1>7 DEF Sound, c
<1>8. CASE c /= {}
  BY <1>1, <1>2, <1>3, <1>4, <1>5, <1>6, <1>8 DEF Sound, c
<1> QED BY <1>7, <1>8

LEMMA SavedStamps ==
    ASSUME clock \in Nat, NEW old \in Row, NEW new, Handled(old, new), NEW touched
    PROVE  LET row == Saved(old, new, touched) IN
           /\ Stamps(old, row)
           /\ row.s = saved(old.s, new.s, touched)
<1> DEFINE s == saved(old.s, new.s, touched)
           at == IF ~s.mitigated THEN 0 ELSE IF new.mitigated /= 0 THEN new.mitigated ELSE Now
           c == changed_fields(old.s, new.s) \cup touched
           lsu == IF c = {} THEN new.last_status_update ELSE Now
           row == Saved(old, new, touched)
<1>1. old.s \in Status /\ new \in Row /\ new.s \in Status /\ Now \in Nat
  BY DEF Row, Handled, Now
<1>2. s \in Status /\ Sound(s) /\ (c = {} => s = new.s)
  BY <1>1, SavedSound DEF Handled
<1>3. c = {} => new.s.active = old.s.active /\ new.s.risk_accepted = old.s.risk_accepted
  BY DEF changed_fields, SignalFields
<1>4. row = [new EXCEPT !.s = s, !.mitigated = at, !.last_status_update = lsu]
  BY DEF Saved
<1>5. at \in Nat /\ lsu \in Nat
  BY <1>1 DEF Row
<1> HIDE DEF s, at, row
<1>6. row \in Row /\ row.s = s /\ row.last_status_update = lsu
  BY <1>1, <1>2, <1>4, <1>5 DEF Row
<1>7. lsu = Now \/ (lsu = old.last_status_update /\ c = {})
  BY DEF Handled
<1>8. Stamps(old, row)
  BY <1>2, <1>3, <1>6, <1>7 DEF Stamps
<1> QED BY <1>6, <1>8 DEF s, row

\* process_resolution_from_jira makes the row agree with the issue.
LEMMA ProcessedStamps ==
    ASSUME clock \in Nat, NEW old \in Row, Sound(old.s), NEW resolution \in Resolutions, NEW date \in Nat
    PROVE  LET row == Processed(old, resolution, date) IN
           Stamps(old, row) /\ Alike(row, resolution)
<1> DEFINE s == old.s
           accepted == [s EXCEPT !.active = FALSE, !.mitigated = FALSE, !.is_mitigated = FALSE,
                                 !.false_p = FALSE, !.risk_accepted = ~s.duplicate]
           rejected_ == Unaccepted([s EXCEPT !.active = FALSE, !.verified = FALSE, !.false_p = TRUE,
                                             !.mitigated = FALSE, !.is_mitigated = FALSE])
           fixed == Unaccepted([s EXCEPT !.active = FALSE, !.mitigated = TRUE,
                                         !.is_mitigated = TRUE, !.false_p = FALSE])
           opened == Unaccepted([Reopened(s) EXCEPT !.false_p = FALSE])
           Put(new, at, touched) == Saved(old, [old EXCEPT !.s = new, !.mitigated = at], touched)
<1>1. s \in Status /\ ~s.duplicate /\ Stamps(old, old)
  BY DEF Row, Sound, Stamps
<1>2. /\ accepted \in Status /\ ~accepted.duplicate /\ ~accepted.active /\ accepted.risk_accepted
      /\ rejected_ \in Status /\ ~rejected_.duplicate /\ ~rejected_.active
      /\ fixed \in Status /\ ~fixed.duplicate /\ ~fixed.active
      /\ opened \in Status /\ ~opened.duplicate /\ opened.active
  <2>1. accepted \in Status /\ ~accepted.duplicate /\ ~accepted.active /\ accepted.risk_accepted
    BY <1>1 DEF Status
  <2>2. ASSUME NEW t \in Status, ~t.duplicate
        PROVE  /\ Unaccepted(t) \in Status /\ ~Unaccepted(t).duplicate
               /\ t.active => Unaccepted(t).active
               /\ ~t.active /\ (t.mitigated \/ t.false_p) => ~Unaccepted(t).active
    BY <2>2 DEF Unaccepted, Status
  <2> DEFINE t1 == [s EXCEPT !.active = FALSE, !.verified = FALSE, !.false_p = TRUE,
                             !.mitigated = FALSE, !.is_mitigated = FALSE]
             t2 == [s EXCEPT !.active = FALSE, !.mitigated = TRUE,
                             !.is_mitigated = TRUE, !.false_p = FALSE]
             t3 == [Reopened(s) EXCEPT !.false_p = FALSE]
  <2>3. t1 \in Status /\ ~t1.duplicate /\ ~t1.active /\ t1.false_p
    BY <1>1 DEF Status
  <2>4. t2 \in Status /\ ~t2.duplicate /\ ~t2.active /\ t2.mitigated
    BY <1>1 DEF Status
  <2>5. t3 \in Status /\ ~t3.duplicate /\ t3.active
    BY <1>1 DEF Reopened, Status
  <2> HIDE DEF t1, t2, t3
  <2>6. rejected_ \in Status /\ ~rejected_.duplicate /\ ~rejected_.active
    BY <2>2, <2>3 DEF t1
  <2>7. fixed \in Status /\ ~fixed.duplicate /\ ~fixed.active
    BY <2>2, <2>4 DEF t2
  <2>8. opened \in Status /\ ~opened.duplicate /\ opened.active
    BY <2>2, <2>5 DEF t3
  <2> HIDE DEF accepted, rejected_, fixed, opened
  <2> QED BY <2>1, <2>6, <2>7, <2>8
<1> HIDE DEF accepted, rejected_, fixed, opened
<1>3. ASSUME NEW new \in Status, NEW at \in Nat, NEW touched, ~new.duplicate,
             new.active => ~s.active
      PROVE  /\ Stamps(old, Put(new, at, touched))
             /\ Put(new, at, touched).s.risk_accepted = new.risk_accepted
             /\ new.active = Put(new, at, touched).s.active
  <2> DEFINE row == [old EXCEPT !.s = new, !.mitigated = at]
  <2>1. row \in Row /\ row.s = new /\ row.last_status_update = old.last_status_update
    BY <1>3 DEF Row
  <2> HIDE DEF row
  <2>2. Handled(old, row)
    BY <1>3, <2>1 DEF Handled
  <2>3. Stamps(old, Saved(old, row, touched)) /\ Saved(old, row, touched).s = saved(s, new, touched)
    BY <2>1, <2>2, SavedStamps
  <2>4. /\ saved(s, new, touched).risk_accepted = new.risk_accepted
        /\ saved(s, new, touched).active = new.active
    BY <1>1, <1>3, SavedSound DEF Status
  <2> QED BY <2>3, <2>4 DEF row
<1> DEFINE Accepting == resolution = "accepted" /\ ~s.risk_accepted
           Rejecting == resolution = "false positive" /\ ~s.false_p
           Fixing == resolution = "done" /\ ~s.is_mitigated
           Opening == resolution = Open /\ ~s.active
           row == Processed(old, resolution, date)
<1>4. /\ Accepting => row = Put(accepted, 0, {})
      /\ Rejecting => row = Put(rejected_, 0, {})
      /\ Fixing => row = Put(fixed, date, {"mitigated", "mitigated_by"})
      /\ Opening => row = Put(opened, 0, {})
      /\ ~Accepting /\ ~Rejecting /\ ~Fixing /\ ~Opening => row = old
  BY DEF Processed, Open, accepted, rejected_, fixed, opened
<1> HIDE DEF row, Put
<1>5. resolution \in {"accepted", "false positive", "done", Open}
  BY JiraAssumption DEF Resolutions
<1>6. /\ Accepting => Stamps(old, row) /\ row.s.risk_accepted
      /\ Rejecting \/ Fixing => Stamps(old, row) /\ ~row.s.active
      /\ Opening => Stamps(old, row) /\ row.s.active
  <2>1. ASSUME Accepting PROVE Stamps(old, row) /\ row.s.risk_accepted
    <3>1. Stamps(old, Put(accepted, 0, {})) /\ Put(accepted, 0, {}).s.risk_accepted
      BY <1>2, <1>3
    <3> QED BY <1>4, <2>1, <3>1
  <2>2. ASSUME Rejecting PROVE Stamps(old, row) /\ ~row.s.active
    <3>1. Stamps(old, Put(rejected_, 0, {})) /\ ~Put(rejected_, 0, {}).s.active
      BY <1>2, <1>3
    <3> QED BY <1>4, <2>2, <3>1
  <2>3. ASSUME Fixing PROVE Stamps(old, row) /\ ~row.s.active
    <3> DEFINE touched == {"mitigated", "mitigated_by"}
    <3>1. Stamps(old, Put(fixed, date, touched)) /\ ~Put(fixed, date, touched).s.active
      BY <1>2, <1>3
    <3> QED BY <1>4, <2>3, <3>1
  <2>4. ASSUME Opening PROVE Stamps(old, row) /\ row.s.active
    <3>1. Stamps(old, Put(opened, 0, {})) /\ Put(opened, 0, {}).s.active
      BY <1>2, <1>3, <2>4
    <3> QED BY <1>4, <2>4, <3>1
  <2> HIDE DEF Accepting, Rejecting, Fixing, Opening
  <2> QED BY <2>1, <2>2, <2>3, <2>4
<1>7. ~Accepting /\ ~Rejecting /\ ~Fixing /\ ~Opening =>
          Stamps(old, row) /\ (row.s.risk_accepted \/ (row.s.active <=> resolution = Open))
  BY <1>1, <1>4, <1>5 DEF Sound, Open
<1>8. Stamps(old, row) /\ (row.s.risk_accepted \/ (row.s.active <=> resolution = Open))
  BY <1>6, <1>7 DEF Open
<1>9. row.s.active \in BOOLEAN
  BY <1>8 DEF Stamps, Row, Status
<1> QED BY <1>8, <1>9 DEF Alike, row

-----------------------------------------------------------------------------
(* What a step may do. *)

Events == [issue : IssueIds, resolution : Resolutions, updated : Nat]

\* at most one issue changes, and then no row does
IssueStep ==
    \/ issue' = issue
    \/ /\ finding' = finding /\ Now <= clock'
       /\ \E i \in IssueIds, r \in Resolutions :
              issue' = [issue EXCEPT ![i] = [resolution |-> r, updated |-> Now]]

\* events are old ones, or announce what has just happened
EventStep ==
    /\ webhooks' \in Seq(Events)
    /\ \A e \in Range(webhooks') :
           \/ e \in Range(webhooks)
           \/ /\ Now <= clock' /\ e.updated = Now
              /\ issue'[e.issue] = [resolution |-> e.resolution, updated |-> Now]

LinkStep ==
    /\ link' \in [Objects -> Link] /\ change' \in [Objects -> Nat]
    /\ \A o \in Objects : /\ link'[o] = link[o] \/ link'[o] \in Created' \cup {None}
                          /\ change'[o] <= clock'
    /\ DOMAIN job' = Workers
    /\ \A w \in Workers : \/ job'[w] = job[w]
                          \/ job'[w].stage = "idle"
                          \/ job'[w].obj \in Objects /\ job'[w].issue \in Created'

CommandStep ==
    /\ command' \in Commands \cup {Done}
    /\ command'.stage = "running" =>
           \A f \in command'.todo :
               \/ /\ command.stage = "running" /\ f \in command.todo
                  /\ command'.link = command.link /\ command'.finding = command.finding
               \/ command'.link[f] \in Created /\ Sound(command'.finding[f].s)

\* what has to be seen of a finding whose link changes
Told(f) ==
    \/ link'[f] = link[f] /\ change'[f] = change[f]
    \/ link'[f] = None
    \/ change'[f] = issue'[link'[f]].updated =>
           \/ finding'[f].last_status_update > change'[f]
           \/ Alike(finding'[f], issue'[link'[f]].resolution)

SafeStep ==
    /\ clock' \in Nat /\ clock <= clock'
    /\ finding' \in [Findings -> Row]
    /\ \A f \in Findings : \/ finding'[f] = finding[f]
                           \/ Stamps(finding[f], finding'[f]) /\ Now <= clock'
    /\ IssueStep /\ EventStep /\ LinkStep /\ CommandStep
    /\ \A f \in Findings : Told(f)

LEMMA SafeStepKeepsInv ==
    ASSUME SyncInv, SafeStep
    PROVE  SyncInv'
<1> USE DEF SyncInv, SafeStep
<1>1. clock \in Nat \ {0} /\ clock' \in Nat \ {0} /\ Now \in Nat /\ clock < Now /\ Now /= 1
  BY DEF TypeOK, Now
<1>2. issue' \in [IssueIds -> Issue \cup {None}] /\ Created \subseteq Created'
  <2>1. CASE issue' = issue
    BY <2>1 DEF TypeOK, Created
  <2>2. ASSUME NEW i \in IssueIds, NEW r \in Resolutions,
               issue' = [issue EXCEPT ![i] = [resolution |-> r, updated |-> Now]]
        PROVE  issue' \in [IssueIds -> Issue \cup {None}] /\ Created \subseteq Created'
    <3>1. [resolution |-> r, updated |-> Now] \in Issue
      BY <1>1 DEF Issue
    <3>2. [resolution |-> r, updated |-> Now] /= None
      BY <3>1, NoneAssumption DEF Issue, Resolutions
    <3> QED BY <2>2, <3>1, <3>2 DEF TypeOK, Created
  <2> QED BY <2>1, <2>2 DEF IssueStep
<1>3. TypeOK'
  BY <1>1, <1>2 DEF TypeOK, LinkStep, EventStep, CommandStep, Events
<1>4. \A i \in Created' : /\ issue'[i] \in Issue
                          /\ issue'[i].updated \in Nat /\ issue'[i].updated <= clock'
                          /\ i \in IssueIds
                          /\ \/ i \in Created /\ issue'[i] = issue[i]
                             \/ issue'[i].updated = Now /\ finding' = finding
  <2>1. \A i \in Created : issue[i].updated <= clock
    BY DEF IssuesOK
  <2>2. \A i \in Created' : i \in IssueIds /\ issue'[i] \in Issue /\ issue'[i].updated \in Nat
    BY <1>2 DEF Created, Issue
  <2>3. CASE issue' = issue
    BY <1>1, <2>1, <2>2, <2>3 DEF Created
  <2>4. ASSUME NEW i \in IssueIds, NEW r \in Resolutions, finding' = finding, Now <= clock',
               issue' = [issue EXCEPT ![i] = [resolution |-> r, updated |-> Now]],
               NEW j \in Created'
        PROVE  /\ issue'[j].updated <= clock'
               /\ \/ j \in Created /\ issue'[j] = issue[j]
                  \/ issue'[j].updated = Now
    BY <1>1, <2>1, <2>2, <2>4 DEF Created, TypeOK
  <2> QED BY <2>2, <2>3, <2>4 DEF IssueStep
<1>5. RowsOK'
  <2> SUFFICES ASSUME NEW f \in Findings
               PROVE  /\ Sound(finding'[f].s) /\ finding'[f].last_status_update <= clock'
                      /\ finding'[f].last_status_update = 1 => finding'[f].s.active
    BY DEF RowsOK
  <2>1. finding[f].last_status_update \in Nat /\ finding'[f].last_status_update \in Nat
    BY DEF TypeOK, Row
  <2> QED BY <1>1, <2>1 DEF RowsOK, Stamps
<1>6. IssuesOK'
  BY <1>1, <1>4 DEF IssuesOK
<1>7. EventsOK'
  <2> SUFFICES ASSUME NEW e \in Range(webhooks') PROVE Truthful(e)'
    BY DEF EventsOK
  <2>1. CASE e \in Range(webhooks)
    <3>1. Truthful(e)
      BY <2>1 DEF EventsOK
    <3>2. e \in Events
      <4>1. webhooks \in Seq(Events)
        BY DEF TypeOK, Events
      <4> QED BY <2>1, <4>1 DEF Range
    <3>3. e.issue \in Created' /\ e.updated <= clock' /\ e.updated \in Nat /\ e.updated /= Now
      BY <1>1, <1>2, <3>1, <3>2 DEF Truthful, Events
    <3> QED BY <1>4, <3>1, <3>3 DEF Truthful
  <2>2. CASE e \notin Range(webhooks)
    <3>1. /\ Now <= clock' /\ e.updated = Now
          /\ issue'[e.issue] = [resolution |-> e.resolution, updated |-> Now]
      BY <2>2 DEF EventStep
    <3>2. e \in Events
      BY DEF EventStep, Range
    <3>3. [resolution |-> e.resolution, updated |-> Now] /= None
      BY <1>1, <3>2, NoneAssumption DEF Events, Resolutions
    <3> QED BY <3>1, <3>2, <3>3 DEF Truthful, Created, Events
  <2> QED BY <2>1, <2>2
<1>8. LinksOK'
  BY <1>2 DEF LinksOK, LinkStep
<1>9. CommandOK'
  BY <1>2 DEF CommandOK, CommandStep
<1>10. DatesTell'
  <2>1. ASSUME NEW f \in Findings, NEW i \in Created',
               finding'[f].last_status_update = issue'[i].updated
        PROVE  finding'[f].last_status_update = 1
    <3>1. /\ finding[f].last_status_update \in Nat /\ finding[f].last_status_update <= clock
          /\ finding'[f].last_status_update \in Nat
      BY DEF TypeOK, Row, RowsOK
    <3>2. CASE issue'[i].updated = Now /\ finding' = finding
      BY <1>1, <2>1, <3>1, <3>2
    <3>3. CASE i \in Created /\ issue'[i] = issue[i]
      <4>1. issue[i].updated \in Nat /\ issue[i].updated <= clock
        BY <1>4, <3>3 DEF IssuesOK
      <4> QED BY <1>1, <2>1, <3>1, <3>3, <4>1 DEF DatesTell, Stamps
    <3> QED BY <1>4, <3>2, <3>3
  <2>2. ASSUME NEW f \in Findings, link'[f] /= None, change'[f] = issue'[link'[f]].updated
        PROVE  \/ finding'[f].last_status_update > change'[f]
               \/ Alike(finding'[f], issue'[link'[f]].resolution)
    <3>1. Told(f)
      OBVIOUS
    <3>2. CASE link'[f] = link[f] /\ change'[f] = change[f]
      <4>1. f \in Objects /\ link[f] \in Created /\ change[f] \in Nat /\ change[f] <= clock
        BY <2>2, <3>2 DEF Objects, LinksOK, TypeOK
      <4>2. issue'[link[f]] = issue[link[f]] /\ issue[link[f]].updated \in Nat
        BY <1>1, <1>2, <1>4, <2>2, <3>2, <4>1
      <4>3. \/ finding[f].last_status_update > change[f]
            \/ Alike(finding[f], issue[link[f]].resolution)
        BY <2>2, <3>2, <4>2 DEF DatesTell
      <4>4. CASE finding'[f] = finding[f]
        BY <3>2, <4>2, <4>3, <4>4 DEF Alike
      <4>5. CASE Stamps(finding[f], finding'[f])
        BY <1>1, <3>2, <4>1, <4>2, <4>3, <4>5 DEF Alike, Stamps
      <4> QED BY <4>4, <4>5
    <3> QED BY <2>2, <3>1, <3>2 DEF Told
  <2> QED BY <2>1, <2>2 DEF DatesTell
<1> QED BY <1>3, <1>5, <1>6, <1>7, <1>8, <1>9, <1>10

-----------------------------------------------------------------------------
(* Steps that change little. *)

\* What does not change is no reason to worry.
LEMMA UnchangedParts ==
    ASSUME SyncInv
    PROVE  /\ clock' = clock => clock' \in Nat /\ clock <= clock'
           /\ clock' = Now => clock' \in Nat /\ clock <= clock' /\ Now <= clock'
           /\ finding' = finding => finding' \in [Findings -> Row]
           /\ issue' = issue => IssueStep /\ Created' = Created
           /\ webhooks' = webhooks => EventStep
           /\ command' = command => CommandStep
           /\ UNCHANGED <<link, change>> => \A f \in Findings : Told(f)
           /\ UNCHANGED <<link, change, job>> /\ clock <= clock' /\ clock' \in Nat => LinkStep
<1> USE DEF SyncInv
<1>1. clock \in Nat /\ Now \in Nat /\ clock <= Now
  BY DEF TypeOK, Now
<1>2. UNCHANGED <<link, change, job>> /\ clock <= clock' /\ clock' \in Nat => LinkStep
  BY <1>1 DEF LinkStep, TypeOK, LinksOK
<1>3. webhooks' = webhooks => EventStep
  BY DEF EventStep, TypeOK, Events
<1>4. command' = command => CommandStep
  BY DEF CommandStep, TypeOK
<1> QED BY <1>1, <1>2, <1>3, <1>4 DEF IssueStep, Created, Told, TypeOK

\* A row is saved, and nothing else of importance happens.
LEMMA RowSaved ==
    ASSUME SyncInv, NEW f \in Findings, NEW row, Stamps(finding[f], row),
           finding' = [finding EXCEPT ![f] = row], clock' = Now,
           UNCHANGED <<link, change, issue, webhooks, job, command>>
    PROVE  SyncInv'
<1>1. finding' \in [Findings -> Row]
  BY DEF SyncInv, TypeOK, Stamps
<1>2. \A g \in Findings : finding'[g] = finding[g] \/ Stamps(finding[g], finding'[g])
  BY DEF SyncInv, TypeOK
<1>3. SafeStep
  BY <1>1, <1>2, UnchangedParts DEF SafeStep
<1> QED BY <1>3, SafeStepKeepsInv

LEMMA StatusPagesKeepInv ==
    ASSUME SyncInv, NEW f \in Findings,
           \/ \E fp \in BOOLEAN : close_finding(f, fp)
           \/ reopen_finding(f) \/ simple_risk_accept(f) \/ risk_unaccept(f) \/ touch_finding(f)
    PROVE  SyncInv'
<1> DEFINE old == finding[f]
<1>1. old \in Row /\ old.s \in Status /\ ~old.s.duplicate /\ Sound(old.s) /\ Now \in Nat /\ clock \in Nat
  BY DEF SyncInv, TypeOK, RowsOK, Sound, Row, Now
<1>2. ASSUME NEW new, NEW touched, NEW tasks, Handled(old, new), Page(f, Saved(old, new, touched), tasks)
      PROVE  SyncInv'
  <2>1. Stamps(old, Saved(old, new, touched))
    BY <1>1, <1>2, SavedStamps
  <2> QED BY <1>2, <2>1, RowSaved DEF Page
<1>3. ASSUME NEW fp \in BOOLEAN, close_finding(f, fp)
      PROVE  SyncInv'
  <2> DEFINE new == [old EXCEPT !.s.active = FALSE, !.s.mitigated = TRUE, !.s.is_mitigated = TRUE,
                                !.s.false_p = fp, !.s.duplicate = FALSE,
                                !.mitigated = Now, !.last_reviewed = Now]
  <2>1. Handled(old, new)
    BY <1>1 DEF Handled, Row, Status
  <2> QED BY <1>2, <1>3, <2>1 DEF close_finding
<1>4. CASE reopen_finding(f)
  <2> DEFINE new == [old EXCEPT !.s = Reopened(old.s), !.mitigated = 0, !.last_reviewed = 0]
  <2>1. ~old.s.active
    BY <1>4 DEF reopen_finding
  <2>2. Handled(old, new)
    BY <1>1, <2>1 DEF Handled, Row, Status, Reopened
  <2> QED BY <1>2, <1>4, <2>2 DEF reopen_finding
<1>5. CASE simple_risk_accept(f)
  <2> DEFINE new == [old EXCEPT !.s.risk_accepted = TRUE, !.s.active = FALSE]
  <2>1. Handled(old, new)
    BY <1>1 DEF Handled, Row, Status
  <2> QED BY <1>2, <1>5, <2>1 DEF simple_risk_accept
<1>6. CASE risk_unaccept(f)
  <2> DEFINE new == [old EXCEPT !.s = Unaccepted(old.s)]
  <2>1. Handled(old, new)
    BY <1>1 DEF Handled, Row, Status, Unaccepted, Sound
  <2> QED BY <1>2, <1>6, <2>1 DEF risk_unaccept
<1>7. CASE touch_finding(f)
  <2> DEFINE row == [finding[f] EXCEPT !.last_reviewed = Now]
  <2>1. Stamps(old, row)
    BY <1>1 DEF Stamps, Row
  <2> QED BY <1>7, <2>1, RowSaved DEF touch_finding, Page
<1> QED BY <1>3, <1>4, <1>5, <1>6, <1>7

\* Steps that only queue tasks, or give one up.
LEMMA TasksMove ==
    ASSUME SyncInv, UNCHANGED <<finding, issue, link, change, command>>,
           clock' = clock, EventStep,
           DOMAIN job' = Workers,
           \A w \in Workers : \/ job'[w] = job[w]
                              \/ job'[w].stage = "idle"
                              \/ job'[w].obj \in Objects /\ job'[w].issue \in Created
    PROVE  SyncInv'
<1>1. LinkStep
  BY UnchangedParts DEF LinkStep, SyncInv, TypeOK, LinksOK
<1>2. SafeStep
  BY <1>1, UnchangedParts DEF SafeStep
<1> QED BY <1>2, SafeStepKeepsInv

\* The link of one object is saved with the date of now, or goes.
LEMMA LinkSaved ==
    ASSUME SyncInv, NEW o \in Objects, NEW i \in Created \cup {None},
           UNCHANGED <<finding, issue, webhooks, command>>,
           link' = [link EXCEPT ![o] = i],
           \/ i = None /\ UNCHANGED <<change, clock>>
           \/ change' = [change EXCEPT ![o] = Now] /\ clock' = Now,
           DOMAIN job' = Workers,
           \A w \in Workers : job'[w] = job[w] \/ job'[w].stage = "idle"
    PROVE  SyncInv'
<1>1. /\ clock \in Nat /\ Now \in Nat /\ clock < Now /\ clock' \in Nat /\ clock <= clock'
      /\ DOMAIN link = Objects /\ DOMAIN change = Objects
  BY DEF SyncInv, TypeOK, Now
<1>2. LinkStep
  <2>1. link' \in [Objects -> Link] /\ change' \in [Objects -> Nat]
    BY <1>1 DEF SyncInv, TypeOK, Link, Created
  <2>2. Created' = Created
    BY DEF Created
  <2>3. \A p \in Objects : change[p] \in Nat /\ change[p] <= clock
    BY DEF SyncInv, TypeOK, LinksOK
  <2>4. \A p \in Objects : (link'[p] = link[p] \/ link'[p] \in Created' \cup {None}) /\ change'[p] <= clock'
    BY <1>1, <2>2, <2>3
  <2> QED BY <2>1, <2>4 DEF LinkStep
<1>3. ASSUME NEW f \in Findings
      PROVE  Told(f)
  <2>1. CASE f = o /\ i /= None
    <3>1. issue'[i].updated \in Nat /\ issue'[i].updated <= clock
      BY <2>1 DEF SyncInv, TypeOK, IssuesOK, Created, Issue
    <3>2. change'[f] = Now /\ link'[f] = i
      BY <1>1, <2>1
    <3> QED BY <1>1, <3>1, <3>2 DEF Told
  <2>2. CASE f /= o \/ i = None
    BY <1>1, <2>2 DEF Told, Objects
  <2> QED BY <2>1, <2>2
<1>4. SafeStep
  BY <1>1, <1>2, <1>3, UnchangedParts DEF SafeStep
<1> QED BY <1>4, SafeStepKeepsInv

-----------------------------------------------------------------------------
(* Events and issues. *)

LEMMA WithoutKeeps ==
    ASSUME NEW S, NEW seq \in Seq(S), NEW i \in DOMAIN seq
    PROVE  Without(seq, i) \in Seq(S) /\ Range(Without(seq, i)) \subseteq Range(seq)
<1> DEFINE n == Len(seq)
           a == SubSeq(seq, 1, i - 1)
           b == SubSeq(seq, i + 1, n)
<1>1. n \in Nat /\ i \in 1..n /\ \A k \in 1..n : seq[k] \in S /\ seq[k] \in Range(seq)
  BY DEF Range
<1>2. a \in Seq(S) /\ Len(a) = i - 1 /\ \A k \in 1..(i - 1) : a[k] = seq[k]
  BY <1>1
<1>3. b \in Seq(S) /\ Len(b) = n - i /\ \A k \in 1..(n - i) : b[k] = seq[i + k]
  BY <1>1
<1> HIDE DEF a, b
<1>4. Without(seq, i) = a \o b
  BY DEF Without, a, b
<1> HIDE DEF n
<1>5. /\ a \o b \in Seq(S) /\ Len(a \o b) = n - 1
      /\ \A k \in 1..(n - 1) : (a \o b)[k] = IF k <= i - 1 THEN a[k] ELSE b[k - (i - 1)]
  <2>1. a \o b \in Seq(S)
    BY <1>2, <1>3
  <2>2. Len(a) \in Nat /\ Len(b) \in Nat /\ Len(a) + Len(b) = n - 1
    BY <1>1, <1>2, <1>3
  <2>3. /\ Len(a \o b) = Len(a) + Len(b)
        /\ \A k \in 1..(Len(a) + Len(b)) :
              (a \o b)[k] = IF k <= Len(a) THEN a[k] ELSE b[k - Len(a)]
    BY <1>2, <1>3
  <2>4. Len(a) = i - 1
    BY <1>2
  <2> QED BY <2>1, <2>2, <2>3, <2>4
<1>6. \A k \in 1..(n - 1) : (a \o b)[k] \in Range(seq)
  <2> SUFFICES ASSUME NEW k \in 1..(n - 1) PROVE (a \o b)[k] \in Range(seq)
    OBVIOUS
  <2>1. CASE k <= i - 1
    <3>1. k \in 1..(i - 1) /\ k \in 1..n
      BY <1>1, <2>1
    <3> QED BY <1>1, <1>2, <1>5, <2>1, <3>1
  <2>2. CASE ~ (k <= i - 1)
    <3>1. k - (i - 1) \in 1..(n - i) /\ i + (k - (i - 1)) \in 1..n
      BY <1>1, <2>2
    <3>2. (a \o b)[k] = b[k - (i - 1)]
      BY <1>5, <2>2
    <3> QED BY <1>1, <1>3, <3>1, <3>2
  <2> QED BY <2>1, <2>2
<1>7. Range(a \o b) \subseteq Range(seq)
  <2>1. DOMAIN (a \o b) = 1..(n - 1)
    BY <1>5
  <2> QED BY <1>6, <2>1 DEF Range
<1> QED BY <1>4, <1>5, <1>7

LEMMA AppendKeeps ==
    ASSUME NEW S, NEW seq \in Seq(S), NEW e \in S
    PROVE  Append(seq, e) \in Seq(S) /\ \A x \in Range(Append(seq, e)) : x \in Range(seq) \/ x = e
BY DEF Range

\* JIRA changes one issue, and may announce it.
LEMMA IssueUpdated ==
    ASSUME SyncInv, NEW i \in IssueIds, NEW r \in Resolutions,
           UNCHANGED <<finding, link, change, command>>, clock' = Now,
           issue' = [issue EXCEPT ![i] = [resolution |-> r, updated |-> Now]],
           webhooks' = webhooks \/ webhooks' = Append(webhooks, Event(i, r)),
           DOMAIN job' = Workers,
           \A w \in Workers : \/ job'[w] = job[w]
                              \/ job'[w].stage = "idle"
                              \/ job'[w].obj \in Objects /\ job'[w].issue \in Created \cup {i}
    PROVE  SyncInv'
<1>1. clock \in Nat /\ Now \in Nat /\ clock < Now /\ clock' \in Nat /\ clock <= clock' /\ Now <= clock'
  BY DEF SyncInv, TypeOK, Now
<1>2. IssueStep
  BY <1>1 DEF IssueStep
<1>3. issue' \in [IssueIds -> Issue \cup {None}] /\ issue'[i] = [resolution |-> r, updated |-> Now]
  BY <1>1 DEF SyncInv, TypeOK, Issue
<1>4. Created \cup {i} \subseteq Created'
  BY <1>1, <1>3, NoneAssumption DEF Created, SyncInv, TypeOK, Resolutions
<1>5. EventStep
  <2>1. webhooks \in Seq(Events) /\ Event(i, r) \in Events
    BY <1>1 DEF SyncInv, TypeOK, Events, Event
  <2>2. webhooks' \in Seq(Events)
        /\ \A e \in Range(webhooks') : e \in Range(webhooks) \/ e = Event(i, r)
    BY <2>1, AppendKeeps
  <2> QED BY <1>1, <1>3, <2>2 DEF EventStep, Event
<1>6. LinkStep
  BY <1>1, <1>4 DEF LinkStep, SyncInv, TypeOK, LinksOK
<1>7. SafeStep
  BY <1>1, <1>2, <1>5, <1>6, UnchangedParts DEF SafeStep
<1> QED BY <1>7, SafeStepKeepsInv

\* Groups, pushes and links of pages.
LEMMA OtherPagesKeepInv ==
    ASSUME SyncInv, NEW f \in Findings,
           \/ remove_from_finding_group(f) \/ finding_unlink_jira(f)
           \/ \E i \in IssueIds : finding_link_jira(f, i)
           \/ \E g \in Groups : add_to_finding_group(f, g)
           \/ \E o \in Objects : push_page(o)
    PROVE  SyncInv'
<1>1. DOMAIN job = Workers /\ f \in Objects
  BY DEF SyncInv, TypeOK, Objects
<1>2. CASE finding_unlink_jira(f)
  BY <1>1, <1>2, LinkSaved DEF finding_unlink_jira
<1>3. ASSUME NEW i \in IssueIds, finding_link_jira(f, i)
      PROVE  SyncInv'
  BY <1>1, <1>3, LinkSaved DEF finding_link_jira
<1>4. CASE \/ remove_from_finding_group(f)
           \/ \E g \in Groups : add_to_finding_group(f, g)
           \/ \E o \in Objects : push_page(o)
  <2>1. /\ UNCHANGED <<finding, issue, link, change, command>> /\ clock' = clock
        /\ webhooks' = webhooks /\ job' = job
    BY <1>4 DEF remove_from_finding_group, add_to_finding_group, push_page
  <2> QED BY <1>1, <2>1, UnchangedParts, TasksMove
<1> QED BY <1>2, <1>3, <1>4

LEMMA TasksKeepInv ==
    ASSUME SyncInv, Tasks
    PROVE  SyncInv'
<1>1. /\ DOMAIN job = Workers
      /\ \A w \in Workers : job[w].stage /= "idle" =>
             job[w].obj \in Objects /\ job[w].issue \in Created
      /\ \A o \in Objects : link[o] \in Created \cup {None}
      /\ \A i \in Created : i \in IssueIds /\ issue[i].resolution \in Resolutions
  BY DEF SyncInv, TypeOK, LinksOK, Created, Issue
<1>2. ASSUME NEW f \in Findings, post_process_finding_save(f)
      PROVE  SyncInv'
  BY <1>1, <1>2, UnchangedParts, TasksMove DEF post_process_finding_save
<1>3. ASSUME NEW w \in Workers, Fail(w)
      PROVE  SyncInv'
  BY <1>1, <1>3, UnchangedParts, TasksMove DEF Fail, Idle
<1>4. ASSUME NEW w \in Workers, NEW o \in Objects, add_jira_issue(w, o)
      PROVE  SyncInv'
  <2>1. CASE ~can_be_pushed_to_jira(o)
    BY <1>1, <1>4, <2>1, UnchangedParts, TasksMove DEF add_jira_issue
  <2>2. CASE can_be_pushed_to_jira(o)
    <3>1. PICK i \in IssueIds :
              /\ job' = [job EXCEPT ![w] = [stage |-> "created", obj |-> o, issue |-> i]]
              /\ issue' = [issue EXCEPT ![i] = [resolution |-> Open, updated |-> Now]]
      BY <1>4, <2>2 DEF add_jira_issue
    <3> QED BY <1>1, <1>4, <2>2, <3>1, IssueUpdated DEF add_jira_issue, Resolutions
  <2> QED BY <2>1, <2>2
<1>5. ASSUME NEW w \in Workers, NEW o \in Objects, update_jira_issue(w, o)
      PROVE  SyncInv'
  <2>1. job' = job \/ (link[o] /= None /\ \E row : job' = [job EXCEPT ![w] =
                          [stage |-> "read", obj |-> o, issue |-> link[o], row |-> row]])
    BY <1>5 DEF update_jira_issue
  <2> QED BY <1>1, <1>5, <2>1, UnchangedParts, TasksMove DEF update_jira_issue
<1>6. ASSUME NEW w \in Workers, overwrite_issue(w)
      PROVE  SyncInv'
  <2>1. job[w].obj \in Objects /\ job[w].issue \in Created
    BY <1>1, <1>6 DEF overwrite_issue
  <2>2. Update(job[w].issue, issue[job[w].issue].resolution)
    BY <1>6 DEF overwrite_issue
  <2>3. DOMAIN job' = Workers /\ \A v \in Workers : \/ job'[v] = job[v]
                                                    \/ job'[v].obj \in Objects /\ job'[v].issue \in Created
    BY <1>1, <1>6, <2>1 DEF overwrite_issue
  <2> DEFINE i == job[w].issue
             r == issue[job[w].issue].resolution
  <2>4. i \in IssueIds /\ r \in Resolutions
    BY <1>1, <2>1
  <2>5. /\ UNCHANGED <<finding, link, change, command>> /\ clock' = Now
        /\ issue' = [issue EXCEPT ![i] = [resolution |-> r, updated |-> Now]]
        /\ webhooks' = Append(webhooks, Event(i, r))
    BY <1>6, <2>2 DEF overwrite_issue, Update
  <2> HIDE DEF i, r
  <2> QED BY <2>3, <2>4, <2>5, IssueUpdated
<1>7. ASSUME NEW w \in Workers, push_status_to_jira(w)
      PROVE  SyncInv'
  <2>1. job[w].obj \in Objects /\ job[w].issue \in Created
    BY <1>1, <1>7 DEF push_status_to_jira
  <2>2. DOMAIN job' = Workers /\ \A v \in Workers : \/ job'[v] = job[v] \/ job'[v].stage = "idle"
                                                    \/ job'[v].obj \in Objects /\ job'[v].issue \in Created
    BY <1>1, <1>7, <2>1 DEF push_status_to_jira, Idle
  <2>3. CASE UNCHANGED <<issue, webhooks, clock>>
    BY <1>7, <2>2, <2>3, UnchangedParts, TasksMove DEF push_status_to_jira
  <2>4. CASE ~UNCHANGED <<issue, webhooks, clock>>
    <3>1. \E resolved \in BOOLEAN : Update(job[w].issue, Transitioned(resolved).resolution)
      BY <1>7, <2>4 DEF push_status_to_jira, ResolvedNow, Resolved
    <3>2. PICK r \in Resolutions : Update(job[w].issue, r)
      BY <3>1 DEF Transitioned, Resolutions
    <3> QED BY <1>1, <1>7, <2>1, <2>2, <3>2, IssueUpdated DEF push_status_to_jira, Update
  <2> QED BY <2>3, <2>4
<1>8. ASSUME NEW w \in Workers, save_link(w) \/ save_change(w)
      PROVE  SyncInv'
  <2>1. /\ job[w].obj \in Objects /\ job[w].issue \in Created
        /\ DOMAIN job' = Workers /\ \A v \in Workers : job'[v] = job[v] \/ job'[v].stage = "idle"
    BY <1>1, <1>8 DEF save_link, save_change, Step, Idle
  <2>2. /\ UNCHANGED <<finding, issue, webhooks, command>>
        /\ \/ UNCHANGED <<link, change, clock>>
           \/ /\ link' = [link EXCEPT ![job[w].obj] = job[w].issue]
              /\ change' = [change EXCEPT ![job[w].obj] = Now]
              /\ clock' = Now
    BY <1>8 DEF save_link, save_change
  <2> QED BY <2>1, <2>2, UnchangedParts, TasksMove, LinkSaved
<1> QED BY <1>2, <1>3, <1>4, <1>5, <1>6, <1>7, <1>8 DEF Tasks, Work

\* An event that comes late carries an old date, and one that does not makes the rows agree.
LEMMA DeliverKeepsInv ==
    ASSUME SyncInv, Deliver
    PROVE  SyncInv'
<1> PICK n \in DOMAIN webhooks : webhook(n) \/ Lose(n)
  BY DEF Deliver
<1> DEFINE e == webhooks[n]
<1>1. /\ webhooks \in Seq(Events) /\ e \in Events /\ e \in Range(webhooks) /\ Truthful(e)
      /\ clock \in Nat /\ Now \in Nat /\ clock < Now /\ DOMAIN job = Workers
  <2>1. webhooks \in Seq(Events) /\ clock \in Nat /\ Now \in Nat /\ clock < Now /\ DOMAIN job = Workers
    BY DEF SyncInv, TypeOK, Events, Now
  <2>2. e \in Range(webhooks) /\ e \in Events
    BY <2>1 DEF Range
  <2> QED BY <2>1, <2>2 DEF SyncInv, EventsOK
<1>2. webhooks' = Without(webhooks, n)
  BY DEF webhook, Lose
<1>3. EventStep
  BY <1>1, <1>2, WithoutKeeps DEF EventStep
<1>4. CASE UNCHANGED <<finding, change, clock>>
  <2>1. UNCHANGED <<issue, link, command, job>>
    BY DEF webhook, Lose
  <2> QED BY <1>1, <1>3, <1>4, <2>1, TasksMove
<1>5. ASSUME NEW o \in Objects, {p \in Objects : link[p] = e.issue} = {o}, webhook(n),
             finding' = [f \in Findings |-> IF f \in Members(o)
                                            THEN Processed(finding[f], e.resolution, e.updated)
                                            ELSE finding[f]],
             change' = IF Members(o) = {} THEN change ELSE [change EXCEPT ![o] = e.updated],
             clock' = IF finding' = finding THEN clock ELSE Now
      PROVE  SyncInv'
  <2>1. \A f \in Findings : LET row == Processed(finding[f], e.resolution, e.updated) IN
            Stamps(finding[f], row) /\ Alike(row, e.resolution)
    BY <1>1, ProcessedStamps DEF SyncInv, TypeOK, RowsOK, Events
  <2>2. \A f \in Findings : /\ finding'[f] = finding[f] \/ Stamps(finding[f], finding'[f])
                            /\ f \in Members(o) => Alike(finding'[f], e.resolution)
    BY <1>5, <2>1
  <2>3. /\ UNCHANGED <<issue, link, command, job>>
        /\ clock' \in Nat /\ clock <= clock'
        /\ finding' /= finding => Now <= clock'
    BY <1>1, <1>5 DEF webhook
  <2>4. finding' \in [Findings -> Row]
    BY <1>5, <2>2 DEF Stamps, SyncInv, TypeOK
  <2>5. \A f \in Findings : finding'[f] = finding[f]
                            \/ (Stamps(finding[f], finding'[f]) /\ Now <= clock')
    BY <2>2, <2>3
  <2>6. e.updated \in Nat /\ e.updated <= clock
    BY <1>1 DEF Truthful, Events
  <2>7. LinkStep
    <3>1. \A p \in Objects : change[p] \in Nat /\ change[p] <= clock
      BY DEF SyncInv, TypeOK, LinksOK
    <3>2. change' \in [Objects -> Nat] /\ \A p \in Objects : change'[p] <= clock'
      BY <1>1, <1>5, <2>3, <2>6, <3>1 DEF SyncInv, TypeOK
    <3> QED BY <1>1, <2>3, <3>2 DEF LinkStep, SyncInv, TypeOK
  <2>8. ASSUME NEW f \in Findings
        PROVE  Told(f)
    <3>1. CASE f = o
      <4>1. f \in Members(o) /\ link'[f] = e.issue /\ change'[f] = e.updated
        BY <1>5, <2>3, <3>1 DEF Members, SyncInv, TypeOK
      <4>2. e.updated = issue'[e.issue].updated => Alike(finding'[f], issue'[e.issue].resolution)
        BY <1>1, <2>2, <2>3, <4>1 DEF Truthful
      <4> QED BY <4>1, <4>2 DEF Told
    <3>2. CASE f /= o
      BY <1>5, <2>3, <3>2 DEF Told, SyncInv, TypeOK
    <3> QED BY <3>1, <3>2
  <2>9. SafeStep
    BY <1>3, <2>3, <2>4, <2>5, <2>7, <2>8, UnchangedParts DEF SafeStep
  <2> QED BY <2>9, SafeStepKeepsInv
<1> QED BY <1>4, <1>5 DEF webhook, Lose

LEMMA JiraKeepsInv ==
    ASSUME SyncInv, NEW i \in IssueIds, JiraUser(i)
    PROVE  SyncInv'
<1>1. i \in Created /\ issue[i].resolution \in Resolutions /\ DOMAIN job = Workers
  BY DEF JiraUser, SyncInv, TypeOK, Created, Issue
<1>2. PICK r \in Resolutions : Update(i, r)
  BY <1>1 DEF JiraUser, Resolutions
<1> QED BY <1>1, <1>2, IssueUpdated DEF JiraUser, Update

-----------------------------------------------------------------------------
(* The command. *)

\* The command goes to the next finding, starts or ends.
LEMMA CommandMoves ==
    ASSUME SyncInv, CommandStep, UNCHANGED <<finding, issue, link, change, webhooks, job, clock>>
    PROVE  SyncInv'
<1>1. SafeStep
  BY UnchangedParts DEF SafeStep
<1> QED BY <1>1, SafeStepKeepsInv

LEMMA StartKeepsInv ==
    ASSUME SyncInv, jira_status_reconciliation
    PROVE  SyncInv'
<1>1. command' = [stage |-> "running", todo |-> {f \in Findings : link[f] /= None},
                  finding |-> finding, link |-> link, change |-> change, action |-> None]
  BY DEF jira_status_reconciliation
<1>2. /\ command' \in Commands
      /\ \A f \in command'.todo : command'.link[f] \in Created /\ Sound(command'.finding[f].s)
  BY <1>1 DEF Commands, SyncInv, TypeOK, RowsOK, LinksOK, Objects
<1>3. CommandStep
  BY <1>2 DEF CommandStep
<1> QED BY <1>3, CommandMoves DEF jira_status_reconciliation

\* What the command may do to a finding and its issue; they have been seen to differ unless
\* it leaves both alone.
Differ(f) ==
    LET row == command.finding[f]
    IN  ~row.s.risk_accepted /\ row.s.active /= (issue[command.link[f]].resolution = Open)

Marked(f, date) ==
    /\ link[f] \in {None, command.link[f]}
    /\ change' = [change EXCEPT ![f] = date]
    /\ link' = [link EXCEPT ![f] = command.link[f]]

Left == UNCHANGED <<finding, issue, webhooks, link, change, clock>>

Imported(f) ==
    LET updated == issue[command.link[f]].updated
        new == Processed(command.finding[f], issue[command.link[f]].resolution, updated)
    IN  /\ finding' = IF new = command.finding[f] THEN finding ELSE [finding EXCEPT ![f] = new]
        /\ Marked(f, updated) /\ clock' = Now
        /\ UNCHANGED <<issue, webhooks>>

PushedBack(f) ==
    LET i == command.link[f]
        r == Transitioned(Resolved(command.finding[f].s)).resolution
    IN  /\ issue' = [issue EXCEPT ![i] = [resolution |-> r, updated |-> Now]]
        /\ webhooks' = Append(webhooks, Event(i, r))
        /\ Marked(f, Now + 1) /\ clock' = Now + 1
        /\ UNCHANGED finding

\* The finding has another link by now.
Replaced(f) == link[f] \notin {None, command.link[f]} /\ UNCHANGED <<link, change>>

RefusedImport(f) ==
    LET row == command.finding[f]
        new == Processed(row, issue[command.link[f]].resolution, issue[command.link[f]].updated)
    IN  /\ Replaced(f) /\ clock' = Now /\ UNCHANGED <<issue, webhooks>>
        /\ finding' = finding \/ (new /= row /\ finding' = [finding EXCEPT ![f] = new])

RefusedPush(f) ==
    LET i == command.link[f]
        r == Transitioned(Resolved(command.finding[f].s)).resolution
    IN  /\ issue' = [issue EXCEPT ![i] = [resolution |-> r, updated |-> Now]]
        /\ webhooks' = Append(webhooks, Event(i, r))
        /\ Replaced(f) /\ clock' = Now + 1
        /\ UNCHANGED finding

LEMMA CommandFacts ==
    ASSUME SyncInv, command.stage = "running", NEW f \in command.todo
    PROVE  /\ command \in Commands /\ f \in Findings /\ f \in Objects
           /\ command.finding[f] \in Row /\ Sound(command.finding[f].s)
           /\ command.finding[f].s.active \in BOOLEAN
           /\ command.link[f] \in Created
           /\ issue[command.link[f]].resolution \in Resolutions
           /\ issue[command.link[f]].updated \in Nat
           /\ issue[command.link[f]].updated <= clock
<1>1. command \in Commands
  BY DEF SyncInv, TypeOK, Done
<1>2. f \in Findings /\ f \in Objects /\ command.finding[f] \in Row
      /\ Sound(command.finding[f].s) /\ command.link[f] \in Created
  BY <1>1 DEF Commands, SyncInv, CommandOK, Objects
<1>3. issue[command.link[f]] \in Issue /\ issue[command.link[f]].updated <= clock
  BY <1>2 DEF SyncInv, TypeOK, IssuesOK, Created
<1> QED BY <1>1, <1>2, <1>3 DEF Row, Status, Issue

LEMMA ReconcileDoes ==
    ASSUME SyncInv, NEW f \in Findings, reconcile(f)
    PROVE  /\ command.stage = "running" /\ f \in command.todo /\ job' = job
           /\ CommandStep
           /\ \/ ~Differ(f) /\ Left
              \/ Differ(f) /\ (Imported(f) \/ RefusedImport(f))
              \/ /\ Differ(f) /\ Left
                 /\ Resolved(command.finding[f].s) = (issue[command.link[f]].resolution /= Open)
              \/ /\ Differ(f) /\ (PushedBack(f) \/ RefusedPush(f))
                 /\ Resolved(command.finding[f].s) /= (issue[command.link[f]].resolution /= Open)
              \/ /\ Differ(f) /\ Left
                 /\ ActionFor(command.finding[f], command.change[f], issue[command.link[f]].updated) = None
<1> DEFINE row == command.finding[f]
           i == command.link[f]
           action == ActionFor(row, command.change[f], issue[i].updated)
           Next_(a) == command' = [command EXCEPT !.todo = @ \ {f}, !.action = a]
           OneStep == Next_(command.action) \/ Next_(action) \/ command' = Done
<1>1. command.stage = "running" /\ f \in command.todo /\ job' = job
  BY DEF reconcile
<1>2. command \in Commands /\ command.link[f] \in Created /\ i \in IssueIds
  BY <1>1, CommandFacts DEF Created
<1>3. action \in {None, "import", "push"}
  BY <1>2 DEF ActionFor, Commands
<1>4. ASSUME NEW a \in {None, "import", "push"}, Next_(a)
      PROVE  CommandStep
  <2>1. /\ command' \in Commands /\ command'.todo = command.todo \ {f}
        /\ command'.link = command.link /\ command'.finding = command.finding
    BY <1>2, <1>4 DEF Commands
  <2> QED BY <1>1, <2>1 DEF CommandStep
<1>5. command' = Done => CommandStep
  BY DEF CommandStep, Done
<1>6. /\ OneStep
      /\ \/ ~Differ(f) /\ Left
         \/ Differ(f) /\ (Imported(f) \/ RefusedImport(f))
         \/ Differ(f) /\ Left /\ Resolved(row.s) = (issue[i].resolution /= Open)
         \/ /\ Differ(f) /\ (PushedBack(f) \/ RefusedPush(f))
            /\ Resolved(row.s) /= (issue[i].resolution /= Open)
         \/ Differ(f) /\ Left /\ action = None
  <2> DEFINE resolution == issue[i].resolution
             updated == issue[i].updated
             new == Processed(row, resolution, updated)
             refused == link[f] \notin {None, i}
             Mark(d) == IF refused THEN command' = Done /\ UNCHANGED <<link, change>>
                        ELSE /\ Next_(action)
                             /\ change' = [change EXCEPT ![f] = d]
                             /\ link' = [link EXCEPT ![f] = i]
  <2>1. CASE ~Differ(f)
    BY <2>1 DEF reconcile, Differ, Left
  <2>2. CASE Differ(f)
    <3>0. ASSUME NEW d, Mark(d)
          PROVE  OneStep /\ (Marked(f, d) \/ Replaced(f))
      BY <3>0 DEF Marked, Replaced
    <3>1. CASE action = "import" /\ Mark(updated)
               /\ finding' = (IF new = row \/ (refused /\ ~new.s.risk_accepted) THEN finding
                              ELSE [finding EXCEPT ![f] = new])
               /\ clock' = Now /\ UNCHANGED <<issue, webhooks>>
      <4>1. CASE refused
        <5>1. Replaced(f)
          BY <3>1, <4>1 DEF Replaced
        <5> HIDE DEF Mark
        <5> QED BY <2>2, <3>0, <3>1, <5>1 DEF RefusedImport
      <4>2. CASE ~refused
        <5>1. Marked(f, updated)
          BY <3>1, <4>2 DEF Marked
        <5> HIDE DEF Mark
        <5> QED BY <2>2, <3>0, <3>1, <4>2, <5>1 DEF Imported
      <4> QED BY <4>1, <4>2
    <3>2. CASE action = "push" /\ Next_(action) /\ UNCHANGED finding
               /\ Resolved(row.s) = (resolution /= Open)
               /\ UNCHANGED <<link, change, issue, webhooks, clock>>
      BY <2>2, <3>2 DEF Left
    <3>3. CASE action = "push" /\ UNCHANGED finding
               /\ Resolved(row.s) /= (resolution /= Open)
               /\ issue' = [issue EXCEPT ![i] = Transitioned(Resolved(row.s))]
               /\ webhooks' = Append(webhooks, Event(i, issue'[i].resolution))
               /\ Mark(Now + 1) /\ clock' = Now + 1
      <4>1. Transitioned(Resolved(row.s)) =
                [resolution |-> Transitioned(Resolved(row.s)).resolution, updated |-> Now]
        BY DEF Transitioned
      <4>2. issue'[i] = Transitioned(Resolved(row.s))
        BY <1>2, <3>3 DEF SyncInv, TypeOK
      <4>3. OneStep /\ (Marked(f, Now + 1) \/ Replaced(f))
        BY <3>0, <3>3
      <4> HIDE DEF Mark
      <4> QED BY <2>2, <3>3, <4>1, <4>2, <4>3 DEF PushedBack, RefusedPush
    <3>4. CASE action = None /\ command' = Done /\ Left
      BY <2>2, <3>4
    <3> QED BY <2>2, <3>1, <3>2, <3>3, <3>4 DEF reconcile, Differ, Left
  <2> QED BY <2>1, <2>2
<1>7. CommandStep
  BY <1>2, <1>3, <1>4, <1>5, <1>6 DEF Commands
<1> QED BY <1>1, <1>6, <1>7

\* Importing a status that differs saves a row that agrees, with the date of now.
LEMMA ImportAgrees ==
    ASSUME SyncInv, NEW f \in Findings, command.stage = "running", f \in command.todo,
           Differ(f), Imported(f) \/ (RefusedImport(f) /\ finding' /= finding)
    PROVE  /\ Stamps(finding[f], finding'[f]) /\ finding'[f].last_status_update = Now
           /\ finding' = [finding EXCEPT ![f] = finding'[f]]
           /\ Alike(finding'[f], issue[command.link[f]].resolution)
<1> DEFINE row == command.finding[f]
           resolution == issue[command.link[f]].resolution
           new == Processed(row, resolution, issue[command.link[f]].updated)
<1>1. Stamps(row, new) /\ Alike(new, resolution) /\ Now \in Nat
  <2>1. /\ row \in Row /\ Sound(row.s) /\ resolution \in Resolutions
        /\ issue[command.link[f]].updated \in Nat
    BY CommandFacts
  <2>2. clock \in Nat /\ Now \in Nat
    BY DEF SyncInv, TypeOK, Now
  <2> QED BY <2>1, <2>2, ProcessedStamps
<1>2. ~Alike(row, resolution)
  BY DEF Differ, Alike
<1>3. new /= row /\ new.last_status_update = Now
  BY <1>1, <1>2 DEF Stamps, Alike
<1>4. finding' = [finding EXCEPT ![f] = new] /\ finding'[f] = new
  BY <1>3 DEF Imported, RefusedImport, SyncInv, TypeOK
<1>5. Stamps(finding[f], new)
  BY <1>1, <1>3 DEF Stamps
<1> QED BY <1>1, <1>3, <1>4, <1>5

LEMMA MarkedLinks ==
    ASSUME SyncInv, NEW f \in Findings, command.stage = "running", f \in command.todo,
           NEW date \in Nat, Marked(f, date), clock' \in Nat, date <= clock', clock <= clock',
           Created \subseteq Created', job' = job
    PROVE  /\ LinkStep
           /\ change'[f] = date
           /\ link'[f] = command.link[f]
           /\ \A g \in Findings \ {f} : Told(g)
<1>1. f \in Objects /\ command.link[f] \in Created /\ command.link[f] \in Link
  BY CommandFacts DEF Created, Link
<1>2. link' \in [Objects -> Link] /\ change' \in [Objects -> Nat]
  BY <1>1 DEF Marked, SyncInv, TypeOK
<1>3. \A o \in Objects : (link'[o] = link[o] \/ link'[o] \in Created) /\ change'[o] <= clock'
  <2>1. \A o \in Objects : change[o] \in Nat /\ change[o] <= clock /\ clock \in Nat
    BY DEF SyncInv, TypeOK, LinksOK
  <2> QED BY <1>1, <2>1 DEF Marked, SyncInv, TypeOK
<1>4. LinkStep
  BY <1>2, <1>3 DEF LinkStep, SyncInv, TypeOK
<1> QED BY <1>1, <1>4 DEF Marked, SyncInv, TypeOK, Told, Objects

LEMMA ReconcileKeepsInv ==
    ASSUME SyncInv, NEW f \in Findings, reconcile(f)
    PROVE  SyncInv'
<1> DEFINE i == command.link[f]
           updated == issue[i].updated
<1>1. command.stage = "running" /\ f \in command.todo /\ job' = job /\ CommandStep
  BY ReconcileDoes
<1>2. /\ clock \in Nat /\ Now \in Nat /\ clock < Now
      /\ i \in Created /\ i \in IssueIds /\ updated \in Nat /\ updated <= clock
  BY <1>1, CommandFacts DEF SyncInv, TypeOK, Now, Created
<1>3. CASE Left
  BY <1>1, <1>3, CommandMoves DEF Left
<1>4. CASE Differ(f) /\ (Imported(f) \/ RefusedImport(f))
  <2>1. \/ RefusedImport(f) /\ finding' = finding
        \/ /\ Stamps(finding[f], finding'[f]) /\ finding'[f].last_status_update = Now
           /\ finding' = [finding EXCEPT ![f] = finding'[f]]
    BY <1>1, <1>4, ImportAgrees
  <2>2. UNCHANGED <<issue, webhooks>> /\ clock' = Now
    BY <1>4 DEF Imported, RefusedImport
  <2>3. Created' = Created
    BY <2>2 DEF Created
  <2>4. LinkStep /\ \A g \in Findings : Told(g)
    <3>1. CASE UNCHANGED <<link, change>>
      BY <1>1, <1>2, <2>2, <3>1, UnchangedParts
    <3>2. CASE Imported(f)
      <4>1. Marked(f, updated)
        BY <3>2 DEF Imported
      <4>2. LinkStep /\ change'[f] = updated /\ \A g \in Findings \ {f} : Told(g)
        BY <1>1, <1>2, <2>2, <2>3, <4>1, MarkedLinks
      <4>3. finding'[f].last_status_update = Now
        BY <1>1, <1>4, <3>2, ImportAgrees
      <4>4. Told(f)
        BY <1>2, <4>2, <4>3 DEF Told
      <4> QED BY <4>2, <4>4
    <3> QED BY <1>4, <3>1, <3>2 DEF RefusedImport, Replaced
  <2>5. /\ finding' \in [Findings -> Row]
        /\ \A g \in Findings : \/ finding'[g] = finding[g]
                               \/ Stamps(finding[g], finding'[g]) /\ Now <= clock'
    <3>1. CASE finding' = finding
      BY <3>1, UnchangedParts
    <3>2. CASE Stamps(finding[f], finding'[f]) /\ finding' = [finding EXCEPT ![f] = finding'[f]]
      <4>1. PICK new : new = finding'[f]
        OBVIOUS
      <4>2. new \in Row /\ finding \in [Findings -> Row] /\ finding' = [finding EXCEPT ![f] = new]
        BY <3>2, <4>1 DEF Stamps, SyncInv, TypeOK
      <4> QED BY <1>2, <2>2, <3>2, <4>1, <4>2
    <3> QED BY <2>1, <3>1, <3>2
  <2>6. SafeStep
    BY <1>1, <2>2, <2>4, <2>5, UnchangedParts DEF SafeStep
  <2> QED BY <2>6, SafeStepKeepsInv
<1>5. CASE PushedBack(f) \/ RefusedPush(f)
  <2>1. PICK r \in Resolutions :
            /\ issue' = [issue EXCEPT ![i] = [resolution |-> r, updated |-> Now]]
            /\ webhooks' = Append(webhooks, Event(i, r))
    BY <1>5 DEF PushedBack, RefusedPush, Transitioned, Resolutions
  <2>2. clock' = Now + 1 /\ finding' = finding /\ (Marked(f, Now + 1) \/ UNCHANGED <<link, change>>)
    BY <1>5 DEF PushedBack, RefusedPush, Replaced
  <2>3. /\ issue' \in [IssueIds -> Issue \cup {None}] /\ Created \subseteq Created'
        /\ issue'[i] = [resolution |-> r, updated |-> Now]
    <3>1. [resolution |-> r, updated |-> Now] \in Issue
      BY <1>2 DEF Issue
    <3>2. [resolution |-> r, updated |-> Now] /= None
      BY <3>1, NoneAssumption DEF Issue, Resolutions
    <3> QED BY <1>2, <2>1, <3>1, <3>2 DEF SyncInv, TypeOK, Created
  <2>4. LinkStep /\ \A g \in Findings : Told(g)
    <3>1. CASE UNCHANGED <<link, change>>
      <4>1. \A g \in Findings : Told(g)
        BY <3>1, UnchangedParts
      <4>2. clock <= clock' /\ clock' \in Nat
        BY <1>2, <2>2
      <4> QED BY <1>1, <3>1, <4>1, <4>2, UnchangedParts
    <3>2. CASE Marked(f, Now + 1)
      <4>1. LinkStep /\ change'[f] = Now + 1 /\ (\A g \in Findings \ {f} : Told(g))
            /\ link'[f] = i
        BY <1>1, <1>2, <2>2, <2>3, <3>2, MarkedLinks
      <4>2. Told(f)
        BY <1>2, <2>3, <4>1 DEF Told
      <4> QED BY <4>1, <4>2
    <3> QED BY <2>2, <3>1, <3>2
  <2>6. EventStep
    <3>1. webhooks \in Seq(Events) /\ Event(i, r) \in Events
      BY <1>2 DEF SyncInv, TypeOK, Events, Event
    <3>2. webhooks' \in Seq(Events)
          /\ \A e \in Range(webhooks') : e \in Range(webhooks) \/ e = Event(i, r)
      BY <2>1, <3>1, AppendKeeps
    <3> QED BY <1>2, <2>2, <2>3, <3>2 DEF EventStep, Event
  <2>7. IssueStep /\ clock' \in Nat /\ clock <= clock'
    <3>1. clock' \in Nat /\ clock <= clock' /\ Now <= clock'
      BY <1>2, <2>2
    <3>2. \E j \in IssueIds, q \in Resolutions :
              issue' = [issue EXCEPT ![j] = [resolution |-> q, updated |-> Now]]
      BY <1>2, <2>1
    <3> QED BY <2>2, <3>1, <3>2 DEF IssueStep
  <2>8. SafeStep
    BY <1>1, <2>2, <2>4, <2>6, <2>7, UnchangedParts DEF SafeStep
  <2> QED BY <2>8, SafeStepKeepsInv
<1> QED BY <1>3, <1>4, <1>5, ReconcileDoes

-----------------------------------------------------------------------------
(* The invariant. *)

LEMMA ReportedIsOpen ==
    Reported \in Status /\ Reported.active /\ Sound(Reported)
<1> DEFINE s == [active |-> TRUE, verified |-> TRUE, false_p |-> FALSE,
                 out_of_scope |-> FALSE, is_mitigated |-> FALSE,
                 mitigated |-> FALSE, risk_accepted |-> FALSE,
                 duplicate |-> FALSE, linked |-> FALSE]
           Plain(t) == /\ t \in Status /\ t.active /\ ~t.false_p /\ ~t.out_of_scope
                       /\ ~t.is_mitigated /\ ~t.mitigated /\ ~t.duplicate
<1>1. ASSUME NEW t, Plain(t), NEW c
      PROVE  Plain(update_finding_status(t, c))
  <2> DEFINE u == unmitigated(t, c)
             d == dated(u)
             a == activated(d, c)
             r == rejected(a, c)
  <2>1. Plain(u)
    BY <1>1 DEF unmitigated, Status
  <2> HIDE DEF u
  <2>2. Plain(d)
    BY <2>1 DEF dated, Status
  <2> HIDE DEF d
  <2>3. Plain(a)
    BY <2>2 DEF activated, Status
  <2> HIDE DEF a
  <2>4. Plain(r)
    BY <2>3 DEF rejected
  <2> HIDE DEF r
  <2>5. Plain(no_duplicate(r))
    BY <2>4 DEF no_duplicate, Status
  <2> HIDE DEF Plain
  <2> QED BY <2>5 DEF update_finding_status, r, a, d, u
<1>2. Plain(s)
  BY DEF Status
<1> HIDE DEF s
<1>3. ASSUME NEW old, NEW new, Plain(new), NEW touched
      PROVE  Plain(saved(old, new, touched))
  <2> HIDE DEF Plain
  <2> QED BY <1>1, <1>3 DEF saved
<1>4. Plain(created(s))
  <2> HIDE DEF Plain
  <2> QED BY <1>1, <1>2, <1>3 DEF created
<1> QED BY <1>4 DEF Reported, s, Sound

LEMMA InitSync ==
    ASSUME Init
    PROVE  SyncInv
<1> DEFINE start == [s |-> Reported, last_status_update |-> 1, last_reviewed |-> 0, mitigated |-> 0]
<1>1. PICK os \in SUBSET Objects :
          /\ link = [o \in Objects |-> IF o \in os THEN 1 ELSE None]
          /\ issue = [i \in IssueIds |-> IF os /= {} /\ i = 1
                                         THEN [resolution |-> Open, updated |-> 1] ELSE None]
  BY DEF Init
<1>2. /\ finding = [f \in Findings |-> start] /\ change = [o \in Objects |-> 0]
      /\ webhooks = <<>> /\ command = Done /\ clock = 1 /\ job = [w \in Workers |-> Idle]
  BY DEF Init
<1>3. start \in Row /\ start.s.active /\ Sound(start.s) /\ start.last_status_update = 1
  BY ReportedIsOpen DEF Row
<1> HIDE DEF start
<1>4. 1 \in IssueIds
  <2>1. MaxIssues \in Nat \ {0}
    BY JiraAssumption
  <2> QED BY <2>1 DEF IssueIds
<1>5. [resolution |-> Open, updated |-> 1] \in Issue /\ [resolution |-> Open, updated |-> 1] /= None
  <2>1. [resolution |-> Open, updated |-> 1] \in Issue
    BY DEF Issue, Resolutions
  <2> QED BY <2>1, NoneAssumption DEF Issue, Resolutions
<1>6. Created = IF os = {} THEN {} ELSE {1}
  BY <1>1, <1>4, <1>5 DEF Created
<1>7. TypeOK
  BY <1>1, <1>2, <1>3, <1>4, <1>5 DEF TypeOK, Link
<1>8. RowsOK
  BY <1>2, <1>3 DEF RowsOK
<1>9. IssuesOK
  BY <1>1, <1>2, <1>4, <1>6 DEF IssuesOK
<1>10. EventsOK
  BY <1>2 DEF EventsOK, Range
<1>11. LinksOK
  BY <1>1, <1>2, <1>6 DEF LinksOK, Idle
<1>12. CommandOK
  BY <1>2 DEF CommandOK, Done
<1>13. DatesTell
  <2>1. \A f \in Findings : finding[f].last_status_update = 1
    BY <1>2, <1>3
  <2>2. \A f \in Findings : link[f] /= None => change[f] = 0 /\ issue[link[f]].updated = 1
    BY <1>1, <1>2, <1>4 DEF Objects
  <2> QED BY <2>1, <2>2 DEF DatesTell
<1> QED BY <1>7, <1>8, <1>9, <1>10, <1>11, <1>12, <1>13 DEF SyncInv

LEMMA StepKeepsSync ==
    ASSUME SyncInv, [Next]_vars
    PROVE  SyncInv'
<1>1. CASE Pages
  <2>1. CASE \E o \in Objects : push_page(o)
    <3>1. PICK o \in Objects : push_page(o)
      BY <2>1
    <3>2. /\ UNCHANGED <<finding, issue, link, change, command>> /\ clock' = clock
          /\ webhooks' = webhooks /\ job' = job
      BY <3>1 DEF push_page
    <3>3. DOMAIN job = Workers
      BY DEF SyncInv, TypeOK
    <3> QED BY <3>2, <3>3, UnchangedParts, TasksMove
  <2> QED BY <1>1, <2>1, StatusPagesKeepInv, OtherPagesKeepInv DEF Pages
<1>2. CASE Jira
  BY <1>2, JiraKeepsInv DEF Jira
<1>3. CASE Deliver
  BY <1>3, DeliverKeepsInv
<1>4. CASE Tasks
  BY <1>4, TasksKeepInv
<1>5. CASE Command
  <2>1. CASE command_ends
    <3>1. CommandStep
      BY <2>1 DEF command_ends, CommandStep, Done
    <3> QED BY <2>1, <3>1, CommandMoves DEF command_ends
  <2> QED BY <1>5, <2>1, StartKeepsInv, ReconcileKeepsInv DEF Command
<1>6. CASE UNCHANGED vars
  <2>1. CommandStep
    BY <1>6, UnchangedParts DEF vars
  <2> QED BY <1>6, <2>1, CommandMoves DEF vars
<1> QED BY <1>1, <1>2, <1>3, <1>4, <1>5, <1>6 DEF Next

-----------------------------------------------------------------------------
(* What the command has compared agrees. *)

\* If the two sides differ, and the last that happened to the finding was no review, one is newer.
LEMMA OneIsNewer ==
    ASSUME SyncInv, NEW f \in Findings, link[f] /= None, ~Reviewed(f),
           ~Alike(finding[f], issue[link[f]].resolution)
    PROVE  \/ JiraIsNewer(finding[f], change[f], issue[link[f]].updated)
           \/ DojoIsNewer(finding[f], change[f], issue[link[f]].updated)
<1> DEFINE updated == issue[link[f]].updated
           row == finding[f]
<1>1. /\ link[f] \in Created /\ updated \in Nat /\ change[f] \in Nat
      /\ row.last_status_update \in Nat /\ row.last_reviewed \in Nat
      /\ row.s.active \in BOOLEAN
  BY DEF SyncInv, TypeOK, LinksOK, Objects, Created, Issue, Row, Status
<1>2. ASSUME change[f] = updated
      PROVE  row.last_status_update > updated
  BY <1>2 DEF SyncInv, DatesTell
<1>3. row.last_status_update /= updated
  <2> SUFFICES ASSUME row.last_status_update = updated PROVE FALSE
    OBVIOUS
  <2>1. updated = 1 /\ row.last_status_update = 1
    BY <1>1 DEF SyncInv, DatesTell
  <2>2. row.s.active /\ issue[link[f]].resolution = Open
    BY <1>1, <2>1 DEF SyncInv, RowsOK, IssuesOK
  <2> QED BY <1>1, <2>2 DEF Alike
<1>4. row.last_reviewed <= row.last_status_update
  BY <1>1 DEF Reviewed
<1> QED BY <1>1, <1>2, <1>3, <1>4 DEF JiraIsNewer, DojoIsNewer

LEMMA Settles ==
    ASSUME SyncInv, NEW f \in Findings, reconcile(f),
           command.finding[f] = finding[f], command.link[f] = link[f],
           command.change[f] = change[f], ~Reviewed(f)
    PROVE  Agree(f)'
<1> DEFINE row == finding[f]
           i == link[f]
           resolution == issue[i].resolution
<1>1. /\ command.stage = "running" /\ f \in command.todo
      /\ row \in Row /\ Sound(row.s) /\ row.s.active \in BOOLEAN /\ i \in Created /\ i \in IssueIds
      /\ i /= None
  BY ReconcileDoes, CommandFacts, NoneAssumption DEF Created
<1>2. Resolved(row.s) <=> ~row.s.active
  BY <1>1 DEF Sound, Resolved
<1>3. Differ(f) <=> ~Alike(row, resolution)
  BY DEF Differ, Alike
<1>4. link'[f] = i /\ Alike(finding'[f], issue'[i].resolution)
  <2>1. CASE ~Differ(f) /\ Left
    BY <1>3, <2>1 DEF Left
  <2>2. CASE Differ(f) /\ Imported(f)
    <3>1. Alike(finding'[f], resolution)
      BY <1>1, <2>2, ImportAgrees
    <3>2. link'[f] = i /\ issue' = issue
      BY <1>1, <2>2 DEF Imported, Marked, SyncInv, TypeOK, Objects
    <3> QED BY <3>1, <3>2
  <2>3. CASE Differ(f) /\ Resolved(row.s) = (resolution /= Open)
    BY <1>1, <1>2, <2>3 DEF Differ
  <2>4. CASE Differ(f) /\ PushedBack(f)
    <3>1. link'[f] = i /\ finding'[f] = row
      BY <1>1, <2>4 DEF PushedBack, Marked, SyncInv, TypeOK, Objects
    <3>2. issue'[i].resolution = Transitioned(Resolved(row.s)).resolution
      BY <1>1, <2>4 DEF PushedBack, SyncInv, TypeOK
    <3>3. issue'[i].resolution = Open <=> row.s.active
      BY <1>2, <3>2 DEF Transitioned, Open
    <3> QED BY <1>1, <3>1, <3>3 DEF Alike
  <2>5. CASE Differ(f) /\ ActionFor(row, change[f], issue[i].updated) = None
    <3>1. JiraIsNewer(row, change[f], issue[i].updated) \/ DojoIsNewer(row, change[f], issue[i].updated)
      BY <1>1, <1>3, <2>5, OneIsNewer
    <3> QED BY <2>5, <3>1, NoneAssumption DEF ActionFor
  <2>6. ~RefusedImport(f) /\ ~RefusedPush(f)
    BY DEF RefusedImport, RefusedPush, Replaced
  <2> QED BY <2>1, <2>2, <2>3, <2>4, <2>5, <2>6, ReconcileDoes
<1>5. Members(f)' = {f}
  BY DEF Members
<1> QED BY <1>4, <1>5 DEF Agree, Alike

\* What jira_status_reconciliation has been through agrees with its issue, if neither the finding
\* nor its link changed after the query (JiraSync.ReconcileSettles): it never ends for want of a
\* source of truth, nor repeats the action of the finding before, unless there was a review.
THEOREM CommandSettles == Spec => ReconcileSettles
<1> DEFINE Settled == \A f \in Findings :
                /\ command.stage = "running" /\ reconcile(f)
                /\ command.finding[f] = finding[f] /\ command.link[f] = link[f]
                /\ command.change[f] = change[f] /\ ~Reviewed(f)
                => Agree(f)'
<1>1. Init => SyncInv
  BY InitSync
<1>2. SyncInv /\ [Next]_vars => SyncInv' /\ [Settled]_vars
  BY StepKeepsSync, Settles
<1> QED BY <1>1, <1>2, PTL DEF Spec, ReconcileSettles
=============================================================================
