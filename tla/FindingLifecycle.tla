--------------------------- MODULE FindingLifecycle ---------------------------
(***************************************************************************)
(* The status of one finding under the pages, API calls and tasks that     *)
(* change it, but for those with a module of their own (imports, risk      *)
(* acceptances, JIRA, the false positive history).  A request loads the    *)
(* whole row, changes fields and writes it all back; others may write in   *)
(* between.                                                                *)
(***************************************************************************)
EXTENDS FindingStatus

CONSTANTS
    Workers,                \* processes serving requests or tasks
    None,
    SimpleRiskAcceptance,   \* product.enable_simple_risk_acceptance
    EditableMitigatedData   \* settings.EDITABLE_MITIGATED_DATA

ASSUME NoneAssumption == None \notin Status
ASSUME SwitchAssumption == {SimpleRiskAcceptance, EditableMitigatedData} \subseteq BOOLEAN

VARIABLES
    row,        \* the finding in the table
    loaded,     \* loaded[w]: the row as the request of w has read it
    past        \* the most unusual that has saved the finding

vars == <<row, loaded, past>>

\* pages and tasks only; then, while rejected, it inherited that it is neither
\* open nor fixed; then the API or a superuser's edit of dates
Pasts == {"pages", "inherited", "beyond"}
beyond == past = "beyond"
inherited == past = "inherited"

Stamp == {"mitigated", "mitigated_by"}

TypeOK ==
    /\ row \in Status
    /\ loaded \in [Workers -> Status \cup {None}]
    /\ past \in Pasts

Rejected(s) == s.false_p \/ s.out_of_scope

\* what an importer or a form may hand to save(): no link yet
Reported == {s \in Status : ~s.duplicate /\ ~s.linked /\ (s.mitigated => s.is_mitigated)
                            /\ ~(s.active /\ s.risk_accepted)}

Init ==
    /\ row \in {created(s) : s \in Reported}
    /\ loaded = [w \in Workers |-> None]
    /\ past = "pages"

Load(w) ==
    /\ loaded[w] = None
    /\ loaded' = [loaded EXCEPT ![w] = row]
    /\ UNCHANGED <<row, past>>

\* the end of a request: all columns are written
Write(w, new) ==
    /\ row' = new
    /\ loaded' = [loaded EXCEPT ![w] = None]

Save(w, new, touched) ==
    Write(w, saved(loaded[w], new, touched)) /\ UNCHANGED past

\* saves that may combine the fields as no page does
SaveBeyond(w, new, touched) ==
    /\ Write(w, saved(loaded[w], new, touched))
    /\ past' = "beyond"

-----------------------------------------------------------------------------
(* Pages.  s is the request's instance. *)

close_finding(w) ==
    \E fp, oos, dup \in BOOLEAN :
        Save(w, [loaded[w] EXCEPT
                    !.active = FALSE, !.mitigated = TRUE, !.is_mitigated = TRUE,
                    !.false_p = fp, !.out_of_scope = oos, !.duplicate = dup], Stamp)

defect_finding_review(w) ==
    \/ Save(w, [loaded[w] EXCEPT !.active = FALSE, !.verified = TRUE,
                                 !.mitigated = TRUE, !.is_mitigated = TRUE], Stamp)
    \/ Save(w, [loaded[w] EXCEPT !.active = TRUE, !.verified = TRUE,
                                 !.mitigated = FALSE, !.is_mitigated = FALSE], {})

reopen_finding(w) ==
    Save(w, [loaded[w] EXCEPT !.active = TRUE, !.mitigated = FALSE,
                              !.is_mitigated = FALSE], {"mitigated_by"})

request_finding_review(w) ==
    Save(w, [loaded[w] EXCEPT !.active = TRUE, !.verified = FALSE,
                              !.is_mitigated = FALSE], {})

\* the form has the five fields and no rule of its own; reviewers, who may clear, can
\* also be named when a finding is created or copied
clear_finding_review(w) ==
    \E a, v, fp, oos, dup \in BOOLEAN :
        Save(w, [loaded[w] EXCEPT !.active = a, !.verified = v, !.false_p = fp,
                                  !.out_of_scope = oos, !.duplicate = dup], {})

\* FindingForm.clean and the validate methods of the finding serializers
Valid(s) ==
    /\ ~((s.active \/ s.verified) /\ s.duplicate)
    /\ ~(s.false_p /\ s.verified)
    /\ ~(s.active /\ s.risk_accepted)

\* what passes in the fields that forms and serializers have in common
Entries ==
    {e \in [active : BOOLEAN, verified : BOOLEAN, false_p : BOOLEAN, out_of_scope : BOOLEAN,
            risk_accepted : BOOLEAN, duplicate : BOOLEAN] : Valid(e)}

Filled(s) ==
    {[s EXCEPT !.active = e.active, !.verified = e.verified, !.false_p = e.false_p,
               !.out_of_scope = e.out_of_scope, !.risk_accepted = e.risk_accepted,
               !.duplicate = e.duplicate] : e \in Entries}

\* The Duplicate box can be unticked only, Risk accepted is shown only when
\* it is set or simple acceptance is enabled.
EditForms(s) ==
    {t \in Filled(s) :
        /\ t.duplicate => s.duplicate
        /\ t.risk_accepted => s.risk_accepted \/ SimpleRiskAcceptance}

\* process_mitigated_data
Mitigates(t) == (~t.active \/ t.false_p \/ t.out_of_scope) /\ ~t.duplicate

\* When a duplicate is unticked the link goes too, and deduplication is not
\* started again.  A superuser may also edit the date.  (risk_unaccept never
\* runs: the form has already taken the flag off the instance it looks at.
\* See RiskAcceptance.)
edit_finding(w) ==
    \E t \in EditForms(loaded[w]) :
        LET new == [t EXCEPT !.linked = @ /\ ~(loaded[w].duplicate /\ ~t.duplicate)]
        IN  \/ Save(w, new, {})
            \/ /\ EditableMitigatedData
               /\ \E date \in BOOLEAN :
                    SaveBeyond(w, [new EXCEPT !.mitigated = date,
                                              !.is_mitigated = @ \/ Mitigates(t)], Stamp)

\* what the check boxes of the bulk edit menu can be brought to
BulkStatuses ==
    {b \in [active : BOOLEAN, verified : BOOLEAN, false_p : BOOLEAN,
            out_of_scope : BOOLEAN, is_mitigated : BOOLEAN] :
        /\ b.false_p \/ b.out_of_scope => b.is_mitigated /\ ~b.active /\ ~b.verified
        /\ ~(b.false_p /\ b.out_of_scope)
        /\ ~(b.active /\ b.is_mitigated)}

accepted(s) == [s EXCEPT !.risk_accepted = TRUE, !.active = FALSE]

unaccepted(s) ==
    IF ~s.risk_accepted THEN s
    ELSE [s EXCEPT !.risk_accepted = FALSE,
                   !.active = @ \/ ~(s.mitigated \/ s.false_p \/ s.out_of_scope)]

\* Two saves of one instance: the status, then the risk decision.
finding_bulk_update_all(w) ==
    \E b \in BulkStatuses :
        LET s == loaded[w]
            form == [s EXCEPT !.active = b.active, !.verified = b.verified,
                              !.false_p = b.false_p, !.out_of_scope = b.out_of_scope,
                              !.is_mitigated = b.is_mitigated]
            first == saved(s, form, {})
        IN  \/ Save(w, form, {})
            \/ /\ ~first.duplicate
               /\ \/ /\ SimpleRiskAcceptance
                     /\ Write(w, saved(form, accepted(first), {}))
                  \/ Write(w, saved(form, unaccepted(first), {}))
               /\ UNCHANGED past

risk_accept(w) ==
    \/ SimpleRiskAcceptance /\ Save(w, accepted(loaded[w]), {})
    \/ Save(w, unaccepted(loaded[w]), {})

-----------------------------------------------------------------------------
(* Deduplication, as far as it changes this finding. *)

mark_duplicate(w) ==
    Save(w, [loaded[w] EXCEPT !.duplicate = TRUE, !.linked = TRUE,
                              !.active = FALSE, !.verified = FALSE], {})

reset_duplicate(w) ==
    /\ loaded[w].duplicate
    /\ Save(w, [loaded[w] EXCEPT !.duplicate = FALSE, !.linked = FALSE,
                                 !.active = TRUE], {})

\* as a member of the cluster, as the only finding of none, or as the original
set_finding_as_original(w) ==
    \/ Save(w, [loaded[w] EXCEPT !.duplicate = TRUE, !.linked = TRUE], {})
    \/ Save(w, [loaded[w] EXCEPT !.duplicate = TRUE, !.linked = TRUE, !.active = FALSE], {})
    \/ Save(w, [loaded[w] EXCEPT !.duplicate = FALSE, !.linked = FALSE], {})

\* with removeLoop: the link goes or leads elsewhere, in the end the flag goes as well
fix_loop_duplicates(w) ==
    \/ /\ loaded[w].linked
       /\ \E l \in BOOLEAN : Save(w, [loaded[w] EXCEPT !.linked = l], {})
    \/ /\ loaded[w].duplicate /\ ~loaded[w].linked
       /\ Save(w, [loaded[w] EXCEPT !.duplicate = FALSE], {})

\* The original is deleted and this finding is the heir: it takes over whether the
\* original was open and whether it was fixed, but neither its date nor its
\* rejection.  An original that is both, the API has saved.
reconfigure_duplicate_cluster(w) ==
    /\ loaded[w].linked
    /\ \E open, fixed \in BOOLEAN :
        /\ Write(w, saved(loaded[w], [loaded[w] EXCEPT !.duplicate = FALSE, !.linked = FALSE,
                                          !.active = open, !.is_mitigated = fixed], {}))
        /\ past' = IF beyond \/ (open /\ fixed) THEN "beyond"
                   ELSE IF Rejected(loaded[w]) /\ ~open /\ ~fixed THEN "inherited"
                   ELSE past

\* an open duplicate has been found: verified is the duplicate's
set_duplicate_reopen(w) ==
    /\ loaded[w].is_mitigated \/ loaded[w].mitigated
    /\ ~loaded[w].out_of_scope /\ ~loaded[w].false_p /\ ~loaded[w].duplicate
    /\ \E v \in BOOLEAN :
        Save(w, [loaded[w] EXCEPT !.mitigated = FALSE, !.is_mitigated = FALSE,
                                  !.active = TRUE, !.verified = v], {})

-----------------------------------------------------------------------------
(* The API. *)

\* PATCH of any of the writable fields; the link and the date are read-only
update(w) ==
    \E t \in Filled(loaded[w]), fixed \in BOOLEAN :
        /\ t.risk_accepted => loaded[w].risk_accepted \/ SimpleRiskAcceptance
        /\ SaveBeyond(w, [t EXCEPT !.is_mitigated = fixed], {})

close(w) ==
    \E fp, oos, dup, mit \in BOOLEAN :
        SaveBeyond(w, [loaded[w] EXCEPT
                          !.active = FALSE, !.mitigated = TRUE, !.is_mitigated = mit,
                          !.false_p = fp, !.out_of_scope = oos, !.duplicate = dup], Stamp)

\* an UPDATE of two columns, without save() and its signal
accept_risks ==
    /\ row.active /\ row.verified /\ ~row.duplicate /\ ~row.risk_accepted
    /\ row' = accepted(row)
    /\ UNCHANGED <<loaded, past>>

\* an UPDATE as well, of the findings merged into another one
merge_finding_product ==
    /\ row' = [row EXCEPT !.active = FALSE]
    /\ UNCHANGED <<loaded, past>>

Request(w) ==
    /\ loaded[w] /= None
    /\ \/ close_finding(w) \/ defect_finding_review(w) \/ reopen_finding(w)
       \/ request_finding_review(w) \/ clear_finding_review(w) \/ edit_finding(w)
       \/ finding_bulk_update_all(w) \/ risk_accept(w) \/ mark_duplicate(w)
       \/ reset_duplicate(w) \/ set_duplicate_reopen(w) \/ set_finding_as_original(w)
       \/ fix_loop_duplicates(w) \/ reconfigure_duplicate_cluster(w)
       \/ update(w) \/ close(w)

Next == accept_risks \/ merge_finding_product \/ \E w \in Workers : Load(w) \/ Request(w)

Spec == Init /\ [][Next]_vars

-----------------------------------------------------------------------------
(* The first three are about everything but the API and edited dates, whose *)
(* PATCH of a single field and close without is_mitigated break them.       *)

\* "Fixed" and the date it was fixed never part: closed lists read the flag,
\* risk_unaccept and deduplication read the date.
MitigationDated == beyond \/ (row.is_mitigated <=> row.mitigated)

\* A finding rejected as false positive or out of scope is not open, whatever request
\* of another worker wrote the row last, and it counts as fixed unless it inherited
\* a cluster whose original was neither open nor fixed.
RejectedIsClosed ==
    beyond \/ (Rejected(row) => ~row.active /\ (row.is_mitigated \/ inherited))

\* No finding is open and fixed at once.
OpenIsNotFixed == beyond \/ ~(row.active /\ row.is_mitigated)

\* An open finding is never at the same time rejected, whichever fields a
\* request changed together: the API calls included.
OpenIsNotRejected == ~(row.active /\ Rejected(row))

=============================================================================
