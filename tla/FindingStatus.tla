---------------------------- MODULE FindingStatus ----------------------------
(***************************************************************************)
(* The status fields of one finding and what saving it does to them: the   *)
(* pre-save signal of dojo/finding/helper.py, on which every handler       *)
(* relies to keep the fields consistent.  A date or a user is present or   *)
(* not; mitigated_by goes where mitigated goes and is left out.            *)
(***************************************************************************)
EXTENDS Naturals

Status ==
    [active : BOOLEAN, verified : BOOLEAN, false_p : BOOLEAN,
     out_of_scope : BOOLEAN,
     is_mitigated : BOOLEAN,
     mitigated : BOOLEAN,           \* is the date of the mitigation set?
     risk_accepted : BOOLEAN,
     duplicate : BOOLEAN,
     linked : BOOLEAN]              \* is duplicate_finding set?

\* the fields whose change sends the signal: not duplicate
SignalFields ==
    {"id", "active", "verified", "false_p", "is_mitigated", "mitigated",
     "mitigated_by", "out_of_scope", "risk_accepted"}

is_new_finding(c) == c = {} \/ c = {"id"}

(* update_finding_status, branch by branch, in its order; c: changed fields. *)

\* looks at new findings only
unmitigated_new_only(s, c) ==
    [s EXCEPT !.mitigated = @ /\ (s.is_mitigated \/ ~is_new_finding(c))]

unmitigated(s, c) ==
    [s EXCEPT !.mitigated = @ /\ (s.is_mitigated
                                  \/ ~(is_new_finding(c) \/ "is_mitigated" \in c))]

dated(s) == [s EXCEPT !.mitigated = @ \/ s.is_mitigated]

\* an activation that trusts the handler to take the mitigation back
activated_flag_only(s, c) ==
    IF s.active /\ (is_new_finding(c) \/ "active" \in c)
    THEN [s EXCEPT !.false_p = FALSE, !.out_of_scope = FALSE]
    ELSE s

activated(s, c) ==
    IF s.active /\ (is_new_finding(c) \/ "active" \in c)
    THEN [s EXCEPT !.false_p = FALSE, !.out_of_scope = FALSE,
                   !.is_mitigated = FALSE, !.mitigated = FALSE]
    ELSE s

\* does not notice out_of_scope
rejected_false_p_only(s, c) ==
    IF /\ s.false_p \/ s.out_of_scope
       /\ is_new_finding(c) \/ "false_p" \in c
    THEN [s EXCEPT !.mitigated = TRUE, !.is_mitigated = TRUE,
                   !.active = FALSE, !.verified = FALSE]
    ELSE s

\* leaves the finding open
rejected_still_open(s, c) ==
    IF /\ s.false_p \/ s.out_of_scope
       /\ is_new_finding(c) \/ {"false_p", "out_of_scope"} \cap c /= {}
    THEN [s EXCEPT !.mitigated = TRUE, !.is_mitigated = TRUE, !.verified = FALSE]
    ELSE s

rejected(s, c) ==
    IF /\ s.false_p \/ s.out_of_scope
       /\ is_new_finding(c) \/ {"false_p", "out_of_scope"} \cap c /= {}
    THEN [s EXCEPT !.mitigated = TRUE, !.is_mitigated = TRUE,
                   !.active = FALSE, !.verified = FALSE]
    ELSE s

no_duplicate(s) == [s EXCEPT !.linked = @ /\ s.duplicate]

update_finding_status(s, c) ==
    no_duplicate(rejected(activated(dated(unmitigated(s, c)), c), c))

changed_fields(old, new) ==
    {x \in SignalFields \ {"id", "mitigated_by"} : old[x] /= new[x]}

\* What save() writes for a row loaded as old and now holding new.  touched:
\* the dates and users the handler writes anew.  The signal handler calls
\* update_finding_status once per changed field, always with the same set:
\* UpdateIdempotent (FindingLifecycleProofs) says once is enough.
saved(old, new, touched) ==
    LET c == changed_fields(old, new) \cup touched
    IN  IF c = {} THEN new ELSE update_finding_status(new, c)

\* A new row: save() calls update_finding_status itself and the signal sees
\* what that changed; creating code saves the same instance a second time,
\* when the signal sees the primary key.
created(s) ==
    LET first == update_finding_status(s, {"id"})
        second == saved(s, first, {})
    IN  saved(first, second, {"id"})

=============================================================================
