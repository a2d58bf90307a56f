------------------------- MODULE RiskAcceptanceProofs -------------------------
(***************************************************************************)
(* Proofs about RiskAcceptance, for any number of findings, acceptances    *)
(* and days, with and without JIRA.                                        *)
(***************************************************************************)
EXTENDS RiskAcceptance, TLAPS

-----------------------------------------------------------------------------
\* The signal handler never touches risk_accepted.
LEMMA UpdateKeepsRisk ==
    ASSUME NEW s1 \in Status, NEW c1
    PROVE  /\ update_finding_status(s1, c1) \in Status
           /\ update_finding_status(s1, c1).risk_accepted = s1.risk_accepted
<1>1. ASSUME NEW s \in Status, NEW c
      PROVE  unmitigated(s, c) \in Status /\ unmitigated(s, c).risk_accepted = s.risk_accepted
  BY DEF unmitigated, Status
<1>2. ASSUME NEW s \in Status
      PROVE  dated(s) \in Status /\ dated(s).risk_accepted = s.risk_accepted
  BY DEF dated, Status
<1>3. ASSUME NEW s \in Status, NEW c
      PROVE  activated(s, c) \in Status /\ activated(s, c).risk_accepted = s.risk_accepted
  BY DEF activated, Status
<1>4. ASSUME NEW s \in Status, NEW c
      PROVE  rejected(s, c) \in Status /\ rejected(s, c).risk_accepted = s.risk_accepted
  BY DEF rejected, Status
<1>5. ASSUME NEW s \in Status
      PROVE  no_duplicate(s) \in Status /\ no_duplicate(s).risk_accepted = s.risk_accepted
  BY DEF no_duplicate, Status
<1> QED BY <1>1, <1>2, <1>3, <1>4, <1>5 DEF update_finding_status

\* What save() writes is what the handler of the request has put there.
LEMMA SavedKeepsRisk ==
    ASSUME NEW old, NEW new \in Status, NEW touched
    PROVE  /\ saved(old, new, touched) \in Status
           /\ saved(old, new, touched).risk_accepted = new.risk_accepted
BY UpdateKeepsRisk DEF saved

-----------------------------------------------------------------------------
(* The inductive invariant. *)

\* What a run of the handler holds: acceptances that were made before, read
\* with their columns and with rows of their findings.  Those it warns of had
\* not expired when it read them, which is why saving the copy later does not
\* mark an acceptance that lies ahead as handled.
HandlerReads ==
    /\ handler = [stage |-> handler.stage, todo |-> handler.todo]
    /\ \A t \in handler.todo :
        /\ t.id \in Ids /\ t.id < next_id
        /\ t.columns \in Columns
        /\ DOMAIN t.rows \subseteq Findings
        /\ \A f \in DOMAIN t.rows : t.rows[f] \in Status
        /\ handler.stage = "warning" => ~t.columns.expiration_date_handled

KeysGrow == \A r \in Existing : r < next_id

AcceptanceInv == TypeOK /\ KeysGrow /\ HandlerReads /\ AcceptedIsMember /\ HandledIsPast

\* The steps that accept findings, from the rows the step has read.
LEMMA SaveAccepted ==
    ASSUME NEW rows, NEW fs, TypeOK, Saved(rows, fs, Accepted),
           \A f \in fs : rows[f] \in Status
    PROVE  /\ row' \in [Findings -> Status]
           /\ \A f \in Findings \ fs : row'[f] = row[f]
<1>1. \A f \in fs : Accepted(rows[f]) \in Status
  BY DEF Accepted, Status
<1> QED BY <1>1, SavedKeepsRisk DEF Saved, TypeOK

\* The steps that take the acceptance off findings.
LEMMA SaveUnaccepted ==
    ASSUME NEW rows, NEW fs, TypeOK, Saved(rows, fs, Unaccepted),
           \A f \in fs : rows[f] \in Status
    PROVE  /\ row' \in [Findings -> Status]
           /\ \A f \in Findings \ fs : row'[f] = row[f]
           /\ \A f \in Findings \cap fs : ~row'[f].risk_accepted
<1>1. \A f \in fs : Unaccepted(rows[f]) \in Status /\ ~Unaccepted(rows[f]).risk_accepted
  BY DEF Unaccepted, Status
<1> QED BY <1>1, SavedKeepsRisk DEF Saved, TypeOK

-----------------------------------------------------------------------------
\* A new acceptance takes the next key, so no older one loses its members, and
\* it lists every finding whose flag the same request sets.
LEMMA CreateKeeps ==
    ASSUME AcceptanceInv,
           NEW date \in Dates, NEW reactivate \in BOOLEAN, NEW fs \in SUBSET Findings,
           Create(next_id, New(date, reactivate), fs),
           row' \in [Findings -> Status],
           \A f \in Findings \ fs : row'[f] = row[f],
           UNCHANGED <<handler, warned>>
    PROVE  AcceptanceInv'
<1> DEFINE c == New(date, reactivate)
<1>1. c \in Columns /\ ~c.expiration_date_handled
  BY DEF New, Columns
<1> HIDE DEF c
<1>2. /\ next_id \in Ids /\ next_id' = next_id + 1
      /\ risk_acceptance' = [risk_acceptance EXCEPT ![next_id] = c]
      /\ accepted_findings' = [accepted_findings EXCEPT ![next_id] = fs]
      /\ engagement' = engagement \cup {next_id}
  BY DEF Create, Save, c
<1>3. next_id \in Nat /\ next_id \notin Existing
  BY DEF AcceptanceInv, TypeOK, KeysGrow
<1>4. Existing' = Existing \cup {next_id}
  BY <1>1, <1>2, ColumnsAssumption DEF Existing, AcceptanceInv, TypeOK
<1>5. TypeOK'
  BY <1>1, <1>2, <1>3, <1>4 DEF AcceptanceInv, TypeOK
<1>6. KeysGrow'
  BY <1>2, <1>3, <1>4 DEF AcceptanceInv, KeysGrow, Ids, Existing
<1>7. HandlerReads'
  BY <1>2, <1>3 DEF AcceptanceInv, HandlerReads, Ids
<1>8. AcceptedIsMember'
  <2> SUFFICES ASSUME NEW f \in Findings, row'[f].risk_accepted
               PROVE  \E r \in Existing' : f \in accepted_findings'[r]
    BY DEF AcceptedIsMember
  <2>1. CASE f \in fs
    BY <1>2, <1>4, <2>1 DEF AcceptanceInv, TypeOK
  <2>2. CASE f \notin fs
    <3>1. PICK r \in Existing : f \in accepted_findings[r]
      BY <2>2 DEF AcceptanceInv, AcceptedIsMember
    <3> QED BY <1>2, <1>3, <1>4, <3>1 DEF AcceptanceInv, TypeOK
  <2> QED BY <2>1, <2>2
<1>9. HandledIsPast'
  BY <1>1, <1>2, <1>4 DEF AcceptanceInv, TypeOK, HandledIsPast, Existing
<1> QED BY <1>5, <1>6, <1>7, <1>8, <1>9 DEF AcceptanceInv

\* Steps that leave the acceptances alone: every finding they leave accepted
\* was accepted and stays a member wherever it was one.
LEMMA RowsKeep ==
    ASSUME AcceptanceInv,
           row' \in [Findings -> Status],
           accepted_findings' \in [Ids -> SUBSET Findings],
           \A r \in Ids \ Existing : accepted_findings'[r] = {},
           AcceptedIsMember',
           UNCHANGED <<next_id, risk_acceptance, engagement, handler, warned>>
    PROVE  AcceptanceInv'
<1>1. Existing' = Existing
  BY DEF Existing
<1>2. TypeOK'
  BY <1>1 DEF AcceptanceInv, TypeOK
<1>3. KeysGrow' /\ HandlerReads' /\ HandledIsPast'
  BY <1>1 DEF AcceptanceInv, KeysGrow, HandlerReads, HandledIsPast
<1> QED BY <1>2, <1>3 DEF AcceptanceInv

\* Saving the columns of an acceptance, be it one that was deleted in between:
\* what is marked as handled must be past.
LEMMA SaveKeeps ==
    ASSUME AcceptanceInv,
           NEW r \in Ids, r < next_id, NEW c \in Columns, Save(r, c),
           c.expiration_date_handled => c.expiration_date \in {-1, 0},
           row' \in [Findings -> Status],
           \A f \in Findings : row'[f].risk_accepted =>
                \E x \in Existing : f \in accepted_findings[x],
           warned' \in [Ids -> 0..2],
           HandlerReads', handler'.stage \in {"idle", "expiring", "warning"},
           UNCHANGED <<next_id, accepted_findings, engagement>>
    PROVE  AcceptanceInv'
<1>1. risk_acceptance' = [risk_acceptance EXCEPT ![r] = c]
  BY DEF Save
<1>2. Existing' = Existing \cup {r}
  BY <1>1, ColumnsAssumption DEF Existing, AcceptanceInv, TypeOK
<1>3. TypeOK'
  BY <1>1, <1>2 DEF AcceptanceInv, TypeOK
<1>4. KeysGrow'
  BY <1>2 DEF AcceptanceInv, KeysGrow
<1>5. AcceptedIsMember'
  BY <1>2 DEF AcceptedIsMember
<1>6. HandledIsPast'
  BY <1>1, <1>2 DEF AcceptanceInv, TypeOK, HandledIsPast, Existing
<1> QED BY <1>3, <1>4, <1>5, <1>6 DEF AcceptanceInv

-----------------------------------------------------------------------------
\* Expiring an acceptance, by a user or from the copies of the handler: no
\* finding becomes accepted, and the date is today's.
LEMMA ExpireKeeps ==
    ASSUME AcceptanceInv,
           NEW r \in Ids, r < next_id, NEW c \in Columns, NEW rows,
           DOMAIN rows \subseteq Findings, \A f \in DOMAIN rows : rows[f] \in Status,
           expire_now(r, c, rows),
           HandlerReads', handler'.stage \in {"idle", "expiring", "warning"},
           UNCHANGED <<next_id, accepted_findings, engagement, warned>>
    PROVE  AcceptanceInv'
<1> DEFINE fs == {f \in DOMAIN rows : c.reactivate_expired /\ ~rows[f].active}
           d == [c EXCEPT !.expiration_date = 0, !.expiration_date_handled = TRUE]
<1>1. TypeOK /\ Saved(rows, fs, Unaccepted) /\ Save(r, d)
  BY DEF expire_now, AcceptanceInv
<1>2. \A f \in fs : rows[f] \in Status
  OBVIOUS
<1>3. 0 \in Dates
  BY DaysAssumption DEF Dates, Days
<1>4. d \in Columns /\ d.expiration_date = 0
  BY <1>3 DEF Columns
<1> HIDE DEF fs, d
<1>5. /\ row' \in [Findings -> Status]
      /\ \A f \in Findings \ fs : row'[f] = row[f]
      /\ \A f \in Findings \cap fs : ~row'[f].risk_accepted
  BY <1>1, <1>2, SaveUnaccepted
<1>6. \A f \in Findings : row'[f].risk_accepted =>
            \E x \in Existing : f \in accepted_findings[x]
  BY <1>5 DEF AcceptanceInv, AcceptedIsMember
<1>7. warned' \in [Ids -> 0..2]
  BY DEF AcceptanceInv, TypeOK
<1> QED BY <1>1, <1>4, <1>5, <1>6, <1>7, SaveKeeps

\* Reinstating accepts members only, and what is handled after it was not
\* expired before.
LEMMA ReinstateKeeps ==
    ASSUME AcceptanceInv, NEW r \in engagement, NEW c \in Columns, reinstate(r, c)
    PROVE  AcceptanceInv'
<1> DEFINE fs == IF c.expiration_date_handled
                 THEN {f \in accepted_findings[r] : row[f].active} ELSE {}
           d == Reinstated(c)
<1>1. TypeOK /\ Saved(row, fs, Accepted) /\ Save(r, d)
  BY DEF reinstate, AcceptanceInv
<1>2. r \in Existing /\ r \in Ids /\ r < next_id
  BY DEF AcceptanceInv, TypeOK, KeysGrow, Existing
<1>3. fs \subseteq accepted_findings[r] /\ \A f \in fs : row[f] \in Status
  BY <1>2 DEF AcceptanceInv, TypeOK
<1>4. DefaultDays \in Dates
  BY DaysAssumption DEF Dates, Days
<1>5. d \in Columns /\ ~d.expiration_date_handled
  BY <1>4 DEF Reinstated, Columns
<1> HIDE DEF fs, d
<1>6. /\ row' \in [Findings -> Status]
      /\ \A f \in Findings \ fs : row'[f] = row[f]
  BY <1>1, <1>3, SaveAccepted
<1>7. \A f \in Findings : row'[f].risk_accepted =>
            \E x \in Existing : f \in accepted_findings[x]
  BY <1>2, <1>3, <1>6 DEF AcceptanceInv, AcceptedIsMember
<1>8. /\ UNCHANGED <<next_id, accepted_findings, engagement, handler>>
      /\ warned' = [warned EXCEPT ![r] = 0]
  BY DEF reinstate
<1>9. /\ handler'.stage \in {"idle", "expiring", "warning"} /\ HandlerReads'
      /\ warned' \in [Ids -> 0..2]
  BY <1>2, <1>8 DEF AcceptanceInv, TypeOK, HandlerReads
<1> QED BY <1>1, <1>2, <1>5, <1>6, <1>7, <1>8, <1>9, SaveKeeps

\* Editing leaves the date as it is or reinstates: a handled mark never stays
\* with a new date.
LEMMA EditKeeps ==
    ASSUME AcceptanceInv, NEW r \in engagement, edit_risk_acceptance(r)
    PROVE  AcceptanceInv'
<1>1. PICK date \in FormDates, reactivate \in ReactivateChoices :
        LET columns == [risk_acceptance[r] EXCEPT !.expiration_date = date,
                                                  !.reactivate_expired = reactivate]
        IN  IF date /= risk_acceptance[r].expiration_date
            THEN reinstate(r, columns)
            ELSE /\ Save(r, columns)
                 /\ UNCHANGED <<next_id, row, accepted_findings, engagement, handler, warned>>
  BY DEF edit_risk_acceptance
<1> DEFINE c == [risk_acceptance[r] EXCEPT !.expiration_date = date,
                                           !.reactivate_expired = reactivate]
<1>2. r \in Existing /\ r \in Ids /\ r < next_id /\ risk_acceptance[r] \in Columns
  BY DEF AcceptanceInv, TypeOK, KeysGrow, Existing
<1>3. date \in Dates /\ reactivate \in BOOLEAN
  BY FormAssumption DEF Dates, Days
<1>4. /\ c \in Columns /\ c.expiration_date = date
      /\ c.expiration_date_handled = risk_acceptance[r].expiration_date_handled
  BY <1>2, <1>3 DEF Columns
<1>5. CASE date /= risk_acceptance[r].expiration_date
  BY <1>1, <1>4, <1>5, ReinstateKeeps
<1>6. CASE date = risk_acceptance[r].expiration_date
  <2>1. /\ Save(r, c)
        /\ UNCHANGED <<next_id, row, accepted_findings, engagement, handler, warned>>
    BY <1>1, <1>6
  <2>2. c.expiration_date_handled => c.expiration_date \in {-1, 0}
    BY <1>2, <1>4, <1>6 DEF AcceptanceInv, HandledIsPast
  <2> HIDE DEF c
  <2>3. /\ row' \in [Findings -> Status] /\ warned' \in [Ids -> 0..2]
        /\ handler'.stage \in {"idle", "expiring", "warning"} /\ HandlerReads'
    BY <2>1 DEF AcceptanceInv, TypeOK, HandlerReads
  <2>4. \A f \in Findings : row'[f].risk_accepted =>
            \E x \in Existing : f \in accepted_findings[x]
    BY <2>1 DEF AcceptanceInv, AcceptedIsMember
  <2> QED BY <1>2, <1>4, <2>1, <2>2, <2>3, <2>4, SaveKeeps
<1> QED BY <1>5, <1>6

\* A deleted acceptance takes the flag off its findings first; those that are
\* still accepted were not among them, and are in another acceptance.
LEMMA DeleteKeeps ==
    ASSUME AcceptanceInv, NEW r \in engagement, delete(r)
    PROVE  AcceptanceInv'
<1>1. r \in Ids
  BY DEF AcceptanceInv, TypeOK, Existing
<1>2. /\ TypeOK /\ Saved(row, accepted_findings[r], Unaccepted)
      /\ accepted_findings' = [accepted_findings EXCEPT ![r] = {}]
      /\ engagement' = engagement \ {r}
      /\ risk_acceptance' = [risk_acceptance EXCEPT ![r] = None]
      /\ UNCHANGED <<next_id, handler, warned>>
  BY DEF delete, AcceptanceInv
<1>3. accepted_findings[r] \subseteq Findings /\ \A f \in accepted_findings[r] : row[f] \in Status
  BY <1>1 DEF AcceptanceInv, TypeOK
<1>4. /\ row' \in [Findings -> Status]
      /\ \A f \in Findings \ accepted_findings[r] : row'[f] = row[f]
      /\ \A f \in Findings \cap accepted_findings[r] : ~row'[f].risk_accepted
  BY <1>2, <1>3, SaveUnaccepted
<1>5. Existing' = Existing \ {r}
  BY <1>2 DEF Existing, AcceptanceInv, TypeOK
<1>6. TypeOK'
  BY <1>1, <1>2, <1>4, <1>5 DEF TypeOK
<1>7. KeysGrow' /\ HandlerReads'
  BY <1>2, <1>5 DEF AcceptanceInv, KeysGrow, HandlerReads
<1>8. AcceptedIsMember'
  BY <1>2, <1>4, <1>5 DEF AcceptanceInv, AcceptedIsMember, TypeOK, Existing
<1>9. HandledIsPast'
  BY <1>2, <1>5 DEF AcceptanceInv, HandledIsPast, TypeOK, Existing
<1> QED BY <1>6, <1>7, <1>8, <1>9 DEF AcceptanceInv

\* Findings join an acceptance with their flag, and leave it with their flag.
LEMMA MembersKeep ==
    ASSUME AcceptanceInv, NEW r \in engagement,
           add_findings_to_risk_acceptance(r) \/ remove_finding_from_risk_acceptance(r)
    PROVE  AcceptanceInv'
<1>1. TypeOK /\ r \in Ids /\ r \in Existing
  BY DEF AcceptanceInv, TypeOK, Existing
<1>2. CASE add_findings_to_risk_acceptance(r)
  <2>1. PICK fs \in SUBSET Findings :
            /\ Saved(row, {f \in fs : Acceptable(f)}, Accepted)
            /\ accepted_findings' = [accepted_findings EXCEPT ![r] =
                                        @ \cup {f \in fs : Acceptable(f)}]
    BY <1>2 DEF add_findings_to_risk_acceptance
  <2> DEFINE taken == {f \in fs : Acceptable(f)}
  <2>2. taken \subseteq Findings /\ \A f \in taken : row[f] \in Status
    BY <1>1 DEF TypeOK
  <2>3. /\ Saved(row, taken, Accepted)
        /\ accepted_findings' = [accepted_findings EXCEPT ![r] = @ \cup taken]
    BY <2>1
  <2> HIDE DEF taken
  <2>4. row' \in [Findings -> Status] /\ \A f \in Findings \ taken : row'[f] = row[f]
    BY <1>1, <2>2, <2>3, SaveAccepted
  <2>5. AcceptedIsMember'
    BY <1>1, <1>2, <2>3, <2>4 DEF AcceptanceInv, AcceptedIsMember, TypeOK, Existing,
       add_findings_to_risk_acceptance
  <2>6. /\ accepted_findings' \in [Ids -> SUBSET Findings]
        /\ \A x \in Ids \ Existing : accepted_findings'[x] = {}
    BY <1>1, <2>2, <2>3 DEF TypeOK
  <2>7. UNCHANGED <<next_id, risk_acceptance, engagement, handler, warned>>
    BY <1>2 DEF add_findings_to_risk_acceptance
  <2> QED BY <2>4, <2>5, <2>6, <2>7, RowsKeep
<1>3. CASE remove_finding_from_risk_acceptance(r)
  <2>1. PICK f \in Findings :
            /\ accepted_findings' = [accepted_findings EXCEPT ![r] = @ \ {f}]
            /\ Saved(row, {f}, Unaccepted)
    BY <1>3 DEF remove_finding_from_risk_acceptance
  <2>2. \A x \in {f} : row[x] \in Status
    BY <1>1 DEF TypeOK
  <2>3. /\ row' \in [Findings -> Status]
        /\ \A x \in Findings \ {f} : row'[x] = row[x]
        /\ \A x \in Findings \cap {f} : ~row'[x].risk_accepted
    BY <1>1, <2>1, <2>2, SaveUnaccepted
  <2>4. AcceptedIsMember'
    BY <1>1, <1>3, <2>1, <2>3 DEF AcceptanceInv, AcceptedIsMember, TypeOK, Existing,
       remove_finding_from_risk_acceptance
  <2>5. /\ accepted_findings' \in [Ids -> SUBSET Findings]
        /\ \A x \in Ids \ Existing : accepted_findings'[x] = {}
    BY <1>1, <2>1 DEF TypeOK
  <2>6. UNCHANGED <<next_id, risk_acceptance, engagement, handler, warned>>
    BY <1>3 DEF remove_finding_from_risk_acceptance
  <2> QED BY <2>3, <2>4, <2>5, <2>6, RowsKeep
<1> QED BY <1>2, <1>3

\* Every request of the engagement's pages.
LEMMA PagesKeep ==
    ASSUME AcceptanceInv, Pages
    PROVE  AcceptanceInv'
<1>0. TypeOK
  BY DEF AcceptanceInv
<1>1. CASE add_risk_acceptance
  <2>1. PICK fs \in SUBSET Findings, date \in FormDates, reactivate \in ReactivateChoices :
            /\ Create(next_id, New(date, reactivate), fs)
            /\ Saved(row, {f \in fs : Acceptable(f)}, Accepted)
    BY <1>1 DEF add_risk_acceptance
  <2> DEFINE taken == {f \in fs : Acceptable(f)}
  <2>2. \A f \in taken : row[f] \in Status
    BY <1>0 DEF TypeOK
  <2>3. taken \subseteq fs /\ Saved(row, taken, Accepted)
    BY <2>1
  <2> HIDE DEF taken
  <2>4. row' \in [Findings -> Status] /\ \A f \in Findings \ taken : row'[f] = row[f]
    BY <1>0, <2>2, <2>3, SaveAccepted
  <2>5. date \in Dates /\ reactivate \in BOOLEAN
    BY FormAssumption DEF Dates, Days
  <2>6. UNCHANGED <<handler, warned>>
    BY <1>1 DEF add_risk_acceptance
  <2> QED BY <2>1, <2>3, <2>4, <2>5, <2>6, CreateKeeps
<1>2. CASE accept_risks
  <2>1. PICK fs \in SUBSET Findings :
            /\ Create(next_id, New(None, TRUE), fs)
            /\ row' = [f \in Findings |-> IF f \in fs THEN Accepted(row[f]) ELSE row[f]]
    BY <1>2 DEF accept_risks
  <2>2. \A f \in Findings : Accepted(row[f]) \in Status
    BY <1>0 DEF TypeOK, Accepted, Status
  <2>3. row' \in [Findings -> Status] /\ \A f \in Findings \ fs : row'[f] = row[f]
    BY <1>0, <2>1, <2>2 DEF TypeOK
  <2>4. None \in Dates /\ UNCHANGED <<handler, warned>>
    BY <1>2 DEF Dates, accept_risks
  <2> QED BY <2>1, <2>3, <2>4, CreateKeeps
<1>3. ASSUME NEW r \in engagement, reinstate(r, risk_acceptance[r])
      PROVE  AcceptanceInv'
  <2>1. risk_acceptance[r] \in Columns
    BY DEF AcceptanceInv, TypeOK, Existing
  <2> QED BY <1>3, <2>1, ReinstateKeeps
<1>4. ASSUME NEW r \in engagement, expire_risk_acceptance(r)
      PROVE  AcceptanceInv'
  <2> DEFINE rows == [f \in accepted_findings[r] |-> row[f]]
  <2>1. r \in Ids /\ r < next_id /\ risk_acceptance[r] \in Columns
    BY DEF AcceptanceInv, TypeOK, KeysGrow, Existing
  <2>2. DOMAIN rows \subseteq Findings /\ \A f \in DOMAIN rows : rows[f] \in Status
    BY <1>0, <2>1 DEF TypeOK
  <2>3. /\ expire_now(r, risk_acceptance[r], rows)
        /\ UNCHANGED <<next_id, accepted_findings, engagement, handler, warned>>
    BY <1>4 DEF expire_risk_acceptance
  <2> HIDE DEF rows
  <2>4. HandlerReads' /\ handler'.stage \in {"idle", "expiring", "warning"}
    BY <2>3 DEF AcceptanceInv, HandlerReads, TypeOK
  <2> QED BY <2>1, <2>2, <2>3, <2>4, ExpireKeeps
<1> QED BY <1>1, <1>2, <1>3, <1>4, MembersKeep, DeleteKeeps, EditKeeps DEF Pages

\* Other pages move a finding's status and never set the flag; only risk_unaccept
\* takes a finding out of its acceptances, and it clears the flag.
LEMMA FindingPagesKeep ==
    ASSUME AcceptanceInv, FindingPages
    PROVE  AcceptanceInv'
<1>0. TypeOK /\ UNCHANGED <<next_id, risk_acceptance, engagement, handler, warned>>
  BY DEF AcceptanceInv, FindingPages
<1>1. PICK f \in Findings :
        \/ /\ Reopen(f) \/ set_duplicate(f) \/ Untick(f)
           /\ UNCHANGED accepted_findings
        \/ risk_unaccept(f)
  BY DEF FindingPages
<1>2. row[f] \in Status
  BY <1>0 DEF TypeOK
<1>3. ASSUME NEW new \in Status, new.risk_accepted => row[f].risk_accepted,
             row' = [x \in Findings |-> IF x \in {f} THEN saved(row[x], new, {}) ELSE row[x]],
             UNCHANGED accepted_findings
      PROVE  AcceptanceInv'
  <2>1. /\ row' \in [Findings -> Status]
        /\ \A x \in Findings : row'[x].risk_accepted => row[x].risk_accepted
    BY <1>0, <1>3, SavedKeepsRisk DEF TypeOK
  <2>2. AcceptedIsMember'
    BY <1>0, <1>3, <2>1 DEF AcceptanceInv, AcceptedIsMember, Existing
  <2>3. /\ accepted_findings' \in [Ids -> SUBSET Findings]
        /\ \A x \in Ids \ Existing : accepted_findings'[x] = {}
    BY <1>0, <1>3 DEF TypeOK
  <2> QED BY <1>0, <2>1, <2>2, <2>3, RowsKeep
<1>4. CASE Reopen(f) /\ UNCHANGED accepted_findings
  <2> DEFINE new == [row[f] EXCEPT !.active = TRUE, !.is_mitigated = FALSE, !.mitigated = FALSE]
  <2>1. new \in Status /\ (new.risk_accepted => row[f].risk_accepted)
    BY <1>2 DEF Status
  <2>2. row' = [x \in Findings |-> IF x \in {f} THEN saved(row[x], new, {}) ELSE row[x]]
    BY <1>4 DEF Reopen, Saved
  <2> HIDE DEF new
  <2> QED BY <1>3, <1>4, <2>1, <2>2
<1>5. CASE set_duplicate(f) /\ UNCHANGED accepted_findings
  <2> DEFINE new == [row[f] EXCEPT !.active = FALSE, !.verified = FALSE,
                                   !.duplicate = TRUE, !.linked = TRUE]
  <2>1. new \in Status /\ (new.risk_accepted => row[f].risk_accepted)
    BY <1>2 DEF Status
  <2>2. row' = [x \in Findings |-> IF x \in {f} THEN saved(row[x], new, {}) ELSE row[x]]
    BY <1>5 DEF set_duplicate, Saved
  <2> HIDE DEF new
  <2> QED BY <1>3, <1>5, <2>1, <2>2
<1>6. CASE Untick(f) /\ UNCHANGED accepted_findings
  <2>1. PICK a \in BOOLEAN :
            Saved(row, {f}, LAMBDA s : [s EXCEPT !.active = a, !.risk_accepted = FALSE])
    BY <1>6 DEF Untick
  <2> DEFINE new == [row[f] EXCEPT !.active = a, !.risk_accepted = FALSE]
  <2>2. new \in Status /\ ~new.risk_accepted
    BY <1>2 DEF Status
  <2>3. row' = [x \in Findings |-> IF x \in {f} THEN saved(row[x], new, {}) ELSE row[x]]
    BY <2>1 DEF Saved
  <2> HIDE DEF new
  <2> QED BY <1>3, <1>6, <2>2, <2>3
<1>7. CASE risk_unaccept(f)
  <2> DEFINE new == [row[f] EXCEPT !.risk_accepted = FALSE,
                !.active = @ \/ ~(row[f].mitigated \/ row[f].false_p \/ row[f].out_of_scope)]
  <2>1. new \in Status /\ ~new.risk_accepted
    BY <1>2 DEF Status
  <2>2. row' = [x \in Findings |-> IF x \in {f} THEN saved(row[x], new, {}) ELSE row[x]]
    BY <1>7 DEF risk_unaccept, Saved
  <2>3. accepted_findings' = [r \in Ids |-> accepted_findings[r] \ {f}]
    BY <1>7 DEF risk_unaccept
  <2> HIDE DEF new
  <2>4. /\ row' \in [Findings -> Status] /\ ~row'[f].risk_accepted
        /\ \A x \in Findings \ {f} : row'[x] = row[x]
    BY <1>0, <2>1, <2>2, SavedKeepsRisk DEF TypeOK
  <2>5. AcceptedIsMember'
    BY <1>0, <2>3, <2>4 DEF AcceptanceInv, AcceptedIsMember, Existing
  <2>6. /\ accepted_findings' \in [Ids -> SUBSET Findings]
        /\ \A x \in Ids \ Existing : accepted_findings'[x] = {}
    BY <1>0, <2>3 DEF TypeOK
  <2> QED BY <1>0, <2>4, <2>5, <2>6, RowsKeep
<1> QED BY <1>1, <1>4, <1>5, <1>6, <1>7

-----------------------------------------------------------------------------
\* Steps of the handler that save nothing: what it reads is as it is stored.
LEMMA HandlerMovesKeep ==
    ASSUME AcceptanceInv, HandlerReads', handler'.stage \in {"idle", "expiring", "warning"},
           warned' \in [Ids -> 0..2],
           UNCHANGED <<next_id, row, risk_acceptance, accepted_findings, engagement>>
    PROVE  AcceptanceInv'
<1>1. Existing' = Existing
  BY DEF Existing
<1> QED BY <1>1 DEF AcceptanceInv, TypeOK, KeysGrow, AcceptedIsMember, HandledIsPast

\* The handler is done with one acceptance, or with the whole run.
LEMMA ContinueKeeps ==
    ASSUME HandlerReads, NEW t, Continue(t), UNCHANGED next_id
    PROVE  HandlerReads' /\ handler'.stage \in {"idle", handler.stage}
<1>1. CASE t.linked
  <2>1. handler' = [handler EXCEPT !.todo = @ \ {t}]
    BY <1>1 DEF Continue
  <2>2. handler'.stage = handler.stage /\ handler'.todo = handler.todo \ {t}
    BY <2>1 DEF HandlerReads
  <2>3. handler' = [stage |-> handler'.stage, todo |-> handler'.todo]
    BY <2>1, <2>2 DEF HandlerReads
  <2> QED BY <2>2, <2>3 DEF HandlerReads
<1>2. CASE ~t.linked
  BY <1>2 DEF Continue, Idle, HandlerReads
<1> QED BY <1>1, <1>2

\* A run of the handler works with copies that others may have outdated.
LEMMA HandlerKeeps ==
    ASSUME AcceptanceInv, expiration_handler
    PROVE  AcceptanceInv'
<1>0. TypeOK /\ KeysGrow /\ HandlerReads
  BY DEF AcceptanceInv
<1>1. CASE handler_starts
  <2>1. /\ handler' = [stage |-> handler'.stage, todo |-> handler'.todo]
        /\ handler'.stage = "expiring"
        /\ handler'.todo = {Read(r, accepted_findings[r]) :
                                r \in {x \in Existing : Expired(risk_acceptance[x])}}
        /\ UNCHANGED <<next_id, row, risk_acceptance, accepted_findings, engagement, warned>>
    BY <1>1 DEF handler_starts
  <2>2. ASSUME NEW r \in Existing, NEW t, t = Read(r, accepted_findings[r])
        PROVE  /\ t.id \in Ids /\ t.id < next_id /\ t.columns \in Columns
               /\ DOMAIN t.rows \subseteq Findings
               /\ \A f \in DOMAIN t.rows : t.rows[f] \in Status
    BY <1>0, <2>2 DEF Read, TypeOK, KeysGrow, Existing
  <2>3. HandlerReads'
    BY <2>1, <2>2 DEF HandlerReads
  <2> QED BY <1>0, <2>1, <2>3, HandlerMovesKeep DEF TypeOK
<1>2. CASE handler_expires
  <2>1. PICK t \in handler.todo : expire_now(t.id, t.columns, t.rows) /\ Continue(t)
    BY <1>2 DEF handler_expires
  <2>2. /\ handler.stage = "expiring"
        /\ UNCHANGED <<next_id, accepted_findings, engagement, warned>>
    BY <1>2 DEF handler_expires
  <2>3. HandlerReads' /\ handler'.stage \in {"idle", "expiring", "warning"}
    BY <1>0, <2>1, <2>2, ContinueKeeps DEF TypeOK
  <2>4. /\ t.id \in Ids /\ t.id < next_id /\ t.columns \in Columns
        /\ DOMAIN t.rows \subseteq Findings
        /\ \A f \in DOMAIN t.rows : t.rows[f] \in Status
    BY <1>0 DEF HandlerReads
  <2> QED BY <2>1, <2>2, <2>3, <2>4, ExpireKeeps
<1>3. CASE handler_reads
  <2>1. UNCHANGED <<next_id, row, risk_acceptance, accepted_findings, engagement, warned>>
    BY <1>3 DEF handler_reads
  <2>2. ASSUME NEW r \in Existing, AlmostExpired(risk_acceptance[r]), NEW t, t = Read(r, {})
        PROVE  /\ t.id \in Ids /\ t.id < next_id /\ t.columns \in Columns
               /\ ~t.columns.expiration_date_handled
               /\ DOMAIN t.rows = {}
    BY <1>0, <2>2 DEF Read, TypeOK, KeysGrow, Existing, AlmostExpired
  <2>3. CASE HeadsUpDays = 0
    <3>1. HandlerReads' /\ handler'.stage = "idle"
      BY <1>3, <2>3 DEF handler_reads, HandlerReads, Idle
    <3> QED BY <1>0, <2>1, <3>1, HandlerMovesKeep DEF TypeOK
  <2>4. CASE HeadsUpDays /= 0
    <3>1. /\ handler' = [stage |-> handler'.stage, todo |-> handler'.todo]
          /\ handler'.stage = "warning"
          /\ handler'.todo = {Read(r, {}) :
                                r \in {x \in Existing : AlmostExpired(risk_acceptance[x])}}
      BY <1>3, <2>4 DEF handler_reads
    <3>2. HandlerReads'
      BY <2>1, <2>2, <3>1 DEF HandlerReads
    <3> QED BY <1>0, <2>1, <3>1, <3>2, HandlerMovesKeep DEF TypeOK
  <2> QED BY <2>3, <2>4
<1>4. CASE handler_warns
  <2>1. PICK t \in handler.todo :
            /\ warned' = IF t.linked /\ warned[t.id] < 2 THEN [warned EXCEPT ![t.id] = @ + 1]
                         ELSE warned
            /\ IF Jira \/ ~t.linked
               THEN handler' = Idle /\ UNCHANGED risk_acceptance
               ELSE /\ Save(t.id, [t.columns EXCEPT !.expiration_date_warned = TRUE])
                    /\ Continue(t)
    BY <1>4 DEF handler_warns
  <2>2. handler.stage = "warning" /\ UNCHANGED <<next_id, row, accepted_findings, engagement>>
    BY <1>4 DEF handler_warns
  <2>3. /\ t.id \in Ids /\ t.id < next_id
        /\ t.columns \in Columns /\ ~t.columns.expiration_date_handled
    BY <1>0, <2>2 DEF HandlerReads
  <2>4. warned' \in [Ids -> 0..2]
    BY <1>0, <2>1, <2>3 DEF TypeOK
  <2>5. HandlerReads' /\ handler'.stage \in {"idle", "expiring", "warning"}
    <3>1. CASE Jira \/ ~t.linked
      BY <2>1, <3>1 DEF HandlerReads, Idle
    <3>2. CASE Continue(t)
      BY <1>0, <2>2, <3>2, ContinueKeeps DEF TypeOK
    <3> QED BY <2>1, <3>1, <3>2
  <2>6. CASE Jira \/ ~t.linked
    BY <2>1, <2>2, <2>4, <2>5, <2>6, HandlerMovesKeep
  <2>7. CASE ~(Jira \/ ~t.linked)
    <3> DEFINE c == [t.columns EXCEPT !.expiration_date_warned = TRUE]
    <3>1. Save(t.id, c)
      BY <2>1, <2>7
    <3>2. c \in Columns /\ ~c.expiration_date_handled
      BY <2>3 DEF Columns
    <3> HIDE DEF c
    <3>3. /\ row' \in [Findings -> Status]
          /\ \A f \in Findings : row'[f].risk_accepted =>
                \E x \in Existing : f \in accepted_findings[x]
      BY <1>0, <2>2 DEF TypeOK, AcceptanceInv, AcceptedIsMember
    <3> QED BY <2>2, <2>3, <2>4, <2>5, <3>1, <3>2, <3>3, SaveKeeps
  <2> QED BY <2>6, <2>7
<1>5. CASE handler_ends
  <2>1. /\ handler' = Idle
        /\ UNCHANGED <<next_id, row, risk_acceptance, accepted_findings, engagement, warned>>
    BY <1>5 DEF handler_ends
  <2>2. HandlerReads' /\ handler'.stage = "idle"
    BY <2>1 DEF HandlerReads, Idle
  <2> QED BY <1>0, <2>1, <2>2, HandlerMovesKeep DEF TypeOK
<1> QED BY <1>1, <1>2, <1>3, <1>4, <1>5 DEF expiration_handler

\* A day passes: dates come nearer, and what is past stays past.
LEMMA NextDayKeeps ==
    ASSUME AcceptanceInv, NextDay
    PROVE  AcceptanceInv'
<1>1. /\ UNCHANGED <<next_id, row, accepted_findings, engagement, handler, warned>>
      /\ risk_acceptance' = [r \in Ids |->
          IF r \in Existing /\ risk_acceptance[r].expiration_date \in 0..MaxDays
          THEN [risk_acceptance[r] EXCEPT !.expiration_date = @ - 1]
          ELSE risk_acceptance[r]]
  BY DEF NextDay
<1>2. \A r \in Existing : r \in Ids /\ risk_acceptance[r] \in Columns
  BY DEF AcceptanceInv, TypeOK, Existing
<1>3. ASSUME NEW r \in Existing, risk_acceptance[r].expiration_date \in 0..MaxDays
      PROVE  /\ [risk_acceptance[r] EXCEPT !.expiration_date = @ - 1] \in Columns
             /\ risk_acceptance[r].expiration_date - 1 \in -1..MaxDays
  BY <1>2, <1>3, DaysAssumption DEF Columns, Dates, Days
<1>4. /\ \A r \in Existing : risk_acceptance'[r] \in Columns
      /\ \A r \in Ids \ Existing : risk_acceptance'[r] = None
  BY <1>1, <1>2, <1>3 DEF Existing
<1>5. Existing' = Existing /\ risk_acceptance' \in [Ids -> Columns \cup {None}]
  BY <1>1, <1>2, <1>4, ColumnsAssumption DEF Existing
<1>6. TypeOK' /\ KeysGrow' /\ AcceptedIsMember' /\ HandlerReads'
  BY <1>1, <1>5 DEF AcceptanceInv, TypeOK, KeysGrow, AcceptedIsMember, HandlerReads
<1>7. HandledIsPast'
  <2> SUFFICES ASSUME NEW r \in Existing, risk_acceptance'[r].expiration_date_handled
               PROVE  risk_acceptance'[r].expiration_date \in {-1, 0}
    BY <1>5 DEF HandledIsPast
  <2>1. risk_acceptance[r] \in Columns
    BY <1>2
  <2>2. CASE risk_acceptance[r].expiration_date \in 0..MaxDays
    <3>1. risk_acceptance'[r] = [risk_acceptance[r] EXCEPT !.expiration_date = @ - 1]
      BY <1>1, <1>2, <2>2
    <3>2. risk_acceptance[r].expiration_date_handled
      BY <2>1, <3>1 DEF Columns
    <3>3. risk_acceptance[r].expiration_date = 0
      BY <2>2, <3>2 DEF AcceptanceInv, HandledIsPast
    <3> QED BY <2>1, <3>1, <3>3 DEF Columns
  <2>3. CASE risk_acceptance[r].expiration_date \notin 0..MaxDays
    BY <1>1, <1>2, <2>3 DEF AcceptanceInv, HandledIsPast
  <2> QED BY <2>2, <2>3
<1> QED BY <1>6, <1>7 DEF AcceptanceInv

\* What the steps above preserve holds from the start.
LEMMA AcceptanceAlways == Spec => []AcceptanceInv
<1>1. Init => AcceptanceInv
  <2> SUFFICES ASSUME Init PROVE AcceptanceInv
    OBVIOUS
  <2>1. Existing = {}
    BY DEF Init, Existing
  <2>2. ASSUME NEW f \in Findings
        PROVE  row[f] \in Status /\ ~row[f].risk_accepted
    <3>1. PICK s \in Status : ~s.risk_accepted /\ row[f] = created(s)
      BY DEF Init
    <3> DEFINE first == update_finding_status(s, {"id"})
               second == saved(s, first, {})
    <3>2. first \in Status /\ ~first.risk_accepted
      BY <3>1, UpdateKeepsRisk
    <3> HIDE DEF first
    <3>3. second \in Status /\ ~second.risk_accepted
      BY <3>2, SavedKeepsRisk
    <3> HIDE DEF second
    <3> QED BY <3>1, <3>3, SavedKeepsRisk DEF created, first, second
  <2>3. TypeOK
    BY <2>1, <2>2 DEF Init, TypeOK, Idle
  <2> QED BY <2>1, <2>2, <2>3
      DEF AcceptanceInv, Init, KeysGrow, HandlerReads, AcceptedIsMember, HandledIsPast, Idle
<1>2. AcceptanceInv /\ [Next]_vars => AcceptanceInv'
  <2> SUFFICES ASSUME AcceptanceInv, [Next]_vars PROVE AcceptanceInv'
    OBVIOUS
  <2>1. CASE UNCHANGED vars
    BY <2>1 DEF vars, AcceptanceInv, TypeOK, KeysGrow, HandlerReads, AcceptedIsMember,
       HandledIsPast, Existing
  <2> QED BY <2>1, PagesKeep, FindingPagesKeep, HandlerKeeps, NextDayKeeps DEF Next
<1> QED BY <1>1, <1>2, PTL DEF Spec

\* Every finding with the flag is in an acceptance where it can be found, whatever users and
\* the handler do in between.
THEOREM AcceptedAreMembers == Spec => []AcceptedIsMember
<1>1. AcceptanceInv => AcceptedIsMember
  BY DEF AcceptanceInv
<1> QED BY <1>1, AcceptanceAlways, PTL

\* No acceptance is marked as expired while its date lies ahead, though the handler saves
\* copies it read before others moved the date.
THEOREM HandledArePast == Spec => []HandledIsPast
<1>1. AcceptanceInv => HandledIsPast
  BY DEF AcceptanceInv
<1> QED BY <1>1, AcceptanceAlways, PTL

-----------------------------------------------------------------------------
(* Warnings. *)

\* An acceptance without the mark was not warned of; the same goes for the copies of the
\* handler, of which there is one for each acceptance it is going to warn of.
WarnInv ==
    /\ WarnedOnce
    /\ \A r \in Ids : r >= next_id => warned[r] = 0
    /\ \A r \in Existing : risk_acceptance[r].expiration_date_warned \/ warned[r] = 0
    /\ \A t \in handler.todo : t.columns.expiration_date_warned \/ warned[t.id] = 0
    /\ handler.stage = "warning" =>
          /\ \A t \in handler.todo : ~t.columns.expiration_date_warned
          /\ \A t, u \in handler.todo : t.id = u.id => t = u

\* Steps that warn of nothing, and leave the handler where it is or nearer to its end.
LEMMA WarnQuiet ==
    ASSUME AcceptanceInv, AcceptanceInv', WarnInv,
           \A r \in Ids : warned'[r] \in {warned[r], 0},
           next_id' \in {next_id, next_id + 1},
           \A r \in Existing' : \/ risk_acceptance'[r].expiration_date_warned \/ warned'[r] = 0
                                \/ r \in Existing /\ risk_acceptance'[r].expiration_date_warned =
                                                       risk_acceptance[r].expiration_date_warned,
           handler'.todo \subseteq handler.todo,
           handler'.stage = "warning" => handler.stage = "warning"
    PROVE  WarnInv'
<1>1. next_id \in Nat /\ \A t \in handler.todo : t.id \in Ids
  BY DEF AcceptanceInv, TypeOK, HandlerReads
<1>2. WarnedOnce'
  BY DEF WarnInv, WarnedOnce
<1>3. \A r \in Ids : r >= next_id' => warned'[r] = 0
  BY <1>1 DEF WarnInv, Ids
<1>4. \A r \in Existing' : r \in Ids
  BY DEF Existing
<1>5. \A r \in Existing' : risk_acceptance'[r].expiration_date_warned \/ warned'[r] = 0
  BY <1>4 DEF WarnInv
<1> QED BY <1>1, <1>2, <1>3, <1>5 DEF WarnInv

\* The pages: a new acceptance, and one that is reinstated, has not been warned of.
LEMMA PagesWarnQuiet ==
    ASSUME AcceptanceInv, AcceptanceInv', WarnInv, Pages
    PROVE  WarnInv'
<1>0. /\ next_id \in Nat /\ warned \in [Ids -> 0..2] /\ engagement \subseteq Existing
      /\ risk_acceptance \in [Ids -> Columns \cup {None}] /\ None \notin Columns
      /\ \A r \in Existing : r \in Ids /\ risk_acceptance[r] \in Columns
  BY ColumnsAssumption DEF AcceptanceInv, TypeOK, Existing
<1>1. CASE add_risk_acceptance \/ accept_risks
  <2>1. PICK c, fs : Create(next_id, c, fs) /\ ~c.expiration_date_warned
                       /\ UNCHANGED <<handler, warned>>
    <3>1. CASE add_risk_acceptance
      <4>1. PICK fs \in SUBSET Findings, date \in FormDates, reactivate \in ReactivateChoices :
                Create(next_id, New(date, reactivate), fs)
        BY <3>1 DEF add_risk_acceptance
      <4>2. ~New(date, reactivate).expiration_date_warned
        BY DEF New
      <4> QED BY <3>1, <4>1, <4>2 DEF add_risk_acceptance
    <3>2. CASE accept_risks
      <4>1. PICK fs \in SUBSET Findings : Create(next_id, New(None, TRUE), fs)
        BY <3>2 DEF accept_risks
      <4>2. ~New(None, TRUE).expiration_date_warned
        BY DEF New
      <4> QED BY <3>2, <4>1, <4>2 DEF accept_risks
    <3> QED BY <1>1, <3>1, <3>2
  <2>2. next_id \in Ids /\ next_id' = next_id + 1
          /\ risk_acceptance' = [risk_acceptance EXCEPT ![next_id] = c]
    BY <2>1 DEF Create, Save
  <2>3. warned[next_id] = 0
    BY <1>0, <2>2 DEF WarnInv
  <2>4. \A r \in Existing' : r = next_id \/ (r \in Existing /\ risk_acceptance'[r] = risk_acceptance[r])
    BY <1>0, <2>2 DEF Existing
  <2> QED BY <2>1, <2>2, <2>3, <2>4, WarnQuiet
<1>2. ASSUME NEW r \in engagement, NEW c, reinstate(r, c)
      PROVE  WarnInv'
  <2>1. /\ r \in Existing /\ r \in Ids
        /\ risk_acceptance' = [risk_acceptance EXCEPT ![r] = Reinstated(c)]
        /\ warned' = [warned EXCEPT ![r] = 0] /\ UNCHANGED <<next_id, handler>>
    BY <1>0, <1>2 DEF reinstate, Save
  <2>2. \A x \in Existing' : x = r \/ (x \in Existing /\ risk_acceptance'[x] = risk_acceptance[x])
    BY <1>0, <2>1 DEF Existing
  <2>3. \A x \in Ids : warned'[x] \in {warned[x], 0}
    BY <1>0, <2>1
  <2>4. warned'[r] = 0
    BY <1>0, <2>1
  <2> QED BY <2>1, <2>2, <2>3, <2>4, WarnQuiet
<1>3. ASSUME NEW r \in engagement, NEW c \in Columns, Save(r, c),
             c.expiration_date_warned = risk_acceptance[r].expiration_date_warned,
             UNCHANGED <<next_id, handler, warned>>
      PROVE  WarnInv'
  <2>1. r \in Existing /\ r \in Ids
    BY <1>0
  <2>2. \A x \in Existing' : x \in Existing /\ risk_acceptance'[x].expiration_date_warned =
                                                 risk_acceptance[x].expiration_date_warned
    BY <1>0, <1>3, <2>1 DEF Existing, Save
  <2> QED BY <1>3, <2>2, WarnQuiet
<1>4. ASSUME NEW r \in engagement, edit_risk_acceptance(r)
      PROVE  WarnInv'
  <2>1. PICK date \in FormDates, reactivate \in ReactivateChoices :
          LET columns == [risk_acceptance[r] EXCEPT !.expiration_date = date,
                                                    !.reactivate_expired = reactivate]
          IN  IF date /= risk_acceptance[r].expiration_date
              THEN reinstate(r, columns)
              ELSE /\ Save(r, columns)
                   /\ UNCHANGED <<next_id, row, accepted_findings, engagement, handler, warned>>
    BY <1>4 DEF edit_risk_acceptance
  <2> DEFINE c == [risk_acceptance[r] EXCEPT !.expiration_date = date,
                                             !.reactivate_expired = reactivate]
  <2>2. date \in Dates /\ reactivate \in BOOLEAN
    BY FormAssumption DEF Dates, Days
  <2>3. c \in Columns /\ c.expiration_date_warned = risk_acceptance[r].expiration_date_warned
    BY <1>0, <2>2 DEF Columns
  <2>4. CASE date /= risk_acceptance[r].expiration_date
    BY <1>2, <2>1, <2>4
  <2>5. CASE date = risk_acceptance[r].expiration_date
    <3>1. Save(r, c) /\ UNCHANGED <<next_id, handler, warned>>
      BY <2>1, <2>5
    <3> HIDE DEF c
    <3> QED BY <1>3, <2>3, <3>1
  <2> QED BY <2>4, <2>5
<1>5. ASSUME NEW r \in engagement, expire_risk_acceptance(r)
      PROVE  WarnInv'
  <2> DEFINE c == [risk_acceptance[r] EXCEPT !.expiration_date = 0,
                                             !.expiration_date_handled = TRUE]
  <2>1. Save(r, c) /\ UNCHANGED <<next_id, handler, warned>>
    BY <1>5 DEF expire_risk_acceptance, expire_now
  <2>2. 0 \in Dates
    BY DaysAssumption DEF Dates, Days
  <2>3. c \in Columns /\ c.expiration_date_warned = risk_acceptance[r].expiration_date_warned
    BY <1>0, <2>2 DEF Columns
  <2> HIDE DEF c
  <2> QED BY <1>3, <2>1, <2>3
<1>6. ASSUME NEW r \in engagement,
             \/ add_findings_to_risk_acceptance(r) \/ remove_finding_from_risk_acceptance(r)
             \/ delete(r)
      PROVE  WarnInv'
  <2>1. r \in Ids /\ UNCHANGED <<next_id, handler, warned>>
          /\ (risk_acceptance' = risk_acceptance
                \/ risk_acceptance' = [risk_acceptance EXCEPT ![r] = None])
    BY <1>0, <1>6 DEF add_findings_to_risk_acceptance, remove_finding_from_risk_acceptance, delete
  <2>2. \A x \in Existing' : x \in Existing /\ risk_acceptance'[x] = risk_acceptance[x]
    BY <1>0, <2>1 DEF Existing
  <2> QED BY <2>1, <2>2, WarnQuiet
<1> QED BY <1>1, <1>2, <1>4, <1>5, <1>6 DEF Pages

\* What the handler has just read is as stored.
LEMMA ReadWarnQuiet ==
    ASSUME AcceptanceInv, WarnInv,
           \A t \in handler'.todo : t.id \in Existing /\ t.columns = risk_acceptance[t.id],
           handler'.stage = "warning" =>
               /\ \A t \in handler'.todo : ~t.columns.expiration_date_warned
               /\ \A t, u \in handler'.todo : t.id = u.id => t = u,
           UNCHANGED <<next_id, risk_acceptance, warned>>
    PROVE  WarnInv'
<1>1. Existing' = Existing
  BY DEF Existing
<1>2. \A t \in handler'.todo : t.columns.expiration_date_warned \/ warned[t.id] = 0
  BY DEF WarnInv
<1> QED BY <1>1, <1>2 DEF WarnInv, WarnedOnce

\* A run of the handler: each acceptance it warns of is marked in the same step, if no comment
\* for JIRA gets in between.
LEMMA HandlerWarnsOnce ==
    ASSUME ~Jira, AcceptanceInv, AcceptanceInv', WarnInv, expiration_handler
    PROVE  WarnInv'
<1>0. /\ warned \in [Ids -> 0..2]
      /\ risk_acceptance \in [Ids -> Columns \cup {None}] /\ None \notin Columns
      /\ \A r \in Existing : r \in Ids /\ risk_acceptance[r] \in Columns
  BY ColumnsAssumption DEF AcceptanceInv, TypeOK, Existing
<1>t. /\ handler = [stage |-> handler.stage, todo |-> handler.todo]
      /\ \A t \in handler.todo : t.id \in Ids /\ t.id < next_id /\ t.columns \in Columns
  BY DEF AcceptanceInv, HandlerReads
<1>c. ASSUME NEW t, Continue(t)
      PROVE  /\ handler'.todo \subseteq handler.todo /\ t \notin handler'.todo
             /\ handler'.stage = "warning" => handler.stage = "warning"
  BY <1>t, <1>c DEF Continue, Idle
<1>1. CASE handler_starts
  <2>1. /\ handler'.todo = {Read(r, accepted_findings[r]) :
                               r \in {x \in Existing : Expired(risk_acceptance[x])}}
        /\ handler'.stage = "expiring" /\ UNCHANGED <<next_id, risk_acceptance, warned>>
    BY <1>1 DEF handler_starts
  <2>2. \A t \in handler'.todo : t.id \in Existing /\ t.columns = risk_acceptance[t.id]
    BY <2>1 DEF Read
  <2> QED BY <2>1, <2>2, ReadWarnQuiet
<1>2. CASE handler_expires
  <2>1. PICK t \in handler.todo : expire_now(t.id, t.columns, t.rows) /\ Continue(t)
    BY <1>2 DEF handler_expires
  <2> DEFINE c == [t.columns EXCEPT !.expiration_date = 0, !.expiration_date_handled = TRUE]
  <2>2. 0 \in Dates
    BY DaysAssumption DEF Dates, Days
  <2>3. c \in Columns /\ c.expiration_date_warned = t.columns.expiration_date_warned
    BY <1>t, <2>2 DEF Columns
  <2>4. risk_acceptance' = [risk_acceptance EXCEPT ![t.id] = c]
    BY <2>1 DEF expire_now, Save
  <2> HIDE DEF c
  <2>5. UNCHANGED <<next_id, warned>>
    BY <1>2 DEF handler_expires
  <2>6. \A r \in Existing' : r = t.id \/ (r \in Existing /\ risk_acceptance'[r] = risk_acceptance[r])
    BY <1>0, <1>t, <2>3, <2>4 DEF Existing
  <2>7. risk_acceptance'[t.id].expiration_date_warned \/ warned'[t.id] = 0
    BY <1>0, <1>t, <2>3, <2>4, <2>5 DEF WarnInv
  <2> QED BY <1>c, <2>1, <2>5, <2>6, <2>7, WarnQuiet
<1>3. CASE handler_reads
  <2>1. UNCHANGED <<next_id, risk_acceptance, warned>>
    BY <1>3 DEF handler_reads
  <2>2. CASE HeadsUpDays = 0
    <3>1. handler'.todo = {} /\ handler'.stage = "idle"
      BY <1>3, <2>2 DEF handler_reads, Idle
    <3> QED BY <2>1, <3>1, ReadWarnQuiet
  <2>3. CASE HeadsUpDays /= 0
    <3>1. handler'.todo = {Read(r, {}) : r \in
                             {x \in Existing : AlmostExpired(risk_acceptance[x])}}
      BY <1>3, <2>3 DEF handler_reads
    <3>2. \A t \in handler'.todo : \E r \in Existing :
             t = Read(r, {}) /\ ~risk_acceptance[r].expiration_date_warned
      BY <3>1 DEF AlmostExpired
    <3>3. \A r \in Existing : Read(r, {}).id = r /\ Read(r, {}).columns = risk_acceptance[r]
      BY DEF Read
    <3>4. \A t \in handler'.todo : /\ t.id \in Existing /\ t.columns = risk_acceptance[t.id]
                                   /\ t = Read(t.id, {}) /\ ~t.columns.expiration_date_warned
      BY <3>2, <3>3
    <3>5. \A t, u \in handler'.todo : t.id = u.id => t = u
      BY <3>4
    <3> QED BY <2>1, <3>4, <3>5, ReadWarnQuiet
  <2> QED BY <2>2, <2>3
<1>4. CASE handler_warns
  <2>1. PICK t \in handler.todo :
          /\ warned' = IF t.linked /\ warned[t.id] < 2 THEN [warned EXCEPT ![t.id] = @ + 1]
                       ELSE warned
          /\ IF Jira \/ ~t.linked
             THEN handler' = Idle /\ UNCHANGED risk_acceptance
             ELSE /\ Save(t.id, [t.columns EXCEPT !.expiration_date_warned = TRUE])
                  /\ Continue(t)
    BY <1>4 DEF handler_warns
  <2>2. next_id' = next_id /\ handler.stage = "warning"
    BY <1>4 DEF handler_warns
  <2>3. CASE ~t.linked
    <3>1. warned' = warned /\ handler'.todo = {} /\ handler'.stage = "idle"
            /\ risk_acceptance' = risk_acceptance
      BY <2>1, <2>3 DEF Idle
    <3> QED BY <2>2, <3>1, WarnQuiet DEF Existing
  <2>4. CASE t.linked
    <3> DEFINE c == [t.columns EXCEPT !.expiration_date_warned = TRUE]
    <3>1. c \in Columns /\ c.expiration_date_warned
      BY <1>t DEF Columns
    <3>2. risk_acceptance' = [risk_acceptance EXCEPT ![t.id] = c] /\ Continue(t)
      BY <2>1, <2>4 DEF Save
    <3> HIDE DEF c
    <3>3. t.id \in Ids /\ t.id < next_id /\ warned[t.id] = 0
      BY <1>t, <2>2 DEF WarnInv
    <3>4. warned' = [warned EXCEPT ![t.id] = 1]
      BY <2>1, <2>4, <3>3
    <3>5. /\ warned'[t.id] = 1
          /\ \A r \in Ids : r /= t.id => warned'[r] = warned[r]
      BY <1>0, <3>3, <3>4
    <3>6. WarnedOnce'
      BY <3>5 DEF WarnInv, WarnedOnce
    <3>7. \A r \in Existing' : \/ r = t.id /\ risk_acceptance'[r].expiration_date_warned
                               \/ r /= t.id /\ r \in Existing /\ risk_acceptance'[r] = risk_acceptance[r]
      BY <1>0, <3>1, <3>2, <3>3 DEF Existing
    <3>8. \A r \in Existing' : risk_acceptance'[r].expiration_date_warned \/ warned'[r] = 0
      BY <1>0, <3>5, <3>7 DEF WarnInv
    <3>9. \A r \in Ids : r >= next_id => warned'[r] = 0
      <4>1. next_id \in Nat /\ \A r \in Ids : r \in Nat
        BY DEF AcceptanceInv, TypeOK, Ids
      <4> QED BY <3>3, <3>5, <4>1 DEF WarnInv
    <3>10. \A u \in handler'.todo : u \in handler.todo /\ u.id /= t.id
      BY <1>c, <2>2, <3>2 DEF WarnInv
    <3>11. \A u \in handler'.todo : warned'[u.id] = warned[u.id]
      BY <1>t, <3>5, <3>10
    <3> QED BY <2>2, <3>6, <3>8, <3>9, <3>10, <3>11 DEF WarnInv
  <2> QED BY <2>3, <2>4
<1>5. CASE handler_ends
  <2>1. handler'.todo = {} /\ handler'.stage = "idle"
          /\ UNCHANGED <<next_id, risk_acceptance, warned>>
    BY <1>5 DEF handler_ends, Idle
  <2> QED BY <2>1, WarnQuiet DEF Existing
<1> QED BY <1>1, <1>2, <1>3, <1>4, <1>5 DEF expiration_handler

\* Nobody is warned twice of an acceptance until it is reinstated, however often the handler
\* runs and whatever others do to the acceptance meanwhile - where the engagement does not post
\* to JIRA; where it does, the handler raises before it records the warning.
THEOREM NobodyWarnedTwice ==
    ASSUME ~Jira
    PROVE  Spec => []WarnedOnce
<1>1. Init => WarnInv
  BY DEF Init, WarnInv, WarnedOnce, Existing, Idle
<1>2. AcceptanceInv /\ AcceptanceInv' /\ WarnInv /\ [Next]_vars => WarnInv'
  <2> SUFFICES ASSUME AcceptanceInv, AcceptanceInv', WarnInv, [Next]_vars PROVE WarnInv'
    OBVIOUS
  <2>1. CASE FindingPages \/ UNCHANGED vars
    <3>1. UNCHANGED <<next_id, risk_acceptance, handler, warned>>
      BY <2>1 DEF FindingPages, vars
    <3> QED BY <3>1, WarnQuiet DEF Existing
  <2>2. CASE NextDay
    <3>1. /\ UNCHANGED <<next_id, handler, warned>>
          /\ risk_acceptance' = [r \in Ids |->
                IF r \in Existing /\ risk_acceptance[r].expiration_date \in 0..MaxDays
                THEN [risk_acceptance[r] EXCEPT !.expiration_date = @ - 1]
                ELSE risk_acceptance[r]]
      BY <2>2 DEF NextDay
    <3>2. \A r \in Existing : r \in Ids /\ risk_acceptance[r] \in Columns
      BY DEF AcceptanceInv, TypeOK, Existing
    <3>3. \A r \in Existing' : r \in Existing /\ risk_acceptance'[r].expiration_date_warned =
                                                  risk_acceptance[r].expiration_date_warned
      BY <3>1, <3>2 DEF Existing, Columns
    <3> QED BY <3>1, <3>3, WarnQuiet
  <2> QED BY <2>1, <2>2, PagesWarnQuiet, HandlerWarnsOnce DEF Next
<1>3. WarnInv => WarnedOnce
  BY DEF WarnInv
<1> QED BY <1>1, <1>2, <1>3, AcceptanceAlways, PTL DEF Spec
=============================================================================
