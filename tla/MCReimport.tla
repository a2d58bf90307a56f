------------------------------ MODULE MCReimport ------------------------------
\* Reports of up to two items over three vulnerabilities: the second has the
\* unique id of the third and the hash of the first.
EXTENDS Reimport, TLC

CONSTANTS h1, h2, u1, u2, t1, t2

MCIds == 1..3

a1 == [hash |-> h1, uid |-> u1, title |-> t1]
a2 == [hash |-> h1, uid |-> u2, title |-> t2]
a3 == [hash |-> h2, uid |-> u2, title |-> t2]

Fixed == [Open EXCEPT !.active = FALSE, !.is_mitigated = TRUE]
Accepted == [Open EXCEPT !.active = FALSE, !.risk_accepted = TRUE]
FalsePositive == [Open EXCEPT !.active = FALSE, !.false_p = TRUE]

PlainItems == [attr : {a1, a2, a3}, status : {Open}]
Items == PlainItems \cup [attr : {a1}, status : {Fixed, Accepted, FalsePositive}]

UpToTwo(S) == {<<>>} \cup {<<x>> : x \in S} \cup {<<x, y>> : x, y \in S}

AllReports == UpToTwo(Items)
PlainReports == UpToTwo(PlainItems)

=============================================================================
