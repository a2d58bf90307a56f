------------------------- MODULE MCFalsePositiveHistory -------------------------
\* Instances of FalsePositiveHistory for TLC.
EXTENDS FalsePositiveHistory, TLC

CONSTANTS e1, e2, zap, h1, h2, w1, w2

To(e) == [engagement |-> e, test_type |-> zap, service |-> None]
MCAlgorithm == zap :> "hash_code"

Active == [active |-> TRUE, verified |-> FALSE, false_p |-> FALSE, out_of_scope |-> FALSE,
           is_mitigated |-> FALSE, mitigated |-> FALSE, risk_accepted |-> FALSE,
           duplicate |-> FALSE, linked |-> FALSE]
Fixed == [Active EXCEPT !.active = FALSE, !.is_mitigated = TRUE]

Reported(hash, status) == [hash |-> hash, uid |-> None, status |-> status]

MCTargets == {To(e1), To(e2)}
MCRequests ==
    {[to |-> To(e1), report |-> <<Reported(h1, Active)>>, close_old |-> None],
     [to |-> To(e2), report |-> <<Reported(h1, Fixed), Reported(h2, Active)>>, close_old |-> "product"]}

MCSymmetry == Permutations({w1, w2})
=============================================================================
