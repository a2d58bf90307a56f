CONSTANTS
    Workers = {w1, w2}
    None = None
    SimpleRiskAcceptance = TRUE
    EditableMitigatedData = TRUE

SPECIFICATION Spec
SYMMETRY Symmetry

INVARIANTS
    MitigationDated
    RejectedIsClosed
    OpenIsNotFixed
    OpenIsNotRejected
