--------------------------- MODULE MCFindingLifecycle ---------------------------
\* Two requests at a time on one finding.
EXTENDS FindingLifecycle, TLC

Symmetry == Permutations(Workers)

=============================================================================
