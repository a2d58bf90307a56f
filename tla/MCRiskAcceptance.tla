--------------------------- MODULE MCRiskAcceptance ---------------------------
\* One finding, two acceptances.  Users give tomorrow as date; days passing
\* bring it to today and into the past.
EXTENDS RiskAcceptance, TLC

CONSTANTS f1

MCFindings == {f1}
MCFormDates == {1}

=============================================================================
