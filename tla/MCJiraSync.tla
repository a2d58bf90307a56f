------------------------------ MODULE MCJiraSync ------------------------------
\* Instances of JiraSync for TLC.
EXTENDS JiraSync, TLC

CONSTANTS f1, f2, g1

\* a finding on its own and one in a group, or two that share the issue of a group
MCGroupings == {[f \in Findings |-> g1], [f \in Findings |-> IF f = f1 THEN None ELSE g1]}
MCAlone == {[f \in Findings |-> None]}

=============================================================================
