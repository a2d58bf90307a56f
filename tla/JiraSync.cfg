CONSTANTS
    Findings = {f1, f2}
    Groups = {g1}
    Workers = {w1}
    Groupings <- MCGroupings
    MaxIssues = 2
    MaxDecisions = 2
    JiraResolutions = {"done"}
    None = None
    f1 = f1 f2 = f2 g1 = g1

SPECIFICATION FairSpec

PROPERTIES
    Converges
    Heals
    ReconcileSettles

CHECK_DEADLOCK FALSE
