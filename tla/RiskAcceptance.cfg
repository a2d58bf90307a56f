CONSTANTS
    Findings <- MCFindings
    MaxAcceptances = 2
    MaxDays = 1
    FormDates <- MCFormDates
    ReactivateChoices = {TRUE}
    None = None
    HeadsUpDays = 1
    DefaultDays = 1
    Jira = FALSE
    f1 = f1

SPECIFICATION Spec

INVARIANTS
    AcceptedIsMember
    HandledIsPast
    WarnedOnce

PROPERTIES
    ExpiryHandled
