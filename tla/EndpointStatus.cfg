CONSTANTS
    Locations <- MCLocations
    Reports <- MCReports
    ChunkSize = 1
    Settings <- MCSettings
    None = None
    MaxUploads = 2
    MaxDecisions = 1

SPECIFICATION Spec
CHECK_DEADLOCK FALSE

INVARIANTS
    ReportedActive
    UnreportedMitigated
