CONSTANTS
    None = None
    Paths = {"service", "serviceMeta", "util", "serviceTest", "trigger", "account", "layout", "notes"}
    Sources = {"service", "util", "serviceTest", "trigger"}
    Triggers = {"trigger"}
    Sidecars = {"serviceMeta"}
    Owner <- OwnerOf
    Uses <- References
    TestsOf <- Tests
    Category <- Categories
    TypeOf <- Types
    Rank <- Order
    Original <- Base
    Projects <- ProjectStates
    Orgs <- OrgStates
    Environments = {"e1", "e2"}
    ChangeLists <- Changes
    MaxAge = 1
    MaxSkew = 0
    Lags = {0, 1}
    MaxChanges = 2
    MaxClock = 3
    MaxRuns = 2
    MaxSnapshots = 1
SPECIFICATION Spec
INVARIANTS ReadyReportsAreBacked UnchangedMetadataAgrees EvidenceCoversTheChange
CHECK_DEADLOCK FALSE
