SPECIFICATION FairSpec
CONSTANTS
    h1 = h1
    h2 = h2
    k1 = k1
    Handlers = {h1, h2}
    Choices = {"x"}
    Keys = {k1}
    NoKey = NoKey
    SnapshotIds = {"snap"}
    ForecastIds = {"forecast"}
    Contents = {"c1", "c2"}
    Events = {"sale"}
    Labels = {"project"}
    Role = "approver"
    MaxJobs = 3
INVARIANTS
    PublishedTogether
    ResultsResolve
    OpenJobsAreOwned
    KeyNamesOneJob
    AuditExplainsJobs
    NoUpdateConflict
PROPERTIES
    FinishedJobsStay
    OpenJobsFinish
