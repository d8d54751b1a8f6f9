SPECIFICATION FairSpec
CONSTANTS
    None = None
    Snapshots = {"complete", "incomplete", "completed"}
    Importable = {"complete", "incomplete"}
    Plannable = {"complete", "completed"}
    PreparedAs <- MCPreparedAs
    Policies = {"p"}
    Terms = {"p", "q"}
    DefaultPolicy = "p"
    MaxJobs = 3
    MaxFaults = 1
    MaxSessions = 2
    MaxEdits = 1
INVARIANTS
    OneJobPerRequest
    PlansBelongToTheirData
    ComparisonHasItsBase
PROPERTIES
    FlowsEnd
