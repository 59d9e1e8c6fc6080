CONSTANTS
    Workers = {w1}
    NJobs = 2
    Types = {database}
    Verify = verify
    Priority <- MCPriority
    NArtefacts = 2
    NRuns = 2
    MaxFaults = 1
    LateFailures = TRUE
    DayOf <- MCDay
    WeekOf <- MCDay
    MonthOf <- MCDay
    Policy <- MCPolicy
SPECIFICATION Spec
INVARIANT RestorePointSurvives
