CONSTANTS
    Workers = {w1}
    NJobs = 3
    Types = {database}
    Verify = verify
    Priority <- MCPriority
    NArtefacts = 5
    NRuns = 6
    MaxFaults = 2
    LateFailures = FALSE
    DayOf <- MCDay
    WeekOf <- MCDay
    MonthOf <- MCDay
    Policy <- MCPolicy
SPECIFICATION FairSpec
INVARIANTS TypeOK RestorePointSurvives AtMostOneActive
PROPERTY JobsEnd
