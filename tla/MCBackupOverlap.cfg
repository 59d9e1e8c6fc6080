CONSTANTS
    Workers = {w1, w2}
    NJobs = 2
    Types = {database}
    Verify = verify
    Priority <- MCPriority
    NArtefacts = 3
    NRuns = 3
    MaxFaults = 1
    LateFailures = TRUE
    DayOf <- MCDay
    WeekOf <- MCDay
    MonthOf <- MCDay
    Policy <- MCPolicy
SPECIFICATION Spec
SYMMETRY MCSymmetry
INVARIANTS RecordsAreTrue
