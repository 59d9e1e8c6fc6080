CONSTANTS
    Times <- MCTimes
    DayOf <- MCDay
    WeekOf <- MCWeek
    MonthOf <- MCMonth
    Policy <- MCPolicy
SPECIFICATION Spec
INVARIANTS TypeOK RestorePointsKept CutOffIsHarmless
