SPECIFICATION Spec
CONSTANTS
    Insts = {i1}
    Readings <- MCReadings
    MaxCount = 3
    Schedules <- MCSchedules
    Boundaries <- MCBoundaries
    Nil = Nil
    MaxTime = 2
    LastMonth = 5
    Days <- MCDays
    Start <- MCStart
    DayLen = 1
    ResetDays = {1, 2}
    Clocks = {0}
INVARIANTS TypeOK UsedWithinTotal
PROPERTIES TotalNeverShrinks CursorNeverRewinds ResetOncePerBoundary PeriodsSpec
