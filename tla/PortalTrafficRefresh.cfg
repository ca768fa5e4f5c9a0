SPECIFICATION Spec
CONSTANTS
    Insts = {i1}
    Readings <- MCReadings
    MaxCount = 20
    Schedules = {"s"}
    Boundaries <- MCBoundaries
    Nil = Nil
    MaxTime = 3
    MaxBytes = 3
    MaxQueue = 2
    Mixes <- MCRefresh
INVARIANT NeverCountsTwice
