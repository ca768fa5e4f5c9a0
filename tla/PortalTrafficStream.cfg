SPECIFICATION LedgerSpec
CONSTANTS
    Insts = {i1}
    Readings <- MCReadings
    MaxCount = 20
    Schedules = {"s"}
    Boundaries <- MCBoundaries
    Nil = Nil
    MaxTime = 2
    MaxBytes = 3
    MaxQueue = 2
    Mixes <- MCStream
INVARIANTS TypeOK NeverCountsTwice
PROPERTY NothingLost
