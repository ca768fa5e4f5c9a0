SPECIFICATION Spec
CONSTANTS
    Insts = {i1}
    Readings <- MCReadings
    MaxCount = 20
    Schedules = {"s"}
    Boundaries <- MCBoundaries
    Nil = Nil
    MaxTime = 2
    MaxBytes = 1
    MaxQueue = 1
    Mixes <- MCCallers
INVARIANT EditedIsAccounted
PROPERTIES AccountSpec OlderEventNeverUndoesEdit
