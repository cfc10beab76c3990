\* A set posted again after its answer was lost.
CONSTANTS
    i1 = i1
    i2 = i2
    i3 = i3
    k1 = k1
    k2 = k2
    Install = {i1, i2}
    Key = {k1}
    Worker = {"loop"}
    Slot = {1, 2, 3, 4}
    Horizon = 1
    Page = 2
    MaxBatch = 2
    Overlap = FALSE
    Ready = {"folder"}
    Parked = FALSE
    Faults = {"reply"}
    MaxVerb = 2
    MaxFault = 1
    MaxSnapshot = 0
SPECIFICATION Spec
CHECK_DEADLOCK FALSE
INVARIANTS
    LastWordWins
