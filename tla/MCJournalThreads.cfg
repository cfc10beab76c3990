\* A reminder set while the pull is applying another install's.
CONSTANTS
    i1 = i1
    i2 = i2
    i3 = i3
    k1 = k1
    k2 = k2
    Install = {i1, i2}
    Key = {k1}
    Worker = {"loop"}
    Slot = {1, 2, 3}
    Horizon = 2
    Page = 2
    MaxBatch = 2
    Overlap = TRUE
    Ready = {"folder"}
    Parked = FALSE
    Faults = {}
    MaxVerb = 3
    MaxFault = 0
    MaxSnapshot = 0
SPECIFICATION Spec
CHECK_DEADLOCK FALSE
INVARIANTS
    LastWordWins
