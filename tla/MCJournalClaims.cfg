\* Three installs reach the deadline of one reminder together, and one thing goes wrong.
CONSTANTS
    i1 = i1
    i2 = i2
    i3 = i3
    k1 = k1
    k2 = k2
    Install = {i1, i2, i3}
    Key = {k1}
    Worker = {"tick"}
    Slot = {1}
    Horizon = 1
    Page = 2
    MaxBatch = 2
    Overlap = FALSE
    Ready = {"folder"}
    Parked = TRUE
    Faults = {"down","reply","lapse"}
    MaxVerb = 1
    MaxFault = 1
    MaxSnapshot = 0
SPECIFICATION Spec
CHECK_DEADLOCK FALSE
INVARIANTS
    FiredOnce
