\* A competing claim read by the loop while the tick waits for its own.
CONSTANTS
    i1 = i1
    i2 = i2
    i3 = i3
    k1 = k1
    k2 = k2
    Install = {i1, i2}
    Key = {k1}
    Worker = {"loop", "tick"}
    Slot = {1}
    Horizon = 1
    Page = 2
    MaxBatch = 2
    Overlap = FALSE
    Ready = {"folder"}
    Parked = TRUE
    Faults = {}
    MaxVerb = 0
    MaxFault = 0
    MaxSnapshot = 0
SPECIFICATION Spec
CHECK_DEADLOCK FALSE
INVARIANTS
    FiredOnce
