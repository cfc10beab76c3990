\* A reminder one install set, pruned behind another install's snapshot.
CONSTANTS
    i1 = i1
    i2 = i2
    i3 = i3
    k1 = k1
    k2 = k2
    Install = {i1, i2}
    Key = {k1}
    Worker = {"loop"}
    Slot = {1, 2}
    Horizon = 1
    Page = 2
    MaxBatch = 3
    Overlap = FALSE
    Ready = {"folder"}
    Parked = FALSE
    Faults = {"prune"}
    MaxVerb = 1
    MaxFault = 1
    MaxSnapshot = 2
SPECIFICATION Spec
CHECK_DEADLOCK FALSE
INVARIANTS
    NothingLost
