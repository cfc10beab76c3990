\* Two installs and their users, a server that comes and goes.
CONSTANTS
    i1 = i1
    i2 = i2
    i3 = i3
    k1 = k1
    k2 = k2
    Install = {i1, i2}
    Key = {k1}
    Worker = {"loop"}
    Slot = {1, 2, 3, 4}
    Horizon = 2
    Page = 2
    MaxBatch = 2
    Overlap = FALSE
    Ready = {"folder"}
    Parked = FALSE
    Faults = {"down"}
    MaxVerb = 3
    MaxFault = 1
    MaxSnapshot = 0
SYMMETRY Interchangeable
SPECIFICATION Spec
CHECK_DEADLOCK FALSE
INVARIANTS
    LastWordWins
