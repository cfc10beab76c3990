\* Lost answers, a server that goes away, pruning and snapshots: every record owed goes up and is read.
CONSTANTS
    i1 = i1
    i2 = i2
    i3 = i3
    k1 = k1
    k2 = k2
    Install = {i1, i2}
    Key = {k1}
    Worker = {"loop"}
    Slot = {1, 2}
    Horizon = 1
    Page = 2
    MaxBatch = 2
    Overlap = FALSE
    Ready = {"nothing"}
    Parked = FALSE
    Faults = {"down", "reply", "prune"}
    MaxVerb = 1
    MaxFault = 1
    MaxSnapshot = 2
SPECIFICATION FairSpec
CHECK_DEADLOCK FALSE
PROPERTIES
    EverybodyHears
