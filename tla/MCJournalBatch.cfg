\* More records owed than the server takes in one request.
CONSTANTS
    i1 = i1
    i2 = i2
    i3 = i3
    k1 = k1
    k2 = k2
    Install = {i1}
    Key = {k1}
    Worker = {"loop"}
    Slot = {1, 2}
    Horizon = 1
    Page = 2
    MaxBatch = 1
    Overlap = FALSE
    Ready = {"folder"}
    Parked = FALSE
    Faults = {}
    MaxVerb = 2
    MaxFault = 0
    MaxSnapshot = 0
SPECIFICATION FairSpec
CHECK_DEADLOCK FALSE
PROPERTIES
    EverybodyHears
