\* A retry that loaded a queued message, and a cancel that commits first.
CONSTANTS
    m1 = m1
    m2 = m2
    a1 = a1
    a2 = a2
    w1 = w1
    w2 = w2
    Msg = {m1}
    Slot = {1}
    Agent = {}
    Window = {w1, w2}
    Legacy = {}
    MaxAttempts = 0
    MaxCrash = 0
    MaxPress = 2
SPECIFICATION Spec
CHECK_DEADLOCK FALSE
INVARIANTS
    HeldIsParked
