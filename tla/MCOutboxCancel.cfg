\* A cancel between the agent's read of the queue and its lease.
CONSTANTS
    m1 = m1
    m2 = m2
    a1 = a1
    a2 = a2
    w1 = w1
    w2 = w2
    Msg = {m1}
    Slot = {1}
    Agent = {a1}
    Window = {w1}
    Legacy = {}
    MaxAttempts = 0
    MaxCrash = 0
    MaxPress = 1
SPECIFICATION Spec
CHECK_DEADLOCK FALSE
PROPERTIES
    CancelHonoured
