\* Two agents reading the queue at once.
CONSTANTS
    m1 = m1
    m2 = m2
    a1 = a1
    a2 = a2
    w1 = w1
    w2 = w2
    Msg = {m1}
    Slot = {1}
    Agent = {a1, a2}
    Window = {}
    Legacy = {}
    MaxAttempts = 0
    MaxCrash = 0
    MaxPress = 0
SPECIFICATION Spec
CHECK_DEADLOCK FALSE
INVARIANTS
    LeaseIsExclusive
