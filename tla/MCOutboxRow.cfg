\* Two retries of a message that has no queue row.
CONSTANTS
    m1 = m1
    m2 = m2
    a1 = a1
    a2 = a2
    w1 = w1
    w2 = w2
    Msg = {m1}
    Slot = {1, 2}
    Agent = {a1}
    Window = {w1, w2}
    Legacy = {"rowless"}
    MaxAttempts = 0
    MaxCrash = 0
    MaxPress = 2
SPECIFICATION Spec
CHECK_DEADLOCK FALSE
INVARIANTS
    NoSpontaneousDuplicate
