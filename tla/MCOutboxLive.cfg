\* One message, with a queue row or without, and every kind of setback: it gets
\* out of the queue.
CONSTANTS
    m1 = m1
    m2 = m2
    a1 = a1
    a2 = a2
    w1 = w1
    w2 = w2
    Msg = {m1}
    Slot = {1, 2}
    Agent = {a1}
    Window = {w1, w2}
    Legacy = {"retired", "rowless"}
    MaxAttempts = 2
    MaxCrash = 2
    MaxPress = 3
SPECIFICATION FairSpec
CHECK_DEADLOCK FALSE
PROPERTIES
    QueuedLeaves
