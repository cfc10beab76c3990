\* Two messages, two Outbox screens, an agent.
\* The user may stop pressing and the message be sent: no deadlock check.
CONSTANTS
    m1 = m1
    m2 = m2
    a1 = a1
    a2 = a2
    w1 = w1
    w2 = w2
    Msg = {m1, m2}
    Slot = {1}
    Agent = {a1}
    Window = {w1, w2}
    Legacy = {"retired"}
    MaxAttempts = 1
    MaxCrash = 1
    MaxPress = 2
SYMMETRY Interchangeable
SPECIFICATION Spec
CHECK_DEADLOCK FALSE
INVARIANTS
    NoSpontaneousDuplicate
    SentMeansAccepted
    QueuedIsLive
PROPERTIES
    DiscardIsFinal
