SPECIFICATION Spec
CONSTANTS
    m1 = m1
    m2 = m2
    inbox = inbox
    trash = trash
    work = work
    Msg = {m1, m2}
    Box = {inbox, trash}
    Inbox = inbox
    Trash = trash
    Start <- InInbox
    Moves <- Offered
    Hashes <- Offered
    Refused <- NoRefusal
    Loading = FALSE
    SlowSync = FALSE
    EarlyPress = FALSE
    StuckAfter = 2
    MaxPress = 1
    MaxSeen = 1
    MaxUndo = 0
    MaxFail = 0
    MaxElse = 1
    MaxRebuild = 1
INVARIANTS
    FiledStaysFiled
    ReadSticks
PROPERTIES
    RightMessage
CHECK_DEADLOCK FALSE
