\* A key pressed between a renumbered folder and the walk that renews its placements.
SPECIFICATION Spec
CONSTANTS
    m1 = m1
    m2 = m2
    inbox = inbox
    trash = trash
    work = work
    Msg = {m1, m2}
    Box = {inbox, trash}
    Inbox = inbox
    Trash = trash
    Start <- InInbox
    Moves <- Offered
    Hashes <- Offered
    Refused <- NoRefusal
    Loading = FALSE
    SlowSync = FALSE
    EarlyPress = TRUE
    StuckAfter = 2
    MaxPress = 1
    MaxSeen = 0
    MaxUndo = 0
    MaxFail = 0
    MaxElse = 0
    MaxRebuild = 1
PROPERTIES
    RightMessage
CHECK_DEADLOCK FALSE
