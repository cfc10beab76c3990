SPECIFICATION LiveSpec
CONSTANTS
    m1 = m1
    inbox = inbox
    trash = trash
    work = work
    Msg = {m1}
    Box = {inbox, trash, work}
    Inbox = inbox
    Trash = trash
    Start <- InInbox
    Moves <- Both
    Hashes <- Both
    Refused <- NoWayBack
    Loading = FALSE
    SlowSync = TRUE
    EarlyPress = FALSE
    StuckAfter = 2
    MaxPress = 2
    MaxSeen = 0
    MaxUndo = 1
    MaxFail = 1
    MaxElse = 0
    MaxRebuild = 0
INVARIANTS
    NothingLost
    LastWishWins
    NoGhost
PROPERTIES
    Converges
CHECK_DEADLOCK FALSE
