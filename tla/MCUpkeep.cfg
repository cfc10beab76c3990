SPECIFICATION UpkeepSpec
CONSTANTS
    Folder = {"inbox", "all"}
    Mail = {1, 2}
    Sent = {2}
    Large = {}
    Id <- MailId
    Headers <- MailHeaders
    NoId = 0
    MaxRow = 6
    Budgets <- ContentBudgets
    Drain = {"agent"}
    Agent = "agent"
    Msg = {1, 2}
    Files <- FilesHeld
    EXTRACT_BATCH = 2
    MaxAtt = 6
    TikaBudgets <- TikaTrouble
    Request = {1, 2, 3, 4, 5}
    Op <- Asked
    Fold <- Folded
    MaxWords = 2
    Thread = {"t", "u"}
    GUARD_TTL = 2
    UNRESOLVED_TTL = 1
    MaxClock = 3
    MaxSegments = 3
    MaxUnits = 2
    SEPARATOR_UNITS = 2
    Message = {1, 2, 3}
    BATCH = 2
    FillBudgets <- FillTrouble
INVARIANTS
    OwnContent
    Readable
    NoBystander
    Searchable
    FreshVerdict
    Underlined
    IndexHonest
PROPERTIES
    Repaired
    Drained
    Serialised
    Heard
    Unparked
CHECK_DEADLOCK FALSE
