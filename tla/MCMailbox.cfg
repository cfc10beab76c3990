SPECIFICATION MailboxSpec
CONSTANTS
    Folder = {"inbox", "arch", "all", "sub"}
    Mail = {"m"}
    None = "none"
    Parent <- FolderParent
    Role <- FolderRole
    SameNames = FALSE
    MissingGrace = 1
    OrphanGrace = 1
    MaxUid = 2
    Budgets <- FolderBudgets
    Letters = {"a", "b"}
    MaxFail = 1
    MaxConfig = 1
    MaxTool = 1
    N = 4
    Id <- MailId
    Refs <- MailRefs
    Subject <- MailSubject
    IsReply <- MailReplies
    Window = 3
    AnchorsToo = FALSE
    ThreadBudgets <- ThreadTrouble
    RepairFolder = {"inbox", "arch", "all"}
    All = {"all"}
    Letter <- LetterOf
    Starts <- RepairStarts
    RepairMaxUid = 4
    MaxRow = 3
    RepairBudgets <- RepairTrouble
INVARIANTS
    NothingUnfiled
    OneCopy
    Grouped
PROPERTIES
    PrunedOnEvidence
    TreeSettles
    Filed
    Promise
    ComesBack
    Accounted
CHECK_DEADLOCK FALSE
