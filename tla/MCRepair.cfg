SPECIFICATION Spec
CONSTANTS
    Folder = {"inbox", "arch", "all"}
    All = {"all"}
    Letter <- OneLetter
    Starts <- OneStart
    MaxUid = 4
    MaxRow = 2
    Budgets <- OnePress
PROPERTY LeavesQueued
CHECK_DEADLOCK FALSE
