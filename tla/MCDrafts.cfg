SPECIFICATION Spec
CONSTANTS
    t1 = t1
    t2 = t2
    Tab = {t1, t2}
    MaxRow = 4
    Budgets <- Budgeted
    Blind = TRUE
SYMMETRY Alike
INVARIANTS
    WordsKept
    FilesKept
    StaysGone
PROPERTIES
    SavesKeep
CHECK_DEADLOCK FALSE
