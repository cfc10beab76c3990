SPECIFICATION Spec
CONSTANTS
    Folder = {"inbox"}
    Mail = {1, 2}
    Sent = {2}
    Large = {}
    Id <- MailId
    Headers <- MailHeaders
    NoId = 0
    MaxRow = 6
    Budgets <- Rechecked
INVARIANT OneRow
CHECK_DEADLOCK FALSE
