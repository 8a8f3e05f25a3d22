SPECIFICATION SidebarSpec
CONSTANTS
    Ids = {1, 2, 3}
    Accounts <- MCAccounts
    NoAccounts <- NoAccountList
    Failure = Failure
    FolderLists <- MCFolderLists
    UnderAccount = UnderAccount
    NoRole = NoRole
    NoSelection = NoSelection
    MaxChanges = 2
    MaxRetries = 1
    MaxFailures = 1
    MaxChoices = 3
CHECK_DEADLOCK FALSE
INVARIANTS
    CurrentWhenIdle
    RetryIsServed
    LabelsTellApart
    SelectionIsShown
    EveryFolderHasARow
PROPERTIES
    RetryEnds
    SidebarEndsUpToDate
