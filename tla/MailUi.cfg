SPECIFICATION FairSpec
CONSTANTS
    a1 = a1
    a2 = a2
    f1 = f1
    f2 = f2
    x1 = x1
    x2 = x2
    Nothing = Nothing
    Folder <- MCFolder
    Identities <- MCIdentities
    RowChoices <- MCRowChoices
    MaxReads = 3
    MaxRequests = 2
INVARIANTS
    ListFollowsRows
    ReaderShowsListedMessage
    ReadTimerIsOfOpenMessage
PROPERTIES
    ListSettles
