SPECIFICATION Spec
CONSTANTS
    a1 = a1
    a2 = a2
    inbox = inbox
    sent = sent
    Mailboxes <- OneAccount
    Nothing = Nothing
    FolderList = FolderList
    EmptyVersions = {2}
    MaxVersion = 3
    MaxChoices = 2
    MaxUpdates = 2
    MaxLoads = 1
    MaxChanges = 2
    MaxFailures = 1
    MaxInputs = 4
INVARIANTS
    ShowsSelectedMailbox
    ListIsCurrentAtRest
    SidebarIsCurrentAtRest
PROPERTIES
    ListNeverGoesBack
    RowsStayWhileRead
    LaterChangeLandsLast
CHECK_DEADLOCK FALSE
