SPECIFICATION Spec
CONSTANTS
    a1 = a1
    a2 = a2
    inbox = inbox
    sent = sent
    Mailboxes <- TwoAccounts
    Nothing = Nothing
    FolderList = FolderList
    EmptyVersions = {2}
    MaxVersion = 3
    MaxChoices = 2
    MaxUpdates = 1
    MaxLoads = 1
    MaxChanges = 0
    MaxFailures = 1
    MaxInputs = 5
INVARIANT
    NoSilentNotLoaded
CHECK_DEADLOCK FALSE
