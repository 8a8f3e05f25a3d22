SPECIFICATION Spec
CONSTANTS
    Announcements <- MCAnnouncements
    Nothing = Nothing
    Uids = {1, 2}
    MaxCalls = 2
    MaxRenumberings = 1
CHECK_DEADLOCK FALSE
INVARIANTS
    CredentialGoesOutOnce
    UidsMeanTheSame
    EveryMessageIsAccountedFor
