SPECIFICATION FairSpec
CONSTANTS
    a1 = a1
    f1 = f1
    f2 = f2
    x1 = x1
    x2 = x2
    Account = {a1}
    FolderId = {f1}
    Mail = {x1, x2}
    MessageFlag = {"Seen"}
    MessageId <- MCMessageId
    NoPlace = NoPlace
    Place <- MCPlace
    Gmail = {}
    CondStore = {TRUE}
    MaxUid = 2
    MaxModseq = 3
    MaxValidity = 1
    BatchSize = 1
    UidsPerCommand = 1
    MaxWishes = 1
    MaxFaults = 1
PROPERTIES
    CycleEnds
    Converges
