SPECIFICATION MCSpec
CONSTANTS
    a1 = a1
    a2 = a2
    f1 = f1
    f2 = f2
    x1 = x1
    x2 = x2
    y1 = y1
    Account = {a1, a2}
    FolderId = {f1, f2}
    Mail = {x1, x2, y1}
    MessageFlag = {"Seen"}
    MessageId <- MCMessageId
    NoPlace = NoPlace
    Place <- MCPlace
    Gmail = {a2}
    CondStore = {TRUE, FALSE}
    MaxUid = 2
    MaxModseq = 3
    MaxValidity = 2
    BatchSize = 1
    UidsPerCommand = 1
    MaxWishes = 2
    MaxFaults = 1
SYMMETRY Symmetry
INVARIANTS
    NumbersProveTheStore
PROPERTIES
    KeepsTheCyclePromise
    WishEndsOnlyWithProof
