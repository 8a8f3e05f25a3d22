SPECIFICATION Spec
CONSTANTS
    a1 = a1
    f1 = f1
    f2 = f2
    m1 = m1
    m2 = m2
    Account = {a1}
    FolderId = {f1, f2}
    MessageId = {m1, m2}
    MessageFlag = {"Seen"}
    NoPlace = NoPlace
    Place = {NoPlace}
    MaxNamed = 2
    Contents = {"text", "text_not_returned", "not_downloaded"}
    Batch <- MCBatch
SYMMETRY Symmetry
INVARIANTS
    MembershipsHoldRows
    NoOrphanMessages
PROPERTIES
    DeletionIsTotal
    WishEndsOnlyByItsAnswer
    ContentIsNeverLost
    RemovalIsLocal
