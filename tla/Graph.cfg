SPECIFICATION Spec
CONSTANTS
    a1 = a1
    f1 = f1
    f2 = f2
    x1 = x1
    x2 = x2
    Account = {a1}
    FolderId = {f1, f2}
    MessageId = {x1, x2}
    MessageFlag = {"Seen"}
    NoPlace = NoPlace
    Place <- MCPlace
    Nowhere = Nowhere
    PageSize = 1
    MaxChanges = 2
    RoundReadingsLimit = 1
    MaxWishes = 1
    MaxFaults = 2
SYMMETRY Symmetry
INVARIANTS
    TypeInvariant
    PositionProvesTheStore
PROPERTIES
    KeepsTheCyclePromise
    WishEndsOnlyWithProof
