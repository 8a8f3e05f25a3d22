SPECIFICATION FairSpec
CONSTANTS
    a1 = a1
    a2 = a2
    Accounts = {a1, a2}
    NoLoad = NoLoad
    MaxLoads = 2
    MaxAnswers = 2
    MaxBatches = 1
    MaxFailures = 1
    MaxDeaths = 1
CHECK_DEADLOCK FALSE
INVARIANTS
    OneLoadAtATime
    LateResultStaysOut
    OutcomesOfShownAccounts
PROPERTIES
    LoadsEndUnlessStranded
