SPECIFICATION FairSpec
CONSTANTS
    a1 = a1
    a2 = a2
    Accounts = {a1}
    NoLoad = NoLoad
    MaxLoads = 2
    MaxAnswers = 4
    MaxBatches = 1
    MaxFailures = 0
    MaxDeaths = 1
CHECK_DEADLOCK FALSE
PROPERTIES
    LoadsEnd
