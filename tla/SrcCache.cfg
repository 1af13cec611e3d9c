SPECIFICATION FairSpec
CONSTANTS
    NumPE = 2
    Burst = 2
    CacheLines = 4
    Token = 10
    LoadBurst = 1
    Workloads <- MCWorkloads
    OutDepth = 2
    Depth = 1
    MaxRuns = 2
INVARIANTS
    AnswersAreRight
    EachBlockOnce
    CleanRestart
PROPERTIES
    EveryRunAnswered
CHECK_DEADLOCK FALSE
