SPECIFICATION FairSpec
CONSTANTS
    Descs <- WholeDescs
    LineWords = 2
    MaxBurst = 2
    IdMod = 4
    FirstId = 2
    MaxInFlight = 3
    CmdDepth = 1
    SyncDepth = 1
    UpdateDepth = 1
    LinkDepth = 1
    MaxReq = 3
INVARIANTS
    NeighboursShown
    CleanRestart
PROPERTIES
    ImplementsService
    Progress
