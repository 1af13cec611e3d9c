SPECIFICATION Spec
CONSTANTS
    Descs <- RaggedDescs
    LineWords = 2
    MaxBurst = 3
    IdMod = 4
    FirstId = 0
    MaxInFlight = 2
    CmdDepth = 1
    SyncDepth = 1
    UpdateDepth = 1
    LinkDepth = 1
    MaxReq = 2
INVARIANT
    NeighboursShown
