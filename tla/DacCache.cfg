SPECIFICATION FairSpec
CONSTANTS
    Vertices <- MCVertices
    Desc <- MCDesc
    CacheSize = 2
    CmdDepth = 1
    OutputDepth = 1
    DupDepth = 1
    UpdateDepth = 1
    MaxInFlight = 3
    MaxReq = 4
INVARIANTS
    CacheCoherent
PROPERTIES
    ImplementsLookup
    Progress
