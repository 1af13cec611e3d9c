SPECIFICATION WalkSpec
CONSTANTS
    NumQueries = 3
    LoadBurst = 1
    WalkLen = 3
    PaddingSteps = {}
    RingSize = 2
    StepMod = 8
    NewDepth = 2
    OldDepth = 2
    OriginDepth = 2
    StateDepth = 1
    LinkDepth = 1
    MaxRuns = 2
    Jobs <- SmallJobs
    FirstPrev = 3
    RandMod = 3
    RecGroup = 3
INVARIANTS
    PathsAreWalks
    PrevIsNeighbour
    WalksEndClean
PROPERTIES
    StepsFollowEdges
    WalkRunsEnd
