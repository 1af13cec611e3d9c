SPECIFICATION FairSpec
CONSTANTS
    NumQueries = 3
    LoadBurst = 1
    WalkLen = 3
    PaddingSteps = {0}
    RingSize = 2
    StepMod = 4
    NewDepth = 2
    OldDepth = 2
    OriginDepth = 2
    StateDepth = 2
    LinkDepth = 1
    MaxRuns = 1
PROPERTY
    WaitingQueryIsInserted
