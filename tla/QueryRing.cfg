SPECIFICATION FairSpec
CONSTANTS
    NumQueries = 4
    LoadBurst = 2
    WalkLen = 3
    PaddingSteps = {0}
    RingSize = 3
    StepMod = 4
    NewDepth = 2
    OldDepth = 3
    OriginDepth = 3
    StateDepth = 3
    LinkDepth = 1
    MaxRuns = 2
INVARIANTS
    SlotOwnership
    LoopFits
    LabelsArePaired
    NothingLeftBehind
    StepsCounted
    RingInv
PROPERTIES
    PathsInOrder
    LeakFreeRunsEnd
