SPECIFICATION FairSpec
CONSTANTS
    Lanes = 4
    NumOs = 2
    Invalid = 12
    Workloads <- MixedWork
    AssertDepth = 1
    SampleDepth = 2
    AdjDepth = 2
    LastDepth = 1
    MaskDepth = 2
    LinkDepth = 1
INVARIANTS
    ListsEndTogether
    WeightsAreExact
PROPERTY
    EveryStepWeighed
