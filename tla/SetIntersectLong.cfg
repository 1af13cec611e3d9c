SPECIFICATION Spec
CONSTANTS
    Lanes = 2
    NumOs = 2
    Invalid = 9
    Workloads <- LongWork
    AssertDepth = 1
    SampleDepth = 2
    AdjDepth = 1
    LastDepth = 1
    MaskDepth = 1
    LinkDepth = 1
INVARIANTS
    WeightsAreExact
