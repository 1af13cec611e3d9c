SPECIFICATION AllSpec
CONSTANTS
    Lanes = 2
    RngMod = 2
    SumMod = 4
    Labels = {1}
    OtherWords = {0}
    Depth = 1
    WideDepth = 1
    MaxLines = 0
    Weights = {0, 1, 2, 3}
    MaxWeightLines = 0
    DrawMod = 6
    WideMod = 16
    Edges <- MCEdges
    MaxEdges = 3
    MaxOps = 6
    Numberings <- MCNumberings
    Target = 2
    SearchSpan = 2
    PartitionSize = 2
    SubPartitions = 2
    AlignSize = 2
INVARIANTS
    PartitionsFit
