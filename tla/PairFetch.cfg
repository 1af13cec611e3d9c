SPECIFICATION FairSpec
CONSTANTS
    Steps <- MCSteps
    Desc <- MCDesc
    LineWords = 2
    IdMod = 3
    FirstId = 1
    MaxInFlight = 3
    AssertDepth = 1
    VdDepth = 1
    UpdateDepth = 1
    LinkDepth = 1
    MaxReq = 3
INVARIANTS
    CleanRestart
PROPERTIES
    ImplementsSteps
    Progress
