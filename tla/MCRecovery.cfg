SPECIFICATION Spec
CONSTANTS
    Files <- MCFiles
    MinGroup = 1
    MaxFeatureFaces = 20
    MaxFlat = 2
    Margin = 4
    MaxRounds = 3
INVARIANTS
    TypeOK
    BodiesAreRebuilt
    ToolsReachThrough
    ProvenanceIsOfTheSource
    PatchesFit
CHECK_DEADLOCK FALSE
