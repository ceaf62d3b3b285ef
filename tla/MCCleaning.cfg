SPECIFICATION EitherSpec
CONSTANTS
    Inputs <- MCInputs
    AllowedSets <- MCAllowedSets
    ValueInputs <- MCValueInputs
    ValueOptions <- MCValueOptions
    Files <- MCFiles
    MinGroup <- MCMinGroup
    MaxFeatureFaces <- MCMaxFeatureFaces
    SolidFiles <- MCSolidFiles
    Period <- MCPeriod
    Corners <- MCCorners
INVARIANTS
    Types
    BodiesKeepTheirBounds
    BodiesKeepTheirSkin
    ValuesKeepTheirMeaning
    ScenesAreKept
    FilesAreWhole
    ItemsStayAssigned
    OutputsAreFixedPoints
CHECK_DEADLOCK FALSE
