SPECIFICATION EitherSpec
CONSTANTS
    Name = {"c", "d"}
    Design <- MCDesign
    Regular = {"plain", "tiled", "keyed"}
    Files <- MCFiles
    Ideal <- MCIdeal
    Place <- MCPlace
    MinSites = 6
    MaxSites = 8
    MaxEdits = 1
    MinFaces = 16
    MinRow = 4
    MinVotes = 1
    BodyDesign <- MCBodyDesign
    BodyIdeal <- MCBodyIdeal
    BodyRegular = {"notched"}
    Pitch = 4
    MinFamilies = 4
    MinBodySites = 4
    MaxBodySites = 6
    MaxBodyEdits = 2
INVARIANTS
    Types
    EditsAreAsAsked
    ShellsAreClean
    RegularSolidsAreEdited
CHECK_DEADLOCK FALSE
