SPECIFICATION Spec
CONSTANTS
    Files <- AuxiliaryFiles
    Period <- MCPeriod
    Corners <- MCCorners
INVARIANT NothingDangles
CHECK_DEADLOCK FALSE
