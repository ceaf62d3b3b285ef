CONSTANTS
    Files = {cube, header}
    None = none
    Run = {first, second, third}
    MaxEdits = 2
SPECIFICATION Spec
INVARIANTS TypeOK RowsAreOfTheBytes ButtonHeldByAHandler
PROPERTY ButtonComesBack
