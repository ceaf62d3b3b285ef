SPECIFICATION EitherSpec
CONSTANTS
    Lattice = {pitch}
    Row = {r1, r2, r3}
    Body = {b1, b2}
    MinSites = 4
    MaxSites = 6
    Reach = 2
    MinItems = 4
    MaxCount = 6
    MaxItem = 7
    RowReach = 12
    Layers = {top, bottom}
INVARIANTS Types RowsAreListed
PROPERTIES
    SameGrammarRecovered
    ParametersStayApart
    EditIsAnchored
    RowsMakeTheLattice
CHECK_DEADLOCK FALSE
