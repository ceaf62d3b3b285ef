\* CountEdit with two lattices: the verification may meet another parameter.
SPECIFICATION CountSpec
CONSTANTS
    Lattice = {x, y}
    Row = {r1, r2, r3}
    Body = {b1, b2, b3}
    MinSites = 4
    MaxSites = 6
    Reach = 2
    MinItems = 4
    MaxCount = 6
    MaxItem = 7
    RowReach = 12
    Layers = {top}
PROPERTY SameGrammarRecovered
SYMMETRY Symmetry
CHECK_DEADLOCK FALSE
