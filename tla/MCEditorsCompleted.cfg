\* PatternResize: rows that the source completes, and counts with which edits can leave it at
\* the end of its row.
SPECIFICATION CompletedSpec
CONSTANTS
    Lattice = {pitch}
    Row = {r1}
    Body = {b1}
    MinSites = 4
    MaxSites = 4
    Reach = 2
    MinItems = 4
    MaxCount = 8
    MaxItem = 9
    RowReach = 20
    Layers = {top}
INVARIANT NoSiteOccupiedTwice
CHECK_DEADLOCK FALSE
