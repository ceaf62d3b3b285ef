SPECIFICATION EitherSpec
CONSTANTS
    N = 5
    W = 4
    Labels = {"x"}
    MaxRounds = 16
    Sections <- ChainsAndPairs
    Supports = 3
    Frames = {f1, f2, f3}
    Users = {u, v, w}
    Loci = {here, there}
    frame1 = f1
    frame2 = f2
    frame3 = f3
    edge1 = u
    edge2 = v
    edge3 = w
    here = here
    there = there
INVARIANTS
    Types
    RedirectsResolve
    MergesOnlyEqualValues
    CachedHashesCurrent
    MaximalSharing
    OutputIsClosed
    SupportsKeepTheirGeometry
    SupportsAreMergedAndSwept
CHECK_DEADLOCK FALSE
