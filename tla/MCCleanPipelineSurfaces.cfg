\* CleanPipeline with the surface pass: the output of one cleanup is not clean.
SPECIFICATION Spec
CONSTANTS
    Inputs <- MCInputs
    OptionSets <- WithSurfaces
INVARIANT
    OutputIsFixedPoint
