\* BodyMerge: bodies with arcs that differ and with closed rims.
SPECIFICATION Spec
CONSTANTS
    Inputs <- RoundInputs
    AllowedSets <- MCAllowedSets
INVARIANT
    BoundsAreKept
