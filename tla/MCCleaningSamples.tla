-------------------------- MODULE MCCleaningSamples --------------------------
(***************************************************************************)
(* MCCleaning for TLC: the sample files of the passes.  They depend on no  *)
(* constant, so they are taken from instances whose constants are empty.   *)
(***************************************************************************)
EXTENDS MCCleaning

ValueSamples == INSTANCE MCCleanPipeline WITH
    Inputs <- {}, OptionSets <- {}, input <- section
SolidSamples == INSTANCE MCInstancing WITH
    ent <- solidEnt, start <- solidStart, step <- solidStep, todo <- solidTodo,
    work <- solidWork, round <- solidRound, Files <- <<>>, Period <- <<>>, Corners <- <<>>
FeatureSamples == INSTANCE MCFeatureInstancing WITH
    pass <- partPass, ent <- part, start <- partStart, step <- partStep, round <- partRound,
    Files <- {}, MinGroup <- 0, MaxFeatureFaces <- 0

MCValueInputs == ValueSamples!MCInputs
MCValueOptions == ValueSamples!MCOptionSets
MCSolidFiles == SolidSamples!MCFiles
MCPeriod == SolidSamples!MCPeriod
MCCorners == SolidSamples!MCCorners
MCFiles == FeatureSamples!MCFiles
MCMinGroup == FeatureSamples!MCMinGroup
MCMaxFeatureFaces == FeatureSamples!MCMaxFeatureFaces

\* What the proofs about FilesAreWhole suppose of a file holds of the samples.
ASSUME SamplesAssumption == Solids!NoAuxiliary /\ \A e \in Inputs : Orphans(e) = {}
=============================================================================
