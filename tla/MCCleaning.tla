-------------------------------- MODULE MCCleaning --------------------------------
(***************************************************************************)
(* The cleaning passes side by side: a behaviour is two cleanups of a file *)
(* of bodies (BodyMerge), two of a file of values, surfaces and curves     *)
(* (CleanPipeline), two runs of an instancing pass over a file of bosses   *)
(* or of balls (FeatureInstancing, SphericalCaps), or two over a file of   *)
(* solids (Instancing).  The other files stand still.                      *)
(*                                                                         *)
(* Instancing is instantiated with its proofs, so that what they show of   *)
(* it can be cited for the solids here (BodyMergeProofs).                  *)
(***************************************************************************)
EXTENDS MCBodyMerge

CONSTANTS
    ValueInputs, ValueOptions, SolidFiles, Period, Corners,
    Files, MinGroup, MaxFeatureFaces

VARIABLES
    options, section, sec, stats, first, pc,
    solidEnt, solidStart, solidStep, solidTodo, solidWork, solidRound, mode, families,
    partPass, part, partStart, partStep, todo, work, partRound

Values == INSTANCE MCCleanPipeline WITH
    Inputs <- ValueInputs, OptionSets <- ValueOptions, input <- section
Solids == INSTANCE InstancingProofs WITH
    ent <- solidEnt, start <- solidStart, step <- solidStep, todo <- solidTodo,
    work <- solidWork, round <- solidRound, Files <- SolidFiles
Features == INSTANCE MCFeatureInstancing WITH
    pass <- partPass, ent <- part, start <- partStart, step <- partStep, round <- partRound

ASSUME BodyMergeAssumption == AllowedAssumption /\ InputsAssumption
ASSUME ValueAssumption == Values!SectionsAssumption
ASSUME SolidAssumption == Solids!InstancingAssumption
ASSUME FeatureAssumption == Features!LimitsAssumption

valueVars == <<options, section, sec, stats, first, pc>>
solidVars == <<solidEnt, solidStart, mode, solidStep, solidTodo, families, solidWork, solidRound>>
featureVars == <<partPass, part, partStart, partStep, todo, work, partRound>>

NoBodies == /\ pass = "absent" /\ allowed = {} /\ input = <<>> /\ ent = <<>> /\ before = <<>>
            /\ plans = {} /\ candidates = {} /\ step = "absent" /\ round = 1
NoValues == /\ pc = "absent" /\ options = <<>> /\ section = <<>> /\ sec = <<>>
            /\ stats = <<>> /\ first = <<>>
NoSolids == /\ solidStep = "absent" /\ solidEnt = <<>> /\ solidStart = <<>> /\ mode = "absent"
            /\ solidTodo = {} /\ families = {} /\ solidWork = <<>> /\ solidRound = 1
NoFeatures == /\ partPass = "absent" /\ part = <<>> /\ partStart = <<>> /\ partStep = "absent"
              /\ todo = {} /\ work = <<>> /\ partRound = 1

EitherInit ==
    \/ Init /\ NoValues /\ NoSolids /\ NoFeatures
    \/ NoBodies /\ Values!Init /\ NoSolids /\ NoFeatures
    \/ NoBodies /\ NoValues /\ Solids!Init /\ NoFeatures
    \/ NoBodies /\ NoValues /\ NoSolids /\ Features!MCInit

EitherNext ==
    \/ pass # "absent" /\ Next /\ UNCHANGED <<valueVars, solidVars, featureVars>>
    \/ pc # "absent" /\ Values!Next /\ UNCHANGED <<vars, solidVars, featureVars>>
    \/ solidStep # "absent" /\ Solids!Next /\ UNCHANGED <<vars, valueVars, featureVars>>
    \/ partPass # "absent" /\ Features!MCNext /\ UNCHANGED <<vars, valueVars, solidVars>>

EitherSpec == EitherInit /\ [][EitherNext]_<<vars, valueVars, solidVars, featureVars>>

\* The types of all passes.
Types ==
    /\ pass # "absent" => TypeOK
    /\ pc # "absent" => Values!TypeOK
    /\ solidStep # "absent" => Solids!TypeOK
    /\ partPass # "absent" => Features!MCTypeOK

\* Welding, rebuilding and collecting a partition move no bound of a face: see BodyMerge.
BodiesKeepTheirBounds == pass # "absent" => BoundsAreKept

\* Every cleanup keeps shells closed, and the visible skin with its colours: see BodyMerge.
BodiesKeepTheirSkin == pass # "absent" => ShellsAreClosed /\ SkinIsKept

\* No cleanup moves anything: every vertex, face, edge and other user has the shape it had,
\* through sharing, factoring, collecting and renumbering: see CleanPipeline.
ValuesKeepTheirMeaning == pc # "absent" => Values!GeometryIsKept

\* What an instanced file shows, material and looks, is what it showed, for each of its
\* readers: see FeatureInstancing and Instancing.
ScenesAreKept ==
    (partPass # "absent" => Features!SceneIsKept) /\ (solidStep # "absent" => Solids!SceneIsKept)

\* Whatever was assigned to an item of a cleaned file is still assigned to it, and no
\* support is left over: see CleanPipeline.  No reference to a face that instancing
\* deletes, and none without its last user: see FeatureInstancing.
ItemsStayAssigned ==
    /\ pc # "absent" => Values!AssignmentsAreKept /\ Values!NothingIsOrphaned
    /\ partPass # "absent" => Features!NothingDangles /\ Features!NothingIsLeft

\* No support, edge or point is left over when bodies have been merged: see BodyMerge.  No
\* reference to what the instancing of solids deletes, nothing without its last user, and
\* the assembly is complete or not begun: see Instancing.
FilesAreWhole ==
    /\ pass # "absent" => NothingIsOrphaned
    /\ solidStep # "absent" => Solids!NothingDanglesOrIsLeft /\ Solids!AssemblyIsWholeOrNothing

\* A second cleanup, or a second run of an instancing pass, changes nothing: see the four
\* modules.
OutputsAreFixedPoints ==
    /\ pass # "absent" => OutputIsFixedPoint
    /\ pc # "absent" => Values!OutputIsFixedPoint
    /\ partPass # "absent" => Features!SecondRunChangesNothing
    /\ solidStep # "absent" => Solids!SecondRunChangesNothing

===================================================================================
