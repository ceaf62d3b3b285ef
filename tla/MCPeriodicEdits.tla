----------------------------- MODULE MCPeriodicEdits -----------------------------
(***************************************************************************)
(* The two editors of periodic solids side by side: a behaviour is edits   *)
(* of chains (ChainEdit) or edits of a body (BodyEdit).  The other file    *)
(* stands still.                                                           *)
(***************************************************************************)
EXTENDS MCChainEdit

CONSTANTS BodyDesign, BodyIdeal, BodyRegular, Pitch, MinFamilies, MinBodySites, MaxBodySites,
          MaxBodyEdits

VARIABLES body, bodyDraft, bodyEdit, bodyMeant, bodyEdits

Body == INSTANCE MCBodyEdit WITH
    file <- body, draft <- bodyDraft, edit <- bodyEdit, meant <- bodyMeant, edits <- bodyEdits,
    Design <- BodyDesign, Ideal <- BodyIdeal, Regular <- BodyRegular,
    MinSites <- MinBodySites, MaxSites <- MaxBodySites, MaxEdits <- MaxBodyEdits,
    Place <- [lane \in 1 .. 16 |-> lane]

ASSUME BodyEditAssumption == Body!BodyAssumption

Samples == INSTANCE MCBodyEdit WITH
    file <- body, draft <- bodyDraft, edit <- bodyEdit, meant <- bodyMeant, edits <- bodyEdits,
    Design <- {}, Ideal <- <<>>, Regular <- {}, MinSites <- 0, MaxSites <- 0, MaxEdits <- 0,
    Place <- <<>>

MCBodyDesign == Samples!MCDesign
MCBodyIdeal == Samples!MCIdeal

bodyVars == <<body, bodyDraft, bodyEdit, bodyMeant, bodyEdits>>

Absent == [step |-> "absent", outcome |-> "none"]
NoChains == edit = Absent /\ file = <<>> /\ draft = <<>> /\ meant = <<>> /\ edits = 0
NoBody == /\ bodyEdit = Absent /\ body = <<>> /\ bodyDraft = <<>> /\ bodyMeant = <<>>
          /\ bodyEdits = 0

EitherInit == (Init /\ NoBody) \/ (NoChains /\ Body!Init)

EitherNext ==
    \/ edit.step # "absent" /\ Next /\ UNCHANGED bodyVars
    \/ bodyEdit.step # "absent" /\ Body!Next /\ UNCHANGED vars

EitherSpec == EitherInit /\ [][EitherNext]_<<vars, bodyVars>>

\* The types of both editors.
Types == (edit.step # "absent" => TypeOK) /\ (bodyEdit.step # "absent" => Body!TypeOK)

\* An accepted edit makes the chain or the body that was asked for, and no other: see both
\* modules.
EditsAreAsAsked ==
    (edit.step # "absent" => ResultIsTheChain) /\ (bodyEdit.step # "absent" => Body!ResultIsTheBody)

\* Shells stay closed; of chains nothing replaced is left over, and the copies have the
\* styles of the originals: see both modules.
ShellsAreClean ==
    /\ edit.step # "absent" => ShellIsClosedAndClean /\ StylesFollowTheFaces
    /\ bodyEdit.step # "absent" => Body!ShellIsClosed

\* Chains with seams that can be told apart are never refused, nor are regular bodies: see
\* both modules.
RegularSolidsAreEdited ==
    /\ edit.step # "absent" => RegularChainsAreEdited
    /\ bodyEdit.step # "absent" => Body!RegularBodiesAreEdited

=============================================================================
