-------------------------------- MODULE MCEditors --------------------------------
(***************************************************************************)
(* The two editors of rows side by side: a behaviour is edits of a count   *)
(* parameter (CountEdit) or edits of one row of instances (PatternResize). *)
(* The other file stands still.                                            *)
(***************************************************************************)
EXTENDS CountEdit, TLC

CONSTANTS MinItems, MaxCount, MaxItem, RowReach, Layers

VARIABLES parent, at, live, layer, pinned, request

\* Rows of four and five sites, and rows of four items with one gap.
RowStarts ==
    {[k \in 1 .. n |-> o + 2 * (k - 1)] : o \in {-6, -2, 3}, n \in {4, 5}}
    \cup {[k \in 1 .. 4 |-> IF k <= g THEN o + 2 * (k - 1) ELSE o + 2 * k] :
             o \in {-4, -2}, g \in 1 .. 2}

Pattern == INSTANCE PatternResize WITH Reach <- RowReach, Rows <- RowStarts

ASSUME PatternAssumption == Pattern!BoundAssumption /\ Pattern!RowsAssumption

rowVars == <<parent, at, live, layer, pinned, request>>

NoRow == /\ parent = <<>> /\ at = <<>> /\ live = {} /\ layer = <<>> /\ pinned = {}
         /\ request = <<>>

\* The files of a count edit: every row and every body starts at one place.
MCExtent == [lattice : Lattice, lo : {0}, sites : MinSites .. MaxSites]
MCInit ==
    /\ file \in [rows : [Row -> MCExtent], bodies : [Body -> MCExtent]]
    /\ draft = file
    /\ edit = [step |-> "idle"]

Still == [rows |-> [r \in Row |-> CHOOSE e \in MCExtent : TRUE],
          bodies |-> [b \in Body |-> CHOOSE e \in MCExtent : TRUE]]

EitherInit ==
    \/ MCInit /\ NoRow
    \/ file = Still /\ draft = Still /\ edit = [step |-> "idle"] /\ Pattern!Init

EitherNext ==
    \/ parent = <<>> /\ Next /\ UNCHANGED rowVars
    \/ parent # <<>> /\ Pattern!Next /\ UNCHANGED vars

EitherSpec == EitherInit /\ [][EitherNext]_<<vars, rowVars>>

\* Edits of a row that the source completes as a site of its lattice (implicit_identity_site).
CompletedSpec ==
    /\ EitherInit
    /\ parent # <<>> /\ Pattern!HasSource(parent) /\ Pattern!Detected(parent, at).implicit
    /\ [][EitherNext]_<<vars, rowVars>>

\* Count edits alone, whose rows and bodies have no names that matter.
CountSpec == MCInit /\ NoRow /\ [][Next /\ UNCHANGED rowVars]_<<vars, rowVars>>
Symmetry == Permutations(Row) \cup Permutations(Body)

\* The types of both editors.
Types == TypeOK /\ (parent # <<>> => Pattern!TypeOK)

\* The styles and the parent list the sites of the row, and an edit leaves no reference
\* to what is gone and no item in no list: see PatternResize.
RowsAreListed ==
    parent # <<>> => Pattern!ListsFollowTheRow /\ Pattern!NothingDanglesNothingLeaks

\* An accepted edit of a row makes the lattice it was asked for: see PatternResize.
RowsMakeTheLattice == [][parent # <<>> => Pattern!MakesTheLattice]_rowVars

\* The source's site of a row it completes never gets a MAPPED_ITEM as well, however many
\* edits are made: see PatternResize.
NoSiteOccupiedTwice == parent # <<>> => Pattern!NoSiteOccupiedTwice

=============================================================================
