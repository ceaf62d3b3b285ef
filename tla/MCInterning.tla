------------------------------- MODULE MCInterning -------------------------------
(***************************************************************************)
(* The two interning passes side by side: a behaviour is one run of Intern *)
(* or one of GeometricIntern.  The other pass stands still.                *)
(***************************************************************************)
EXTENDS Intern

CONSTANTS
    W,          \* bound: the positions that may have two references
    Supports, Frames, Users, Loci,
    frame1, frame2, frame3, edge1, edge2, edge3, here, there   \* of these sets

VARIABLES
    line, locus, trims, near, source, refs, next, seen, delete, todo,
    survivors, step, merged, again     \* live, pc, alias and changed of the second pass

-----------------------------------------------------------------------------
(***************************************************************************)
(* Sections for Intern.  Chains: every way N entities can refer to at most *)
(* one entity each, forwards and backwards in the file, in cycles too.     *)
(* Pairs: every way the first W entities can refer to none or to two of    *)
(* them, beside plain values; the last of the W may be topology.  The      *)
(* keywords are equal everywhere, so what tells two entities apart is what *)
(* they refer to.                                                          *)
(***************************************************************************)
Wide == 1..W

AtMostOne == {<<>>} \cup {<<i>> : i \in Pos}
NoneOrTwo == {<<>>} \cup {r \in Wide \X Wide : r[1] <= r[2]} \cup {<<2, 1>>}

Chains == {[i \in Pos |-> [label |-> "x", value |-> TRUE, refs |-> r[i]]] :
             r \in [Pos -> AtMostOne]}

Pairs == {[i \in Pos |-> [label |-> "x", value |-> (i # W \/ v),
                          refs |-> IF i \in Wide THEN r[i] ELSE <<>>]] :
            r \in [Wide -> NoneOrTwo], v \in BOOLEAN}

ChainsAndPairs == Chains \cup Pairs

-----------------------------------------------------------------------------
Geo == INSTANCE GeometricIntern WITH
    Frame <- Frames, User <- Users,
    live <- survivors, pc <- step, alias <- merged, changed <- again

ASSUME GeometricAssumption ==
    /\ Geo!SupportsAssumption
    /\ {frame1, frame2, frame3} \subseteq Frames
    /\ {edge1, edge2, edge3} \subseteq Users
    /\ {here, there} \subseteq Loci

geometricVars ==
    <<line, locus, trims, near, source, refs, next, seen, delete, todo,
      survivors, step, merged, again>>

Plain == [i \in Pos |-> [label |-> "x", value |-> TRUE, refs |-> <<>>]]
\* Every support stands on a frame of its own or on a shared one, and frames share a
\* frame below.
Below == [f \in Frames |-> IF f = frame3 THEN {} ELSE {frame3}]
GeometricInit ==
    /\ line \in {{}, Geo!Support, {Supports}}
    /\ locus \in [Geo!Support -> {here, there}] /\ locus[1] = here
    /\ trims \in {Users, Users \ {edge1}}
    /\ near \in [Users -> {Geo!Support, {1}, Geo!Support \cap {2}, {}}]
    /\ near[edge2] = near[edge3]
    /\ line = {} => near = [e \in Users |-> Geo!Support]
    /\ \E place \in [Geo!Support -> {{frame1}, {frame2}}],
          use \in [Users -> Geo!Support] :
          source = [n \in Geo!Node |-> IF n \in Geo!Support THEN place[n]
                                             ELSE IF n \in Users THEN {use[n]} ELSE Below[n]]
    /\ refs = source
    /\ survivors = Geo!Node
    /\ step = "scan" /\ next = 1
    /\ seen = {}
    /\ merged = [s \in Geo!Support |-> s]
    /\ delete = {} /\ todo = {} /\ again = FALSE

NoGeometry ==
    /\ step = "absent"
    /\ survivors = {} /\ merged = <<>> /\ again = FALSE
    /\ line = {} /\ locus = <<>> /\ trims = {} /\ near = <<>> /\ source = <<>> /\ refs = <<>>
    /\ next = 0 /\ seen = {} /\ delete = {} /\ todo = {}

EitherInit ==
    \/ Init /\ NoGeometry
    \/ Init /\ ent = Plain /\ GeometricInit

EitherNext ==
    \/ step = "absent" /\ Next /\ UNCHANGED geometricVars
    \/ step # "absent" /\ Geo!Next /\ UNCHANGED vars

EitherSpec == EitherInit /\ [][EitherNext]_<<vars, geometricVars>>

\* The types of both passes.
Types == TypeOK /\ (step # "absent" => Geo!TypeOK)

\* Geometric interning changes no geometry and no parameterisation that is read: see
\* GeometricIntern.
SupportsKeepTheirGeometry ==
    step # "absent" => Geo!GeometryIsKept /\ Geo!ParameterUsersKeepTheirSupport

\* It collects exactly what is detached, and its output is a fixed point: see
\* GeometricIntern.
SupportsAreMergedAndSwept ==
    step # "absent" => Geo!CollectsWhatIsDetached /\ Geo!SecondRunMergesNothing

=============================================================================
