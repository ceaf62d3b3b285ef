---------------------------- MODULE CleanPipeline ----------------------------
(***************************************************************************)
(* clean_pipeline.rs, clean_bytes: the passes a cleanup runs, in order, on *)
(* one data section, and then the same cleanup on its own output.          *)
(*                                                                         *)
(*   minify        normalization.rs, minify_placeholder_names.             *)
(*   intern        normalization.rs, intern_section.  Its rounds are in    *)
(*                 the module Intern; here it is what they compute: values *)
(*                 that unroll to the same term become the first of them.  *)
(*   consolidate   normalization.rs, consolidate_presentation.             *)
(*   surfaces      surface_replicas.rs: planes and cylinders that differ   *)
(*                 by a translation become SURFACE_REPLICAs of the first.  *)
(*   curves        curve_replicas.rs: the same for B-spline curves; equal  *)
(*                 curves become one.                                      *)
(*   stabilize     minifying, and interning if a pass has created values.  *)
(*   renumber      normalization.rs, dense_renumber.                       *)
(*                                                                         *)
(* The other experimental passes are off.  Coordinates are integers on one *)
(* axis, so no tolerance bites; a placement carries its two directions and *)
(* a surface its radius in val, a number of no further meaning, and a      *)
(* surface, a curve and a presentation carry their name there.             *)
(***************************************************************************)
EXTENDS Integers, SequencesExt

CONSTANTS
    Inputs,      \* the sections a file may hold
    OptionSets   \* the options a cleanup may run with

Option == [minify: BOOLEAN, intern: BOOLEAN, consolidate: BOOLEAN,
           surfaces: BOOLEAN, curves: BOOLEAN, dense: BOOLEAN]

Empty == 0    \* the empty name
NONE == 1     \* the exporter's placeholder for it

VARIABLES
    options,
    input,    \* the section of the file
    sec,      \* the section now: a sequence of entities, in file order
    stats,    \* what the passes of this cleanup have done
    first,    \* the output of the first cleanup, empty before it
    pc

vars == <<options, input, sec, stats, first, pc>>

-----------------------------------------------------------------------------
Entity(id, kind, val, refs) == [id |-> id, kind |-> kind, val |-> val, refs |-> refs]

Surfaces == {"plane", "cylinder"}
Consumers == {"vertex", "face", "edge", "pcurve"}    \* topology; pcurve: any other user
Presentations == {"presentation", "layer"}

Ids(s) == {s[i].id : i \in DOMAIN s}
Ent(s, n) == s[CHOOSE i \in DOMAIN s : s[i].id = n]
Parents(s, n) == {e.id : e \in {x \in ToSet(s) : n \in ToSet(x.refs)}}

\* The members of a set of positions in ascending order, and the entities at them.
InOrder(S) ==
    [k \in 1 .. Cardinality(S) |-> CHOOSE n \in S : Cardinality({m \in S : m < n}) = k - 1]
Kept(s, S) == LET order == InOrder(S) IN [k \in DOMAIN order |-> s[order[k]]]

\* rewrite_entity_refs.
Rewritten(s, f) ==
    [i \in DOMAIN s |-> [s[i] EXCEPT !.refs = [k \in DOMAIN s[i].refs |-> f[s[i].refs[k]]]]]

\* minify_placeholder_names, for the two kinds that carry a name here.
Minified(s) ==
    [i \in DOMAIN s |->
        IF s[i].kind \in Surfaces \cup {"curve"} /\ s[i].val = NONE
        THEN [s[i] EXCEPT !.val = Empty] ELSE s[i]]

\* is_internable.
Internable == {"point", "placement", "plane", "cylinder", "curve", "context"}

\* An internable entity unrolled down to its points, any other one by its id.
Terms(s) ==
    LET term[depth \in 0 .. 3] ==
            [n \in Ids(s) |->
                LET e == Ent(s, n)
                IN  IF e.kind \in Internable /\ depth > 0
                    THEN [kind |-> e.kind, val |-> e.val,
                          refs |-> [k \in DOMAIN e.refs |-> term[depth - 1][e.refs[k]]]]
                    ELSE [kind |-> "entity", val |-> n, refs |-> <<>>]]
    IN  term[3]

\* intern_section: of equal values the first in the file stays.
Interned(s) ==
    LET term == Terms(s)
        survivor == [n \in Ids(s) |-> s[Min({i \in DOMAIN s : term[s[i].id] = term[n]})].id]
    IN  Rewritten(Kept(s, {i \in DOMAIN s : survivor[s[i].id] = s[i].id}), survivor)

-----------------------------------------------------------------------------
\* What consolidate_presentation groups by: the name and the context of a
\* presentation, the name of a layer; and what it moves.
GroupKey(e) ==
    <<e.kind, e.val, IF e.kind = "presentation" THEN <<e.refs[1]>> ELSE <<>> >>
Items(e) == IF e.kind = "presentation" THEN Tail(e.refs) ELSE e.refs

\* The positions it looks at: nothing refers to a root.
Roots(s) == {i \in DOMAIN s : s[i].kind \in Presentations /\ Parents(s, s[i].id) = {}}

\* The roots after i with its key, in file order: they are merged into it.
\* (Slip: only the one that was found last.)
MergedLast(s, roots, i) ==
    LET same == {j \in roots : j > i /\ GroupKey(s[j]) = GroupKey(s[i])}
    IN  IF same = {} THEN <<>> ELSE <<Max(same)>>
Merged(s, roots, i) == InOrder({j \in roots : j > i /\ GroupKey(s[j]) = GroupKey(s[i])})

Consolidated(s) ==
    LET roots == Roots(s)
        heads == {i \in roots : \A j \in roots : GroupKey(s[j]) = GroupKey(s[i]) => i <= j}
        grown == [i \in DOMAIN s |->
                    IF i \in heads
                    THEN LET from == Merged(s, roots, i)
                         IN  [s[i] EXCEPT !.refs =
                                @ \o FlattenSeq([k \in DOMAIN from |-> Items(s[from[k]])])]
                    ELSE s[i]]
    IN  Kept(grown, DOMAIN s \ (roots \ heads))

-----------------------------------------------------------------------------
\* The collection of both replica passes: the seed goes, and every candidate all of
\* whose parents go.
Swept(s, candidates, seed) ==
    LET parents == [n \in candidates |-> Parents(s, n)]
        gone[k \in 0 .. Cardinality(candidates)] ==
            IF k = 0 THEN seed
            ELSE gone[k - 1] \cup {n \in candidates : parents[n] \subseteq gone[k - 1]}
    IN  Kept(s, {i \in DOMAIN s : s[i].id \notin gone[Cardinality(candidates)]})

\* The translation of a target: from its source to where it is.
\* (Slip: the other way round.)
Backward(from, to) == from - to
Offset(from, to) == to - from

\* Every target becomes a replica of its source.  Families are taken in the order of
\* their sources and targets in the order of their ids; targets with the same offset
\* share an operator, which is pushed, after its point, for the first of them.
Replicated(s, source, targets, at) ==
    LET offset == [t \in targets |-> Offset(at[source[t]], at[t])]
        Before(t, u) == source[t] < source[u] \/ (source[t] = source[u] /\ t < u)
        firsts == {t \in targets : \A u \in targets : Before(u, t) => offset[u] # offset[t]}
        rank == [t \in firsts |-> Cardinality({u \in firsts : Before(u, t)})]
        next == Max(Ids(s)) + 1
        operator == [t \in targets |->
                       next + 1 + 2 * rank[CHOOSE u \in firsts : offset[u] = offset[t]]]
        pushed == [k \in 1 .. 2 * Cardinality(firsts) |->
                     LET lead == CHOOSE t \in firsts : rank[t] = (k - 1) \div 2
                     IN  IF k % 2 = 1 THEN Entity(next + k - 1, "point", offset[lead], <<>>)
                         ELSE Entity(next + k - 1, "operator", 0, <<next + k - 2>>)]
    IN  [i \in DOMAIN s |->
            IF s[i].id \in targets
            THEN Entity(s[i].id, "replica", s[i].val, <<source[s[i].id], operator[s[i].id]>>)
            ELSE s[i]]
        \o pushed

\* parse_surface: a plane or cylinder is factored only if faces alone refer to it.
Factorable(s) ==
    {e.id : e \in {x \in ToSet(s) :
        /\ x.kind \in Surfaces
        /\ Parents(s, x.id) # {}
        /\ \A p \in Parents(s, x.id) : Ent(s, p).kind = "face"}}

Placement(s, n) == Ent(s, Ent(s, n).refs[1])
Origin(s, n) == Ent(s, Placement(s, n).refs[1]).val
SurfaceKey(s, n) == <<Ent(s, n).kind, Placement(s, n).val>>

\* closure_from(placement_id): a target's placement and all that hangs below it.
\* (Slip: the placement alone.)
PlacementAlone(s, n) == {Placement(s, n).id}
PlacementClosure(s, n) == {Placement(s, n).id} \cup ToSet(Placement(s, n).refs)

SurfaceTargets(s) ==
    LET group == Factorable(s)
        source == [n \in group |-> Min({m \in group : SurfaceKey(s, m) = SurfaceKey(s, n)})]
        at == [n \in group |-> Origin(s, n)]
    IN  [source |-> source, at |-> at, targets |-> {n \in group : at[n] # at[source[n]]}]

\* instance_translated_analytic_surfaces.  A surface where its source is stays.
SurfacesFactored(s) ==
    LET f == SurfaceTargets(s)
    IN  Swept(Replicated(s, f.source, f.targets, f.at),
              UNION {PlacementClosure(s, t) : t \in f.targets}, {})

Poles(s, n) == [k \in DOMAIN Ent(s, n).refs |-> Ent(s, Ent(s, n).refs[k]).val]
CurveKey(s, n) == LET p == Poles(s, n) IN [k \in DOMAIN p |-> p[k] - p[1]]

CurveTargets(s) ==
    LET group == {e.id : e \in {x \in ToSet(s) : x.kind = "curve"}}
        source == [n \in group |-> Min({m \in group : CurveKey(s, m) = CurveKey(s, n)})]
        at == [n \in group |-> Poles(s, n)[1]]
        followers == {n \in group : source[n] # n}
    IN  [source |-> source, at |-> at,
         aliases |-> {n \in followers : at[n] = at[source[n]]},
         targets |-> {n \in followers : at[n] # at[source[n]]}]

\* instance_translated_bspline_curves.  A curve where its source is becomes the source.
CurvesFactored(s) ==
    LET f == CurveTargets(s)
        new == Replicated(s, f.source, f.targets, f.at)
        alias == [n \in Ids(new) |-> IF n \in f.aliases THEN f.source[n] ELSE n]
        poles == UNION {ToSet(Ent(s, n).refs) : n \in f.aliases \cup f.targets}
    IN  Swept(Rewritten(new, alias), poles \cup f.aliases, f.aliases)

Renumbered(s) ==
    LET dense == [n \in Ids(s) |-> CHOOSE i \in DOMAIN s : s[i].id = n]
    IN  [i \in DOMAIN s |-> [Rewritten(s, dense)[i] EXCEPT !.id = i]]

-----------------------------------------------------------------------------
Kinds == Internable \cup Consumers \cup Presentations \cup {"operator", "replica", "area"}
Entities == [id : Int, kind : Kinds, val : Int, refs : Seq(Int)]

\* The kinds the k-th reference of an entity may have, and whether it has enough of them.
Admits(kind, k) ==
    CASE kind \in {"placement", "curve", "operator", "vertex"} -> {"point"}
      [] kind \in Surfaces -> {"placement"}
      [] kind \in {"face", "pcurve"} -> Surfaces \cup {"replica"}
      [] kind = "edge" -> {"curve", "replica"}
      [] kind = "replica" -> IF k = 1 THEN Surfaces \cup {"curve"} ELSE {"operator"}
      [] kind = "presentation" -> IF k = 1 THEN {"context"} ELSE Consumers
      [] kind = "layer" -> Consumers
      [] kind = "area" -> Presentations
      [] OTHER -> {}
IsComplete(e) ==
    /\ e.kind \in {"placement", "operator"} \cup Surfaces \cup Consumers => Len(e.refs) = 1
    /\ e.kind \in {"curve", "presentation"} => Len(e.refs) >= 1
    /\ e.kind = "replica" => Len(e.refs) = 2

\* The ids are distinct; every reference leads to an entity of a kind the referring
\* attribute admits, and a replica never to another replica; a curve that has a replica
\* is the only one of its shape.
HasDistinctIds(s) == \A i, j \in DOMAIN s : s[i].id = s[j].id => i = j
ReferencesLead(s) ==
    \A e \in ToSet(s) :
        /\ IsComplete(e)
        /\ \A k \in DOMAIN e.refs :
              \E x \in ToSet(s) : x.id = e.refs[k] /\ x.kind \in Admits(e.kind, k)
ReplicatedCurvesStandAlone(s) ==
    \A e, c, d \in ToSet(s) :
        /\ e.kind = "replica" /\ e.refs[1] = c.id /\ c.kind = "curve" /\ d.kind = "curve"
        /\ CurveKey(s, c.id) = CurveKey(s, d.id)
        => c = d
Whole(s) ==
    /\ s \in Seq(Entities)
    /\ HasDistinctIds(s)
    /\ ReferencesLead(s)
    /\ ReplicatedCurvesStandAlone(s)

SectionsAssumption == OptionSets \subseteq Option /\ \A s \in Inputs : Whole(s)

-----------------------------------------------------------------------------
NoStats == [surfaces |-> 0, curves |-> 0, aliases |-> 0]

Init ==
    /\ options \in OptionSets
    /\ input \in Inputs
    /\ sec = input
    /\ stats = NoStats
    /\ first = <<>>
    /\ pc = "minify"

\* A pass whose option is off leaves the section as it is.
Pass(name, enabled, result, successor) ==
    /\ pc = name
    /\ pc' = successor
    /\ sec' = IF enabled THEN result ELSE sec
    /\ UNCHANGED <<options, input, first>>

Minify ==
    /\ Pass("minify", options.minify, Minified(sec), "intern")
    /\ UNCHANGED stats

Intern ==
    /\ Pass("intern", options.intern, Interned(sec), "consolidate")
    /\ UNCHANGED stats

Consolidate ==
    /\ Pass("consolidate", options.consolidate, Consolidated(sec), "surfaces")
    /\ UNCHANGED stats

FactorSurfaces ==
    /\ Pass("surfaces", options.surfaces, SurfacesFactored(sec), "curves")
    /\ stats' = IF options.surfaces
                THEN [stats EXCEPT !.surfaces = Cardinality(SurfaceTargets(sec).targets)]
                ELSE stats

FactorCurves ==
    /\ Pass("curves", options.curves, CurvesFactored(sec), "stabilize")
    /\ stats' = IF options.curves
                THEN LET f == CurveTargets(sec)
                     IN  [stats EXCEPT !.curves = Cardinality(f.targets),
                                       !.aliases = Cardinality(f.aliases)]
                ELSE stats

\* Which passes make stabilize_output intern again.
\* (Slip: the replicas of curves are forgotten.)
CreatedByAliasing == stats.aliases > 0
CreatedValues == stats.curves > 0 \/ stats.aliases > 0

\* stabilize_output without its last stage.  Names are minified first, so that the
\* interning sees the values it creates equal.
Stabilize ==
    LET named == IF options.minify THEN Minified(sec) ELSE sec
    IN  /\ Pass("stabilize", TRUE,
                IF options.intern /\ CreatedValues THEN Interned(named) ELSE named, "renumber")
        /\ UNCHANGED stats

Renumber ==
    /\ Pass("renumber", options.dense, Renumbered(sec), "written")
    /\ UNCHANGED stats

\* The output is given to a second cleanup with the same options.
CleanAgain ==
    /\ pc = "written" /\ first = <<>>
    /\ first' = sec
    /\ stats' = NoStats
    /\ pc' = "minify"
    /\ UNCHANGED <<options, input, sec>>

Done == pc = "written" /\ first # <<>> /\ UNCHANGED vars

Next == \/ Minify \/ Intern \/ Consolidate \/ FactorSurfaces \/ FactorCurves
        \/ Stabilize \/ Renumber \/ CleanAgain \/ Done

Spec == Init /\ [][Next]_vars

-----------------------------------------------------------------------------
\* After every pass the section is whole.
TypeOK ==
    /\ options \in Option
    /\ Whole(sec)
    /\ pc \in {"minify", "intern", "consolidate", "surfaces", "curves", "stabilize",
              "renumber", "written"}

\* The geometry a support stands for; a replica's is its source's, translated.
Explicit(s, n) ==
    IF Ent(s, n).kind = "curve" THEN [class |-> <<"curve">>, at |-> Poles(s, n)]
    ELSE [class |-> SurfaceKey(s, n), at |-> <<Origin(s, n)>>]
Shape(s, n) ==
    IF Ent(s, n).kind # "replica" THEN Explicit(s, n)
    ELSE LET base == Explicit(s, Ent(s, n).refs[1])
             by == Ent(s, Ent(s, Ent(s, n).refs[2]).refs[1]).val
         IN  [base EXCEPT !.at = [k \in DOMAIN @ |-> @[k] + by]]

\* What the topology means: the shape under each vertex, face, edge and other user, in
\* the order of the file, which no pass changes.
Topology(s) == Kept(s, {i \in DOMAIN s : s[i].kind \in Consumers})
Meaning(s) ==
    LET t == Topology(s)
    IN  [i \in DOMAIN t |->
           IF t[i].kind = "vertex"
           THEN [class |-> <<"vertex">>, at |-> <<Ent(s, t[i].refs[1]).val>>]
           ELSE Shape(s, t[i].refs[1])]

\* No pass, and no sequence of them, moves anything: sharing, factoring, collecting and
\* renumbering leave every piece of topology on the geometry it had.
GeometryIsKept == Meaning(sec) = Meaning(input)

\* How often an item is assigned under a name and context; an item is known by its place
\* among the topology.
Assignments(s) ==
    LET term == Terms(s)
        place == [i \in DOMAIN Topology(s) |-> Topology(s)[i].id]
        Assigned(e) == {<<e.id, k>> : k \in DOMAIN Items(e)}
        facts == UNION {Assigned(e) : e \in {x \in ToSet(s) : x.kind \in Presentations}}
        Fact(f) == LET e == Ent(s, f[1])
                   IN  <<e.kind, e.val,
                         IF e.kind = "presentation" THEN <<term[e.refs[1]].val>> ELSE <<>>,
                         CHOOSE i \in DOMAIN place : place[i] = Items(e)[f[2]]>>
    IN  [x \in {Fact(f) : f \in facts} |-> Cardinality({f \in facts : Fact(f) = x})]

\* Presentations and layers keep every item, under the name and context they had,
\* however many of them are merged.
AssignmentsAreKept == Assignments(sec) = Assignments(input)

\* No pass leaves more unused supports behind than the file had.
Orphans(s) ==
    {e.id : e \in {x \in ToSet(s) : /\ x.kind \in Internable \cup {"operator", "replica"}
                                   /\ Parents(s, x.id) = {}}}
NothingIsOrphaned == Cardinality(Orphans(sec)) <= Cardinality(Orphans(input))

\* A second cleanup with the same options changes nothing: "so aggressive output is a
\* fixed point rather than requiring a second safe cleanup pass" (stabilize_output).
OutputIsFixedPoint == pc = "written" /\ first # <<>> => sec = first

=============================================================================
