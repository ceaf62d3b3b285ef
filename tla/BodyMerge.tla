------------------------------ MODULE BodyMerge ------------------------------
(***************************************************************************)
(* partition_recovery.rs and face_coalesce.rs, the two passes of a cleanup *)
(* that take boundary topology apart and put it together again:            *)
(*                                                                         *)
(*   partition   solids that meet in equal planar faces become one solid:  *)
(*               the two faces go and the edges and vertices around them   *)
(*               are welded;                                               *)
(*   coalesce    neighbouring faces on one support become one face.        *)
(*                                                                         *)
(* Each pass plans, rewrites and collects; here it does so twice, because  *)
(* a cleanup may be given the output of another one.                       *)
(*                                                                         *)
(* A point is a corner of the bodies' common profile with a level; what a  *)
(* curve runs along is its trace.  A curve below an edge, a point below a  *)
(* vertex, a placement below a surface and the loop below a face are       *)
(* folded into the entity above them.  Coordinates are exact, so no        *)
(* tolerance bites, and every face has one bound.                          *)
(***************************************************************************)
EXTENDS Integers, SequencesExt

CONSTANTS
    Inputs,     \* the sections a file may hold: functions from ids to entities
    AllowedSets \* the support kinds coalescing may run with

AllowedAssumption == AllowedSets \subseteq SUBSET {"plane", "cylinder"}

VARIABLES
    allowed,    \* coalesce_same_support_planar_faces: planes; the broad pass: all
    input,
    ent,        \* the section now
    before,     \* the section when the pass began: original and refs_before
    plans,
    candidates, \* what the collection may delete
    pass, step, round

vars == <<allowed, input, ent, before, plans, candidates, pass, step, round>>

-----------------------------------------------------------------------------
(* Entities.                                                               *)

OfKind(e, kind) == {n \in DOMAIN e : e[n].kind = kind}
Uses(e, f) == ToSet(e[f].loop)
EdgesOf(e, f) == {u.edge : u \in Uses(e, f)}

Refs(x) ==
    CASE x.kind = "edge" -> ToSet(x.ends)
      [] x.kind = "face" -> {x.support} \cup {u.edge : u \in ToSet(x.loop)}
      [] x.kind = "shell" -> x.faces
      [] x.kind = "solid" -> {x.shell}
      [] x.kind \in {"style", "usage"} -> {x.item}
      [] x.kind \in {"representation", "presentation", "layer"} -> x.items
      [] OTHER -> {}

Parents(e, n) == {m \in DOMAIN e : n \in Refs(e[m])}

\* The longest chain of references: list, style, solid, shell, face, edge, vertex.
Depth == 7

Descendants(e, S) ==
    LET below[k \in 0 .. Depth] ==
            IF k = 0 THEN S
            ELSE LET above == below[k - 1] IN above \cup UNION {Refs(e[n]) : n \in above}
    IN  below[Depth]

\* The members of S that links, sets of things that belong together, connect with x.
Connected(links, x) ==
    LET near[k \in 0 .. Cardinality(links)] ==
            IF k = 0 THEN {x}
            ELSE LET nearer == near[k - 1]
                 IN  nearer \cup UNION {l \in links : l \cap nearer # {}}
    IN  near[Cardinality(links)]
Components(links) == {Connected(links, x) : x \in UNION links}

\* UnionFind: the root of a class is its smallest member.
Root(links, x) == Min(Connected(links, x))

\* styled_items_by_target.
StylesOf(e, n) == {s \in OfKind(e, "style") : e[s].item = n}

-----------------------------------------------------------------------------
(* partition_recovery.rs: which faces are interfaces.                      *)

CurveKind(trace) == IF trace \in {"straight", "riser"} THEN "line" ELSE "circle"

\* edge_key.  The points carry the level, so that the circle's centre is in the key.
EdgeKey(e, n) == <<CurveKind(e[n].trace), {e[v].at : v \in ToSet(e[n].ends)}>>

\* face_signature: the plane without its sign, and the edges of the bound.
FaceKey(e, f) ==
    <<e[e[f].support].at, Len(e[f].loop), {EdgeKey(e, n) : n \in EdgesOf(e, f)}>>
Outward(e, f) == e[f].sense = e[e[f].support].up

\* The planar faces without a style of their own.
Neutral(e) ==
    {c \in OfKind(e, "solid") \X OfKind(e, "face") :
        /\ c[2] \in e[e[c[1]].shell].faces
        /\ e[e[c[2]].support].kind = "plane"
        /\ StylesOf(e, c[2]) = {}}

\* Two faces of two solids, back to back.
\* (Slip: only that they are equal.)
Coincident(e, a, b) == a[1] # b[1]
BackToBack(e, a, b) == a[1] # b[1] /\ Outward(e, a[2]) # Outward(e, b[2])

\* The buckets with exactly two candidates, as sets of two pairs of solid and face.
Interfaces(e) ==
    LET key == [c \in Neutral(e) |-> FaceKey(e, c[2])]
        bucket == [c \in Neutral(e) |-> {d \in Neutral(e) : key[d] = key[c]}]
    IN  {b \in Range(bucket) :
            Cardinality(b) = 2 /\ \E a, c \in b : BackToBack(e, a, c)}

SolidsOf(i) == {c[1] : c \in i}
FacesOf(i) == {c[2] : c \in i}

Looks(e, solids) == {e[s].look : s \in UNION {StylesOf(e, n) : n \in solids}}
Owners(e, solids) == {r \in OfKind(e, "representation") : solids \subseteq e[r].items}

\* A component is recovered if every solid has exactly one style, all alike, and
\* exactly one representation holds all of them.
Plannable(e, solids) ==
    /\ \A n \in solids : Cardinality(StylesOf(e, n)) = 1
    /\ Cardinality(Looks(e, solids)) = 1
    /\ Cardinality(Owners(e, solids)) = 1

PartitionPlans(e) ==
    LET found == Interfaces(e)
        Plan(solids) ==
            LET mine == {i \in found : SolidsOf(i) \subseteq solids}
            IN  [solids |-> solids, interfaces |-> mine,
                 retained |-> UNION {e[e[n].shell].faces : n \in solids}
                              \ UNION {FacesOf(i) : i \in mine}]
    IN  {p \in {Plan(c) : c \in Components({SolidsOf(i) : i \in found})} :
            Plannable(e, p.solids) /\ p.retained # {}}

-----------------------------------------------------------------------------
(* partition_recovery.rs: welding.                                         *)

AllInterfaces(ps) == UNION {p.interfaces : p \in ps}

\* keyed_face_edges refuses a face with two edges of one key.
Weldable(e, ps) ==
    \A f \in UNION {FacesOf(i) : i \in AllInterfaces(ps)} :
        \A m, n \in EdgesOf(e, f) : EdgeKey(e, m) = EdgeKey(e, n) => m = n

\* S divided by a key.
Alike(S, Key(_)) == {{y \in S : Key(y) = Key(x)} : x \in S}

\* What union is called for: the edges of an interface with equal keys, and their
\* vertices at one point.
EdgeLinks(e, ps) ==
    UNION {Alike(UNION {EdgesOf(e, f) : f \in FacesOf(i)}, LAMBDA n : EdgeKey(e, n)) :
             i \in AllInterfaces(ps)}
\* (Slip: the vertices in the order of the edges' ends.)
EndLinks(e, ps) ==
    UNION {{{e[n].ends[k] : n \in l} : k \in 1 .. 2} : l \in EdgeLinks(e, ps)}
VertexLinks(e, ps) ==
    UNION {Alike(UNION {ToSet(e[n].ends) : n \in l}, LAMBDA v : e[v].at) :
             l \in EdgeLinks(e, ps)}

\* From where to where a use of an edge leads.
Course(e, u) == IF u.forward THEN e[u.edge].ends ELSE Reverse(e[u.edge].ends)

\* The use of the canonical edge that leads the way the old use led.
\* (Slip: the flag is kept.)
SameFlag(e, vertex, u, edge) == [edge |-> edge, forward |-> u.forward]
SameCourse(e, vertex, u, edge) ==
    LET Mapped(ends) == [k \in DOMAIN ends |-> vertex[ends[k]]]
    IN  [edge |-> edge, forward |-> Mapped(Course(e, u)) = Mapped(e[edge].ends)]

\* Every edge gets welded vertices; only the loops of retained faces get welded edges.
Welded(e, ps) ==
    LET edge == LET links == EdgeLinks(e, ps)
                IN  [n \in OfKind(e, "edge") |-> Root(links, n)]
        vertex == LET links == VertexLinks(e, ps)
                  IN  [v \in OfKind(e, "vertex") |-> Root(links, v)]
        retained == UNION {p.retained : p \in ps}
        Use(u) == IF edge[u.edge] = u.edge THEN u ELSE SameCourse(e, vertex, u, edge[u.edge])
    IN  [n \in DOMAIN e |->
            CASE e[n].kind = "edge" ->
                    [e[n] EXCEPT !.ends = [k \in DOMAIN @ |-> vertex[@[k]]]]
              [] n \in retained -> [e[n] EXCEPT !.loop = [k \in DOMAIN @ |-> Use(@[k])]]
              [] OTHER -> e[n]]

-----------------------------------------------------------------------------
(* partition_recovery.rs: the welded solid and its style take the place of *)
(* the old ones.  Plans are taken in the order of their smallest solids.   *)

OldStyles(e, p) == UNION {StylesOf(e, n) : n \in p.solids}

\* The first of the three ids of a plan.
\* (Slip: plans do not know of the ids of others.)
IdOfOnly(e, ps, p) == Max(DOMAIN e) + 1 + Cardinality({q \in ps : Min(q.solids) < Min(p.solids)})
NewId(e, ps, p) == Max(DOMAIN e) + 1 + 3 * Cardinality({q \in ps : Min(q.solids) < Min(p.solids)})

Replaced(items, ps, old, new) ==
    {x \in items : \A p \in ps : x \notin old[p]}
    \cup {new[p] : p \in {q \in ps : old[q] \cap items # {}}}

\* The representation that holds a plan's solids lists the new one in their place; the
\* presentation and the layers list its style.
Rebuilt(e, ps) ==
    LET id == [p \in ps |-> NewId(e, ps, p)]
        solid == [p \in ps |-> id[p] + 1]
        style == [p \in ps |-> id[p] + 2]
        Listed(n) ==
            CASE e[n].kind = "representation" ->
                    [e[n] EXCEPT !.items =
                        Replaced(@, {p \in ps : p.solids \subseteq @},
                                 [p \in ps |-> p.solids], solid)]
              [] e[n].kind \in {"presentation", "layer"} ->
                    [e[n] EXCEPT !.items =
                        Replaced(@, ps, [p \in ps |-> OldStyles(e, p)], style)]
              [] OTHER -> e[n]
        New(p, n) ==
            CASE n = id[p] -> [kind |-> "shell", faces |-> p.retained]
              [] n = solid[p] -> [kind |-> "solid", shell |-> id[p]]
              [] n = style[p] -> [kind |-> "style", item |-> solid[p],
                                  look |-> CHOOSE l \in Looks(e, p.solids) : TRUE]
        Span(p) == id[p] .. style[p]
    IN  [n \in DOMAIN e \cup UNION {Span(p) : p \in ps} |->
            IF n \in DOMAIN e THEN Listed(n)
            ELSE New(CHOOSE p \in ps : n \in Span(p), n)]

\* The old solids, what was below them, and the old styles.
\* (Slip: the styles are forgotten.)
SolidRemains(e, ps) == Descendants(e, UNION {p.solids : p \in ps})
Remains(e, ps) ==
    Descendants(e, UNION {p.solids : p \in ps}) \cup UNION {OldStyles(e, p) : p \in ps}

-----------------------------------------------------------------------------
(* face_coalesce.rs.                                                       *)

\* parse_face_info: a face on an allowed support whose bound has the sense .T.
Parsed(e, kinds) ==
    {f \in OfKind(e, "face") : e[e[f].support].kind \in kinds /\ e[f].bound}

Shells(e, f) == {s \in OfKind(e, "shell") : f \in e[s].faces}

\* Two faces with an edge that no third one uses, on the same support with the same sense.
Adjacency(e, faces) ==
    LET users == [n \in OfKind(e, "edge") |-> {f \in faces : n \in EdgesOf(e, f)}]
    IN  {l \in Range(users) :
            /\ Cardinality(l) = 2
            /\ Cardinality({<<e[f].support, e[f].sense>> : f \in l}) = 1}

\* The groups are the components of the adjacency.
\* (Slip: the adjacent pairs, the first of each face.)
Pairs(links) ==
    {l \in links : \A m \in links : l \cap m # {} => Min(l) <= Min(m)}
Groups(links) == Components(links)

Internal(e, faces, group) ==
    {n \in UNION {EdgesOf(e, f) : f \in group} :
        Cardinality({f \in group : n \in EdgesOf(e, f)}) >= 2}

\* The k-th member of a group, in the order of the ids.
Member(group, k) == CHOOSE f \in group : Cardinality({g \in group : g < f}) = k - 1

\* The uses that stay, in the order of the faces.
Surviving(e, faces, group) ==
    LET inner == Internal(e, faces, group)
        Staying(loop) ==
            FlattenSeq([k \in DOMAIN loop |->
                IF loop[k].edge \in inner THEN <<>> ELSE <<loop[k]>>])
    IN  FlattenSeq([k \in 1 .. Cardinality(group) |-> Staying(e[Member(group, k)].loop)])

\* trace_single_loop: from one use on, the use that starts where the last one ended.
Start(e, u) == Course(e, u)[1]
End(e, u) == Course(e, u)[2]
Trace(e, uses) ==
    LET next[k \in DOMAIN uses] ==
            IF k = 1 THEN uses[1]
            ELSE LET last == End(e, next[k - 1])
                 IN  CHOOSE u \in ToSet(uses) : Start(e, u) = last
    IN  next

\* One loop: no two uses start at one vertex, each ends where another starts, and the
\* first is not reached again before the last.
OneLoop(e, uses) ==
    /\ IsInjective([k \in DOMAIN uses |-> Start(e, uses[k])])
    /\ {End(e, u) : u \in ToSet(uses)} = {Start(e, u) : u \in ToSet(uses)}
    /\ \A k \in DOMAIN uses :
          k < Len(uses) => End(e, Trace(e, uses)[k]) # Start(e, uses[1])

\* A group is merged if its faces are in one and the same shell, have no style or one
\* each that looks the same, share their inner edges with no other face, and leave
\* one loop that uses no edge twice.
SameLook(e, group) ==
    \/ \A f \in group : StylesOf(e, f) = {}
    \/ /\ \A f \in group : Cardinality(StylesOf(e, f)) = 1
       /\ Cardinality(Looks(e, group)) = 1

Mergeable(e, faces, group) ==
    LET uses == Surviving(e, faces, group)
    IN  /\ Cardinality({Shells(e, f) : f \in group}) = 1
        /\ \A f \in group : Cardinality(Shells(e, f)) = 1
        /\ SameLook(e, group)
        /\ \A n \in Internal(e, faces, group) : \A f \in faces :
              n \in EdgesOf(e, f) => f \in group
        /\ uses # <<>>
        /\ IsInjective([k \in DOMAIN uses |-> uses[k].edge])
        /\ OneLoop(e, uses)

CoalescePlans(e, kinds) ==
    LET faces == Parsed(e, kinds)
    IN  {g \in Groups(Adjacency(e, faces)) : Mergeable(e, faces, g)}

\* The smallest face of a group gets the loop; shells list it for the others, and the
\* others' styles leave the presentation and the layers.
Coalesced(e, ps, kinds) ==
    LET faces == Parsed(e, kinds)
        gone == UNION {g \ {Min(g)} : g \in ps}
        styles == UNION {StylesOf(e, f) : f \in gone}
    IN  [n \in DOMAIN e |->
            CASE \E g \in ps : n = Min(g) ->
                    LET uses == Surviving(e, faces, CHOOSE g \in ps : n = Min(g))
                    IN  [e[n] EXCEPT !.loop = Trace(e, uses)]
              [] e[n].kind = "shell" -> [e[n] EXCEPT !.faces = @ \ gone]
              [] e[n].kind \in {"presentation", "layer"} -> [e[n] EXCEPT !.items = @ \ styles]
              [] OTHER -> e[n]]

\* What the collection may delete; the rewritten faces themselves stay in any case.
Leftovers(e, ps) ==
    (Descendants(e, UNION ps) \cup UNION {StylesOf(e, f) : f \in UNION {g \ {Min(g)} : g \in ps}})
    \ {Min(g) : g \in ps}

-----------------------------------------------------------------------------
\* The collection of both passes: candidates all of whose parents go.
Swept(e, C) ==
    LET parents == [n \in C |-> Parents(e, n)]
        gone[k \in 0 .. Depth] ==
            IF k = 0 THEN {}
            ELSE LET dead == gone[k - 1] IN {n \in C : parents[n] \subseteq dead}
    IN  [n \in DOMAIN e \ gone[Depth] |-> e[n]]

Init ==
    /\ allowed \in AllowedSets
    /\ input \in Inputs
    /\ ent = input /\ before = input
    /\ plans = {} /\ candidates = {}
    /\ pass = "partition" /\ step = "plan" /\ round = 1

\* To the next pass, or to the end of this cleanup.
Leave ==
    /\ pass' = "coalesce"
    /\ step' = IF pass = "partition" THEN "plan" ELSE "written"
    /\ plans' = {} /\ candidates' = {}
    /\ UNCHANGED <<allowed, input, round>>

PlanWith(ps) ==
    /\ step = "plan"
    /\ before' = ent
    /\ \/ /\ ps = {}
          /\ Leave /\ UNCHANGED ent
       \/ /\ ps # {}
          /\ plans' = ps
          /\ step' = IF pass = "partition" THEN "weld" ELSE "rebuild"
          /\ UNCHANGED <<allowed, input, ent, candidates, pass, round>>

PlanPartition == pass = "partition" /\ PlanWith(PartitionPlans(ent))

Weld ==
    /\ step = "weld" /\ Weldable(ent, plans)
    /\ ent' = Welded(ent, plans)
    /\ step' = "rebuild"
    /\ UNCHANGED <<allowed, input, before, plans, candidates, pass, round>>

\* recover_inner returned None: one seam in doubt, and no component is recovered.
RollBack ==
    /\ step = "weld" /\ ~Weldable(ent, plans)
    /\ ent' = before
    /\ Leave /\ UNCHANGED before

Rebuild ==
    /\ pass = "partition" /\ step = "rebuild"
    /\ ent' = Rebuilt(ent, plans)
    /\ candidates' = Remains(before, plans)
    /\ step' = "sweep"
    /\ UNCHANGED <<allowed, input, before, plans, pass, round>>

PlanCoalesce == pass = "coalesce" /\ PlanWith(CoalescePlans(ent, allowed))

Coalesce ==
    /\ pass = "coalesce" /\ step = "rebuild"
    /\ ent' = Coalesced(ent, plans, allowed)
    /\ candidates' = Leftovers(before, plans)
    /\ step' = "sweep"
    /\ UNCHANGED <<allowed, input, before, plans, pass, round>>

Sweep ==
    /\ step = "sweep"
    /\ ent' = Swept(ent, candidates)
    /\ Leave /\ UNCHANGED before

\* A second cleanup reads what the first wrote.
CleanAgain ==
    /\ step = "written" /\ round = 1
    /\ round' = 2 /\ pass' = "partition" /\ step' = "plan"
    /\ before' = ent
    /\ UNCHANGED <<allowed, input, ent, plans, candidates>>

Done == step = "written" /\ round = 2 /\ UNCHANGED vars

Next == \/ PlanPartition \/ Weld \/ RollBack \/ Rebuild
        \/ PlanCoalesce \/ Coalesce \/ Sweep \/ CleanAgain \/ Done

Spec == Init /\ [][Next]_vars

-----------------------------------------------------------------------------
\* What an entity of each kind holds besides its kind.
Attributes(kind) ==
    CASE kind = "vertex" -> {"at"}
      [] kind = "edge" -> {"trace", "turn", "ends"}
      [] kind = "face" -> {"support", "sense", "bound", "loop"}
      [] kind \in {"plane", "cylinder"} -> {"at", "up"}
      [] kind = "shell" -> {"faces"}
      [] kind = "solid" -> {"shell"}
      [] kind = "style" -> {"item", "look"}
      [] kind = "usage" -> {"item"}
      [] kind \in {"representation", "presentation", "layer"} -> {"items"}
      [] OTHER -> {}

\* Nothing dangles and no entity is torn: an edge has two vertices, a loop is a sequence
\* of uses of edges, and every reference leads to what its attribute admits.
Whole(e) ==
    /\ IsFiniteSet(DOMAIN e) /\ DOMAIN e \subseteq Int
    /\ \A n \in DOMAIN e : DOMAIN e[n] = {"kind"} \cup Attributes(e[n].kind)
    /\ \A n \in OfKind(e, "edge") : e[n].ends \in [1 .. 2 -> OfKind(e, "vertex")]
    /\ \A n \in OfKind(e, "face") :
          /\ e[n].support \in OfKind(e, "plane") \cup OfKind(e, "cylinder")
          /\ e[n].loop \in Seq([edge : OfKind(e, "edge"), forward : BOOLEAN])
    /\ \A n \in OfKind(e, "shell") : e[n].faces \subseteq OfKind(e, "face")
    /\ \A n \in OfKind(e, "solid") : e[n].shell \in OfKind(e, "shell")
    /\ \A n \in OfKind(e, "style") : e[n].item \in OfKind(e, "solid") \cup OfKind(e, "face")
    /\ \A n \in OfKind(e, "usage") : e[n].item \in OfKind(e, "face")
    /\ \A n \in OfKind(e, "representation") : e[n].items \subseteq OfKind(e, "solid")
    /\ \A n \in OfKind(e, "presentation") \cup OfKind(e, "layer") :
          e[n].items \subseteq OfKind(e, "style")

InputsAssumption == \A i \in Inputs : Whole(i)

\* At every step, half-way through a pass too, the section is whole, and no id is given
\* twice.
TypeOK ==
    /\ Whole(ent)
    /\ pass \in {"partition", "coalesce"}
    /\ step \in {"plan", "weld", "rebuild", "sweep", "written"}

Between == step \in {"plan", "written"}

\* Between the passes every shell is closed: its loops hang together, and each edge is
\* used exactly twice, once in either direction.
ShellsAreClosed ==
    Between =>
        \A s \in OfKind(ent, "shell") :
            LET faces == ent[s].faces
                uses == UNION {{<<f, k>> : k \in DOMAIN ent[f].loop} : f \in faces}
                Used(n, way) == {x \in uses : ent[x[1]].loop[x[2]] = [edge |-> n, forward |-> way]}
            IN  /\ \A f \in faces : \A k \in DOMAIN ent[f].loop :
                      End(ent, ent[f].loop[k])
                        = Start(ent, ent[f].loop[(k % Len(ent[f].loop)) + 1])
                /\ \A n \in UNION {EdgesOf(ent, f) : f \in faces} :
                      Cardinality(Used(n, TRUE)) = 1 /\ Cardinality(Used(n, FALSE)) = 1

\* Where a face's loop runs: along what, from where, to where, and on a closed edge
\* which way round.
Path(e, f) ==
    [k \in DOMAIN e[f].loop |->
        LET u == e[f].loop[k]
        IN  <<e[u.edge].trace, e[Start(e, u)].at, e[End(e, u)].at,
              Start(e, u) = End(e, u) /\ u.forward = e[u.edge].turn>>]

\* Welding, rebuilding and collecting the partition moves the bound of no face: only
\* topology that is equivalent is united.
BoundsAreKept ==
    pass = "partition" \/ step = "plan" =>
        \A f \in OfKind(ent, "face") \cap DOMAIN before : Path(ent, f) = Path(before, f)

\* What the passes rely on: no edge has two vertices in one place, and among the edges
\* given, those with one key run along the same and are open.
Told(e, edges) ==
    /\ \A n \in OfKind(e, "edge") : LET ends == e[n].ends
                                    IN  ends[1] # ends[2] => e[ends[1]].at # e[ends[2]].at
    /\ \A m, n \in edges : m # n /\ EdgeKey(e, m) = EdgeKey(e, n) =>
          e[m].trace = e[n].trace /\ e[n].ends[1] # e[n].ends[2]

\* The edges a pass would unite: those around its interfaces, if none is in doubt.
SeamEdges(e) ==
    LET ps == PartitionPlans(e)
    IN  IF Weldable(e, ps)
        THEN UNION {EdgesOf(e, f) : f \in UNION {FacesOf(i) : i \in AllInterfaces(ps)}}
        ELSE {}

\* The cells of the bodies' surface a face covers: one of a cap, one of a side for every
\* level it passes.
Along(e, f) == {e[n].trace : n \in EdgesOf(e, f)} \ {"riser"}
Cells(e, f) ==
    LET levels == {e[v].at[2] : v \in UNION {ToSet(e[n].ends) : n \in EdgesOf(e, f)}}
    IN  IF Cardinality(levels) = 1
        THEN {[at |-> Min(levels), along |-> Along(e, f), side |-> FALSE, out |-> Outward(e, f)]}
        ELSE {[at |-> z, along |-> Along(e, f), side |-> TRUE, out |-> TRUE] :
                 z \in Min(levels) .. (Max(levels) - 1)}

\* What a face looks like: a style counts if the presentation lists it, and the style of
\* a face goes before that of its solid.
Shown(e, n) == {e[s].look : s \in StylesOf(e, n)
                   \cap UNION {e[p].items : p \in OfKind(e, "presentation")}}
LookOf(e, n, f) == IF Shown(e, f) # {} THEN Shown(e, f) ELSE Shown(e, n)

\* What the represented solids show: every cell with its look, but no cap on a cap.
Skin(e) ==
    LET solids == UNION {e[r].items : r \in OfKind(e, "representation")}
        all == UNION {UNION {{<<c, LookOf(e, n, f)>> : c \in Cells(e, f)} :
                                f \in e[e[n].shell].faces} : n \in solids}
    IN  {x \in all : x[1].side
                     \/ \A y \in all : y[1] # [x[1] EXCEPT !.out = ~@]}

\* Neither pass changes what is seen from outside: no part of the surface is lost or
\* laid bare, and every part keeps its look.
SkinIsKept == Between => Skin(ent) = Skin(input)

\* What nothing that counts refers to, directly or not.
Roots == {"representation", "presentation", "layer", "usage"}
Orphans(e) == DOMAIN e \ Descendants(e, {n \in DOMAIN e : e[n].kind \in Roots})

\* The collections leave nothing behind that the passes replaced.
NothingIsOrphaned == Between => Orphans(ent) \subseteq Orphans(input)

\* A cleanup of the output rewrites nothing: what could be merged has been, and what was
\* refused is refused again.
OutputIsFixedPoint == round = 2 => step \notin {"rebuild", "sweep"}

=============================================================================
