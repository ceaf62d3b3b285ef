-------------------------- MODULE BoundaryFeatures --------------------------
(***************************************************************************)
(* planar_features.rs: bosses, pockets and holes of a closed shell.  A     *)
(* patch of faces that hangs on planar host faces by whole inner bounds is *)
(* a candidate, candidates that look alike are a family, and a family can  *)
(* be peeled off its hosts and closed to a tool.                           *)
(*                                                                         *)
(* A section is a function from ids (numbers) to entities.  Coordinates    *)
(* are doubled, so that centres are numbers too and the unit cells are     *)
(* the odd points.  A loop is a cycle of directed edges, and it carries    *)
(* what it encloses seen from above (area): the code has that in curves.   *)
(***************************************************************************)
EXTENDS Integers, SequencesExt

CONSTANTS
    MinGroup,        \* MIN_GROUP: smaller families are left alone
    MaxFeatureFaces  \* MAX_BOUNDARY_FEATURE_FACES

\* The module is used through instances of it as well, so no ASSUME.
LimitsAssumption == {MinGroup, MaxFeatureFaces} \subseteq Nat \ {0}

OfKind(e, kinds) == {n \in DOMAIN e : e[n].kind \in kinds}

\* The members of a set of numbers in ascending order.
InOrder(S) ==
    [k \in 1 .. Cardinality(S) |-> CHOOSE n \in S : Cardinality({m \in S : m < n}) = k - 1]

-----------------------------------------------------------------------------
(* Points and planes.                                                      *)

Minus(p, q) == <<p[1] - q[1], p[2] - q[2], p[3] - q[3]>>
Plus(p, q) == <<p[1] + q[1], p[2] + q[2], p[3] + q[3]>>
Dot(p, q) == p[1] * q[1] + p[2] * q[2] + p[3] * q[3]

\* rotate_quarter_xy.
Turned(q, p) ==
    CASE q = 0 -> p [] q = 1 -> <<-p[2], p[1], p[3]>>
      [] q = 2 -> <<-p[1], -p[2], p[3]>> [] q = 3 -> <<p[2], -p[1], p[3]>>

\* rigid_translation.
\* (Slip: the source is not turned about the origin.)
UnturnedTranslation(source, target, q) == Minus(target, source)
Translation(source, target, q) == Minus(target, Turned(q, source))

\* bbox_center.
Centre(points) ==
    [a \in 1 .. 3 |-> LET xs == {p[a] : p \in points} IN (Min(xs) + Max(xs)) \div 2]

IsPlanar(e, f) == e[e[f].on].kind = "plane"

\* plane_frame: the normal of the face, and how far along it the plane is.
Outward(e, f) ==
    LET n == e[e[f].on].normal IN IF e[f].sense THEN n ELSE Minus(<<0, 0, 0>>, n)
Level(e, f) == LET at == e[e[f].on].at IN IF e[f].sense THEN at ELSE -at

\* plane_side.
Side(e, points, host) ==
    LET heights == {Dot(p, Outward(e, host)) - Level(e, host) : p \in points}
    IN  CASE heights = {0} -> "coplanar"
          [] heights # {0} /\ (\A h \in heights : h >= 0) -> "positive"
          [] heights # {0} /\ (\A h \in heights : h <= 0) -> "negative"
          [] OTHER -> "straddling"

-----------------------------------------------------------------------------
(* Faces, edges and what hangs together.                                   *)

\* bound_loop_edges, face_edge_curves.
LoopEdges(e, b) == {use[1] : use \in ToSet(e[e[b].loop].uses)}
FaceEdges(e, f) == UNION {LoopEdges(e, b) : b \in e[f].bounds}

\* is_closed_shell, collect_shell_contexts: once per representation that lists it.
ShellsOf(e, n) ==
    {s \in CASE e[n].kind = "solid" -> {e[n].shell}
             [] e[n].kind = "shells" -> e[n].shells
             [] OTHER -> {} : e[s].closed}
Contexts(e) ==
    UNION {UNION {{[rep |-> r, container |-> n, shell |-> s] : s \in ShellsOf(e, n)}
                     : n \in ToSet(e[r].items)} : r \in OfKind(e, {"brep", "surfaces"})}

\* ShellTopology::new.
Topology(e, shell) ==
    LET faces == e[shell].faces
        edges == [f \in faces |-> FaceEdges(e, f)]
    IN  [faces |-> faces, edges |-> edges,
         at |-> [x \in UNION {edges[f] : f \in faces} |-> {f \in faces : x \in edges[f]}]]

\* face_components_without_hosts: the patch of a face when the hosts are cut out.
Patch(t, hosts, face) ==
    LET near == [f \in t.faces |-> UNION {t.at[x] : x \in t.edges[f]} \ hosts]
        grown[k \in 0 .. Cardinality(t.faces)] ==
            IF k = 0 THEN {face}
            ELSE LET known == grown[k - 1] IN known \cup UNION {near[f] : f \in known}
    IN  grown[Cardinality(t.faces)]
PatchesWithoutHosts(t, hosts) == {Patch(t, hosts, f) : f \in t.faces \ hosts}

\* component_is_two_manifold_with_hosts.
IsManifold(t, patch, hosts) ==
    \A x \in UNION {t.edges[f] : f \in patch} :
        /\ Cardinality(t.at[x]) = 2
        /\ t.at[x] \subseteq patch \cup hosts
        /\ Cardinality(t.at[x] \cap hosts) <= 1

\* component_interface_edges.
InterfaceEdges(t, patch, host) == {x \in UNION {t.edges[f] : f \in patch} : host \in t.at[x]}

\* component_vertex_points.
PatchPoints(e, t, patch) ==
    UNION {{e[x].from, e[x].to} : x \in UNION {t.edges[f] : f \in patch}}

\* host_bound_lookup: the inner bounds of the host that are this set of edges.
BoundsWithEdges(e, host, edges) ==
    {b \in e[host].bounds : ~e[b].outer /\ LoopEdges(e, b) = edges}

-----------------------------------------------------------------------------
(* shape_identity.rs: what a face looks like from a centre, after turns.   *)

Placed(p, centre, q) == Turned(q, Minus(p, centre))

\* resolve_edge_curve_use, vertex_signature, oriented_edge_signature.
UseSignature(e, use, centre, q) ==
    LET a == Placed(e[use[1]].from, centre, q)
        b == Placed(e[use[1]].to, centre, q)
    IN  <<e[use[1]].curve, IF use[2] THEN <<a, b>> ELSE <<b, a>>>>

\* edge_loop_signature with canonical_cycle: the cycle, wherever it begins.
LoopSignature(e, loop, centre, q) ==
    LET uses == e[loop].uses
        n == Len(uses)
    IN  {[k \in 1 .. n |-> UseSignature(e, uses[((k + s) % n) + 1], centre, q)] : s \in 0 .. n - 1}

\* bound_topology_signature.
BoundSignature(e, b, centre, q) ==
    <<e[b].outer, e[b].forward, LoopSignature(e, e[b].loop, centre, q)>>

\* plane_support_signature and support_entity_signature: a plane has no origin and no
\* axes of its own.
SupportSignature(e, s, centre, q) ==
    IF e[s].kind = "plane"
    THEN <<"plane", Turned(q, e[s].normal), e[s].at - Dot(centre, e[s].normal)>>
    ELSE <<e[s].kind, Placed(e[s].centre, centre, q), e[s].radius>>

\* face_topology_signature.
FaceSignature(e, f, centre, q) ==
    [sense |-> e[f].sense, on |-> SupportSignature(e, e[f].on, centre, q),
     bounds |-> {BoundSignature(e, b, centre, q) : b \in e[f].bounds}]

\* component_signature: the least of the four pictures, and the first turn that shows it.
Picture(e, patch, centre, q) == {FaceSignature(e, f, centre, q) : f \in patch}
Signature(e, patch, centre) ==
    LET pictures == [q \in 0 .. 3 |-> Picture(e, patch, centre, q)]
        least == CHOOSE p \in {pictures[q] : q \in 0 .. 3} : TRUE
    IN  <<least, Min({q \in 0 .. 3 : pictures[q] = least})>>

-----------------------------------------------------------------------------
(* Candidates and families.                                                *)

\* The hosts of a shell: planes with a second bound or six edges.
Hosts(e, t) ==
    {f \in t.faces : /\ IsPlanar(e, f)
                     /\ Cardinality(e[f].bounds) >= 2 \/ Cardinality(t.edges[f]) >= 6}

\* boundary_feature_candidate: none, or one.
Candidate(e, context, t, patch, hosts) ==
    LET touched == {h \in hosts : InterfaceEdges(t, patch, h) # {}}
        matches == [h \in touched |-> BoundsWithEdges(e, h, InterfaceEdges(t, patch, h))]
        points == PatchPoints(e, t, patch)
        sides == {Side(e, points, h) : h \in touched}
        centre == Centre(points)
        signature == Signature(e, patch, centre)
    IN  IF /\ Cardinality(patch) <= MaxFeatureFaces
           /\ IsManifold(t, patch, hosts)
           /\ touched # {}
           /\ \A h \in touched : Cardinality(matches[h]) = 1
           /\ sides \in {{"positive"}, {"negative"}}
        THEN {[context |-> context, faces |-> patch, centre |-> centre,
               polarity |-> IF sides = {"positive"} THEN "additive" ELSE "subtractive",
               bounds |-> [h \in touched |-> CHOOSE b \in matches[h] : TRUE],
               signature |-> signature[1], quarter |-> signature[2]]}
        ELSE {}

CandidatesAt(e, context, t, hosts) ==
    UNION {Candidate(e, context, t, patch, hosts) : patch \in PatchesWithoutHosts(t, hosts)}

\* grouped_boundary_features_with_index, up to the groups: with one host cut out, and with
\* all of them when the patch then touches two; of one patch the richer proof stays.
AllCandidates(e, context) ==
    LET t == Topology(e, context.shell)
        hosts == Hosts(e, t)
    IN  UNION {CandidatesAt(e, context, t, {h}) : h \in hosts}
        \cup {c \in CandidatesAt(e, context, t, hosts) : Cardinality(DOMAIN c.bounds) >= 2}
Richest(found) ==
    {c \in found : \A d \in found :
        d.faces = c.faces => Cardinality(DOMAIN d.bounds) <= Cardinality(DOMAIN c.bounds)}
Candidates(e, context) ==
    IF Cardinality(e[context.shell].faces) < 3 THEN {} ELSE Richest(AllCandidates(e, context))

\* The groups: one shell and context, one polarity, the same hosts, one signature.
Key(c) == <<c.context, c.polarity, DOMAIN c.bounds, c.signature>>

\* A family in the order of its faces; the first member stands for it.
\* diagnose_boundary_features_with_index_filtered.
Family(members) ==
    LET order == InOrder({Min(c.faces) : c \in members})
        first == CHOOSE c \in members : Min(c.faces) = order[1]
    IN  [context |-> first.context, polarity |-> first.polarity,
         hosts |-> DOMAIN first.bounds, signature |-> first.signature,
         members |-> [k \in DOMAIN order |->
            LET c == CHOOSE c \in members : Min(c.faces) = order[k]
            IN  [faces |-> c.faces, centre |-> c.centre, quarter |-> c.quarter,
                 bounds |-> c.bounds]]]

Grouped(found) == {Family({c \in found : Key(c) = key}) : key \in {Key(c) : c \in found}}
FamiliesOf(e, contexts) == Grouped(UNION {Candidates(e, c) : c \in contexts})
Families(e) == FamiliesOf(e, Contexts(e))

-----------------------------------------------------------------------------
(* What a shell encloses.  A face that lies flat, or a cap of a sphere, is *)
(* a lid or a floor over its area; a cell is inside when one more lid than *)
(* floors is above it.                                                     *)

IsFlat(e, f) == IsPlanar(e, f) => e[e[f].on].normal[3] # 0

Area(e, f) ==
    UNION {e[e[b].loop].area : b \in {x \in e[f].bounds : e[x].outer}}
    \ UNION {e[e[b].loop].area : b \in {x \in e[f].bounds : ~e[x].outer}}

\* What is above a cell is counted by the faces' heights.
Lids(e, faces) ==
    {[face |-> f, area |-> Area(e, f),
      up |-> IF IsPlanar(e, f) THEN Outward(e, f)[3] = 1 ELSE e[f].sense,
      z |-> IF IsPlanar(e, f) THEN e[e[f].on].at * e[e[f].on].normal[3] ELSE e[e[f].on].top]
        : f \in {g \in faces : IsFlat(e, g)}}

Depth(lids, cell) ==
    LET above == {l \in lids : <<cell[1], cell[2]>> \in l.area /\ l.z > cell[3]}
    IN  2 * Cardinality({l \in above : l.up}) - Cardinality(above)

CellsOf(lids) ==
    LET zs == {l.z : l \in lids}
    IN  IF lids = {} THEN {}
        ELSE {<<a[1], a[2], z>> : a \in UNION {l.area : l \in lids},
                                  z \in {y \in Min(zs) .. Max(zs) : y % 2 = 1}}

RegionOfFaces(e, faces) == LET lids == Lids(e, faces) IN {c \in CellsOf(lids) : Depth(lids, c) = 1}

\* A shell that encloses every cell once or not at all.
IsProper(e, faces) == LET lids == Lids(e, faces) IN \A c \in CellsOf(lids) : Depth(lids, c) \in {0, 1}

-----------------------------------------------------------------------------
(* Tools: the first member of a family, closed on its hosts.               *)

\* coplanar_feature_cap_holes: the faces of the member that lie in the host's plane, if
\* each of them is bounded once, from outside.
CapHoles(e, member, host) ==
    LET level == {f \in member.faces :
            /\ IsPlanar(e, f)
            /\ \/ Outward(e, f) = Outward(e, host) /\ Level(e, f) = Level(e, host)
               \/ Minus(<<0, 0, 0>>, Outward(e, f)) = Outward(e, host) /\ Level(e, f) = -Level(e, host)}
    IN  IF \A f \in level : Cardinality(e[f].bounds) = 1 /\ (\A b \in e[f].bounds : e[b].outer)
        THEN level ELSE {}

\* The caps, shell and solid of materialize_boundary_feature_tools_for_analysis_filtered,
\* with ids from next on: for host k of the member its outer bound, its face, and a hole
\* for every face that is folded into it.
CapFaces(e, member, flip, next) ==
    LET hosts == InOrder(DOMAIN member.bounds)
        stride == 2 + Cardinality(member.faces)
        fold == IF Len(hosts) = 1 THEN CapHoles(e, member, hosts[1]) ELSE {}
        holes == InOrder(fold)
        At(k) == next + stride * (k - 1)
        bounds(k) == {At(k)} \cup {At(k) + 1 + j : j \in DOMAIN holes}
        OldBound(f) == CHOOSE b \in e[f].bounds : TRUE
        CapBound(k) == LET b == e[member.bounds[hosts[k]]] IN
            [kind |-> "bound", outer |-> TRUE, loop |-> b.loop,
             forward |-> IF flip THEN ~b.forward ELSE b.forward]
        Cap(k) ==
            [kind |-> "face", on |-> e[hosts[k]].on, bounds |-> bounds(k),
             sense |-> IF flip THEN ~e[hosts[k]].sense ELSE e[hosts[k]].sense]
    IN  [entities |-> [n \in {At(k) : k \in DOMAIN hosts} |->
                            CapBound(((n - next) \div stride) + 1)]
                      @@ [n \in {At(k) + 1 : k \in DOMAIN hosts} |->
                            Cap(((n - next) \div stride) + 1)]
                      @@ [n \in {At(1) + 1 + j : j \in DOMAIN holes} |->
                            [e[OldBound(holes[n - At(1) - 1])] EXCEPT !.outer = FALSE]],
         caps |-> {At(k) + 1 : k \in DOMAIN hosts},
         folded |-> fold,
         after |-> next + stride * Len(hosts)]

Closed(cap, member) ==
    cap.entities
    @@ (cap.after :> [kind |-> "shell", closed |-> TRUE,
                      faces |-> (member.faces \ cap.folded) \cup cap.caps])
    @@ ((cap.after + 1) :> [kind |-> "solid", shell |-> cap.after])
Tool(e, family, next) ==
    Closed(CapFaces(e, family.members[1], family.polarity = "additive", next), family.members[1])

\* leaf_feature_family_indices: the families on whose members no other family stands.
LeafFamilies(families) ==
    {f \in families : \A g \in families \ {f} : \A k \in DOMAIN f.members :
        f.members[k].faces \cap g.hosts = {}}

\* plan_boundary_feature_family_peel: what goes from the shells and from the hosts, or
\* nothing at all when two of the families want the same face or bound.
MembersOf(families) == UNION {{<<f, k>> : k \in DOMAIN f.members} : f \in families}
FacesOf(x) == x[1].members[x[2]].faces
BoundsOf(x) == Range(x[1].members[x[2]].bounds)
PeelIsProved(e, families) ==
    /\ \A f \in families : f.hosts \subseteq e[f.context.shell].faces
    /\ \A x \in MembersOf(families) : FacesOf(x) \subseteq e[x[1].context.shell].faces
    /\ \A x, y \in MembersOf(families) :
        x # y => FacesOf(x) \cap FacesOf(y) = {} /\ BoundsOf(x) \cap BoundsOf(y) = {}
    /\ \A h, i \in UNION {f.hosts : f \in families} : h # i => e[h].bounds \cap e[i].bounds = {}

\* apply_boundary_feature_peel_plan: the patches leave their shell, the hosts are healed.
Peeled(e, families) ==
    LET gone == UNION {FacesOf(x) : x \in MembersOf(families)}
        healed == UNION {BoundsOf(x) : x \in MembersOf(families)}
        shells == {f.context.shell : f \in families}
        hosts == UNION {f.hosts : f \in families}
    IN  [n \in DOMAIN e |->
            CASE n \in shells -> [e[n] EXCEPT !.faces = @ \ gone]
              [] n \in hosts -> [e[n] EXCEPT !.bounds = @ \ healed]
              [] OTHER -> e[n]]
=============================================================================
