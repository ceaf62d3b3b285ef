------------------------------ MODULE FaceViews ------------------------------
(***************************************************************************)
(* brep.rs and ReducedSolid::from_step: a face as the recognisers see it,  *)
(* its support and its loops of oriented edge uses.  Only planes and       *)
(* straight edges are told apart from the rest; normals are primitive.     *)
(*                                                                         *)
(* A vertex is <<point, id>>.  The vertices of a file lie at different     *)
(* points and have id 0 here; those a reduction makes up have their own.   *)
(***************************************************************************)
EXTENDS BoundaryFeatures

Cross(p, q) ==
    <<p[2] * q[3] - p[3] * q[2], p[3] * q[1] - p[1] * q[3], p[1] * q[2] - p[2] * q[1]>>
Times(k, p) == <<k * p[1], k * p[2], k * p[3]>>
Origin3 == <<0, 0, 0>>
Parallel(p, q) == Cross(p, q) = Origin3

\* point_to_unit_line_distance is zero: p is on the line through a and b.
OnLine(p, a, b) == Parallel(Minus(p, a), Minus(b, a))

\* canonical_direction: the longest component is positive.
CanonicalDirection(v) ==
    LET size == [a \in 1 .. 3 |-> IF v[a] < 0 THEN -v[a] ELSE v[a]]
        dominant == Max({a \in 1 .. 3 : \A b \in 1 .. 3 : size[b] <= size[a]})
    IN  IF v[dominant] < 0 THEN Times(-1, v) ELSE v

-----------------------------------------------------------------------------
\* oriented_edge_use.
Use(e, use) ==
    LET x == e[use[1]]
    IN  [edge |-> use[1], curve |-> x.curve, forward |-> use[2],
         from |-> IF use[2] THEN <<x.from, 0>> ELSE <<x.to, 0>>,
         to |-> IF use[2] THEN <<x.to, 0>> ELSE <<x.from, 0>>]

\* ordered_bound_loop: the bound's own orientation is not applied to the uses.
LoopView(e, b) ==
    [outer |-> e[b].outer, forward |-> e[b].forward,
     uses |-> [k \in DOMAIN e[e[b].loop].uses |-> Use(e, e[e[b].loop].uses[k])]]

\* face_loops, surface_support, ReducedFace::from_step.
FaceView(e, f) ==
    LET s == e[e[f].on]
        order == InOrder(e[f].bounds)
    IN  [id |-> f, support |-> s.kind, forward |-> e[f].sense,
         normal |-> IF s.kind = "plane" THEN s.normal ELSE Origin3,
         at |-> IF s.kind = "plane" THEN s.at ELSE 0,
         loops |-> [k \in DOMAIN order |-> LoopView(e, order[k])]]

\* solid_face_ids, ReducedSolid::from_step.
SolidView(e, solid) ==
    [faces |-> [f \in e[e[solid].shell].faces |-> FaceView(e, f)], next |-> Max(DOMAIN e) + 1]

\* loop_edges: where the uses of a face are, and the uses.
Places(view) == UNION {{<<l, k>> : k \in DOMAIN view.loops[l].uses} : l \in DOMAIN view.loops}
UsesOf(view) == {view.loops[p[1]].uses[p[2]] : p \in Places(view)}
EdgesOf(view) == {u.edge : u \in UsesOf(view)}
EdgeCount(view) == Cardinality(Places(view))
LoopEdgesOf(loop) == {u.edge : u \in ToSet(loop.uses)}

\* edge_faces: the faces of an edge, and how often it is used.
Attached(faces, x) == {f \in DOMAIN faces : x \in EdgesOf(faces[f])}
AllEdges(faces) == UNION {EdgesOf(faces[f]) : f \in DOMAIN faces}
UseCounts(faces) ==
    LET at == UNION {{<<f, p>> : p \in Places(faces[f])} : f \in DOMAIN faces}
        Edge(x) == faces[x[1]].loops[x[2][1]].uses[x[2][2]].edge
    IN  [n \in {Edge(x) : x \in at} |-> Cardinality({x \in at : Edge(x) = n})]
UsedTwice(faces) == LET count == UseCounts(faces) IN \A x \in DOMAIN count : count[x] = 2

IsPlane(view) == view.support = "plane"
OutwardOf(view) == IF view.forward THEN view.normal ELSE Times(-1, view.normal)
OnPlane(v, view) == Dot(v[1], view.normal) = view.at

\* face_lies_on_plane, for straight edges.
LiesOn(uses, view) == \A u \in uses : u.curve = "line" /\ OnPlane(u.from, view) /\ OnPlane(u.to, view)

\* raw_loop_is_continuous.
IsContinuous(uses) ==
    /\ uses # <<>>
    /\ \A k \in DOMAIN uses : uses[k].to = uses[(k % Len(uses)) + 1].from
=============================================================================
