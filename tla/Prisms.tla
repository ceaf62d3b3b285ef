------------------------------- MODULE Prisms -------------------------------
(***************************************************************************)
(* solid_extrusions.rs: a solid, or what is left of it, as a profile that  *)
(* is swept along an axis.  A pair of parallel caps is proved to be one    *)
(* cap moved; the faces between them are proved to be its walls, or for a  *)
(* core candidate are left open.  Straight profile edges only.             *)
(***************************************************************************)
EXTENDS EdgeTreatments

\* face_info, face_info_from_reduced: what can be read at all.
IsReadable(view) ==
    /\ view.support # "spline" /\ view.loops # <<>>
    /\ \A l \in DOMAIN view.loops : view.loops[l].uses # <<>>
    /\ \A u \in UsesOf(view) : u.curve # "other"

-----------------------------------------------------------------------------
(* The profile in its own plane.                                           *)

\* profile_axes, project2: the axis that is least along z, and the third one.
Units3 == <<<<1, 0, 0>>, <<0, 1, 0>>, <<0, 0, 1>>>>
LeastAxis(z) == Min({k \in 1 .. 3 : \A j \in 1 .. 3 : z[k] * z[k] <= z[j] * z[j]})
Sideways(ref, z) == Minus(Times(Dot(z, z), ref), Times(Dot(ref, z), z))
WithThird(x, z) == <<x, Cross(z, x)>>
Frame(z) == WithThird(Sideways(Units3[LeastAxis(z)], z), z)
Flattened(p, frame) == <<Dot(p, frame[1]), Dot(p, frame[2])>>

Turn(a, b, c) == (b[1] - a[1]) * (c[2] - b[2]) - (b[2] - a[2]) * (c[1] - b[1])
Ahead(k, n) == (k % n) + 1
Behind(k, n) == IF k = 1 THEN n ELSE k - 1

\* signed_area_curves, twice.
Area2(points) ==
    FoldFunction(LAMBDA x, sum : x + sum, 0,
        [k \in DOMAIN points |->
            LET a == points[k]
                b == points[Ahead(k, Len(points))]
            IN  a[1] * b[2] - a[2] * b[1]])

LoopPoints(loop) == [k \in DOMAIN loop.uses |-> loop.uses[k].from[1]]
FlatLoop(loop, frame) == [k \in DOMAIN loop.uses |-> Flattened(loop.uses[k].from[1], frame)]

\* simplify_profile_curves, merge_profile_curves: no corner where the profile runs straight on.
IsCorner(p, k, frame) ==
    LET At(j) == Flattened(p[j], frame)
        a == At(Behind(k, Len(p)))
        b == At(k)
        c == At(Ahead(k, Len(p)))
        Straight == (b[1] - a[1]) * (c[1] - b[1]) + (b[2] - a[2]) * (c[2] - b[2]) > 0
    IN  ~(Turn(a, b, c) = 0 /\ Straight)
Simplified(p, frame) ==
    LET kept == InOrder({k \in DOMAIN p : IsCorner(p, k, frame)}) IN [k \in DOMAIN kept |-> p[kept[k]]]

\* canonical_profile_loop: wound by its role, and begun at its least corner.
Least(p, frame) ==
    CHOOSE k \in DOMAIN p : \A j \in DOMAIN p :
        LET a == Flattened(p[k], frame)
            b == Flattened(p[j], frame)
        IN  a[1] < b[1] \/ (a[1] = b[1] /\ a[2] <= b[2])
BegunAt(s, p) == [k \in DOMAIN p |-> p[((k + s - 2) % Len(p)) + 1]]
FromLeast(p, frame) == BegunAt(Least(p, frame), p)
WoundBy(points, area, outer) ==
    IF IF outer THEN area < 0 ELSE area > 0 THEN Reverse(points) ELSE points
ProfileLoop(loop, frame, outer) ==
    FromLeast(Simplified(WoundBy(LoopPoints(loop), Area2(FlatLoop(loop, frame)), outer), frame), frame)

\* cap_loop_roles: which loop is the outer one.  Without a mark it is the only convex one
\* that has all others inside, when those are apart.
IsConvex(q) ==
    LET n == Len(q)
        sign == IF Area2(q) > 0 THEN 1 ELSE -1
        turns == {sign * Turn(q[k], q[Ahead(k, n)], q[Ahead(Ahead(k, n), n)]) : k \in DOMAIN q}
    IN  Len(q) >= 3 /\ Area2(q) # 0 /\ (\A t \in turns : t >= 0) /\ \E t \in turns : t > 0
\* point_inside_convex_polygon, loop_inside_convex_polygon.
IsInside(inner, q) ==
    LET sign == IF Area2(q) > 0 THEN 1 ELSE -1
    IN  \A p \in Range(inner) : \A k \in DOMAIN q : sign * Turn(q[k], q[Ahead(k, Len(q))], p) > 0
\* loop_conservative_bbox, bbox_disjoint.
Apart(p, q) ==
    \E a \in 1 .. 2 : LET ps == {x[a] : x \in Range(p)}
                          qs == {x[a] : x \in Range(q)}
                      IN  Max(ps) < Min(qs) \/ Max(qs) < Min(ps)
ConvexOuter(flat) ==
    LET found == {k \in DOMAIN flat : IsConvex(flat[k]) /\
                    (\A j \in (DOMAIN flat) \ {k} : IsInside(flat[j], flat[k]))}
    IN  {k \in found : /\ Cardinality(found) = 1
                       /\ \A i, j \in (DOMAIN flat) \ {k} : i < j => Apart(flat[i], flat[j])}
OuterLoop(view, axis) ==
    LET marked == {k \in DOMAIN view.loops : view.loops[k].outer}
        frame == Frame(axis)
    IN  CASE Len(view.loops) = 1 -> {1}
          [] Len(view.loops) # 1 /\ Cardinality(marked) = 1 -> marked
          [] Len(view.loops) # 1 /\ marked = {} ->
                ConvexOuter([k \in DOMAIN view.loops |-> FlatLoop(view.loops[k], frame)])
          [] OTHER -> {}

\* canonical_profile.
Profile(view, axis, outer) ==
    LET frame == Frame(axis)
    IN  IF \A l \in DOMAIN view.loops : IsContinuous(view.loops[l].uses)
        THEN {[outer |-> ProfileLoop(view.loops[outer], frame, TRUE),
               holes |-> {ProfileLoop(view.loops[l], frame, FALSE) : l \in DOMAIN view.loops \ {outer}}]}
        ELSE {}

-----------------------------------------------------------------------------
(* Caps.                                                                   *)

\* ordered_cap_pair with cap_faces_bound_material_interval: the lower face looks down, the
\* upper one up.
Along(view, axis) == IF Dot(view.normal, axis) > 0 THEN view.at ELSE -view.at
LooksAlong(view, v) == Dot(OutwardOf(view), v) > 0
SameShape(v, w) == EdgeCount(v) > 0 /\ EdgeCount(v) = EdgeCount(w) /\ Len(v.loops) = Len(w.loops)
Stacked(low, high, axis) ==
    LET rise == Along(high, axis) - Along(low, axis)
    IN  {[bottom |-> low, top |-> high, axis |-> axis, sweep |-> Times(rise \div Dot(axis, axis), axis),
          outer |-> o, topOuter |-> p] : o \in OuterLoop(low, axis), p \in OuterLoop(high, axis)}
AreLevel(f, g) ==
    /\ IsPlane(f) /\ IsPlane(g) /\ SameShape(f, g) /\ Parallel(f.normal, g.normal)
    /\ LiesOn(UsesOf(f), f) /\ LiesOn(UsesOf(g), g)
Rises(low, high, axis) ==
    LET rise == Along(high, axis) - Along(low, axis) IN rise > 0 /\ rise % Dot(axis, axis) = 0
FacingCaps(f, g) ==
    UNION {UNION {Stacked(p[1], p[2], axis)
            : p \in {q \in {<<f, g>>, <<g, f>>} :
                        /\ AreLevel(f, g) /\ Rises(q[1], q[2], axis)
                        /\ LooksAlong(q[1], Times(-1, axis)) /\ LooksAlong(q[2], axis)}}
            : axis \in {CanonicalDirection(f.normal)}}

\* translated_profile_edge_residual, for straight edges.
IsTranslated(u, w, v) ==
    /\ u.curve = "line" /\ w.curve = "line"
    /\ {Plus(u.from[1], v), Plus(u.to[1], v)} = {w.from[1], w.to[1]}

\* translated_cap_loops_match: loops go to loops, the outer one to the outer one.
LoopsMatch(caps, match) ==
    Len(caps.bottom.loops) <= 1 \/
    \A l \in DOMAIN caps.bottom.loops : \E m \in DOMAIN caps.top.loops :
        /\ LoopEdgesOf(caps.top.loops[m]) = {match[x] : x \in LoopEdgesOf(caps.bottom.loops[l])}
        /\ (l = caps.outer) = (m = caps.topOuter)

\* prove_translated_caps: each edge below has one partner above, another one each.
AreTranslated(caps) ==
    LET partners == [x \in EdgesOf(caps.bottom) |->
            {w.edge : w \in {y \in UsesOf(caps.top) :
                \E u \in UsesOf(caps.bottom) : u.edge = x /\ IsTranslated(u, y, caps.sweep)}}]
    IN  /\ \A x \in DOMAIN partners : Cardinality(partners[x]) = 1
        /\ UNION Range(partners) = EdgesOf(caps.top)
        /\ Cardinality(DOMAIN partners) = EdgeCount(caps.top)
        /\ LoopsMatch(caps, [x \in DOMAIN partners |-> CHOOSE y \in partners[x] : TRUE])

\* has_intervening_translated_boundary: a cap in between is the bottom moved, too.
Intervenes(caps, view) ==
    LET rise == Along(view, caps.axis) - Along(caps.bottom, caps.axis)
    IN  /\ IsPlane(view) /\ Parallel(view.normal, caps.axis)
        /\ LiesOn(UsesOf(view), view)
        /\ rise > 0 /\ rise < Dot(caps.sweep, caps.axis)
        /\ SameShape(view, caps.bottom)
        /\ \E o \in OuterLoop(view, caps.axis) :
                AreTranslated([caps EXCEPT !.top = view, !.topOuter = o,
                                           !.sweep = Times(rise \div Dot(caps.axis, caps.axis), caps.axis)])

\* prove_side_face with side_support_residual and connector_residual.
AreRails(uses, sweep) ==
    \A y \in uses : y.curve = "line" /\ Minus(y.to[1], y.from[1]) \in {sweep, Times(-1, sweep)}
IsWall(view, caps) ==
    LET low == EdgesOf(view) \cap EdgesOf(caps.bottom)
        high == EdgesOf(view) \cap EdgesOf(caps.top)
    IN  /\ Len(view.loops) = 1 /\ EdgeCount(view) = 4
        /\ Cardinality(low) = 1 /\ Cardinality(high) = 1
        /\ \E x \in low, y \in high :
                /\ IsTranslated(EdgeUse(caps.bottom, x), EdgeUse(caps.top, y), caps.sweep)
                /\ AreRails({u \in UsesOf(view) : u.edge \notin {x, y}}, caps.sweep)
        /\ IsPlane(view) /\ Dot(view.normal, caps.axis) = 0 /\ LiesOn(UsesOf(view), view)

\* prove_extrusion_sides.
AreWalls(faces, caps) ==
    LET sides == DOMAIN faces \ {caps.bottom.id, caps.top.id}
        Foot(f) == CHOOSE x \in EdgesOf(faces[f]) : x \in EdgesOf(caps.bottom)
        Head2(f) == CHOOSE x \in EdgesOf(faces[f]) : x \in EdgesOf(caps.top)
    IN  /\ EdgesOf(caps.bottom) \cap EdgesOf(caps.top) = {}
        /\ Cardinality(sides) = EdgeCount(caps.bottom)
        /\ \A f \in sides : IsWall(faces[f], caps)
        /\ {Foot(f) : f \in sides} = EdgesOf(caps.bottom)
        /\ {Head2(f) : f \in sides} = EdgesOf(caps.top)
        /\ LoopsMatch(caps, [x \in EdgesOf(caps.bottom) |-> Head2(CHOOSE f \in sides : Foot(f) = x)])

-----------------------------------------------------------------------------
(* Candidates.                                                             *)

Extrusion(caps, profile, sides) ==
    [caps |-> <<caps.bottom.id, caps.top.id>>, sides |-> sides, profile |-> profile,
     axis |-> caps.axis, sweep |-> caps.sweep,
     edges |-> EdgesOf(caps.bottom)]

\* RecoveredSolidExtrusion::profile_curve_count; straight curves count one for complexity.
CurveCount(x) == Len(x.profile.outer) + FoldSet(LAMBDA h, n : n + Len(h), 0, x.profile.holes)

\* extrusion_core_candidates_for_solid: no treatment is a cap of a sharp core.
CapsAmong(faces, ids) ==
    UNION {FacingCaps(faces[p[1]], faces[p[2]]) : p \in {q \in ids \X ids : q[1] < q[2]}}
IsOpen(faces, c) ==
    AreTranslated(c) /\ ~\E f \in (DOMAIN faces) \ {c.bottom.id, c.top.id} : Intervenes(c, faces[f])
CoreCandidates(faces) ==
    IF \A f \in DOMAIN faces : IsReadable(faces[f])
    THEN UNION {{Extrusion(c, p, {}) : p \in Profile(c.bottom, c.axis, c.outer)}
                  : c \in {d \in CapsAmong(faces, (DOMAIN faces) \ TreatmentFaces(faces)) : IsOpen(faces, d)}}
    ELSE {}

\* candidate_order: fewest curves, then the axis, then the height, then the faces' order.
Rank(v, z) == LET sign == IF v < 0 THEN -1 ELSE 1 IN (sign * v * v * 1000) \div Dot(z, z)
Key4(x) == <<CurveCount(x), Rank(x.axis[1], x.axis), Rank(x.axis[2], x.axis), Rank(x.axis[3], x.axis),
             Dot(x.sweep, x.sweep), Min({x.caps[1], x.caps[2]}), Max({x.caps[1], x.caps[2]})>>
Precedes(k, l) == \E n \in DOMAIN k : k[n] < l[n] /\ \A m \in 1 .. n - 1 : k[m] = l[m]

\* detect_one_solid_from_faces.
Foremost(found) == {x \in found : \A y \in found \ {x} : Precedes(Key4(x), Key4(y))}
SolidExtrusions(faces) ==
    IF /\ Cardinality(DOMAIN faces) >= 3 /\ UsedTwice(faces)
       /\ \A f \in DOMAIN faces : IsReadable(faces[f])
    THEN Foremost(UNION {{Extrusion(c, p, (DOMAIN faces) \ {c.bottom.id, c.top.id})
                            : p \in Profile(c.bottom, c.axis, c.outer)}
                          : c \in {d \in CapsAmong(faces, DOMAIN faces) : AreWalls(faces, d)}})
    ELSE {}
=============================================================================
