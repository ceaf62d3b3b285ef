--------------------------- MODULE EdgeTreatments ---------------------------
(***************************************************************************)
(* edge_treatments.rs: evidence that a face is the chamfer of the edge     *)
(* that two other faces would share.  Chamfers between planes only; the    *)
(* fillets and the chamfers of round edges are not represented.            *)
(* Lengths are squared, and points are looked for on the grid alone.       *)
(***************************************************************************)
EXTENDS FaceViews

\* three_plane_intersection.
Solved(sum, det) ==
    LET sign == IF det < 0 THEN -1 ELSE 1
    IN  IF det # 0 /\ (\A a \in 1 .. 3 : sum[a] % (sign * det) = 0)
        THEN {[a \in 1 .. 3 |-> (sign * sum[a]) \div (sign * det)]} ELSE {}
ThreePlanes(n1, at1, n2, at2, n3, at3) ==
    Solved(Plus(Plus(Times(at1, Cross(n2, n3)), Times(at2, Cross(n3, n1))), Times(at3, Cross(n1, n2))),
           Dot(n1, Cross(n2, n3)))

\* neighbor_shared_edges.
Shared(faces, f, g) == EdgesOf(faces[f]) \cap EdgesOf(faces[g])
Neighbours(faces, f) == {g \in DOMAIN faces \ {f} : Shared(faces, f, g) # {}}

\* The ends of an edge: edge_geometry.
EdgeUse(view, x) == CHOOSE u \in UsesOf(view) : u.edge = x
EndsOf(view, edges) == UNION {{EdgeUse(view, x).from[1], EdgeUse(view, x).to[1]} : x \in edges}

\* prove_line_boundary: straight edges along the direction, on both planes.
LineBoundary(treatment, carrier, edges, direction) ==
    /\ edges # {}
    /\ \A x \in edges :
        LET u == EdgeUse(treatment, x)
        IN  u.curve = "line" /\ Parallel(Minus(u.to[1], u.from[1]), direction)
    /\ \A p \in EndsOf(treatment, edges) : OnPlane(<<p, 0>>, treatment) /\ OnPlane(<<p, 0>>, carrier)

\* boundary_axial_range, from the reference on.
AxialRange(points, origin, direction) ==
    LET ts == {Dot(Minus(p, origin), direction) : p \in points} IN <<Min(ts), Max(ts)>>

SquaredDistance(p, q) == Dot(Minus(p, q), Minus(p, q))

\* prove_planar_chamfer with planar_chamfer_setbacks and plane_intersection_segment: the
\* setback on each carrier, and the edge the chamfer replaces.
IsChamfer(treatment, first, second, one, other, direction, span, otherSpan) ==
    /\ IsPlane(first) /\ IsPlane(second)
    /\ direction # Origin3
    /\ Dot(treatment.normal, direction) = 0
    /\ LineBoundary(treatment, first, one, direction)
    /\ LineBoundary(treatment, second, other, direction)
    /\ span = otherSpan /\ span[1] < span[2]
AlongBy(p, s, direction) == Plus(p, [a \in 1 .. 3 |-> (direction[a] * s) \div Dot(direction, direction)])
Evidence(faces, t, f, g, direction, at, span) ==
    LET Meet(v, w) == ThreePlanes(v.normal, v.at, w.normal, w.at, direction, Dot(direction, at))
    IN  {[face |-> t, carriers |-> [x \in {f, g} |-> Shared(faces, t, x)],
          setbacks |-> [x \in {f, g} |-> IF x = f THEN SquaredDistance(a, p) ELSE SquaredDistance(b, p)],
          from |-> AlongBy(p, span[1], direction), to |-> AlongBy(p, span[2], direction)]
            : p \in Meet(faces[f], faces[g]), a \in Meet(faces[f], faces[t]), b \in Meet(faces[g], faces[t])}
Chamfer(faces, t, f, g) ==
    UNION {{c \in Evidence(faces, t, f, g, direction, at, span) :
                IsChamfer(faces[t], faces[f], faces[g], Shared(faces, t, f), Shared(faces, t, g), direction, span,
                          AxialRange(EndsOf(faces[t], Shared(faces, t, g)), at, direction))}
             : <<direction, at, span>> \in
                {<<d, p, AxialRange(EndsOf(faces[t], Shared(faces, t, f)), p, d)>>
                    : d \in {CanonicalDirection(Cross(faces[f].normal, faces[g].normal))},
                      p \in {CHOOSE q \in EndsOf(faces[t], Shared(faces, t, f)) : TRUE}}}

HasSetbacks(evidence) == \A f \in DOMAIN evidence.setbacks : evidence.setbacks[f] > 0

\* detect_solid_edge_treatments, in a solid each of whose edges is used twice.
TreatmentsOf(faces) ==
    IF ~UsedTwice(faces) THEN {}
    ELSE {c \in UNION {LET near == Neighbours(faces, t) IN
                       UNION {Chamfer(faces, t, p[1], p[2]) : p \in {q \in near \X near : q[1] < q[2]}}
                         : t \in {f \in DOMAIN faces : IsPlane(faces[f])}} : HasSetbacks(c)}

\* mark_unique_carrier_pairs, unique_treatment_face_ids_for_solid.
IsUnique(evidence, all) == \A other \in all : other.face = evidence.face => other = evidence
UniqueAmong(all) == {c \in all : IsUnique(c, all)}
UniqueTreatments(faces) == UniqueAmong(TreatmentsOf(faces))
TreatmentFaces(faces) == {c.face : c \in UniqueTreatments(faces)}
=============================================================================
