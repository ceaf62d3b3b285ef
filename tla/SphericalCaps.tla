--------------------------- MODULE SphericalCaps ---------------------------
(***************************************************************************)
(* spherical_caps.rs: the balls of a substrate, two spherical faces each   *)
(* on a circle of two edges in one planar face, become instances of one.   *)
(* The older pass: balls are compared as they lie, without quarter turns,  *)
(* all on one plane have to be equal, and each face needs its own style.   *)
(* The state and the deletion are those of FeatureInstancing.              *)
(***************************************************************************)
EXTENDS FeatureInstancing

\* shell_face_surface_kinds.
OfSurface(e, faces, kind) == {f \in faces : e[e[f].on].kind = kind}

\* neighbors_of_kind.
Neighbours(e, t, face, edges, kind) ==
    OfSurface(e, UNION {t.at[x] : x \in edges} \ {face}, kind)

\* matching_plane_bound: the only inner bound with these edges.
MatchingBounds(e, plane, edges) ==
    LET found == BoundsWithEdges(e, plane, edges)
    IN  IF Cardinality(found) = 1 THEN found ELSE {}

\* single_face_style.
SingleLooks(e, f) ==
    LET styles == StylesOf(e, f)
    IN  IF Cardinality(styles) = 1 THEN {e[s].looks : s \in styles} ELSE {}

\* discover_cap_families: the balls of a shell.
Balls(e, t) ==
    LET spheres == OfSurface(e, t.faces, "sphere")
        Shared(f, g) == t.edges[f] \cap t.edges[g]
        Circle(f, g) == (t.edges[f] \cup t.edges[g]) \ Shared(f, g)
        Planes(f, g) == OfSurface(e, UNION {t.at[x] : x \in Circle(f, g)} \ {f, g}, "plane")
        pairs == {x \in spheres \X spheres :
            /\ x[1] # x[2]
            /\ Cardinality(t.edges[x[1]]) = 3 /\ Cardinality(t.edges[x[2]]) = 3
            /\ Neighbours(e, t, x[1], t.edges[x[1]], "sphere") = {x[2]}
            /\ Cardinality(Shared(x[1], x[2])) = 2 /\ Cardinality(Circle(x[1], x[2])) = 2
            /\ Cardinality(Planes(x[1], x[2])) = 1
            /\ e[e[x[1]].on].centre = e[e[x[2]].on].centre}
    IN  UNION {{[faces |-> {x[1], x[2]}, plane |-> p, bound |-> b, centre |-> e[e[x[1]].on].centre,
                 picture |-> Picture(e, {x[1], x[2]}, e[e[x[1]].on].centre, 0), looks |-> l]
                    : b \in MatchingBounds(e, p, Circle(x[1], x[2])),
                      l \in SingleLooks(e, x[1]) \cap SingleLooks(e, x[2])}
            : x \in pairs, p \in UNION {Planes(y[1], y[2]) : y \in pairs}}

\* prepare_cap_family, the proof: enough balls on the plane, and all of them equal.
\* (Slip: their looks are not compared.)
EqualInAnyLook(e, balls) ==
    \A b, c \in balls : b.picture = c.picture /\ e[b.bound].forward = e[c.bound].forward
EqualBalls(e, balls) ==
    \A b, c \in balls : /\ b.picture = c.picture /\ b.looks = c.looks
                        /\ e[b.bound].forward = e[c.bound].forward
CapFamilies(e, solid) ==
    LET t == Topology(e, e[solid].shell)
        balls == IF /\ Cardinality(t.faces) >= 2 * MinGroup
                    /\ Cardinality(OfSurface(e, t.faces, "sphere")) >= 2 * MinGroup
                 THEN Balls(e, t) ELSE {}
    IN  {f \in {{b \in balls : b.plane = p} : p \in {b.plane : b \in balls}} :
            Cardinality(f) >= MinGroup /\ EqualBalls(e, f)}

\* The solids of the representations that there are when the pass begins.
CapSolids(e) ==
    UNION {{<<r, s>> : s \in {n \in ToSet(e[r].items) : e[n].kind = "solid"}} : r \in OfKind(e, {"brep"})}

StartCaps ==
    /\ step = "start"
    /\ todo' = CapSolids(ent) /\ step' = "solids"
    /\ UNCHANGED <<ent, start, work, round>>

\* The families of the next solid, found before any of them is rewritten.
TakeSolid ==
    /\ step = "solids"
    /\ \E x \in {y \in todo : \A z \in todo : y[1] < z[1] \/ (y[1] = z[1] /\ y[2] <= z[2])} :
        /\ todo' = todo \ {x}
        /\ work' = [work EXCEPT !.host = {<<x[1], x[2], f>> : f \in CapFamilies(ent, x[2])}]
    /\ step' = "solid"
    /\ UNCHANGED <<ent, start, round>>

\* emit_cap_source and emit_cap_instances; the planes of a solid come in any order.  The
\* source is closed as that of a boss is, and the balls only move.
CapFamily(r, balls) ==
    LET order == InOrder({Min(b.faces) : b \in balls})
    IN  [context |-> [rep |-> r], host |-> (CHOOSE b \in balls : TRUE).plane,
         members |-> [k \in DOMAIN order |->
            LET b == CHOOSE c \in balls : Min(c.faces) = order[k]
            IN  [faces |-> b.faces, centre |-> b.centre, quarter |-> 0, looks |-> b.looks,
                 bounds |-> (b.plane :> b.bound)]]]

EmitCaps ==
    /\ step = "solid"
    /\ \E x \in work.host :
       \E p \in {CapFamily(x[1], x[3])} :
       \E base \in {Max(DOMAIN ent) + 1} :
        LET n == Len(p.members)
            mapped == [k \in 1 .. n |-> base + 5 + k]
            styles == {base + 5 + n + k : k \in 1 .. n}
            faces == UNION {p.members[k].faces : k \in 1 .. n}
            bounds == {p.members[k].bounds[p.host] : k \in 1 .. n}
            old == UNION {StylesOf(ent, f) : f \in faces}
            new == Source(ent, p, base)
                   @@ [y \in ToSet(mapped) |-> Mapped(p, y - base - 5, base + 5)]
                   @@ [y \in styles |-> [kind |-> "style", of |-> y - n, looks |-> p.members[1].looks]]
        IN  /\ ent' = new @@ [ent EXCEPT ![ent[x[2]].shell].faces = @ \ faces,
                                         ![p.host].bounds = @ \ bounds,
                                         ![x[1]].items = @ \o mapped]
            /\ work' = [work EXCEPT
                    !.roots = @ \cup faces \cup bounds \cup old,
                    !.delete = @ \cup bounds \cup old \cup (faces \ p.members[1].faces),
                    !.faces = @ \cup old, !.mapped = @ \o InOrder(styles), !.host = @ \ {x}]
    /\ UNCHANGED <<start, step, todo, round>>

EndSolid ==
    /\ step = "solid" /\ work.host = {}
    /\ step' = "solids"
    /\ UNCHANGED <<ent, start, todo, work, round>>

\* The end of instance_planar_spherical_caps: the lists, then the deletion.
PatchCapLists ==
    /\ step = "solids" /\ todo = {}
    /\ ent' = Replaced(ent, work.faces, work.mapped)
    /\ step' = IF work.roots = {} THEN "done" ELSE "emit"
    /\ work' = [work EXCEPT !.faces = {}, !.mapped = <<>>]
    /\ UNCHANGED <<start, todo, round>>

NextCaps == StartCaps \/ TakeSolid \/ EmitCaps \/ EndSolid \/ PatchCapLists \/ Collect \/ RunAgain

CapsTypeOK ==
    /\ step \in {"start", "solids", "solid", "emit", "done"}
    /\ \A x \in todo : x[1] \in DOMAIN ent /\ x[2] \in DOMAIN ent
    /\ \A x \in work.host : Cardinality(x[3]) >= MinGroup
=============================================================================
