----------------------------- MODULE PeriodicSolid -----------------------------
(***************************************************************************)
(* Boundary representations as the periodic editors see them, and the      *)
(* graph editor they work with (periodic_resize/graph_editor.rs).          *)
(*                                                                         *)
(* A solid is the part of the reference graph below one MANIFOLD_SOLID_-   *)
(* BREP: its shell, faces, edges and vertices under their entity ids, and  *)
(* the STYLED_ITEMs on its faces.  A vertex is a point [x, lane]: x runs   *)
(* along the axis of the repetition and the lane stands for the other two  *)
(* coordinates.  Bounds, loops and oriented edges are left out: a face has *)
(* the set of its edges, and a set of edges is a boundary when it is a     *)
(* union of closed cycles.  Every kind of entity numbers its own ids.      *)
(***************************************************************************)
EXTENDS Integers, FiniteSets, FiniteSetsExt, TLC

CONSTANTS
    Place    \* lane |-> its quantised place: two lanes may be closer than the tolerance

Rank(S) == [i \in S |-> Cardinality({j \in S : j < i})]
NextId(S) == IF S = {} THEN 1 ELSE Max(S) + 1

-----------------------------------------------------------------------------
(* Reading a solid.                                                        *)

EdgesOf(s, faces) == UNION {s.bound[f] : f \in faces}
VerticesOf(s, edges) == UNION {{s.ends[e][1], s.ends[e][2]} : e \in edges}
EdgeFaces(s, e, faces) == {f \in faces : e \in s.bound[f]}

\* chain_interface_edges: the edges between two sets of faces.
Interface(s, left, right) == EdgesOf(s, left) \cap EdgesOf(s, right)

\* quantize_coord: what the editors compare points by.
Quantised(p) == <<p[1], Place[p[2]]>>
At(s, v) == Quantised(s.pt[v])

Ends(s, e) == {s.pt[s.ends[e][1]], s.pt[s.ends[e][2]]}

\* edge_center_span, doubled: along the axis, in the direction the edit looks.
Along(s, e, dir) == {dir * s.pt[s.ends[e][1]][1], dir * s.pt[s.ends[e][2]][1]}
EdgeSpan(s, e, dir) == Max(Along(s, e, dir)) - Min(Along(s, e, dir))
EdgeCentre2(s, e, dir) == Max(Along(s, e, dir)) + Min(Along(s, e, dir))

\* trace_cycles: every vertex of the boundary has exactly two of its edges.
IsBoundary(s, edges) ==
    /\ edges # {}
    /\ \A v \in VerticesOf(s, edges) :
          Cardinality({e \in edges : v \in {s.ends[e][1], s.ends[e][2]}}) = 2

\* What the solid is, whatever its ids are: its faces with their boundaries.
Skin(s) ==
    {[kind |-> s.kind[f],
      edges |-> {[ends |-> Ends(s, e), curve |-> s.curve[e]] : e \in s.bound[f]}] :
        f \in s.shell}

Shifted(skin, dx) ==
    {[kind |-> f.kind,
      edges |-> {[ends |-> {<<p[1] + dx, p[2]>> : p \in e.ends}, curve |-> e.curve] :
                    e \in f.edges}] : f \in skin}

-----------------------------------------------------------------------------
(* Editing a solid.                                                        *)

\* (Slip: the points are not among what is copied.)
ClonedWithoutPoints(s, faces, dx) ==
    LET edges == EdgesOf(s, faces)
        fm == [f \in faces |-> NextId(DOMAIN s.bound) + Rank(faces)[f]]
        em == [e \in edges |-> NextId(DOMAIN s.ends) + Rank(edges)[e]]
        Of(m, n) == CHOOSE i \in DOMAIN m : m[i] = n
    IN  [solid |-> [s EXCEPT
            !.ends = [e \in {em[i] : i \in edges} |->
                        LET q == s.ends[Of(em, e)] IN <<q[1] + NextId(DOMAIN s.pt), q[2]>>] @@ @,
            !.curve = [e \in {em[i] : i \in edges} |-> s.curve[Of(em, e)]] @@ @,
            !.bound = [f \in {fm[i] : i \in faces} |->
                        {em[e] : e \in s.bound[Of(fm, f)]}] @@ @,
            !.kind = [f \in {fm[i] : i \in faces} |-> s.kind[Of(fm, f)]] @@ @],
         faces |-> fm, edges |-> em, vertices |-> <<>>]

\* clone_descendants: the faces with all that is below them, translated.  The ids
\* are sorted and numbered on from the next free one.
CloneDescendants(s, faces, dx) ==
    LET edges == EdgesOf(s, faces)
        vertices == VerticesOf(s, edges)
        fm == [f \in faces |-> NextId(DOMAIN s.bound) + Rank(faces)[f]]
        em == [e \in edges |-> NextId(DOMAIN s.ends) + Rank(edges)[e]]
        vm == [v \in vertices |-> NextId(DOMAIN s.pt) + Rank(vertices)[v]]
        New(m) == {m[i] : i \in DOMAIN m}
        Old(m, n) == CHOOSE i \in DOMAIN m : m[i] = n
    IN  [solid |-> [s EXCEPT
            !.pt = [v \in New(vm) |-> LET p == s.pt[Old(vm, v)] IN <<p[1] + dx, p[2]>>] @@ @,
            !.ends = [e \in New(em) |->
                        LET q == s.ends[Old(em, e)] IN <<vm[q[1]], vm[q[2]]>>] @@ @,
            !.curve = [e \in New(em) |-> s.curve[Old(em, e)]] @@ @,
            !.bound = [f \in New(fm) |-> {em[e] : e \in s.bound[Old(fm, f)]}] @@ @,
            !.kind = [f \in New(fm) |-> s.kind[Old(fm, f)]] @@ @],
         faces |-> fm, edges |-> em, vertices |-> vm]

\* (Slip: the copies get the styles instead of the originals.)
MoveStyles(s, map) ==
    [s EXCEPT !.styles = {IF i.of \in DOMAIN map THEN [i EXCEPT !.of = map[i.of]] ELSE i : i \in @}]
\* clone_face_styles and remove_face_styles: the STYLED_ITEMs of the copied faces are
\* copied into the presentation containers of the originals, those of the removed
\* faces leave them.
CloneStyles(s, map) ==
    [s EXCEPT !.styles = @ \cup {[of |-> map[i.of], colour |-> i.colour] :
                                    i \in {i \in s.styles : i.of \in DOMAIN map}}]
RemoveStyles(s, faces) == [s EXCEPT !.styles = {i \in @ : i.of \notin faces}]

\* make_edge_like: a new edge on the curve of another.
MakeEdgeLike(s, prototype, v, w) ==
    LET e == NextId(DOMAIN s.ends) IN
    [s EXCEPT !.ends = (e :> <<v, w>>) @@ @, !.curve = (e :> s.curve[prototype]) @@ @]

\* chain_apply_weld: the edges of the faces take the canonical vertices, the faces
\* take the canonical edges.
Welded(s, faces, vmap, emap) ==
    LET W(v) == IF v \in DOMAIN vmap THEN vmap[v] ELSE v
        edges == EdgesOf(s, faces)
    IN  [s EXCEPT
            !.ends = [e \in DOMAIN @ |->
                        IF e \in edges THEN <<W(@[e][1]), W(@[e][2])>> ELSE @[e]],
            !.bound = [f \in DOMAIN @ |->
                        IF f \in faces
                        THEN {IF e \in DOMAIN emap THEN emap[e] ELSE e : e \in @[f]}
                        ELSE @[f]]]

\* (Slip: what is reached from nowhere else but from another casualty stays.)
PrunedAtTheTopOnly(s, faces, edges, vertices) ==
    LET keptF == {f \in DOMAIN s.bound : f \notin faces \/ f \in s.shell}
        deadE == {e \in edges \cup EdgesOf(s, faces) : \A f \in DOMAIN s.bound : e \notin s.bound[f]}
        keptE == DOMAIN s.ends \ deadE
    IN  [s EXCEPT !.bound = [f \in keptF |-> @[f]], !.kind = [f \in keptF |-> @[f]],
                  !.ends = [e \in keptE |-> @[e]], !.curve = [e \in keptE |-> @[e]]]
\* prune_unreachable_descendants: of the replaced faces, edges and vertices and of
\* all below them goes what no survivor refers to.
Pruned(s, faces, edges, vertices) ==
    LET deadF == {f \in faces : f \notin s.shell /\ \A i \in s.styles : i.of # f}
        keptF == DOMAIN s.bound \ deadF
        deadE == {e \in edges \cup EdgesOf(s, faces) : \A f \in keptF : e \notin s.bound[f]}
        keptE == DOMAIN s.ends \ deadE
        below == VerticesOf(s, edges \cup EdgesOf(s, faces)) \cup vertices
        deadV == below \ VerticesOf(s, keptE)
        keptV == DOMAIN s.pt \ deadV
    IN  [s EXCEPT !.bound = [f \in keptF |-> @[f]], !.kind = [f \in keptF |-> @[f]],
                  !.ends = [e \in keptE |-> @[e]], !.curve = [e \in keptE |-> @[e]],
                  !.pt = [v \in keptV |-> @[v]]]

\* prune_detached_vertex_points.
WithoutDetachedVertices(s) ==
    LET kept == VerticesOf(s, DOMAIN s.ends)
    IN  [s EXCEPT !.pt = [v \in kept |-> @[v]]]

\* dense_renumber: the ids that are in use, without the holes.
Renumbered(s) ==
    LET Dense(S) == LET r == Rank(S) IN [i \in S |-> r[i] + 1]
        fm == Dense(DOMAIN s.bound)  em == Dense(DOMAIN s.ends)  vm == Dense(DOMAIN s.pt)
        Under(m, f) == [n \in {m[i] : i \in DOMAIN m} |-> f[CHOOSE i \in DOMAIN m : m[i] = n]]
    IN  [pt |-> Under(vm, s.pt),
         ends |-> Under(em, [e \in DOMAIN s.ends |-> <<vm[s.ends[e][1]], vm[s.ends[e][2]]>>]),
         curve |-> Under(em, s.curve),
         bound |-> Under(fm, [f \in DOMAIN s.bound |-> {em[e] : e \in s.bound[f]}]),
         kind |-> Under(fm, s.kind),
         shell |-> {fm[f] : f \in s.shell},
         styles |-> {[of |-> fm[i.of], colour |-> i.colour] : i \in s.styles}]

-----------------------------------------------------------------------------
(* A solid of given faces, as a file has it.  Every face has the colour of *)
(* its kind.  Any numbering would do: points by their coordinates, edges   *)
(* by their points, faces by their first two edges.                        *)

Solid(skin) ==
    LET edges == UNION {f.edges : f \in skin}
        points == UNION {e.ends : e \in edges}
        Numbered(S, code) == LET r == Rank({code[x] : x \in S}) IN [x \in S |-> r[code[x]] + 1]
        vn == Numbered(points, [p \in points |-> 100 * p[1] + p[2]])
        en == Numbered(edges, [e \in edges |-> LET n == {vn[p] : p \in e.ends}
                                               IN  1000 * Min(n) + Max(n)])
        fn == Numbered(skin, [f \in skin |-> LET n == {en[e] : e \in f.edges}
                                             IN  1000 * Min(n) + Min(n \ {Min(n)})])
        Inverted(m) == [n \in 1 .. Cardinality(DOMAIN m) |-> CHOOSE x \in DOMAIN m : m[x] = n]
        point == Inverted(vn)  edge == Inverted(en)  face == Inverted(fn)
    IN  [pt |-> point,
         ends |-> [e \in DOMAIN edge |-> LET n == {vn[p] : p \in edge[e].ends}
                                         IN  <<Min(n), Max(n)>>],
         curve |-> [e \in DOMAIN edge |-> edge[e].curve],
         bound |-> [f \in DOMAIN face |-> {en[e] : e \in face[f].edges}],
         kind |-> [f \in DOMAIN face |-> face[f].kind],
         shell |-> DOMAIN face,
         styles |-> {[of |-> fn[f], colour |-> f.kind] : f \in skin}]

=============================================================================
