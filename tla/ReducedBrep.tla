----------------------------- MODULE ReducedBrep -----------------------------
(***************************************************************************)
(* reduced_brep.rs: the view of a solid with its redundant seams and its   *)
(* edge treatments taken away.  Every reduction is made on a copy that     *)
(* replaces the view only when it is closed.                               *)
(***************************************************************************)
EXTENDS EdgeTreatments

\* validate_closed_topology.
IsClosed(faces) ==
    LET at == UNION {{<<f, p>> : p \in Places(faces[f])} : f \in DOMAIN faces}
        UseAt(x) == faces[x[1]].loops[x[2][1]].uses[x[2][2]]
    IN  /\ \A f \in DOMAIN faces : \A l \in DOMAIN faces[f].loops : IsContinuous(faces[f].loops[l].uses)
        /\ UsedTwice(faces)
        /\ \A x, y \in at : UseAt(x).edge = UseAt(y).edge =>
               {UseAt(x).from, UseAt(x).to} = {UseAt(y).from, UseAt(y).to}

-----------------------------------------------------------------------------
(* Coplanar faces.                                                         *)

\* coplanar_same_orientation.
Coplanar(v, w) ==
    /\ IsPlane(v) /\ IsPlane(w)
    /\ Parallel(v.normal, w.normal) /\ Dot(OutwardOf(v), OutwardOf(w)) > 0
    /\ v.at * Dot(v.normal, w.normal) = w.at * Dot(v.normal, v.normal)

\* trace_single_boundary_loop: the uses as one cycle, or nothing.
Traced(uses) ==
    LET starts == {u.from : u \in uses}
        Next(v) == CHOOSE u \in uses : u.from = v
        first == CHOOSE v \in starts : TRUE
        path[k \in 1 .. Cardinality(uses)] ==
            IF k = 1 THEN Next(first)
            ELSE IF path[k - 1].to \in starts THEN Next(path[k - 1].to) ELSE path[k - 1]
    IN  IF /\ uses # {} /\ Cardinality(starts) = Cardinality(uses)
           /\ Range(path) = uses /\ path[Cardinality(uses)].to = first
        THEN {path} ELSE {}

\* coplanar_component_boundary: the uses of the edges that are not between two of them.
Inner(faces, group, x) == Cardinality(Attached(faces, x)) = 2 /\ Attached(faces, x) \subseteq group
BoundaryPlaces(faces, group) ==
    UNION {{<<f, p>> : p \in {q \in Places(faces[f]) :
                ~Inner(faces, group, faces[f].loops[q[1]].uses[q[2]].edge)}} : f \in group}
GroupBoundary(faces, group) ==
    LET at == BoundaryPlaces(faces, group)
        uses == {faces[x[1]].loops[x[2][1]].uses[x[2][2]] : x \in at}
    IN  IF Cardinality({u.edge : u \in uses}) = Cardinality(at) THEN Traced(uses) ELSE {}

\* plan_coplanar_face_merges: for each group of faces that hang together in one plane.
SeamsOf(faces) ==
    {Attached(faces, x) : x \in {y \in AllEdges(faces) :
        LET at == Attached(faces, y)
        IN  Cardinality(at) = 2 /\ (\A f, g \in at : Coplanar(faces[f], faces[g]))}}
GroupsOf(seams) ==
    LET grown[k \in 0 .. Cardinality(UNION seams)] ==
            IF k = 0 THEN seams
            ELSE {UNION {t \in grown[k - 1] : s \cap t # {}} : s \in grown[k - 1]}
    IN  grown[Cardinality(UNION seams)]
MergePlans(faces) ==
    UNION {{[face |-> Min(group), gone |-> group \ {Min(group)}, boundary |-> path,
             seams |-> {x \in AllEdges(faces) : Inner(faces, group, x)}]
              : path \in GroupBoundary(faces, group)} : group \in GroupsOf(SeamsOf(faces))}

\* coalesce_coplanar_faces: all of them, or none when the copy is not closed then.
\* Each plan takes two ids.
Merged(view, path) == [view EXCEPT !.loops = <<[outer |-> TRUE, forward |-> TRUE, uses |-> path]>>]
Coalesced(solid) ==
    LET plans == MergePlans(solid.faces)
        gone == UNION {p.gone : p \in plans}
        candidate == [f \in DOMAIN solid.faces \ gone |->
            IF \E p \in plans : p.face = f
            THEN Merged(solid.faces[f], (CHOOSE p \in plans : p.face = f).boundary)
            ELSE solid.faces[f]]
    IN  IF plans # {} /\ IsClosed(candidate)
        THEN [faces |-> candidate, next |-> solid.next + 2 * Cardinality(plans)]
        ELSE solid

-----------------------------------------------------------------------------
(* Edge treatments.                                                        *)

Replaced(loops, l, uses) == [loops EXCEPT ![l].uses = uses]

\* The run of shared edges in the one loop that has them, and the uses around it, if it
\* leaves more than so many uses of the loop.
Cyclic(uses, k) == uses[((k - 1) % Len(uses)) + 1]
RunLeaving(view, shared, spare) ==
    LET hit == {l \in DOMAIN view.loops : LoopEdgesOf(view.loops[l]) \cap shared # {}}
        l == CHOOSE k \in hit : TRUE
        uses == view.loops[l].uses
        n == Len(uses)
        m == Cardinality(shared)
        starts == {k \in 1 .. n : Cyclic(uses, k).edge \in shared /\ Cyclic(uses, k + n - 1).edge \notin shared}
        s == CHOOSE k \in starts : TRUE
    IN  IF /\ Cardinality(hit) = 1 /\ shared \subseteq LoopEdgesOf(view.loops[l])
           /\ m < n - spare
           /\ Cardinality(starts) = 1
           /\ \A k \in 0 .. m - 1 : Cyclic(uses, s + k).edge \in shared
        THEN {[loop |-> l, before |-> Cyclic(uses, s + n - 1), after |-> Cyclic(uses, s + m),
               rest |-> [k \in 1 .. n - m - 2 |-> Cyclic(uses, s + m + k)]]}
        ELSE {}

\* A carrier keeps a use on either side of the run.
Runs(view, shared) == RunLeaving(view, shared, 1)

\* The ends of the virtual edge in the order in which the two uses meet them, or nothing.
Fits(run, p, q) ==
    /\ run.before.curve = "line" /\ run.after.curve = "line"
    /\ OnLine(p, run.before.from[1], run.before.to[1]) /\ OnLine(q, run.after.from[1], run.after.to[1])
HealedEnds(run, from, to) ==
    IF Fits(run, from, to) THEN {<<from, to>>} ELSE IF Fits(run, to, from) THEN {<<to, from>>} ELSE {}

\* splice_face_virtual_segment: the run becomes one edge from the healed end of the use
\* before it to the healed start of the use after it.  first is the id of the virtual
\* start vertex.
Spliced(view, shared, from, to, first) ==
    LET Sharp(run, ends) ==
            LET forward == ends = <<from, to>>
                v == IF forward THEN <<<<from, first>>, <<to, first + 1>>>>
                     ELSE <<<<to, first + 1>>, <<from, first>>>>
            IN  [uses |-> <<[run.before EXCEPT !.to = v[1]],
                            [edge |-> first + 3, curve |-> "line", forward |-> forward,
                             from |-> v[1], to |-> v[2]],
                            [run.after EXCEPT !.from = v[2]]>> \o run.rest,
                 edits |-> <<[edge |-> run.before.edge, old |-> run.before.to, new |-> v[1]],
                             [edge |-> run.after.edge, old |-> run.after.from, new |-> v[2]]>>]
        Rebuilt(run, sharp) ==
            [view |-> [view EXCEPT !.loops = Replaced(@, run.loop, sharp.uses)], edits |-> sharp.edits]
    IN  UNION {{Rebuilt(run, Sharp(run, ends)) : ends \in
                    {x \in HealedEnds(run, from, to) : IsContinuous(Sharp(run, x).uses)}}
                 : run \in Runs(view, shared)}

\* propagate_endpoint_edits, one edit: in every face that uses the edge.
EndpointEdited(faces, edit) ==
    LET Edited(u) ==
            IF u.edge # edit.edge THEN u
            ELSE [u EXCEPT !.from = IF @ = edit.old THEN edit.new ELSE @,
                           !.to = IF @ = edit.old THEN edit.new ELSE @]
    IN  [f \in DOMAIN faces |->
            [faces[f] EXCEPT !.loops = [l \in DOMAIN @ |->
                [@[l] EXCEPT !.uses = [k \in DOMAIN @ |-> Edited(@[k])]]]]]
EditApplies(faces, edit) ==
    \E f \in DOMAIN faces : \E u \in UsesOf(faces[f]) :
        u.edge = edit.edge /\ edit.old \in {u.from, u.to}
EndpointsEdited(faces, edits) ==
    LET done[k \in 0 .. Len(edits)] ==
            IF k = 0 THEN {faces}
            ELSE {EndpointEdited(g, edits[k]) : g \in {h \in done[k - 1] : EditApplies(h, edits[k])}}
    IN  done[Len(edits)]

\* remove_edge_treatment, remove_segment_treatment_inner: the view without the treatment,
\* or nothing.
WithoutTreatment(solid, evidence) ==
    LET carriers == InOrder(DOMAIN evidence.carriers)
        Healed(k) == Spliced(solid.faces[carriers[k]], evidence.carriers[carriers[k]],
                             evidence.from, evidence.to, solid.next)
        edited == UNION {EndpointsEdited(
                            [solid.faces EXCEPT ![carriers[1]] = a.view, ![carriers[2]] = b.view],
                            a.edits \o b.edits) : a \in Healed(1), b \in Healed(2)}
        reduced == {[f \in DOMAIN faces \ {evidence.face} |-> faces[f]] : faces \in edited}
    IN  IF DOMAIN evidence.carriers \cup {evidence.face} \subseteq DOMAIN solid.faces
        THEN {[faces |-> faces, next |-> solid.next + 6] : faces \in {r \in reduced : IsClosed(r)}}
        ELSE {}
=============================================================================
