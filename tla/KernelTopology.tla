--------------------------- MODULE KernelTopology ---------------------------
(***************************************************************************)
(* kernel_topology.rs and inverse_edge_treatment.rs: what is proved of the *)
(* source, written as one patch to the kernel's own topology of a solid.   *)
(*                                                                         *)
(* The kernel holds a face as wires of oriented edges.  Its edit and its   *)
(* export are not in this repository: an edit is accepted here when it     *)
(* leaves each edge used once each way and what should be unused unused.   *)
(* The new edge of a treatment is minus its face, a new vertex is a point. *)
(***************************************************************************)
EXTENDS ReducedBrep, Prisms

EmptyPatch ==
    [remove |-> {}, edges |-> <<>>, rewrites |-> <<>>, splices |-> {}, boundaries |-> <<>>, unused |-> {}]

\* source_loop_kernel_boundary: the wire of a loop, by the bound's orientation and the
\* face's sense.
Wire(loop, sense) ==
    LET absolute == loop.forward = sense
        wire == [k \in DOMAIN loop.uses |-> <<loop.uses[k].edge, loop.uses[k].forward = absolute>>]
    IN  IF absolute THEN wire ELSE Reverse(wire)

-----------------------------------------------------------------------------
(* Boundary features.                                                      *)

\* boundary_feature_peel_patch with source_edge_face_users: none when a removed bound is
\* not the host's own inner one, or somebody else uses its edges.
PeelPatch(e, solid, families) ==
    LET faces == e[e[solid].shell].faces
        removed == UNION {FacesOf(x) : x \in MembersOf(families)}
        hosts == UNION {f.hosts : f \in families}
        retired == UNION {BoundsOf(x) : x \in MembersOf(families)}
        Retired(h) == e[h].bounds \cap retired
        Interface(h) == UNION {LoopEdges(e, b) : b \in Retired(h)}
        Users(x) == {f \in faces : x \in FaceEdges(e, f)}
        Kept(h) == LET order == InOrder(e[h].bounds \ retired)
                   IN  [k \in DOMAIN order |-> Wire(LoopView(e, order[k]), e[h].sense)]
    IN  IF /\ PeelIsProved(e, families)
           /\ \A f \in families : f.context.shell = e[solid].shell
           /\ removed \subseteq faces /\ hosts \subseteq faces \ removed
           /\ \A h \in hosts :
                /\ Kept(h) # <<>>
                /\ \A b \in Retired(h) : ~e[b].outer
                /\ \A x \in Interface(h) :
                    Users(x) \cap removed # {} /\ h \in Users(x) /\ Users(x) \subseteq removed \cup {h}
        THEN {[EmptyPatch EXCEPT !.remove = removed, !.boundaries = [h \in hosts |-> Kept(h)],
                                 !.unused = UNION {Interface(h) : h \in hosts}]}
        ELSE {}

-----------------------------------------------------------------------------
(* Coplanar faces.                                                         *)

\* plan_coplanar_normalization_patch: the traced boundary as it is.
CoplanarPatch(faces) ==
    LET plans == MergePlans(faces)
    IN  {[EmptyPatch EXCEPT
            !.remove = UNION {p.gone : p \in plans},
            !.boundaries = [f \in {p.face : p \in plans} |->
                LET path == (CHOOSE p \in plans : p.face = f).boundary
                IN  <<[k \in DOMAIN path |-> <<path[k].edge, path[k].forward>>]>>],
            !.unused = UNION {p.seams : p \in plans}] : x \in {y \in {1} : plans # {}}}

-----------------------------------------------------------------------------
(* Edge treatments.                                                        *)

\* plan_segment_carrier, with its two endpoint edits.
CarrierPlans(faces, c, f) ==
    UNION {{[splice |-> [face |-> f, remove |-> c.carriers[f],
                         replacement |-> <<<<-c.face, ends = <<c.from, c.to>>>>>>],
             edits |-> {[use |-> run.before, old |-> run.before.to, new |-> ends[1]],
                        [use |-> run.after, old |-> run.after.from, new |-> ends[2]]}]
              : ends \in HealedEnds(run, c.from, c.to)}
            : run \in Runs(faces[f], c.carriers[f])}

\* global_edge_endpoints.
GlobalEnds(u) == IF u.forward THEN <<u.from, u.to>> ELSE <<u.to, u.from>>

\* normalize_retained_edge_rewrites: for each edge its new ends, or nothing when the edits
\* contradict each other or the edge collapses.
Rewrites(edits) ==
    LET edges == {d.use.edge : d \in edits}
        Old(x) == GlobalEnds((CHOOSE d \in edits : d.use.edge = x).use)
        News(x, k) == {d.new : d \in {y \in edits : y.use.edge = x /\ y.old = Old(x)[k]}}
        New(x, k) == IF News(x, k) = {} THEN Old(x)[k] ELSE <<CHOOSE p \in News(x, k) : TRUE, 1>>
    IN  IF \A x \in edges :
            /\ \A d \in edits : d.use.edge = x => d.old \in Range(Old(x))
            /\ \A k \in 1 .. 2 : Cardinality(News(x, k)) <= 1
            /\ New(x, 1)[1] # New(x, 2)[1]
        THEN {[x \in edges |-> <<New(x, 1), New(x, 2)>>]} ELSE {}

\* plan_terminal_splices: at its ends the treatment's edges go from the third faces,
\* of which a use must stay (edges_form_one_cyclic_run).
Terminals(faces, c) ==
    LET interface == UNION Range(c.carriers)
        terminal == EdgesOf(faces[c.face]) \ interface
        Third(x) == Attached(faces, x) \ {c.face}
        At(f) == {x \in terminal : f \in Third(x)}
        thirds == UNION {Third(x) : x \in terminal}
    IN  IF /\ terminal # {}
           /\ \A x \in terminal : Cardinality(Third(x)) = 1
           /\ thirds \cap DOMAIN c.carriers = {}
           /\ \A f \in thirds : RunLeaving(faces[f], At(f), 0) # {}
        THEN {{[face |-> f, remove |-> At(f), replacement |-> <<>>] : f \in thirds}} ELSE {}

\* plan_segment_patch, collect_segment_carrier_plans.
TreatmentPatch(faces, c) ==
    LET order == InOrder(DOMAIN c.carriers)
    IN  UNION {UNION {{[EmptyPatch EXCEPT
                !.remove = {c.face}, !.edges = (-c.face :> <<<<c.from, 1>>, <<c.to, 1>>>>),
                !.rewrites = rewrites, !.splices = {a.splice, b.splice} \cup terminals,
                !.unused = EdgesOf(faces[c.face])]
                  : rewrites \in Rewrites(a.edits \cup b.edits), terminals \in Terminals(faces, c)}
                : a \in CarrierPlans(faces, c, order[1]), b \in CarrierPlans(faces, c, order[2])}
              : x \in {y \in {1} : c.carriers[order[1]] \cap c.carriers[order[2]] = {}}}

\* merge_endpoint: a new vertex goes before the one it replaces.
MergedEnd(v, w) == IF v = w \/ w[2] = 0 THEN v ELSE w
EndsAgree(v, w) == v = w \/ (v[2] = 0) # (w[2] = 0)

\* merge_retained_edge, merge_topology_patches: all of them, or nothing.
\* (Slip: the later rewrite of an edge replaces the earlier one.)
MergedLast(first, second) ==
    {[remove |-> first.remove \cup second.remove, edges |-> first.edges @@ second.edges,
      rewrites |-> second.rewrites @@ first.rewrites,
      splices |-> first.splices \cup second.splices, boundaries |-> <<>>,
      unused |-> first.unused \cup second.unused]}
Merged2(first, second) ==
    LET both == (DOMAIN first.rewrites) \cap (DOMAIN second.rewrites)
        ends == [x \in both |-> [k \in 1 .. 2 |-> MergedEnd(first.rewrites[x][k], second.rewrites[x][k])]]
    IN  IF \A x \in both :
            /\ \A k \in 1 .. 2 : EndsAgree(first.rewrites[x][k], second.rewrites[x][k])
            /\ ends[x][1][1] # ends[x][2][1]
        THEN {[remove |-> first.remove \cup second.remove, edges |-> first.edges @@ second.edges,
               rewrites |-> ends @@ first.rewrites @@ second.rewrites,
               splices |-> first.splices \cup second.splices, boundaries |-> <<>>,
               unused |-> first.unused \cup second.unused]}
        ELSE {}

\* plan_source_edge_treatment_patches, in the order of the treatments' faces.
TreatmentPatches(faces, evidence) ==
    LET order == InOrder({c.face : c \in evidence})
        One(k) == TreatmentPatch(faces, CHOOSE c \in evidence : c.face = order[k])
        merged[k \in 0 .. Len(order)] ==
            IF k = 0 THEN {EmptyPatch}
            ELSE UNION {Merged2(p, q) : p \in merged[k - 1], q \in One(k)}
    IN  merged[Len(order)]

-----------------------------------------------------------------------------
(* The kernel: import, edit and export of one solid.                       *)

\* The wires of a face go round its surface's normal; a face that is turned looks the
\* other way.
Imported(e, solid) ==
    LET faces == e[e[solid].shell].faces
        views == [f \in faces |-> FaceView(e, f)]
    IN  [wires |-> [f \in faces |-> [k \in DOMAIN views[f].loops |-> Wire(views[f].loops[k], e[f].sense)]],
         turned |-> {f \in faces : ~e[f].sense},
         ends |-> [x \in AllEdges(views) |-> <<<<e[x].from, 0>>, <<e[x].to, 0>>>>]]

\* One splice: the run of a wire is replaced; the two carriers of an edge are different faces.
SplicedWire(wire, splice) ==
    LET n == Len(wire)
        s == CHOOSE k \in 1 .. n : wire[k][1] \in splice.remove /\ wire[((k + n - 2) % n) + 1][1] \notin splice.remove
        m == Cardinality(splice.remove)
    IN  splice.replacement \o [k \in 1 .. n - m |-> wire[((s + m + k - 2) % n) + 1]]
SplicedBy(wire, splices) ==
    LET mine == {s \in splices : {u[1] : u \in Range(wire)} \cap s.remove # {}}
    IN  IF mine = {} THEN wire ELSE SplicedWire(wire, CHOOSE s \in mine : TRUE)
WithSplices(wires, splices) ==
    LET firsts == InOrder({Min(s.remove) : s \in splices})
        order == [k \in DOMAIN firsts |-> {s \in splices : Min(s.remove) = firsts[k]}]
        done[k \in 0 .. Len(order)] ==
            IF k = 0 THEN wires
            ELSE [f \in DOMAIN wires |->
                    [w \in DOMAIN wires[f] |-> SplicedBy(done[k - 1][f][w], {s \in order[k] : s.face = f})]]
    IN  done[Len(firsts)]
Edited(shell, patch) ==
    LET wires == WithSplices(
            [f \in (DOMAIN shell.wires) \ patch.remove |->
                IF f \in DOMAIN patch.boundaries THEN patch.boundaries[f] ELSE shell.wires[f]],
            patch.splices)
        at == UNION {UNION {{<<f, w, k>> : k \in DOMAIN wires[f][w]} : w \in DOMAIN wires[f]} : f \in DOMAIN wires}
        used == {wires[x[1]][x[2]][x[3]][1] : x \in at}
        ends == patch.rewrites @@ patch.edges @@ shell.ends
    IN  [wires |-> wires, turned |-> shell.turned \ patch.remove, ends |-> [x \in used |-> ends[x]]]

\* What the kernel asks of a shell: wires hang together, each edge is used once each way.
IsOriented(shell) ==
    LET at == UNION {UNION {{<<f, w, k>> : k \in DOMAIN shell.wires[f][w]} : w \in DOMAIN shell.wires[f]}
                        : f \in DOMAIN shell.wires}
        UseAt(x) == shell.wires[x[1]][x[2]][x[3]]
        Seen(x) == <<UseAt(x)[1], UseAt(x)[2] # (x[1] \in shell.turned)>>
        Start(u) == shell.ends[u[1]][IF u[2] THEN 1 ELSE 2]
        End(u) == shell.ends[u[1]][IF u[2] THEN 2 ELSE 1]
    IN  /\ \A x \in at : LET wire == shell.wires[x[1]][x[2]]
                         IN  End(UseAt(x)) = Start(wire[(x[3] % Len(wire)) + 1])
        /\ \A x \in at : Cardinality({y \in at : Seen(y) = Seen(x)}) = 1
        /\ \A x \in at : \E y \in at : Seen(y) = <<Seen(x)[1], ~Seen(x)[2]>>
IsAccepted(shell, patch) ==
    LET edited == Edited(shell, patch)
    IN  (DOMAIN edited.ends) \cap patch.unused = {} /\ IsOriented(edited)

\* The outer wire of a face: the one that is widest along the face's normal.
OuterWire(shell, wires, normal) ==
    LET Start(u) == shell.ends[u[1]][IF u[2] THEN 1 ELSE 2][1]
        Size(w) == LET a == Area2([k \in DOMAIN wires[w] |-> Flattened(Start(wires[w][k]), Frame(normal))])
                   IN  IF a < 0 THEN -a ELSE a
    IN  CHOOSE w \in DOMAIN wires : \A v \in DOMAIN wires : Size(v) <= Size(w)

\* The export: a file of one solid whose entities all have new ids.
Exported(e, solid, shell, shift) ==
    LET faces == DOMAIN shell.wires
        edges == DOMAIN shell.ends
        Id(n) == IF n < 0 THEN shift - 20000 - n ELSE shift + n
        BoundId(f, w) == shift + 40000 + 10 * f + w
        LoopId(f, w) == shift + 60000 + 10 * f + w
        wiresAt == UNION {{<<f, w>> : w \in DOMAIN shell.wires[f]} : f \in faces}
        Outer(f) == OuterWire(shell, shell.wires[f], IF e[e[f].on].kind = "plane" THEN e[e[f].on].normal ELSE <<0, 0, 1>>)
        Src(n) == n - shift
    IN  [n \in {Id(f) : f \in faces} |->
            [kind |-> "face", on |-> Id(e[Src(n)].on), sense |-> e[Src(n)].sense,
             bounds |-> {BoundId(Src(n), w) : w \in DOMAIN shell.wires[Src(n)]}]]
        @@ [n \in {Id(e[f].on) : f \in faces} |-> e[Src(n)]]
        @@ [n \in {BoundId(x[1], x[2]) : x \in wiresAt} |->
            LET x == CHOOSE y \in wiresAt : BoundId(y[1], y[2]) = n
            IN  [kind |-> "bound", outer |-> x[2] = Outer(x[1]), loop |-> LoopId(x[1], x[2]),
                 forward |-> e[x[1]].sense]]
        @@ [n \in {LoopId(x[1], x[2]) : x \in wiresAt} |->
            LET x == CHOOSE y \in wiresAt : LoopId(y[1], y[2]) = n
                wire == shell.wires[x[1]][x[2]]
            IN  [kind |-> "loop", area |-> {}, uses |-> [k \in DOMAIN wire |-> <<Id(wire[k][1]), wire[k][2]>>]]]
        @@ [n \in {Id(x) : x \in edges} |->
            LET x == CHOOSE y \in edges : Id(y) = n
            IN  [kind |-> "edge", from |-> shell.ends[x][1][1], to |-> shell.ends[x][2][1], curve |-> "line"]]
        @@ (Id(e[solid].shell) :> [kind |-> "shell", closed |-> TRUE, faces |-> {Id(f) : f \in faces}])
        @@ (Id(solid) :> [kind |-> "solid", shell |-> Id(e[solid].shell)])
        @@ (Id(1) :> [kind |-> "brep", items |-> <<Id(solid)>>, context |-> Id(2)])
        @@ (Id(2) :> [kind |-> "context"])
=============================================================================
