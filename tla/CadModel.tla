------------------------------ MODULE CadModel ------------------------------
(***************************************************************************)
(* cad_recovery, the costs of cad_ir.rs and the evaluation of              *)
(* cad_kernel.rs: models (CadGraph) of extrusions of polygons, rigid       *)
(* transforms, unions, differences and chamfers.                           *)
(*                                                                         *)
(* The kernel is exact: a node is the set of those of the given points     *)
(* that are inside.  The points never lie on a face.                       *)
(***************************************************************************)
EXTENDS Prisms, CadGraph

CONSTANTS
    MaxFlat,  \* MAX_FLAT_UNION_CHILDREN
    Margin    \* how far a tool reaches over its interface

\* local_complexity with the complexity of profiles and chains.
LoopsOf(node) == {node.outer} \cup node.holes
Complexity1(node) ==
    CASE node.op = "extrude" -> 1 + FoldSet(LAMBDA p, sum : 1 + Len(p) + sum, 0, LoopsOf(node))
      [] node.op \in {"union", "difference"} -> 1 + Len(node.children)
      [] node.op = "treatment" -> 3
      [] node.op = "transform" -> 2
      [] node.op = "chain" -> 20

\* complexity_score: a node that is used twice counts once.
Complexity(model, root) ==
    LET used[k \in 0 .. Len(model.nodes)] ==
            IF k = 0 THEN {root}
            ELSE LET known == used[k - 1]
                 IN  known \cup UNION {ToSet(Children(model.nodes[n])) : n \in known}
    IN  FoldSet(LAMBDA n, sum : Complexity1(model.nodes[n]) + sum, 0, used[Len(model.nodes)])

-----------------------------------------------------------------------------
(* Transforms.                                                             *)

\* quarter_turn_transform.
QuarterAxes(q) ==
    CASE q = 0 -> <<<<1, 0, 0>>, <<0, 1, 0>>, <<0, 0, 1>>>>
      [] q = 1 -> <<<<0, 1, 0>>, <<-1, 0, 0>>, <<0, 0, 1>>>>
      [] q = 2 -> <<<<-1, 0, 0>>, <<0, -1, 0>>, <<0, 0, 1>>>>
      [] q = 3 -> <<<<0, -1, 0>>, <<1, 0, 0>>, <<0, 0, 1>>>>
Moved(q, at, child) == [op |-> "transform", axes |-> QuarterAxes(q), at |-> at, child |-> child]

\* A point in the coordinates of a transform's child.
Local(node, p) ==
    LET d == Minus(p, node.at) IN <<Dot(d, node.axes[1]), Dot(d, node.axes[2]), Dot(d, node.axes[3])>>

-----------------------------------------------------------------------------
(* Evaluation.                                                             *)

\* extrude_profile_z.
Between(a, b, y) == (a[2] < y) # (b[2] < y)
RightOf(a, b, p) ==
    LET turn == (b[1] - a[1]) * (p[2] - a[2]) - (b[2] - a[2]) * (p[1] - a[1])
    IN  IF b[2] > a[2] THEN turn > 0 ELSE turn < 0
InPolygon(q, p) ==
    LET n == Len(q)
    IN  Cardinality({k \in 1 .. n : /\ Between(q[k], q[Ahead(k, n)], p[2])
                                    /\ RightOf(q[k], q[Ahead(k, n)], p)}) % 2 = 1
InExtrusion(node, p) ==
    /\ p[3] > 0 /\ p[3] < node.rise
    /\ InPolygon(node.outer, p)
    /\ \A h \in node.holes : ~InPolygon(h, p)

\* select_edges and evaluate_edge_treatment for a straight edge along an axis: one of the
\* four places around it is inside, all along and no further.  The chamfer cuts it off.
EdgeAxis(from, to) == CHOOSE a \in 1 .. 3 : from[a] # to[a]
Others(a) == CASE a = 1 -> <<2, 3>> [] a = 2 -> <<1, 3>> [] a = 3 -> <<1, 2>>
Quadrants == {-1, 1} \X {-1, 1}
Beside(p, a, q) ==
    LET o == Others(a) IN [[p EXCEPT ![o[1]] = @ + q[1]] EXCEPT ![o[2]] = @ + q[2]]
Probes(node) ==
    LET a == EdgeAxis(node.from, node.to)
        low == Min({node.from[a], node.to[a]})
        high == Max({node.from[a], node.to[a]})
    IN  {Beside([node.from EXCEPT ![a] = t], a, q) : t \in {low - 1, low + 1, high - 1, high + 1}, q \in Quadrants}
InsideQuadrants(node, inside, t) ==
    LET a == EdgeAxis(node.from, node.to)
    IN  {q \in Quadrants : Beside([node.from EXCEPT ![a] = t], a, q) \in inside}
SelectsOneEdge(node, inside) ==
    LET a == EdgeAxis(node.from, node.to)
        low == Min({node.from[a], node.to[a]})
        high == Max({node.from[a], node.to[a]})
    IN  /\ Cardinality(InsideQuadrants(node, inside, low + 1)) = 1
        /\ InsideQuadrants(node, inside, low + 1) = InsideQuadrants(node, inside, high - 1)
        /\ InsideQuadrants(node, inside, low - 1) # InsideQuadrants(node, inside, low + 1)
        /\ InsideQuadrants(node, inside, high + 1) # InsideQuadrants(node, inside, high - 1)
CutOff(node, inside, p) ==
    LET a == EdgeAxis(node.from, node.to)
        o == Others(a)
        q == CHOOSE x \in InsideQuadrants(node, inside, Min({node.from[a], node.to[a]}) + 1) : TRUE
        d == <<q[1] * (p[o[1]] - node.from[o[1]]), q[2] * (p[o[2]] - node.from[o[2]])>>
    IN  /\ p[a] > Min({node.from[a], node.to[a]}) /\ p[a] < Max({node.from[a], node.to[a]})
        /\ d[1] > 0 /\ d[2] > 0 /\ d[1] + d[2] < node.setback

\* evaluate_node: the points inside.
Points3 == Int \X Int \X Int
Evaluated(model, root, points) ==
    LET in[x \in Nat \X SUBSET Points3] ==
            LET node == model.nodes[x[1]]
                S == x[2]
            IN  CASE node.op = "extrude" -> {p \in S : InExtrusion(node, p)}
                  [] node.op = "transform" ->
                        LET local == in[<<node.child, {Local(node, p) : p \in S}>>]
                        IN  {p \in S : Local(node, p) \in local}
                  [] node.op = "union" -> UNION {in[<<c, S>>] : c \in ToSet(node.children)}
                  [] node.op = "difference" ->
                        in[<<node.children[1], S>>]
                        \ UNION {in[<<c, S>>] : c \in ToSet(Tail(node.children))}
                  [] node.op = "treatment" ->
                        LET inside == in[<<node.child, S \cup Probes(node)>>]
                        IN  {p \in S \cap inside : ~CutOff(node, inside, p)}
    IN  in[<<root, points>>]

\* The evaluation fails when a treatment does not find its edge.
CanEvaluate(model, root) ==
    \A k \in {n \in DOMAIN model.nodes : model.nodes[n].op = "treatment"} :
        LET node == model.nodes[k]
        IN  SelectsOneEdge(node, Evaluated(model, node.child, Probes(node)))

-----------------------------------------------------------------------------
(* Fragments.                                                              *)

\* recover_solid_extrusion_fragment, recovered_extrusion_profile, canonical_outer_origin.
ExtrusionFragment(solid, x) ==
    LET frame == Frame(x.axis)
        origin == x.profile.outer[1]
        Flat(loop) == [k \in DOMAIN loop |-> Flattened(Minus(loop[k], origin), frame)]
        proof == Proof({solid} \cup Range(x.caps) \cup x.sides \cup x.edges, "tolerance")
        body == [op |-> "extrude", outer |-> Flat(x.profile.outer),
                 holes |-> {Flat(h) : h \in x.profile.holes}, rise |-> Dot(x.sweep, x.axis)]
        placed == [op |-> "transform", axes |-> <<frame[1], frame[2], x.axis>>, at |-> origin, child |-> 1]
    IN  [kind |-> "extrusion", solid |-> solid, root |-> 2, passes |-> 0,
         model |-> Added(Added(EmptyModel, body, proof), placed, proof)]

\* recover_periodic_chain_fragments.
ChainFragment(solid) ==
    [kind |-> "chain", solid |-> solid, root |-> 1, passes |-> 0,
     model |-> Added(EmptyModel, [op |-> "chain"], Proof({solid}, "tolerance"))]

\* add_bounded_union_tree.
UnionTree(model, roots) ==
    LET Paired(m, level) ==
            LET n == Len(level)
                pairs == n \div 2
                size == Len(m.nodes)
                new == [k \in 1 .. pairs |->
                            [op |-> "union", children |-> <<level[2 * k - 1], level[2 * k]>>]]
            IN  [model |-> [nodes |-> m.nodes \o new, prov |-> m.prov],
                 level |-> [k \in 1 .. pairs |-> size + k] \o SubSeq(level, 2 * pairs + 1, n)]
        up[k \in 0 .. Len(roots)] ==
            IF k = 0 THEN [model |-> model, level |-> roots]
            ELSE IF Len(up[k - 1].level) = 1 THEN up[k - 1]
            ELSE Paired(up[k - 1].model, up[k - 1].level)
        last == up[Len(roots)]
    IN  CASE Len(roots) = 1 -> [model |-> model, root |-> roots[1]]
          [] Len(roots) > 1 /\ Len(roots) <= MaxFlat ->
                [model |-> [model EXCEPT !.nodes = Append(@, [op |-> "union", children |-> roots])],
                 root |-> Len(model.nodes) + 1]
          [] OTHER -> [model |-> last.model, root |-> last.level[1]]

\* compose_extrusion_core_union_model: above the limit the cores are first joined by axis.
CoreUnion(solid, cores, of) ==
    LET parts == [k \in DOMAIN cores |-> ExtrusionFragment(solid, cores[k])]
        joined[k \in 0 .. Len(cores)] ==
            IF k = 0 THEN EmptyModel ELSE Appended2(joined[k - 1], parts[k].model)
        all == [k \in DOMAIN cores |-> 2 * k]
        AxisRank(k) == Min({j \in DOMAIN cores : Parallel(cores[j].axis, cores[k].axis)})
        axes == InOrder({AxisRank(k) : k \in DOMAIN cores})
        grouped[k \in 0 .. Len(axes)] ==
            IF k = 0 THEN [model |-> joined[Len(cores)], roots |-> <<>>]
            ELSE LET t == UnionTree(grouped[k - 1].model,
                                    SelectSeq(all, LAMBDA r : AxisRank(r \div 2) = axes[k]))
                 IN  [model |-> t.model, roots |-> Append(grouped[k - 1].roots, t.root)]
        tree == IF Len(cores) <= MaxFlat
                THEN UnionTree(joined[Len(cores)], all)
                ELSE UnionTree(grouped[Len(axes)].model, grouped[Len(axes)].roots)
    IN  [kind |-> "union", solid |-> solid, root |-> tree.root, passes |-> 0,
         model |-> [tree.model EXCEPT !.prov = (tree.root :> Proof(of, "tolerance")) @@ @]]

\* replay_edge_treatments: the chamfers in the order of their faces.
Treated(fragment, solid, evidence) ==
    LET faces == InOrder({c.face : c \in evidence})
        At(k) == CHOOSE c \in evidence : c.face = faces[k]
        Root2(a) == CHOOSE s \in 0 .. a : s * s = a
        done[k \in 0 .. Len(faces)] ==
            IF k = 0 THEN [model |-> fragment.model, root |-> fragment.root]
            ELSE LET so == done[k - 1]
                     c == At(k)
                     node == [op |-> "treatment", child |-> so.root, from |-> c.from, to |-> c.to,
                              setback |-> Root2(Min(Range(c.setbacks)))]
                 IN  [model |-> Added(so.model, node, Proof({solid, c.face}, "tolerance")),
                      root |-> Len(so.model.nodes) + 1]
        last == done[Len(faces)]
    IN  [fragment EXCEPT !.model = last.model, !.root = last.root, !.solid = solid,
                         !.kind = IF faces = <<>> THEN @ ELSE "treated"]

\* replayable_edge_treatment: the same setback on both sides.
IsReplayable(c, all) == IsUnique(c, all) /\ Cardinality(Range(c.setbacks)) = 1
=============================================================================
