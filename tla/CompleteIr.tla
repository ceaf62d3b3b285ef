------------------------------ MODULE CompleteIr ------------------------------
(***************************************************************************)
(* complete_ir.rs: for every solid of a file a model that builds it.       *)
(* What a recogniser finds at once is offered first.  Then bosses and      *)
(* pockets are peeled off, round by round, on a view of the file (or, with *)
(* a kernel, on files that the kernel edits and exports), and replayed on  *)
(* the model of what is left.  The cheapest model of each solid is kept.   *)
(*                                                                         *)
(* A source is <<section, solid>>.  An entity of kind "chain" is what the  *)
(* chain grammar has proved of a solid.  What the kernel answers is open:  *)
(* an import may fail, an edit that fits may be refused, its export may    *)
(* be unreadable, a replay may not be one solid.                           *)
(***************************************************************************)
EXTENDS CadModel, KernelTopology

CONSTANTS
    Files,     \* sequences of sections
    MaxRounds  \* MAX_LOCAL_REDUCTION_ROUNDS

VARIABLES
    file,      \* the sections of the exchange
    owner,     \* "parser" or "kernel": who may change topology (ReducedBrepMutationMode)
    phase,     \* where the recovery is
    selected,  \* source -> the fragment kept for it (WholeSolidRecoveryState)
    work,      \* the section being peeled: ParserPeelJournal and its targets
    offered,   \* <<source, fragment>> that the provider has found so far
    sources,   \* kernel: the sources still to be tried in this phase
    loads,     \* kernel: the sources it has imported (source_load)
    bench      \* kernel: the source on the bench

vars == <<file, owner, phase, selected, work, offered, sources, loads, bench>>

CompleteIrAssumption == {MaxFlat, Margin, MaxRounds} \subseteq Nat \ {0} /\ MaxFlat > 1

SolidIds(e) == OfKind(e, {"solid"})
FacesOfSolid(e, solid) == e[e[solid].shell].faces
SourcesOf(f) == UNION {{<<s, n>> : n \in SolidIds(f[s])} : s \in DOMAIN f}
AreChains(e) == {e[n].of : n \in OfKind(e, {"chain"})}

-----------------------------------------------------------------------------
(* Fragments and the choice among them.                                    *)

IsConstructive(fragment) == fragment.kind # "chain"
Cost(fragment) == Complexity(fragment.model, fragment.root)

\* whole_solid_candidate_is_preferred.
IsPreferred(new, old) ==
    IF IsConstructive(new) = IsConstructive(old) THEN Cost(new) < Cost(old) ELSE IsConstructive(new)

\* select_cheapest_whole_solid_fragments, for one solid: none, or one.
Cheapest(fragments) ==
    LET best == {f \in fragments : ~\E g \in fragments : IsPreferred(g, f)}
    IN  IF best = {} THEN {} ELSE {CHOOSE f \in best : TRUE}

\* add_candidates.
WithCandidates(chosen, offers) ==
    [s \in DOMAIN chosen \cup {o[1] : o \in offers} |->
        LET new == {o[2] : o \in {x \in offers : x[1] = s}}
            old == IF s \in DOMAIN chosen THEN {chosen[s]} ELSE {}
        IN  CHOOSE f \in Cheapest(new \cup old) : TRUE]

\* constructively_unresolved_sources and semantically_unrecovered_sources.
Unresolved(chosen) ==
    {s \in SourcesOf(file) : s \notin DOMAIN chosen \/ ~IsConstructive(chosen[s])}
Unrecovered(chosen) == SourcesOf(file) \ DOMAIN chosen

\* recover_constructive_fragments_from_entities_with_index: the extrusions.
Extrusions(e, solid) ==
    {ExtrusionFragment(solid, x) : x \in SolidExtrusions(SolidView(e, solid).faces)}

\* The body without its replayable treatments that come off, and those.
ReplayableAmong(all) == {c \in all : IsReplayable(c, all)}
LessOne(so, c, without) ==
    IF without = {} THEN so ELSE [solid |-> CHOOSE v \in without : TRUE, replay |-> so.replay \cup {c}]
Untreated(view, able) ==
    LET order == InOrder({c.face : c \in able})
        Item(k) == CHOOSE c \in able : c.face = order[k]
        done[k \in 0 .. Len(order)] ==
            IF k = 0 THEN [solid |-> view, replay |-> {}]
            ELSE LessOne(done[k - 1], Item(k), WithoutTreatment(done[k - 1].solid, Item(k)))
    IN  done[Len(order)]

\* recover_reduced_brep_fragments: only where there was something to take away.
ReducedBy(solid, untreated, coalesced) ==
    IF untreated.replay = {} /\ coalesced = untreated.solid THEN {}
    ELSE {Treated(ExtrusionFragment(solid, x), solid, untreated.replay)
            : x \in SolidExtrusions(coalesced.faces)}
ReducedFragments(e, solid) ==
    UNION {UNION {ReducedBy(solid, untreated, Coalesced(untreated.solid))
                    : untreated \in {Untreated(view, ReplayableAmong(TreatmentsOf(view.faces)))}}
            : view \in {SolidView(e, solid)}}

-----------------------------------------------------------------------------
(* Tools.                                                                  *)

\* regularize_boundary_tool_for_boolean: a tool reaches over each of its interfaces, into
\* the host when it adds and out of it when it cuts.
\* (Slip: the tool ends on its interfaces.)
UnextendedTool(fragment, polarity, outwards) == {fragment}
Regularized(fragment, polarity, outwards) ==
    LET placed == fragment.model.nodes[2]
        axis == placed.axes[3]
        up == \E o \in outwards : (Dot(o, axis) > 0) = (polarity = "subtractive")
        down == \E o \in outwards : (Dot(o, axis) > 0) # (polarity = "subtractive")
        ends == (IF up THEN 1 ELSE 0) + (IF down THEN 1 ELSE 0)
    IN  IF \A o \in outwards : Parallel(o, axis)
        THEN {[fragment EXCEPT
                !.model.nodes = <<[@[1] EXCEPT !.rise = @ + Margin * ends],
                    IF down THEN [@[2] EXCEPT !.at = Minus(@, Times(Margin, axis))] ELSE @[2]>>,
                !.model.prov = [n \in DOMAIN @ |-> [@[n] EXCEPT !.proof = "structural"]]]}
        ELSE {}

\* prepare_boundary_feature_reduction: the families whose tool is an extrusion that can be
\* regularised.  A tool is closed on a copy of the file.
ToolsIn(closed, polarity, outwards) ==
    UNION {Regularized(x, polarity, outwards) : x \in Extrusions(closed, Max(DOMAIN closed))}
ToolOf(e, family) ==
    ToolsIn(Tool(e, family, Max(DOMAIN e) + 1) @@ e, family.polarity, {Outward(e, h) : h \in family.hosts})
Prepared(e, families, pass, original) ==
    UNION {{[family |-> f,
             step |-> [pass |-> pass, polarity |-> f.polarity, tool |-> t, members |-> f.members,
                       original |-> original]] : t \in ToolOf(e, f)} : f \in families}

\* The leaves among the families of some shells.
LeavesOf(e, shells) == LeafFamilies(FamiliesOf(e, {c \in Contexts(e) : c.shell \in shells}))

\* The families in the order of their first faces, which is the order of the report.
StepsOf(prepared) ==
    LET First(p) == Min(p.step.members[1].faces)
        order == InOrder({First(p) : p \in prepared})
    IN  [k \in DOMAIN order |-> (CHOOSE p \in prepared : First(p) = order[k]).step]

-----------------------------------------------------------------------------
(* Replay.                                                                 *)

\* feature_member_source_ids.
MemberIds(solid, member) == {solid} \cup member.faces \cup Range(member.bounds)

\* The place of a member: the quarter and the translation from the first one.
Quarter(step, k) == (step.members[1].quarter + 4 - step.members[k].quarter) % 4
Shift(step, k) == Translation(step.members[1].centre, step.members[k].centre, Quarter(step, k))
IsInPlace(step, k) == Quarter(step, k) = 0 /\ Shift(step, k) = Origin3

\* One family of compose_boundary_feature_fragment: its tool once, a transform for each
\* member that is not where the tool is, and the Boolean.
WithFamily(so, solid, step) ==
    LET n == Len(so.model.nodes)
        size == Len(step.tool.model.nodes)
        root == n + step.tool.root
        Ids(k) == IF step.original THEN MemberIds(solid, step.members[k]) ELSE {solid}
        tool == Appended2(so.model, step.tool.model)
        moved == InOrder({k \in DOMAIN step.members : ~IsInPlace(step, k)})
        Of(k) == IF IsInPlace(step, k) THEN root ELSE n + size + (CHOOSE j \in DOMAIN moved : moved[j] = k)
        last == n + size + Len(moved) + 1
        transforms == [j \in DOMAIN moved |->
            Moved(Quarter(step, moved[j]), Shift(step, moved[j]), root)]
        boolean == [op |-> IF step.polarity = "additive" THEN "union" ELSE "difference",
                    children |-> <<so.root>> \o [k \in DOMAIN step.members |-> Of(k)]]
        all == {solid} \cup (IF step.original THEN UNION {Ids(k) : k \in DOMAIN step.members} ELSE {})
    IN  [model |->
            [nodes |-> (tool.nodes \o transforms) \o <<boolean>>,
             prov |-> [j \in DOMAIN tool.prov \cup (n + size + 1 .. last) |->
                CASE j = last -> Proof(all, "structural")
                  [] j \in n + size + 1 .. last - 1 -> Proof(Ids(moved[j - n - size]), "structural")
                  [] j \in n + 1 .. n + size -> [tool.prov[j] EXCEPT !.of = Ids(1)]
                  [] OTHER -> tool.prov[j]]],
         root |-> last]

\* compose_boundary_feature_fragment: what came off last comes back first.
\* (Slip: what came off first.)
Composed1(solid, host, steps) ==
    LET done[k \in 0 .. Len(steps)] ==
            IF k = 0 THEN [model |-> host.model, root |-> host.root]
            ELSE WithFamily(done[k - 1], solid, steps[k])
        last == done[Len(steps)]
    IN  [kind |-> "features", solid |-> solid, root |-> last.root, model |-> last.model,
         passes |-> Max({steps[k].pass : k \in DOMAIN steps}) + 1]
Composed(solid, host, steps) ==
    LET done[k \in 0 .. Len(steps)] ==
            IF k = 0 THEN [model |-> host.model, root |-> host.root]
            ELSE WithFamily(done[k - 1], solid, steps[Len(steps) + 1 - k])
        last == done[Len(steps)]
    IN  [kind |-> "features", solid |-> solid, root |-> last.root, model |-> last.model,
         passes |-> Max({steps[k].pass : k \in DOMAIN steps}) + 1]

-----------------------------------------------------------------------------
(* Congruent solids.                                                       *)

VertexPoints(e, solid) ==
    UNION {{e[x].from, e[x].to} : x \in UNION {FaceEdges(e, f) : f \in FacesOfSolid(e, solid)}}

\* solid_identity, canonical_z90_solid_signature.  The code's centre is the mean of the
\* vertices; any centre that moves with the points does.
CentreOf(e, solid) == Centre(VertexPoints(e, solid))
PictureOf(e, solid, q) == Picture(e, FacesOfSolid(e, solid), CentreOf(e, solid), q)
ShapeKey(e, solid) == {PictureOf(e, solid, q) : q \in 0 .. 3}

\* relative_z90_quarter, the least.
RelativeQuarter(e, source, target) ==
    Min({q \in 0 .. 3 : PictureOf(e, source, q) = PictureOf(e, target, 0)})

\* instantiate_boundary_feature_fragment with relative_quarter_translation.
\* (Slip: the instance is still the representative's.)
InstanceOfNobody(e, fragment, source, target) ==
    LET q == RelativeQuarter(e, source, target)
        at == Translation(CentreOf(e, source), CentreOf(e, target), q)
    IN  [fragment EXCEPT
            !.model = Added(@, Moved(q, at, fragment.root), Proof({target}, "structural")),
            !.root = Len(fragment.model.nodes) + 1]
InstanceOf(e, fragment, source, target) ==
    LET q == RelativeQuarter(e, source, target)
        at == Translation(CentreOf(e, source), CentreOf(e, target), q)
    IN  [fragment EXCEPT !.solid = target,
            !.model = Added(@, Moved(q, at, fragment.root), Proof({target}, "structural")),
            !.root = Len(fragment.model.nodes) + 1]

\* The representatives of recover_boundary_feature_composites_for_section, each with the
\* solids of its shape.
Groups(e, solids) ==
    LET key == [n \in solids |-> ShapeKey(e, n)]
        reps == {n \in solids : ~\E m \in solids : m < n /\ key[m] = key[n]}
    IN  [r \in reps |-> {n \in solids : key[n] = key[r]}]

\* LocalRecoveryTargets::from_solids.
SharesShells(e, solids) == \E a, b \in solids : a # b /\ e[a].shell = e[b].shell

-----------------------------------------------------------------------------
(* The parser's recovery.                                                  *)

Idle == [section |-> 0, view |-> <<>>, replay |-> <<>>, targets |-> {}, groups |-> <<>>,
         recovered |-> <<>>, round |-> 0]
Empty == [source |-> <<>>, entities |-> <<>>, solid |-> 0, pass |-> 0, replay |-> <<>>]

Init ==
    /\ file \in Files /\ owner \in {"parser", "kernel"}
    /\ phase = "direct" /\ selected = <<>> /\ work = Idle /\ offered = {}
    /\ sources = {} /\ loads = {} /\ bench = Empty

kernelVars == <<sources, loads, bench>>

\* recover_complete_ir_build_state and the first lines of recover_whole_solids.
\* The providers have nothing to offer when the kernel owns the topology.
AfterSelection(chosen, next) ==
    IF owner = "kernel" THEN "load" ELSE IF Unresolved(chosen) = {} THEN "done" ELSE next
DirectCandidates ==
    /\ phase = "direct"
    /\ \E direct \in {UNION {{<<x, f>> : f \in Extrusions(file[x[1]], x[2])}
                              \cup {<<x, ChainFragment(x[2])>> : y \in {x[2]} \cap AreChains(file[x[1]])}
                                : x \in SourcesOf(file)}} :
       \E chosen \in {WithCandidates(<<>>, direct)} :
            /\ selected' = chosen
            /\ phase' = AfterSelection(chosen, "sections")
    /\ UNCHANGED <<file, owner, work, offered, kernelVars>>

\* The next section with targets: their representatives, and an empty journal.
BeginSection ==
    /\ phase = "sections" /\ work.section < Len(file)
    /\ \E s \in {work.section + 1} :
       \E targets \in {{x[2] : x \in {y \in Unresolved(selected) : y[1] = s}}} :
       \E groups \in {Groups(file[s], targets)} :
            IF targets = {} THEN phase' = "sections" /\ work' = [Idle EXCEPT !.section = s]
            ELSE IF SharesShells(file[s], DOMAIN groups) THEN phase' = "failed" /\ UNCHANGED work
            ELSE /\ phase' = "rounds"
                 /\ work' = [section |-> s, view |-> file[s], replay |-> <<>>, targets |-> DOMAIN groups,
                             groups |-> groups, recovered |-> <<>>, round |-> 0]
    /\ UNCHANGED <<file, owner, selected, offered, kernelVars>>

\* next_boundary_pass_index.
NextPass(replay) ==
    LET passes == UNION {{replay[n][k].pass : k \in DOMAIN replay[n]} : n \in DOMAIN replay}
    IN  IF passes = {} THEN 0 ELSE Max(passes) + 1

\* ParserPeelJournal::commit.
Committed(replay, e, prepared) ==
    LET Solid(p) == CHOOSE n \in SolidIds(e) : e[n].shell = p.family.context.shell /\ n \in work.targets
        Mine(n) == {p \in prepared : Solid(p) = n}
    IN  [n \in DOMAIN replay \cup {Solid(p) : p \in prepared} |->
            (IF n \in DOMAIN replay THEN replay[n] ELSE <<>>) \o StepsOf(Mine(n))]

\* recover_replayed_boundary_hosts.
HostsOf(e, solids) ==
    UNION {{<<n, f>> : f \in Cheapest(Extrusions(e, n) \cup ReducedFragments(e, n))} : n \in solids}
WithReplays(hosts, replay) ==
    [n \in {h[1] : h \in hosts} |-> Composed(n, (CHOOSE h \in hosts : h[1] = n)[2], replay[n])]

\* One round of recover_local_reductions_to_fixed_point with recover_boundary_feature_pass.
Round ==
    /\ phase = "rounds"
    /\ \E shells \in {{work.view[n].shell : n \in work.targets}} :
       \E prepared \in {Prepared(work.view, LeavesOf(work.view, shells), NextPass(work.replay), TRUE)} :
       \E families \in {{p.family : p \in prepared}} :
            IF prepared = {} THEN phase' = "expand" /\ UNCHANGED work
            ELSE IF ~PeelIsProved(work.view, families) THEN phase' = "failed" /\ UNCHANGED work
            ELSE \E healed \in {Peeled(work.view, families)} :
                 \E replay \in {Committed(work.replay, work.view, prepared)} :
                 \E hosts \in {HostsOf(healed, work.targets \cap DOMAIN replay)} :
                 \E left \in {work.targets \ {h[1] : h \in hosts}} :
                    /\ work' = [work EXCEPT !.view = healed, !.replay = replay, !.targets = left,
                            !.round = @ + 1,
                            !.recovered = WithReplays(hosts, replay) @@ @]
                    /\ phase' = IF left = {} THEN "expand"
                                ELSE IF work.round + 1 = MaxRounds THEN "failed" ELSE "rounds"
    /\ UNCHANGED <<file, owner, selected, offered, kernelVars>>

\* The fragments of the section, and the congruent solids'.
EndSection ==
    /\ phase = "expand"
    /\ \E s \in {work.section} :
        offered' = offered \cup UNION {
            {<<<<s, n>>, work.recovered[n]>>}
            \cup {<<<<s, m>>, InstanceOf(file[s], work.recovered[n], n, m)>> : m \in work.groups[n] \ {n}}
              : n \in DOMAIN work.recovered}
    /\ work' = [Idle EXCEPT !.section = work.section]
    /\ phase' = "sections"
    /\ UNCHANGED <<file, owner, selected, kernelVars>>

OfferFeatures ==
    /\ phase = "sections" /\ work.section = Len(file)
    /\ \E chosen \in {WithCandidates(selected, offered)} :
        selected' = chosen /\ phase' = AfterSelection(chosen, "reduced")
    /\ offered' = {} /\ work' = Idle
    /\ UNCHANGED <<file, owner, kernelVars>>

\* recover_reduced_brep_candidates.
OfferReduced ==
    /\ phase = "reduced"
    /\ \E found \in {UNION {{<<x, f>> : f \in ReducedFragments(file[x[1]], x[2])}
                             : x \in Unresolved(selected)}} :
        selected' = WithCandidates(selected, found)
    /\ phase' = "done"
    /\ UNCHANGED <<file, owner, work, offered, kernelVars>>

-----------------------------------------------------------------------------
(* The kernel's recovery.                                                  *)

\* The import of the whole file; any solid may be missing from it, and it may fail.
LoadSource ==
    /\ phase = "load"
    /\ loads' \in SUBSET SourcesOf(file)
    /\ phase' \in {"peel", "failed"}
    /\ sources' = Unrecovered(selected)
    /\ UNCHANGED <<file, owner, selected, work, offered, bench>>

NextPhase(p) == CASE p = "peel" -> "normal" [] p = "normal" -> "union" [] p = "union" -> "done"

\* The end of one source, with a fragment or without; the reasons are not kept.
Taken(found) ==
    /\ selected' = WithCandidates(selected, {<<bench.source, f>> : f \in found})
    /\ bench' = Empty
    /\ UNCHANGED <<file, owner, phase, work, offered, loads, sources>>

\* apply_kernel_recovery: the next source that was not recovered when the phase began.
TakeSource ==
    /\ phase \in {"peel", "normal", "union"} /\ bench = Empty /\ sources # {}
    /\ \E x \in {y \in sources : \A z \in sources : y[1] < z[1] \/ (y[1] = z[1] /\ y[2] <= z[2])} :
        /\ sources' = sources \ {x}
        /\ bench' = IF phase # "union" /\ x \notin loads THEN Empty
                    ELSE [Empty EXCEPT !.source = x, !.entities = file[x[1]], !.solid = x[2]]
    /\ UNCHANGED <<file, owner, phase, selected, work, offered, loads>>

EndPhase ==
    /\ phase \in {"peel", "normal", "union"} /\ bench = Empty /\ sources = {}
    /\ phase' = NextPhase(phase)
    /\ sources' = IF phase = "union" THEN {} ELSE Unrecovered(selected)
    /\ UNCHANGED <<file, owner, selected, work, offered, loads, bench>>

OnBench(p) == phase = p /\ bench # Empty

\* recognize_single_healed_host, with the provenance cleared.
HealedHosts(e, solid) ==
    {[h EXCEPT !.model.prov = <<>>] : h \in Cheapest(Extrusions(e, solid))}

\* The next families that have a tool.  Only the first pass names entities of the source.
\* (Slip: every pass does.)
AsIfOriginal ==
    Prepared(bench.entities, LeavesOf(bench.entities, {bench.entities[bench.solid].shell}), bench.pass, TRUE)
BenchPrepared ==
    Prepared(bench.entities, LeavesOf(bench.entities, {bench.entities[bench.solid].shell}),
             bench.pass, bench.pass = 0)

\* One pass of recover_kernel_boundary_feature_fragment: plan, edit, read the export.  The
\* replay is longer only after all of that.
NewIds(pass) == 100000 * (pass + 1)
OnNewBench(patch, steps) ==
    LET e == bench.entities
        shell == Edited(Imported(e, bench.solid), patch)
    IN  [source |-> bench.source, solid |-> NewIds(bench.pass) + bench.solid,
         entities |-> Exported(e, bench.solid, shell, NewIds(bench.pass)),
         pass |-> bench.pass + 1, replay |-> bench.replay \o steps]
Edits(patches, works) == works /\ \E p \in patches : IsAccepted(Imported(bench.entities, bench.solid), p)
KernelPeel ==
    /\ OnBench("peel")
    /\ \E prepared \in {BenchPrepared} :
       \E patches \in {PeelPatch(bench.entities, bench.solid, {p.family : p \in prepared})} :
       \E works \in BOOLEAN :
            /\ prepared # {}
            /\ IF ~Edits(patches, works) \/ bench.pass + 1 = MaxRounds THEN Taken({})
               ELSE /\ bench' = OnNewBench(CHOOSE p \in patches : TRUE, StepsOf(prepared))
                    /\ UNCHANGED <<file, owner, phase, selected, work, offered, sources, loads>>

\* The end of it: nothing more to peel.  kernel_replay_is_single_solid is the kernel's.
KernelReplay ==
    /\ OnBench("peel")
    /\ BenchPrepared = {}
    /\ \E hosts \in {HealedHosts(bench.entities, bench.solid)} :
       \E accepted \in BOOLEAN :
            Taken(IF bench.pass = 0 \/ ~accepted THEN {}
                  ELSE {Composed(bench.source[2], h, bench.replay) : h \in hosts})

\* recover_kernel_topology_normalized_fragment, first half, with replayable_source_treatments.
SourceTreatments(source) ==
    ReplayableAmong(TreatmentsOf(SolidView(file[source[1]], source[2]).faces))
BenchFaces == SolidView(bench.entities, bench.solid).faces
KernelUntreat ==
    /\ OnBench("normal") /\ bench.pass = 0
    /\ \E evidence \in {SourceTreatments(bench.source)} :
       \E patches \in {TreatmentPatches(BenchFaces, evidence)} :
       \E works \in BOOLEAN :
            IF evidence = {}
            THEN /\ bench' = [bench EXCEPT !.pass = 1]
                 /\ UNCHANGED <<file, owner, phase, selected, work, offered, sources, loads>>
            ELSE IF ~Edits(patches, works) THEN Taken({})
            ELSE /\ bench' = OnNewBench(CHOOSE p \in patches : TRUE, <<>>)
                 /\ UNCHANGED <<file, owner, phase, selected, work, offered, sources, loads>>

\* Its second half: coplanar faces, the host, and the treatments again.
Normalized(evidence, bodies, accepted) ==
    \E again \in {{Treated(h, bench.source[2], evidence) : h \in bodies}} :
        Taken(IF evidence = {} THEN {[f EXCEPT !.kind = "coplanar"] : f \in again}
              ELSE {f \in again : accepted /\ CanEvaluate(f.model, f.root)})
KernelNormalize ==
    /\ OnBench("normal") /\ bench.pass = 1
    /\ \E patches \in {CoplanarPatch(BenchFaces)}, evidence \in {SourceTreatments(bench.source)} :
       \E works, accepted \in BOOLEAN :
            IF patches = {} /\ evidence = {} THEN Taken({})
            ELSE IF patches # {} /\ ~Edits(patches, works) THEN Taken({})
            ELSE \E after \in {IF patches = {} THEN bench ELSE OnNewBench(CHOOSE p \in patches : TRUE, <<>>)} :
                    Normalized(evidence, HealedHosts(after.entities, after.solid), accepted)

-----------------------------------------------------------------------------
(* What a body is: of a grid of points those below one more roof than      *)
(* floors.  No point of the grid lies on a face.                           *)

Roofs(faces) ==
    {[loops |-> [l \in DOMAIN faces[f].loops |-> LoopPoints(faces[f].loops[l])],
      normal |-> faces[f].normal, at |-> faces[f].at, id |-> f, up |-> OutwardOf(faces[f])[3] > 0]
        : f \in {g \in DOMAIN faces : IsPlane(faces[g]) /\ faces[g].normal[3] # 0}}
IsUnder(p, roof) ==
    /\ (roof.at - Dot(roof.normal, p)) * roof.normal[3] > 0
    /\ Cardinality({l \in DOMAIN roof.loops : InPolygon(roof.loops[l], p)}) % 2 = 1
RegionOf(faces, points) ==
    LET roofs == Roofs(faces)
    IN  {p \in points :
            LET over == {r \in roofs : IsUnder(p, r)}
            IN  2 * Cardinality({r \in over : r.up}) - Cardinality(over) = 1}

\* A cell is as high as a margin.
Grid(faces) ==
    LET corners == UNION {{u.from[1] : u \in UsesOf(faces[f])} : f \in DOMAIN faces}
        Span(a, by) == LET xs == {p[a] : p \in corners} IN Min(xs) - by .. Max(xs) + by
    IN  {p \in Span(1, 1) \X Span(2, 1) \X Span(3, Margin) :
            p[1] % 2 = 1 /\ p[2] % 2 = 1 /\ p[3] % Margin = Margin \div 2}

SourceFaces(s) == SolidView(file[s[1]], s[2]).faces

\* The union of cores, with the proof that it is the body
\* (recover_proven_extrusion_core_union_fragment; the proof is boundary_proof.rs).
CapPair(x) == <<Min({x.caps[1], x.caps[2]}), Max({x.caps[1], x.caps[2]})>>
InPairOrder(cores) ==
    [k \in 1 .. Cardinality(cores) |->
        CHOOSE x \in cores : Cardinality({y \in cores : Precedes(CapPair(y), CapPair(x))}) = k - 1]
CoresOf(faces) == InPairOrder(CoreCandidates(faces))
ProvenUnion(solid, cores, faces) ==
    LET points == Grid(faces)
        union == CoreUnion(solid, cores, {solid} \cup DOMAIN faces)
    IN  {f \in {union} : Evaluated(f.model, f.root, points) = RegionOf(faces, points)}
WithoutOne(cores, k) ==
    IF k = 0 THEN cores ELSE SubSeq(cores, 1, k - 1) \o SubSeq(cores, k + 1, Len(cores))
Attempts(n) == CASE n < 2 -> {} [] n = 2 -> {0} [] OTHER -> 0 .. n

\* recover_auto_proven_extrusion_core_union_fragment: all cores, else the only omission that
\* will do.  works are the proven ones that the kernel makes one solid of, 0 being all.
MaxOmissions == 8
KernelUnion ==
    /\ OnBench("union")
    /\ \E solid \in {bench.solid} : \E faces \in {BenchFaces} :
       \E cores \in {CoresOf(faces)} :
       \E proven \in {UNION {{<<k, f>> : f \in ProvenUnion(solid, WithoutOne(cores, k), faces)}
                                : k \in Attempts(Len(cores))}} :
       \E works \in SUBSET {p \in proven : p[1] = 0 \/ Len(cores) <= MaxOmissions} :
       \E all \in {{p \in works : p[1] = 0}} :
            Taken({p[2] : p \in IF all # {} THEN all ELSE IF Cardinality(works) = 1 THEN works ELSE {}})

-----------------------------------------------------------------------------

Next ==
    \/ DirectCandidates \/ BeginSection \/ Round \/ EndSection \/ OfferFeatures \/ OfferReduced
    \/ LoadSource \/ TakeSource \/ EndPhase
    \/ KernelPeel \/ KernelReplay \/ KernelUntreat \/ KernelNormalize \/ KernelUnion

Spec == Init /\ [][Next]_vars

TypeOK ==
    /\ owner \in {"parser", "kernel"}
    /\ phase \in {"direct", "sections", "rounds", "expand", "reduced", "load", "peel", "normal", "union",
                  "done", "failed"}
    /\ DOMAIN selected \subseteq SourcesOf(file)
    /\ \A s \in DOMAIN selected :
        selected[s].solid = s[2] /\ IsValid(selected[s].model, selected[s].root)
    /\ work.section \in 0 .. Len(file) /\ work.round \in 0 .. MaxRounds
    /\ sources \cup loads \subseteq SourcesOf(file)
    /\ bench.pass \in 0 .. MaxRounds

\* Every model that is kept builds the body of its solid, and at every round what is left of
\* a body with the replay so far does: nothing is lost or added on any way from the file to a
\* model, whichever recogniser, provider or kernel edit it went through.
Replayed(step, points) ==
    LET nodes == step.tool.model.nodes
        Here(k) == [nodes |-> Append(nodes, Moved(Quarter(step, k), Shift(step, k), step.tool.root)),
                    prov |-> <<>>]
    IN  UNION {Evaluated(Here(k), Len(nodes) + 1, points) : k \in DOMAIN step.members}
WithReplay(region, steps, points) ==
    LET done[k \in 0 .. Len(steps)] ==
            IF k = 0 THEN region
            ELSE LET step == steps[Len(steps) + 1 - k]
                     place == Replayed(step, points)
                 IN  IF step.polarity = "additive" THEN done[k - 1] \cup place ELSE done[k - 1] \ place
    IN  done[Len(steps)]
BodiesAreRebuilt ==
    /\ phase \in {"sections", "load", "normal", "union", "done"} =>
        \A s \in DOMAIN selected :
            LET points == Grid(SourceFaces(s))
            IN  IsConstructive(selected[s]) =>
                    /\ CanEvaluate(selected[s].model, selected[s].root)
                    /\ Evaluated(selected[s].model, selected[s].root, points)
                       = RegionOf(SourceFaces(s), points)
    /\ \A n \in DOMAIN work.replay :
        LET faces == SourceFaces(<<work.section, n>>)
            points == Grid(faces)
        IN  (\A f \in FacesOfSolid(work.view, n) : work.view[f].bounds # {}) =>
                WithReplay(RegionOf(SolidView(work.view, n).faces, points), work.replay[n], points)
                = RegionOf(faces, points)

\* Every Boolean of a replay cuts through: a tool that is added overlaps what it is added to,
\* and one that is subtracted sticks out of what it is cut from, so that no two faces merely
\* touch.
ToolsReachThrough ==
    \A s \in DOMAIN selected :
        LET f == selected[s]
            points == Grid(SourceFaces(s))
            In(n) == Evaluated(f.model, n, points)
        IN  f.kind = "features" /\ f.model.nodes[f.root].op # "transform" =>
            \A b \in {n \in DOMAIN f.model.nodes : f.model.nodes[n].op \in {"union", "difference"}} :
                LET children == f.model.nodes[b].children
                IN  \A k \in 2 .. Len(children) :
                        /\ In(children[1]) \cap In(children[k]) # {}
                        /\ In(children[k]) \ In(children[1]) # {}

\* The entities that a model names are of its solid in the file that was read, or of the
\* congruent solid it was copied from, never of a tool that was closed on a copy or of a file
\* that the kernel wrote.
ClosureOf(e, solid) ==
    LET faces == FacesOfSolid(e, solid)
    IN  {solid} \cup faces \cup UNION {e[f].bounds : f \in faces} \cup UNION {FaceEdges(e, f) : f \in faces}
ProvenanceIsOfTheSource ==
    \A s \in DOMAIN selected :
        LET prov == selected[s].model.prov
            e == file[s[1]]
            named == UNION {prov[n].of : n \in DOMAIN prov}
        IN  \/ named \subseteq ClosureOf(e, s[2])
            \/ \E m \in SolidIds(e) \ {s[2]} :
                    ShapeKey(e, m) = ShapeKey(e, s[2]) /\ named \subseteq {s[2]} \cup ClosureOf(e, m)

\* What is planned for the kernel fits: after the edit the wires of the shell hang together,
\* every edge is used once each way, and what the plan says is unused is.  Coplanar faces and
\* treatments only where the bounds are oriented as their faces.
FitsTheShell(patches) ==
    LET shell == Imported(bench.entities, bench.solid) IN \A p \in patches : IsAccepted(shell, p)
BoundsFollowFaces ==
    \A f \in DOMAIN BenchFaces : \A l \in DOMAIN BenchFaces[f].loops :
        BenchFaces[f].loops[l].forward = BenchFaces[f].forward
PatchesFit ==
    /\ OnBench("peel") => FitsTheShell(PeelPatch(bench.entities, bench.solid, {p.family : p \in BenchPrepared}))
    /\ OnBench("normal") /\ bench.pass = 0 /\ BoundsFollowFaces =>
            FitsTheShell(TreatmentPatches(BenchFaces, SourceTreatments(bench.source)))
    /\ OnBench("normal") /\ bench.pass = 1 /\ BoundsFollowFaces => FitsTheShell(CoplanarPatch(BenchFaces))
===============================================================================
