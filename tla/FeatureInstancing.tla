------------------------- MODULE FeatureInstancing -------------------------
(***************************************************************************)
(* planar_features/mapped_emitter.rs: equal bosses on a planar host face   *)
(* become instances of one.  The first of a family is closed on the host's *)
(* plane and moves into a representation of its own, every member becomes  *)
(* a MAPPED_ITEM of it beside the solid, the host loses the bounds they    *)
(* stood on, and what only they used is deleted.                           *)
(*                                                                         *)
(* Axes, points and directions are folded into the mapped item; the looks  *)
(* of a style stand for its list of assignments.                           *)
(***************************************************************************)
EXTENDS BoundaryFeatures

CONSTANTS Files  \* the sections the pass is run on

VARIABLES
    ent,    \* the section
    start,  \* the section when the pass began
    step,
    todo,   \* the planned families still to emit
    work,   \* what the pass collects on its way
    round   \* the first run, or the second on its output

vars == <<ent, start, step, todo, work, round>>

-----------------------------------------------------------------------------
(* Entities.                                                               *)

Refs(x) ==
    CASE x.kind = "face" -> {x.on} \cup x.bounds
      [] x.kind = "bound" -> {x.loop}
      [] x.kind = "loop" -> {use[1] : use \in ToSet(x.uses)}
      [] x.kind = "shell" -> x.faces
      [] x.kind = "solid" -> {x.shell}
      [] x.kind = "shells" -> x.shells
      [] x.kind \in {"brep", "surfaces"} -> ToSet(x.items) \cup {x.context}
      [] x.kind = "map" -> {x.rep}
      [] x.kind = "mapped" -> {x.map}
      [] x.kind \in {"style", "note"} -> {x.of}
      [] x.kind \in {"presentation", "layer"} -> ToSet(x.items)
      [] OTHER -> {}

\* descendant_closure.
Descendants(e, roots) ==
    LET down[k \in 0 .. 6] ==
            IF k = 0 THEN roots
            ELSE LET known == down[k - 1]
                 IN  known \cup (UNION {Refs(e[n]) : n \in known} \cap DOMAIN e)
    IN  down[6]

\* collect_styles_by_target.
StylesOf(e, n) == {s \in OfKind(e, {"style"}) : e[s].of = n}

-----------------------------------------------------------------------------
(* plan_additive_mapped_features.                                          *)

\* feature_style: all faces have one style and the same, or none of them has any.
StyleKeys(e, faces, container) ==
    LET looks == {e[s].looks : s \in UNION {StylesOf(e, f) : f \in faces}}
    IN  CASE looks = {} -> IF StylesOf(e, container) # {} THEN {<<"container">>} ELSE {<<"none">>}
          [] Cardinality(looks) = 1 /\ (\A f \in faces : Cardinality(StylesOf(e, f)) = 1)
                -> {<<"face", l>> : l \in looks}
          [] OTHER -> {}

\* A family of the analysis as members of one style key and one orientation of the bound
\* they stand on.
HostOf(f) == CHOOSE h \in f.hosts : TRUE
Styled(e, f, forward, key) ==
    SelectSeq(f.members, LAMBDA m :
        /\ e[m.bounds[HostOf(f)]].forward = forward
        /\ key \in StyleKeys(e, m.faces, f.context.container))
SplitFamily(e, f) ==
    {[context |-> f.context, host |-> HostOf(f), key |-> key,
      members |-> Styled(e, f, forward, key)]
        : key \in UNION {StyleKeys(e, f.members[k].faces, f.context.container)
                            : k \in DOMAIN f.members},
          forward \in BOOLEAN}

MayBeMapped(f) ==
    Len(f.members) >= MinGroup /\ f.polarity = "additive" /\ Cardinality(f.hosts) = 1
\* (Slip: a family that was split is kept whatever is left of it.)
PlannedOfAnySize(e) ==
    {p \in UNION {SplitFamily(e, f) : f \in {g \in Families(e) : MayBeMapped(g)}} : p.members # <<>>}
Planned(e) ==
    {p \in UNION {SplitFamily(e, f) : f \in {g \in Families(e) : MayBeMapped(g)}} :
        Len(p.members) >= MinGroup}

\* claimed_faces and claimed_bounds: two families never want the same patch.
Claims(p) == {<<p.context, p.host, p.members[k].faces>> : k \in DOMAIN p.members}
Overlap(plan) ==
    \E p, q \in plan : \E x \in Claims(p), y \in Claims(q) : x # y /\ x[3] \cap y[3] # {}

Clean == [roots |-> {}, delete |-> {}, host |-> {}, mapped |-> <<>>, faces |-> {},
          bounds |-> {}]

Plan ==
    /\ step = "start"
    /\ \E plan \in {Planned(ent)} :
        /\ step' = IF Overlap(plan) THEN "failed" ELSE IF plan = {} THEN "done" ELSE "emit"
        /\ todo' = IF Overlap(plan) THEN {} ELSE plan
    /\ UNCHANGED <<ent, start, work, round>>

-----------------------------------------------------------------------------
(* apply_mapped_feature_plan.                                              *)

\* patch_presentation_lists: whoever held a removed style gets all new ones.
Replaced(e, remove, add) ==
    [n \in DOMAIN e |->
        IF n \in OfKind(e, {"presentation", "layer"}) /\ ToSet(e[n].items) \cap remove # {}
        THEN [e[n] EXCEPT !.items = SelectSeq(@, LAMBDA m : m \notin remove) \o add]
        ELSE e[n]]

\* append_presentation_items_with_anchors: next to the container's styles.
\* (Slip: nobody gets them.)
NotAppended(e, anchors, add) == e
Appended(e, anchors, add) ==
    [n \in DOMAIN e |->
        IF n \in OfKind(e, {"presentation", "layer"}) /\ ToSet(e[n].items) \cap anchors # {}
        THEN [e[n] EXCEPT !.items = @ \o add]
        ELSE e[n]]

\* The closed first member: its cap is the host seen from below.  Ids from base on.
\* (Slip: the cap looks the way the host does.)
SourceWithUnflippedCap(e, p, base) ==
    LET host == e[p.host]
        bound == e[p.members[1].bounds[p.host]]
    IN  (base :> [kind |-> "bound", outer |-> TRUE, loop |-> bound.loop, forward |-> bound.forward])
        @@ ((base + 1) :> [kind |-> "face", on |-> host.on, bounds |-> {base}, sense |-> host.sense])
        @@ ((base + 2) :> [kind |-> "shell", closed |-> TRUE,
                           faces |-> p.members[1].faces \cup {base + 1}])
        @@ ((base + 3) :> [kind |-> "solid", shell |-> base + 2])
        @@ ((base + 4) :> [kind |-> "brep", items |-> <<base + 3>>,
                           context |-> e[p.context.rep].context])
        @@ ((base + 5) :> [kind |-> "map", rep |-> base + 4])
Source(e, p, base) ==
    LET host == e[p.host]
        bound == e[p.members[1].bounds[p.host]]
    IN  (base :> [kind |-> "bound", outer |-> TRUE, loop |-> bound.loop, forward |-> ~bound.forward])
        @@ ((base + 1) :> [kind |-> "face", on |-> host.on, bounds |-> {base}, sense |-> ~host.sense])
        @@ ((base + 2) :> [kind |-> "shell", closed |-> TRUE,
                           faces |-> p.members[1].faces \cup {base + 1}])
        @@ ((base + 3) :> [kind |-> "solid", shell |-> base + 2])
        @@ ((base + 4) :> [kind |-> "brep", items |-> <<base + 3>>,
                           context |-> e[p.context.rep].context])
        @@ ((base + 5) :> [kind |-> "map", rep |-> base + 4])

\* The place of a member: what carries the first one onto it.
\* (Slip: the other way round.)
MappedBackwards(p, k, map) ==
    LET first == p.members[1]
        quarter == (p.members[k].quarter + 4 - first.quarter) % 4
    IN  [kind |-> "mapped", map |-> map, turn |-> quarter,
         at |-> Translation(first.centre, p.members[k].centre, quarter)]
Mapped(p, k, map) ==
    LET first == p.members[1]
        quarter == (first.quarter + 4 - p.members[k].quarter) % 4
    IN  [kind |-> "mapped", map |-> map, turn |-> quarter,
         at |-> Translation(first.centre, p.members[k].centre, quarter)]

\* The styles of a mapped item: the faces' look, or one for each of the container.
LooksFor(e, p) ==
    CASE p.key[1] = "face" -> <<p.key[2]>>
      [] p.key[1] = "container" ->
            LET styles == InOrder(StylesOf(e, p.context.container))
            IN  [j \in DOMAIN styles |-> e[styles[j]].looks]
      [] OTHER -> <<>>

Before(p, q) ==
    \/ p.host < q.host
    \/ p.host = q.host /\ Min(p.members[1].faces) <= Min(q.members[1].faces)

EmitFamily ==
    /\ step = "emit" /\ todo # {}
    /\ \E p \in {q \in todo : \A r \in todo : Before(q, r)} :
       \E base \in {Max(DOMAIN ent) + 1} :
       \E looks \in {LooksFor(ent, p)} :
        LET n == Len(p.members)
            mapped == [k \in 1 .. n |-> base + 5 + k]
            styles == [i \in 1 .. n * Len(looks) |-> base + 5 + n + i]
            new == Source(ent, p, base)
                   @@ [x \in ToSet(mapped) |-> Mapped(p, x - base - 5, base + 5)]
                   @@ [x \in ToSet(styles) |->
                        LET i == x - base - 6 - n
                        IN  [kind |-> "style", of |-> mapped[(i \div Len(looks)) + 1],
                             looks |-> looks[(i % Len(looks)) + 1]]]
            faces == UNION {p.members[k].faces : k \in 1 .. n}
            bounds == {p.members[k].bounds[p.host] : k \in 1 .. n}
            old == IF p.key[1] = "face" THEN UNION {StylesOf(ent, f) : f \in faces} ELSE {}
            listed == IF old # {} THEN Replaced(ent, old, styles)
                      ELSE IF p.key[1] = "container"
                           THEN Appended(ent, StylesOf(ent, p.context.container), styles)
                           ELSE ent
        IN  /\ work.host \subseteq {<<p.context, p.host>>}
            /\ ent' = new @@ listed
            /\ work' = [work EXCEPT
                    !.roots = @ \cup faces \cup bounds \cup old,
                    !.delete = @ \cup bounds \cup old \cup (faces \ p.members[1].faces),
                    !.host = {<<p.context, p.host>>}, !.mapped = @ \o mapped,
                    !.faces = @ \cup faces, !.bounds = @ \cup bounds]
            /\ todo' = todo \ {p}
    /\ UNCHANGED <<start, step, round>>

\* What is to be deleted is unhooked from the shell and the host before it is collected;
\* the instances are listed.
\* (Slip: the host keeps the bounds of the features.)
UnhookedFromShell(e, h) ==
    [e EXCEPT ![h[1].shell].faces = @ \ work.faces, ![h[1].rep].items = @ \o work.mapped]
Unhooked(e, h) ==
    [e EXCEPT ![h[1].shell].faces = @ \ work.faces,
              ![h[2]].bounds = @ \ work.bounds,
              ![h[1].rep].items = @ \o work.mapped]

\* All families of the host are emitted: the shell, the host and the representation.
FinishHost ==
    /\ step = "emit"
    /\ \E h \in work.host :
        /\ \A p \in todo : <<p.context, p.host>> # h
        /\ ent' = Unhooked(ent, h)
    /\ work' = [work EXCEPT !.host = {}, !.mapped = <<>>, !.faces = {}, !.bounds = {}]
    /\ UNCHANGED <<start, step, todo, round>>

\* collect_detached_feature_entities: the seeds go, and what nobody uses then.
\* (Slips: only the seeds; a candidate goes with its first parent.)
DeletedSeeds(e) == work.delete
DeletedWithAParent(e) == Descendants(e, work.delete)
Deleted(e) ==
    LET candidates == Descendants(e, work.roots)
        parents == [n \in candidates |-> {m \in DOMAIN e : n \in Refs(e[m])}]
        gone[k \in 0 .. 6] ==
            IF k = 0 THEN work.delete
            ELSE LET dead == gone[k - 1]
                 IN  dead \cup {n \in candidates : parents[n] \subseteq dead}
    IN  gone[6]

Collect ==
    /\ step = "emit" /\ todo = {} /\ work.host = {}
    /\ \E dead \in {Deleted(ent)} : ent' = Restrict(ent, DOMAIN ent \ dead)
    /\ step' = "done"
    /\ UNCHANGED <<start, todo, work, round>>

\* The output is cleaned once more.
RunAgain ==
    /\ step = "done" /\ round = 1
    /\ round' = 2 /\ start' = ent /\ step' = "start" /\ work' = Clean
    /\ UNCHANGED <<ent, todo>>

Init ==
    /\ ent \in Files /\ start = ent
    /\ step = "start" /\ todo = {} /\ work = Clean /\ round = 1

Next == Plan \/ EmitFamily \/ FinishHost \/ Collect \/ RunAgain

Spec == Init /\ [][Next]_vars

-----------------------------------------------------------------------------
(* Properties.                                                             *)

TypeOK ==
    /\ \A n \in DOMAIN ent : Refs(ent[n]) \subseteq Nat
    /\ step \in {"start", "emit", "done", "failed"} /\ round \in 1 .. 2
    /\ \A p \in todo : Len(p.members) >= MinGroup /\ p.key[1] \in {"face", "container", "none"}
    /\ (work.roots \cup work.delete \cup work.faces \cup work.bounds) \subseteq Nat

\* What the file shows: the cells inside some solid, and the flat faces between inside and
\* outside with their looks.  A mapped item shows its source, with its own looks if it has
\* some.
MappedSources(e) == {e[m].rep : m \in OfKind(e, {"map"})}
LooksOf(e, n) == {e[s].looks : s \in StylesOf(e, n)}
SolidsIn(e, r) == {n \in ToSet(e[r].items) : e[n].kind \in {"solid", "shells"}}
MappedIn(e, r) == {n \in ToSet(e[r].items) : e[n].kind = "mapped"}

ShownBySolid(e, n) ==
    LET faces == UNION {e[s].faces : s \in ShellsOf(e, n)}
    IN  [cells |-> RegionOfFaces(e, faces),
         lids |-> UNION {{<<<<a[1], a[2], l.z>>,
                            IF LooksOf(e, l.face) # {} THEN LooksOf(e, l.face) ELSE LooksOf(e, n)>>
                            : a \in l.area} : l \in Lids(e, faces)}]
Carried(e, m, shown) ==
    LET Place(p) == Plus(Turned(e[m].turn, p), e[m].at)
    IN  [cells |-> {Place(c) : c \in shown.cells},
         lids |-> {<<Place(l[1]), IF LooksOf(e, m) # {} THEN LooksOf(e, m) ELSE l[2]>>
                        : l \in shown.lids}]
Together(all) == [cells |-> UNION {x.cells : x \in all}, lids |-> UNION {x.lids : x \in all}]

Scene(e) ==
    LET reps == OfKind(e, {"brep", "surfaces"})
        shown[k \in 0 .. 2] ==
            [r \in reps |->
                Together({ShownBySolid(e, n) : n \in SolidsIn(e, r)}
                         \cup (IF k = 0 THEN {}
                               ELSE LET inner == shown[k - 1] IN
                                    {Carried(e, m, inner[e[e[m].map].rep]) : m \in MappedIn(e, r)}))]
        outer == shown[2]
        all == Together({outer[r] : r \in reps \ MappedSources(e)})
        Above(p) == <<p[1], p[2], p[3] + 1>>
        Below(p) == <<p[1], p[2], p[3] - 1>>
    IN  [cells |-> all.cells,
         lids |-> {l \in all.lids : (Above(l[1]) \in all.cells) # (Below(l[1]) \in all.cells)}]

\* The pass moves bosses into instances; where there was material there still is, and what
\* could be seen looks as it did (README: "This representation preserves the occupied
\* union").  Every solid it leaves or makes encloses each place once.
SceneIsKept ==
    step \in {"done", "failed"} =>
        /\ Scene(ent) = Scene(start)
        /\ \A s \in OfKind(ent, {"shell"}) : IsProper(ent, ent[s].faces)

\* After the deletion no entity refers to one that is gone, and none is there that has
\* lost its last user (debug_assert in propagate_detached).
Users(e, n) == {m \in DOMAIN e : n \in Refs(e[m])}
NothingDangles == step \in {"done", "failed"} => \A n \in DOMAIN ent : Refs(ent[n]) \subseteq DOMAIN ent
NothingIsLeft ==
    step \in {"done", "failed"} =>
        {n \in DOMAIN ent : Users(ent, n) = {}} \subseteq {n \in DOMAIN start : Users(start, n) = {}}

\* "The output is byte-idempotent after all applicable aggressive passes have run."
SecondRunChangesNothing == round = 2 /\ step \in {"done", "failed"} => ent = start

=============================================================================
