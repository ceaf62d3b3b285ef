----------------------------- MODULE Instancing -----------------------------
(***************************************************************************)
(* instances.rs: equal solids of a representation become instances of one. *)
(*                                                                         *)
(*   mapped    the first solid of a family moves into a representation of  *)
(*             its own, every member becomes a MAPPED_ITEM of it with the  *)
(*             member's place, and what only the others used is deleted;   *)
(*   assembly  the same, and then the mapped items become occurrences of a *)
(*             product, or the file is put back as it was.                 *)
(*                                                                         *)
(* A shape stands for the rotation-invariant key of a solid, a solid for   *)
(* its root with the shell, a place is a centre on a grid with a number of *)
(* quarter turns.  Axes, points and directions are folded into the mapped  *)
(* item or the occurrence that has them, a product definition with its     *)
(* shape and contexts is one entity, and so is an occurrence with its      *)
(* relationship and its transformation.                                    *)
(***************************************************************************)
EXTENDS Integers, SequencesExt

CONSTANTS
    Files,   \* [mode -> the sections it is run on: functions from ids to entities]
    Period,  \* a shape looks the same after this many quarter turns: 1, 2 or 4
    Corners  \* the number of vertices of a shape

VARIABLES
    ent,      \* the section
    start,    \* the section when the pass began; the assembly pass rolls back to it
    mode,
    step,
    todo,     \* the representations still to look at: representation_ids
    families, \* of the first of them, the families still to emit
    work,     \* what the pass collects on its way
    round     \* the first run, or the second on its output

vars == <<ent, start, mode, step, todo, families, work, round>>

-----------------------------------------------------------------------------
(* Entities.                                                               *)

OfKind(e, kinds) == {n \in DOMAIN e : e[n].kind \in kinds}

Refs(x) ==
    CASE x.kind = "solid" -> x.faces
      [] x.kind = "face" -> {x.on}
      [] x.kind \in {"style", "note"} -> {x.of}
      [] x.kind \in {"brep", "shape", "presentation", "layer"} -> ToSet(x.items)
      [] x.kind = "map" -> {x.rep}
      [] x.kind = "mapped" -> {x.map}
      [] x.kind = "sdr" -> {x.product, x.rep}
      [] x.kind = "use" -> {x.parent, x.child, x.rep, x.within}
      [] OTHER -> {}

\* What an entity of a section is like.
Fits(e, x) ==
    /\ "kind" \in DOMAIN x
    /\ x.kind \in {"solid", "face", "value", "style", "note", "brep", "shape", "presentation",
                   "layer", "map", "mapped", "product", "sdr", "use"}
    /\ x.kind = "solid" => /\ x.faces \subseteq OfKind(e, {"face"})
                           /\ x.shape \in DOMAIN Period /\ x.turn \in 0 .. 3
    /\ x.kind = "face" => x.on \in OfKind(e, {"value"})
    /\ x.kind = "style" => /\ {"of", "look"} \subseteq DOMAIN x
                           /\ x.of \in OfKind(e, {"solid", "face", "mapped"})
    /\ x.kind = "note" => x.of \in OfKind(e, {"solid", "face", "value"})
    /\ x.kind \in {"brep", "shape"} =>
          "items" \in DOMAIN x /\ x.items \in Seq(OfKind(e, {"solid", "mapped"}))
    /\ x.kind = "brep" => "source" \in DOMAIN x /\ x.source \in BOOLEAN
    /\ x.kind \in {"presentation", "layer"} =>
          "items" \in DOMAIN x /\ x.items \in Seq(OfKind(e, {"style"}))
    /\ x.kind = "map" => x.rep \in OfKind(e, {"brep"})
    /\ x.kind = "mapped" => x.map \in OfKind(e, {"map"})
    /\ x.kind = "product" => x.complete \in BOOLEAN
    /\ x.kind = "sdr" => /\ {"product", "rep"} \subseteq DOMAIN x
                         /\ x.product \in OfKind(e, {"product"})
                         /\ x.rep \in OfKind(e, {"brep", "shape"})
    /\ x.kind = "use" => /\ {x.parent, x.child} \subseteq OfKind(e, {"product"})
                         /\ x.rep \in OfKind(e, {"brep"}) /\ x.within \in OfKind(e, {"shape"})

Whole(e) ==
    /\ DOMAIN e \subseteq Nat /\ IsFiniteSet(DOMAIN e)
    /\ \A n \in DOMAIN e : Fits(e, e[n])

Parents(e, n) == {m \in DOMAIN e : n \in Refs(e[m])}

\* The files have no assembly yet, and every style is in a presentation or in a layer.
InstancingAssumption ==
    /\ DOMAIN Files \subseteq {"mapped", "assembly"}
    /\ \A m \in DOMAIN Files : \A e \in Files[m] :
          /\ Whole(e) /\ OfKind(e, {"map", "mapped", "use"}) = {}
          /\ \A r \in OfKind(e, {"brep"}) : ~ e[r].source
          /\ \A s \in OfKind(e, {"style"}) : Parents(e, s) # {}
    /\ \A shape \in DOMAIN Period : Period[shape] \in {1, 2, 4}

\* An entity alone, and a section with new or changed entities.
Alone(id, x) == [n \in {id} |-> x]
With(e, new) ==
    [n \in DOMAIN e \cup DOMAIN new |-> IF n \in DOMAIN new THEN new[n] ELSE e[n]]

\* closure_from: a solid, its faces and what they lie on.
Closure(e, n) == {n} \cup Refs(e[n]) \cup UNION {Refs(e[m]) : m \in Refs(e[n])}

\* collect_styles_by_target.
StylesOf(e, n) == {s \in OfKind(e, {"style"}) : e[s].of = n}
Looks(e, n) == {e[s].look : s \in StylesOf(e, n)}

Add(p, q) == <<p[1] + q[1], p[2] + q[2]>>
Minus(p, q) == <<p[1] - q[1], p[2] - q[2]>>

\* rotate_quarter_xy.
Rotate(q, p) ==
    CASE q = 0 -> p [] q = 1 -> <<-p[2], p[1]>>
      [] q = 2 -> <<-p[1], -p[2]>> [] q = 3 -> <<p[2], -p[1]>>

\* rigid_translation.
\* (Slip: the source is not turned about the origin.)
UnturnedTranslation(from, to, q) == Minus(to, from)
Translation(from, to, q) == Minus(to, Rotate(q, from))

\* The items of a list without some of them.
Without(items, gone) ==
    FlattenSeq([i \in DOMAIN items |-> IF items[i] \in gone THEN <<>> ELSE <<items[i]>>])

Swapped(items, by) == [i \in DOMAIN items |-> IF items[i] \in DOMAIN by THEN by[items[i]]
                                                                       ELSE items[i]]

-----------------------------------------------------------------------------
(* Which solids are copies of each other.                                  *)

\* analyze_solid: every face has one style, and all of them have the same.
\* (Slip: the faces are styled, but in different ways.)
AnalyzedInAnyLook(e, s) ==
    /\ Corners[e[s].shape] >= 4
    /\ \A f \in e[s].faces : Cardinality(StylesOf(e, f)) = 1
Analyzed(e, s) ==
    /\ Corners[e[s].shape] >= 4
    /\ \A f \in e[s].faces : Cardinality(StylesOf(e, f)) = 1
    /\ Cardinality(UNION {Looks(e, f) : f \in e[s].faces}) = 1

Look(e, s) == CHOOSE l \in UNION {Looks(e, f) : f \in e[s].faces} : TRUE

\* unique_relative_quarter: the turns that carry one solid onto another, up to its place.
Quarters(e, s, t) ==
    {q \in 0 .. 3 : (e[s].turn + q - e[t].turn) % Period[e[s].shape] = 0}
Quarter(e, s, t) == Min(Quarters(e, s, t))

Solids(e, rep) == ToSet(e[rep].items) \cap OfKind(e, {"solid"})

\* has_z90_candidate_representation.
HasCandidate(e) == \E r \in OfKind(e, {"brep"}) : Cardinality(Solids(e, r)) >= 3

\* The solids of one key and one look.
\* (Slips: the look is not compared; only neighbours are, as if nobody had sorted.)
GroupInAnyLook(e, known, s) == {t \in known : e[s].shape = e[t].shape}
GroupOfNeighbours(e, known, s) ==
    {t \in known : \A u \in known \cap (Min({s, t}) .. Max({s, t})) :
        e[s].shape = e[u].shape /\ Look(e, s) = Look(e, u)}
Group(e, known, s) == {t \in known : e[s].shape = e[t].shape /\ Look(e, s) = Look(e, t)}

\* The families of a representation, without the members that more than one turn carries
\* onto the first.
Families(e, rep) ==
    LET known == {s \in Solids(e, rep) : Analyzed(e, s)}
        Proved(g) == {t \in g : t = Min(g) \/ Cardinality(Quarters(e, Min(g), t)) = 1}
    IN  IF Cardinality(Solids(e, rep)) < 3 THEN {}
        ELSE {f \in {Proved(Group(e, known, s)) : s \in known} : Cardinality(f) >= 2}

-----------------------------------------------------------------------------
(* instance_z90_solids.                                                    *)

Clean == [candidates |-> {}, duplicates |-> {}, oldStyles |-> {}, newStyles |-> <<>>,
          target |-> <<>>, sources |-> {}]

\* The members of a set of numbers in ascending order.
InOrder(S) ==
    [k \in 1 .. Cardinality(S) |-> CHOOSE n \in S : Cardinality({m \in S : m < n}) = k - 1]

Start ==
    /\ step = "start"
    /\ mode = "mapped" \/ HasCandidate(ent)
    /\ step' = "next" /\ todo' = InOrder(OfKind(ent, {"brep"}))
    /\ work' = Clean
    /\ UNCHANGED <<ent, start, mode, families, round>>

NothingToDo ==
    /\ step = "start" /\ mode = "assembly" /\ ~HasCandidate(ent)
    /\ step' = "done"
    /\ UNCHANGED <<ent, start, mode, todo, families, work, round>>

\* The next representation of those that were there before the pass.
NextRepresentation ==
    /\ step = "next" /\ todo # <<>>
    /\ families' = Families(ent, Head(todo))
    /\ step' = "emit"
    /\ UNCHANGED <<ent, start, mode, todo, work, round>>

\* The family with the smallest root: its source, its map, and a mapped item with a
\* style for every member, the first one too.
EmitFamily ==
    LET family == CHOOSE f \in families : \A g \in families : Min(f) <= Min(g)
        first == Min(family)
        source == Max(DOMAIN ent) + 1
        map == source + 1
        Mapped(s) == map + 1 + 2 * Cardinality({t \in family : t < s})
        mapped == [s \in family |-> Mapped(s)]
        member == [m \in {Mapped(s) : s \in family} |-> CHOOSE s \in family : Mapped(s) = m]
        Item(s) == LET q == Quarter(ent, first, s) IN
            [kind |-> "mapped", map |-> map, turn |-> q,
             at |-> Translation(ent[first].at, ent[s].at, q)]
        rep == Head(todo)
        candidates == work.candidates
                      \cup UNION {Closure(ent, s) : s \in family \ {first}}
    IN  /\ step = "emit" /\ families # {}
        /\ ent' = With(With(With(With(
                     [ent EXCEPT ![rep].items = Swapped(@, mapped)],
                     Alone(source, [kind |-> "brep", source |-> TRUE, items |-> <<first>>])),
                     Alone(map, [kind |-> "map", rep |-> source])),
                     [m \in DOMAIN member |-> Item(member[m])]),
                     [s \in {m + 1 : m \in DOMAIN member} |->
                        [kind |-> "style", of |-> s - 1, look |-> Look(ent, first)]])
        /\ families' = families \ {family}
        /\ work' = [candidates |-> candidates,
                    duplicates |-> work.duplicates \cup (family \ {first}),
                    oldStyles |-> work.oldStyles
                                  \cup {s \in OfKind(ent, {"style"}) : ent[s].of \in candidates},
                    newStyles |-> work.newStyles \o InOrder({m + 1 : m \in DOMAIN member}),
                    target |-> With(work.target, mapped),
                    sources |-> work.sources \cup {source}]
        /\ UNCHANGED <<start, mode, step, todo, round>>

EndRepresentation ==
    /\ step = "emit" /\ families = {}
    /\ todo' = Tail(todo) /\ step' = "next"
    /\ UNCHANGED <<ent, start, mode, families, work, round>>

NoFamilies ==
    /\ step = "next" /\ todo = <<>> /\ work.sources = {}
    /\ step' = "done"
    /\ UNCHANGED <<ent, start, mode, todo, families, work, round>>

\* retarget_shape_representation_items.
\* (Slip: only the items of B-rep representations.)
RetargetedBreps(e) ==
    [n \in DOMAIN e |->
        IF n \in OfKind(e, {"brep"}) \ work.sources
        THEN [e[n] EXCEPT !.items = Swapped(@, work.target)] ELSE e[n]]
Retargeted(e) ==
    [n \in DOMAIN e |->
        IF n \in OfKind(e, {"brep", "shape"}) \ work.sources
        THEN [e[n] EXCEPT !.items = Swapped(@, work.target)] ELSE e[n]]

Retarget ==
    /\ step = "next" /\ todo = <<>> /\ work.sources # {}
    /\ ent' = Retargeted(ent)
    /\ step' = "lists"
    /\ UNCHANGED <<start, mode, todo, families, work, round>>

\* patch_presentation_lists: whoever held a removed style gets all new ones.
\* (Slip: nobody gets them.)
PatchedRemoving(e, remove, add) ==
    [n \in DOMAIN e |->
        IF n \in OfKind(e, {"presentation", "layer"}) /\ ToSet(e[n].items) \cap remove # {}
        THEN [e[n] EXCEPT !.items = Without(@, remove)]
        ELSE e[n]]
Patched(e, remove, add) ==
    [n \in DOMAIN e |->
        IF n \in OfKind(e, {"presentation", "layer"}) /\ ToSet(e[n].items) \cap remove # {}
        THEN [e[n] EXCEPT !.items = Without(@, remove) \o add]
        ELSE e[n]]

PatchLists ==
    /\ step = "lists"
    /\ ent' = Patched(ent, work.oldStyles, work.newStyles)
    /\ step' = "collect"
    /\ UNCHANGED <<start, mode, todo, families, work, round>>

\* The fixed point of the guarded collection, which goes down from the duplicates and
\* the old styles and passes nobody whom a living entity still uses.
\* (Slips: a candidate goes with its first parent; the duplicates go in any case.)
DeletedWithAParent(e) ==
    LET seeds == work.duplicates \cup work.oldStyles
        candidates == work.candidates \cup work.oldStyles
        gone[k \in 0 .. 4] ==
            IF k = 0 THEN {}
            ELSE LET dead == gone[k - 1]
                 IN  dead \cup {n \in candidates : \/ n \in seeds /\ Parents(e, n) \subseteq dead
                                                   \/ Parents(e, n) \cap dead # {}}
    IN  gone[4]
DeletedSeedsOnly(e) ==
    {n \in work.duplicates \cup work.oldStyles : Parents(e, n) = {}}
Deleted(e) ==
    LET seeds == work.duplicates \cup work.oldStyles
        candidates == work.candidates \cup work.oldStyles
        gone[k \in 0 .. 4] ==
            IF k = 0 THEN {}
            ELSE LET dead == gone[k - 1]
                 IN  dead \cup {n \in candidates : /\ Parents(e, n) \subseteq dead
                                                   /\ n \in seeds \/ Parents(e, n) # {}}
    IN  gone[4]

Collect ==
    /\ step = "collect"
    /\ ent' = Restrict(ent, DOMAIN ent \ Deleted(ent))
    /\ step' = IF mode = "mapped" THEN "done" ELSE "convert"
    /\ UNCHANGED <<start, mode, todo, families, work, round>>

-----------------------------------------------------------------------------
(* AssemblyPlan.                                                           *)

\* discover_instance_source_representations, .._representation_maps, .._mapped_items.
Sources(e) == {r \in OfKind(e, {"brep"}) : e[r].source}
Maps(e) == {m \in OfKind(e, {"map"}) : e[m].rep \in Sources(e)}
MappedItems(e) == {m \in OfKind(e, {"mapped"}) : e[m].map \in Maps(e)}
MappedStyles(e) == UNION {StylesOf(e, m) : m \in MappedItems(e)}

\* discover_instance_top_representations.
Tops(e) == {r \in OfKind(e, {"brep"}) \ Sources(e) : ToSet(e[r].items) \cap MappedItems(e) # {}}

\* mapped_items_have_unique_top_owner.
UniqueOwner(e, m) ==
    Cardinality({x \in UNION {{r} \X (DOMAIN e[r].items) : r \in Tops(e)} :
                    e[x[1]].items[x[2]] = m}) = 1

Local(e, top) == ToSet(e[top].items) \cap MappedItems(e)
LocalMaps(e, top) == {e[m].map : m \in Local(e, top)}
Occurrences(e, top, map) == {m \in Local(e, top) : e[m].map = map}

\* discover_assembly_product_context: the representation of one product, whose contexts
\* can all be found.
Definitions(e, top) == {d \in OfKind(e, {"sdr"}) : e[d].rep = top}
HasContext(e, top) ==
    /\ Cardinality(Definitions(e, top)) = 1
    /\ \A d \in Definitions(e, top) : e[e[d].product].complete

\* discover_assembly_family_plan: one solid, and one style for every occurrence.
FamilyIsPlain(e, top, map) ==
    /\ Cardinality(Solids(e, e[map].rep)) = 1
    /\ \A m \in Occurrences(e, top, map) : Cardinality(StylesOf(e, m)) = 1
    /\ Cardinality(UNION {Looks(e, m) : m \in Occurrences(e, top, map)}) = 1

\* AssemblyPlan::discover, discover_assembly_top_plan.
Plannable(e) ==
    /\ Tops(e) # {}
    /\ \A m \in MappedItems(e) : UniqueOwner(e, m)
    /\ \A top \in Tops(e) : /\ HasContext(e, top)
                            /\ \A map \in LocalMaps(e, top) : FamilyIsPlain(e, top, map)

RollBack ==
    /\ step = "convert" /\ ~Plannable(ent)
    /\ ent' = start /\ step' = "done"
    /\ UNCHANGED <<start, mode, todo, families, work, round>>

\* The plan: the representations to convert, and what is to be deleted at the end.
Plan ==
    /\ step = "convert" /\ Plannable(ent)
    /\ todo' = InOrder(Tops(ent))
    /\ work' = [Clean EXCEPT !.candidates = MappedItems(ent)
                                 \cup UNION {LocalMaps(ent, top) : top \in Tops(ent)},
                             !.oldStyles = MappedStyles(ent)]
    /\ step' = "tops"
    /\ UNCHANGED <<ent, start, mode, families, round>>

-----------------------------------------------------------------------------
(* AssemblyEmitter.                                                        *)

Product == [kind |-> "product", complete |-> TRUE]
Still == <<0, 0>>

\* push_child_product and push_assembly_occurrence.
ChildProduct(id, rep) ==
    With(Alone(id, Product), Alone(id + 1, [kind |-> "sdr", product |-> id, rep |-> rep]))
Occurrence(parent, child, rep, root, at, turn) ==
    [kind |-> "use", parent |-> parent, child |-> child, rep |-> rep, within |-> root,
     at |-> at, turn |-> turn]

\* emit_family: the family's solid gets the look of its instances, a product of its own
\* and an occurrence for every mapped item.  Its ids begin at base.
\* (Slip: only a new style has the look, one that is there keeps its own.)
InheritedLook(e, top, map) ==
    CHOOSE l \in UNION {Looks(e, m) : m \in Occurrences(e, top, map)} : TRUE
FirstSolid(e, map) == CHOOSE s \in Solids(e, e[map].rep) : TRUE
Restyled(e, top, map) ==
    [s \in StylesOf(e, FirstSolid(e, map)) |->
        [e[s] EXCEPT !.look = InheritedLook(e, top, map)]]
FamilyEntities(e, top, map, parent, root, base) ==
    LET solid == FirstSolid(e, map)
        occurrences == Occurrences(e, top, map)
        Use(m) == base + 3 + Cardinality({o \in occurrences : o < m})
    IN  With(With(With(
            Restyled(e, top, map),
            IF StylesOf(e, solid) # {} THEN <<>>
            ELSE Alone(base, [kind |-> "style", of |-> solid,
                              look |-> InheritedLook(e, top, map)])),
            ChildProduct(base + 1, e[map].rep)),
            [u \in {Use(m) : m \in occurrences} |->
               LET m == CHOOSE m \in occurrences : Use(m) = u
               IN  Occurrence(parent, base + 1, e[map].rep, root, e[m].at, e[m].turn)])

\* The families' entities one after the other; no family has more occurrences than the
\* representation has mapped items.
FamilyBase(e, top, map, root) ==
    root + 4 + (3 + Cardinality(Local(e, top))) * Cardinality({m \in LocalMaps(e, top) : m < map})
FamilyBlocks(e, top, parent, root) ==
    LET maps == LocalMaps(e, top)
        block == [map \in maps |->
                    FamilyEntities(e, top, map, parent, root, FamilyBase(e, top, map, root))]
    IN  [n \in UNION {DOMAIN block[map] : map \in maps} |->
            LET map == CHOOSE map \in maps : n \in DOMAIN block[map]
            IN  block[map][n]]

\* emit_residual_child: what is left of the representation is an occurrence as well.
\* (Slip: it is forgotten.)
Residual(e, top) == Without(e[top].items, MappedItems(e))
NoResidualChild(e, top, parent, root) == <<>>
ResidualChild(e, top, parent, root) ==
    IF Residual(e, top) = <<>> THEN <<>>
    ELSE With(ChildProduct(root + 1, top),
              Alone(root + 3, Occurrence(parent, root + 1, top, root, Still, 0)))

\* replace_direct_ref_in_simple: the product's shape is the root now.
\* (Slip: it still is what is left.)
NotRedefined(d, root) == d
Redefined(d, root) == [d EXCEPT !.rep = root]

\* emit_top: an empty root, and below it what is left and the families' instances.
TopEntities(e, top) ==
    LET definition == CHOOSE d \in Definitions(e, top) : TRUE
        parent == e[definition].product
        root == Max(DOMAIN e) + 1
    IN  With(With(With(With(
            Alone(top, [e[top] EXCEPT !.items = Residual(e, top)]),
            Alone(root, [kind |-> "shape", items |-> <<>>])),
            Alone(definition, Redefined(e[definition], root))),
            ResidualChild(e, top, parent, root)),
            FamilyBlocks(e, top, parent, root))

EmitTop ==
    LET new == TopEntities(ent, Head(todo))
    IN  /\ step = "tops" /\ todo # <<>>
        /\ ent' = With(ent, new)
        /\ work' = [work EXCEPT !.newStyles =
                       @ \o InOrder({s \in DOMAIN new \ DOMAIN ent : new[s].kind = "style"})]
        /\ todo' = Tail(todo)
        /\ UNCHANGED <<start, mode, step, families, round>>

\* convert_z90_mapped_items_to_assembly, at its end: the mapped items go, whoever uses
\* them.
FinishAssembly ==
    /\ step = "tops" /\ todo = <<>>
    /\ ent' = Restrict(Patched(ent, work.oldStyles, work.newStyles),
                       DOMAIN ent \ (work.candidates \cup work.oldStyles))
    /\ step' = "done"
    /\ UNCHANGED <<start, mode, todo, families, work, round>>

\* The output is cleaned once more.
RunAgain ==
    /\ step = "done" /\ round = 1
    /\ round' = 2 /\ start' = ent /\ step' = "start"
    /\ work' = Clean /\ todo' = <<>>
    /\ UNCHANGED <<ent, mode, families>>

Init ==
    /\ mode \in DOMAIN Files
    /\ ent \in Files[mode] /\ start = ent
    /\ step = "start" /\ todo = <<>> /\ families = {} /\ work = Clean /\ round = 1

Next ==
    \/ Start \/ NothingToDo \/ NextRepresentation \/ EmitFamily \/ EndRepresentation
    \/ NoFamilies \/ Retarget \/ PatchLists \/ Collect
    \/ RollBack \/ Plan \/ EmitTop \/ FinishAssembly
    \/ RunAgain

Spec == Init /\ [][Next]_vars

-----------------------------------------------------------------------------
(* What a reader of the file sees.                                         *)

Presented(e, s) == \E l \in OfKind(e, {"presentation", "layer"}) : s \in ToSet(e[l].items)
Visible(e, n) == {e[s].look : s \in {t \in StylesOf(e, n) : Presented(e, t)}}

\* The looks of a solid: a face's own style comes before the style of the solid.
SolidLook(e, s) ==
    UNION {IF Visible(e, f) # {} THEN Visible(e, f) ELSE Visible(e, s) : f \in e[s].faces}

Placed(x, at, turn) ==
    [x EXCEPT !.at = Add(Rotate(turn, @), at), !.turn = (@ + turn) % 4]

ShownSolid(e, s) == [shape |-> e[s].shape, at |-> e[s].at, turn |-> e[s].turn,
                     look |-> SolidLook(e, s)]
ShownMapped(e, m) ==
    {LET x == Placed(ShownSolid(e, s), e[m].at, e[m].turn)
     IN  IF Visible(e, m) = {} THEN x ELSE [x EXCEPT !.look = Visible(e, m)] :
        s \in Solids(e, e[e[m].map].rep)}

\* What a representation shows, itself and by the occurrences within it.
Items(e, rep) ==
    {ShownSolid(e, s) : s \in Solids(e, rep)}
    \cup UNION {ShownMapped(e, m) : m \in ToSet(e[rep].items) \cap OfKind(e, {"mapped"})}
Shown(e, rep) ==
    Items(e, rep)
    \cup UNION {{Placed(x, e[u].at, e[u].turn) : x \in Items(e, e[u].rep)} :
                   u \in {v \in OfKind(e, {"use"}) : e[v].within = rep}}

\* The products, and the representations no product is defined by.
Views(e) ==
    OfKind(e, {"sdr"})
    \cup {r \in OfKind(e, {"brep", "shape"}) :
             Definitions(e, r) = {} /\ ~\E m \in OfKind(e, {"map"}) : e[m].rep = r}
Seen(e, view) == Shown(e, IF e[view].kind = "sdr" THEN e[view].rep ELSE view)

-----------------------------------------------------------------------------
(* Properties.                                                             *)

TypeOK ==
    /\ Whole(ent)
    /\ mode \in DOMAIN Files /\ round \in 1 .. 2
    /\ step \in {"start", "next", "emit", "lists", "collect", "convert", "tops", "done"}
    /\ work.duplicates \subseteq DOMAIN start
    /\ DOMAIN work.target \subseteq OfKind(start, {"solid"})

\* Every product and every representation of the file shows the same solids as before,
\* at their places and in their looks, whether they became mapped items or occurrences
\* (instance_z90_solids, instance_z90_solids_assembly).
SceneIsKept ==
    step = "done" => \A view \in Views(start) : Seen(ent, view) = Seen(start, view)

\* No entity refers to one that is gone.
NothingDangles == step = "done" => \A n \in DOMAIN ent : Refs(ent[n]) \subseteq DOMAIN ent

\* No entity refers to one that is gone, and nothing that was in use is left over
\* without a user, but for a representation that became all instances and is left empty
\* (the guarded collection; the deletion at the end of the conversion).
NothingDanglesOrIsLeft ==
    /\ NothingDangles
    /\ step = "done" =>
          \A n \in DOMAIN ent :
             Parents(ent, n) = {} =>
                \/ n \in DOMAIN start /\ Parents(start, n) = {}
                \/ ent[n].kind \in {"sdr", "use"}
                \/ ent[n].kind = "brep" /\ ent[n].items = <<>>

\* The assembly pass either leaves the file as it was, or leaves no mapped item, and an
\* occurrence names a product with the shape that its relationship places
\* (convert_z90_mapped_items_to_assembly and its rollback copy).
AssemblyIsWholeOrNothing ==
    step = "done" /\ mode = "assembly" /\ ent # start =>
        /\ MappedItems(ent) = {} /\ Maps(ent) = {}
        /\ \A u \in OfKind(ent, {"use"}) :
              /\ \E d \in OfKind(ent, {"sdr"}) :
                    ent[d].product = ent[u].child /\ ent[d].rep = ent[u].rep
              /\ \E d \in OfKind(ent, {"sdr"}) :
                    ent[d].product = ent[u].parent /\ ent[d].rep = ent[u].within

\* A second run finds nothing to do.
SecondRunChangesNothing == step = "done" /\ round = 2 => ent = start

=============================================================================
