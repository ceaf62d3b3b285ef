---------------------------- MODULE MCBodyMerge ----------------------------
(***************************************************************************)
(* BodyMerge for TLC: bodies one level high, standing on each other or     *)
(* apart, with every order of their ids.                                   *)
(***************************************************************************)
EXTENDS BodyMerge

\* Profiles, counterclockwise, as corners with the trace to the next one: half a disk,
\* the other half, a disk with a split rim, a disk with a closed one.
South == <<<<"p", "south">>, <<"q", "straight">>>>
North == <<<<"p", "straight">>, <<"q", "north">>>>
Split == <<<<"p", "south">>, <<"q", "north">>>>
Disk == <<<<"p", "circle">>>>

None == ""    \* no style

\* A body: the base of its ids, its level and profile; do its curves run against the
\* profile; the body whose side supports it uses; the styles of the solid, of the upper
\* face and of the sides.
Body(base, z) ==
    [base |-> base, z |-> z, profile |-> South, flip |-> FALSE, side |-> base,
     look |-> "red", top |-> None, sides |-> None, bound |-> TRUE]

Solid(b) == b.base + 71
Side(b, i) == b.base + 61 + i
StylesIn(b) ==
    (IF b.look = None THEN {} ELSE {<<72, Solid(b), b.look>>})
    \cup (IF b.top = None THEN {} ELSE {<<73, b.base + 61, b.top>>})
    \cup (IF b.sides = None THEN {}
          ELSE {<<73 + i, Side(b, i), b.sides>> : i \in DOMAIN b.profile})

\* A body's entities as pairs of id and entity.
Entities(b) ==
    LET n == Len(b.profile)
        I == DOMAIN b.profile
        Succ1(i) == (i % n) + 1
        Corner(k, i) == b.base + 10 * k + i
        Rim(k, i) == b.base + 20 + 10 * k + i
        Riser(i) == b.base + 40 + i
        Use(edge, forward) == [edge |-> edge, forward |-> forward]
        Face(support, sense, bound, loop) ==
            [kind |-> "face", support |-> support, sense |-> sense, bound |-> bound, loop |-> loop]
        Vertex(k, i) == [kind |-> "vertex", at |-> <<b.profile[i][1], b.z + k>>]
        Curve(k, i) ==
            [kind |-> "edge", trace |-> b.profile[i][2], turn |-> ~b.flip,
             ends |-> IF b.flip THEN <<Corner(k, Succ1(i)), Corner(k, i)>>
                      ELSE <<Corner(k, i), Corner(k, Succ1(i))>>]
        Rise(i) == [kind |-> "edge", trace |-> "riser", turn |-> TRUE,
                    ends |-> <<Corner(0, i), Corner(1, i)>>]
        Level(k) == [kind |-> "plane", at |-> <<"level", b.z + k>>, up |-> TRUE]
        \* The two halves of a split rim have one cylinder.
        SideSupport(i) == b.side + 51 + IF b.profile = Split THEN 1 ELSE i
        Support(i) == [kind |-> IF b.profile[i][2] = "straight" THEN "plane" ELSE "cylinder",
                       at |-> <<b.profile[i][2], 0>>, up |-> TRUE]
        Lower == Face(b.base + 50, FALSE, TRUE, [i \in I |-> Use(Rim(0, n + 1 - i), b.flip)])
        Upper == Face(b.base + 51, TRUE, TRUE, [i \in I |-> Use(Rim(1, i), ~b.flip)])
        Lateral(i) ==
            Face(SideSupport(i), TRUE, b.bound,
                 <<Use(Rim(0, i), ~b.flip), Use(Riser(Succ1(i)), TRUE),
                   Use(Rim(1, i), b.flip), Use(Riser(i), FALSE)>>)
        faces == {b.base + 60, b.base + 61} \cup {Side(b, i) : i \in I}
    IN  UNION {{<<Corner(k, i), Vertex(k, i)>>, <<Rim(k, i), Curve(k, i)>>,
                <<Riser(i), Rise(i)>>, <<b.base + 50 + k, Level(k)>>,
                <<SideSupport(i), Support(i)>>, <<Side(b, i), Lateral(i)>>} :
                  k \in 0 .. 1, i \in I}
        \cup {<<b.base + 60, Lower>>, <<b.base + 61, Upper>>,
              <<b.base + 70, [kind |-> "shell", faces |-> faces]>>,
              <<Solid(b), [kind |-> "solid", shell |-> b.base + 70]>>}
        \cup {<<b.base + s[1], [kind |-> "style", item |-> s[2], look |-> s[3]]>> :
                  s \in StylesIn(b)}

\* A file of bodies; extras are lists and users besides the presentation of all styles
\* and the representation of all solids.
File(bodies, extras) ==
    LET solids == {Solid(b) : b \in bodies}
        styles == UNION {{b.base + s[1] : s \in StylesIn(b)} : b \in bodies}
        pairs == UNION {Entities(b) : b \in bodies} \cup extras
                 \cup {<<1, [kind |-> "representation", items |-> solids]>>,
                       <<2, [kind |-> "presentation", items |-> styles]>>}
    IN  [n \in {x[1] : x \in pairs} |-> (CHOOSE x \in pairs : x[1] = n)[2]]

\* A layer with a body's style, a user of one of its side faces, a second representation.
Extra(kind, b, solids) ==
    CASE kind = "layer" -> {<<3, [kind |-> kind, items |-> {b.base + 72}]>>}
      [] kind = "usage" -> {<<3, [kind |-> kind, item |-> Side(b, 1)]>>}
      [] kind = "representation" -> {<<3, [kind |-> kind, items |-> solids]>>}
      [] OTHER -> {}

\* Two bodies on each other, one of them with the side supports of the other or not,
\* styled in all ways, in and out of a layer; a user may hold on to a face.
TwoHigh ==
    {LET low == [Body(x[1], 0) EXCEPT !.flip = f, !.top = top, !.sides = sides]
         high == [Body(x[2], 1) EXCEPT !.look = look, !.side = side, !.sides = s2]
     IN  File({low, high}, Extra(extra, low, {Solid(low), Solid(high)})) :
        x \in {<<100, 200>>, <<200, 100>>}, f \in BOOLEAN, top \in {None, "red"},
        sides \in {None, "blue"}, s2 \in {None, "blue"}, side \in {100, 200},
        look \in {"red", "blue", None},
        extra \in {"none", "layer", "usage", "representation"}}

\* Three on each other, the ids in every order, the curves in all directions; the
\* uppermost may look different, or have bounds that coalescing passes by.
ThreeHigh ==
    {File({[Body(x[1], 0) EXCEPT !.flip = f[1], !.side = 100],
           [Body(x[2], 1) EXCEPT !.flip = f[2], !.side = 100],
           [Body(x[3], 2) EXCEPT !.flip = f[3], !.side = 100, !.look = look, !.bound = bound]}, {}) :
        x \in {y \in [1 .. 3 -> {100, 200, 300}] : IsInjective(y)},
        f \in [1 .. 3 -> BOOLEAN], look \in {"red", "blue"}, bound \in BOOLEAN}

\* Two in one place, with or without one below; the ids in two orders.
Copies ==
    {File({Body(x[1], 1), [Body(x[2], 1) EXCEPT !.flip = f]} \cup low, {}) :
        x \in {<<100, 200>>, <<200, 100>>}, f \in BOOLEAN, low \in {{}, {Body(300, 0)}}}

\* Two stacks, the profile of the second with or without a split rim: one seam in doubt.
TwoStacks ==
    {File({Body(x[1], 0), Body(x[2], 1), [Body(x[3], 5) EXCEPT !.profile = p],
           [Body(x[4], 6) EXCEPT !.profile = p]}, {}) :
        x \in {<<100, 200, 300, 400>>, <<100, 300, 200, 400>>, <<400, 300, 200, 100>>},
        p \in {South, North, Split}}

MCInputs == TwoHigh \cup ThreeHigh \cup Copies \cup TwoStacks

MCAllowedSets == {{"plane"}, {"plane", "cylinder"}}

\* Round profiles that the keys of the partition cannot tell apart: the two halves of a
\* disk, and disks whose closed rims have one vertex.
RoundInputs ==
    {File({[Body(x[1], 0) EXCEPT !.profile = p, !.flip = f],
           [Body(x[2], 1) EXCEPT !.profile = IF p = Disk THEN Disk ELSE North]}, {}) :
        x \in {<<100, 200>>, <<200, 100>>}, f \in BOOLEAN, p \in {South, Disk}}
=============================================================================
