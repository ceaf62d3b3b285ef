------------------------------ MODULE MCRecovery ------------------------------
(***************************************************************************)
(* Files for the recovery: bodies of SampleShells, and bodies given by     *)
(* their polygons, for chamfers, split faces and walls nobody can read.    *)
(* All heights are multiples of four, so that the grid misses the faces.   *)
(***************************************************************************)
EXTENDS CompleteIr, SampleShells

ASSUME RecoveryAssumption == CompleteIrAssumption

-----------------------------------------------------------------------------
(* Sections.                                                               *)

\* A section of bodies: the k-th has the shell 8 + 2k and the solid 9 + 2k.
Section(bodies) ==
    FoldSet(LAMBDA k, e : bodies[k] @@ e, <<>>, DOMAIN bodies)
    @@ [n \in {8 + 2 * k : k \in DOMAIN bodies} |->
            [kind |-> "shell", closed |-> TRUE, faces |-> PartFaces(bodies[(n - 8) \div 2])]]
    @@ [n \in {9 + 2 * k : k \in DOMAIN bodies} |-> [kind |-> "solid", shell |-> n - 1]]
    @@ (1 :> [kind |-> "brep", items |-> [k \in DOMAIN bodies |-> 9 + 2 * k], context |-> 2])
    @@ (2 :> [kind |-> "context"])

\* A block with features that are numbered from i on.
Numbered(i, features) == PartEntities([n \in i .. i + Len(features) - 1 |-> features[n - i + 1]])

-----------------------------------------------------------------------------
(* Bodies from polygons.                                                   *)

\* polygons: [id, normal, loops], the loops with the material on the left, the outer first.
Polygon(id, normal, loops) == [id |-> id, normal |-> normal, loops |-> loops]
EdgesAt(polygons) ==
    UNION {UNION {{<<k, l, j>> : j \in DOMAIN polygons[k].loops[l]} : l \in DOMAIN polygons[k].loops}
             : k \in DOMAIN polygons}
FromPolygons(polygons, marked) ==
    LET at == EdgesAt(polygons)
        From(x) == polygons[x[1]].loops[x[2]][x[3]]
        To(x) == LET loop == polygons[x[1]].loops[x[2]] IN loop[Next1(x[3], Len(loop))]
        Number(x) == 37000 + 100 * x[1] + 20 * x[2] + x[3]
        known == [x \in at |-> <<From(x), To(x)>>]
        first == [x \in at |-> Min({Number(y) : y \in {z \in at : known[z] \in {known[x], <<known[x][2], known[x][1]>>}}})]
        ByEdge(n) == CHOOSE x \in at : Number(x) = n
        ById(n) == CHOOSE k \in DOMAIN polygons : polygons[k].id = n
        loops == UNION {{<<k, l>> : l \in DOMAIN polygons[k].loops} : k \in DOMAIN polygons}
        Loop(n, base) == CHOOSE y \in loops : base + 10 * polygons[y[1]].id + y[2] = n
        Ids(base) == {base + 10 * polygons[y[1]].id + y[2] : y \in loops}
    IN  [n \in {polygons[k].id : k \in DOMAIN polygons} |->
            [kind |-> "face", on |-> 35000 + n, sense |-> TRUE,
             bounds |-> {2000 + 10 * n + l : l \in DOMAIN polygons[ById(n)].loops}]]
        @@ [n \in {35000 + polygons[k].id : k \in DOMAIN polygons} |->
            LET p == polygons[ById(n - 35000)]
            IN  [kind |-> "plane", normal |-> p.normal, at |-> Dot(p.normal, p.loops[1][1])]]
        @@ [n \in Ids(2000) |->
            [kind |-> "bound", outer |-> marked /\ Loop(n, 2000)[2] = 1, loop |-> n + 18000, forward |-> TRUE]]
        @@ [n \in Ids(20000) |->
            LET y == Loop(n, 20000)
            IN  [kind |-> "loop", area |-> {}, uses |-> [j \in DOMAIN polygons[y[1]].loops[y[2]] |->
                    <<first[<<y[1], y[2], j>>], first[<<y[1], y[2], j>>] = Number(<<y[1], y[2], j>>)>>]]]
        @@ [n \in Range(first) |->
            [kind |-> "edge", from |-> From(ByEdge(n)), to |-> To(ByEdge(n)), curve |-> "line"]]

\* A profile in the y-z plane swept along x, from 0 to dx: walls 101.., ends 181 and 182.
\* The profile goes round with the material on its left seen from +x; top is the wall that
\* gets the id 190.
Swept(profile, normals, dx, top) ==
    LET n == Len(profile)
        P(k, x) == <<x, profile[k][1], profile[k][2]>>
        Id(k) == IF k = top THEN 190 ELSE 100 + k
    IN  [k \in 1 .. n |-> Polygon(Id(k), normals[k],
            <<<<P(k, 0), P(Next1(k, n), 0), P(Next1(k, n), dx), P(k, dx)>>>>)]
        \o <<Polygon(181, <<-1, 0, 0>>, <<[k \in 1 .. n |-> P(n + 1 - k, 0)]>>),
             Polygon(182, <<1, 0, 0>>, <<[k \in 1 .. n |-> P(k, dx)]>>)>>

\* A block with a chamfer along x at the top and one along y at the bottom.
TwoChamfers == FromPolygons(<<
    Polygon(190, <<0, 0, 1>>, <<<<<<0, 0, 12>>, <<8, 0, 12>>, <<8, 4, 12>>, <<0, 4, 12>>>>>>),
    Polygon(103, <<0, 1, 1>>, <<<<<<0, 4, 12>>, <<8, 4, 12>>, <<8, 8, 8>>, <<0, 8, 8>>>>>>),
    Polygon(102, <<0, 1, 0>>, <<<<<<0, 8, 0>>, <<0, 8, 8>>, <<8, 8, 8>>, <<8, 8, 4>>, <<4, 8, 0>>>>>>),
    Polygon(105, <<1, 0, -1>>, <<<<<<4, 0, 0>>, <<4, 8, 0>>, <<8, 8, 4>>, <<8, 0, 4>>>>>>),
    Polygon(182, <<1, 0, 0>>, <<<<<<8, 0, 4>>, <<8, 8, 4>>, <<8, 8, 8>>, <<8, 4, 12>>, <<8, 0, 12>>>>>>),
    Polygon(181, <<-1, 0, 0>>, <<<<<<0, 0, 0>>, <<0, 0, 12>>, <<0, 4, 12>>, <<0, 8, 8>>, <<0, 8, 0>>>>>>),
    Polygon(104, <<0, -1, 0>>, <<<<<<0, 0, 0>>, <<4, 0, 0>>, <<8, 0, 4>>, <<8, 0, 12>>, <<0, 0, 12>>>>>>),
    Polygon(191, <<0, 0, -1>>, <<<<<<0, 0, 0>>, <<0, 8, 0>>, <<4, 8, 0>>, <<4, 0, 0>>>>>>)>>, TRUE)

\* A block whose top is two triangles.
SplitTop == FromPolygons(<<
    Polygon(190, <<0, 0, 1>>, <<<<<<0, 0, 8>>, <<8, 0, 8>>, <<8, 8, 8>>>>>>),
    Polygon(103, <<0, 0, 1>>, <<<<<<0, 0, 8>>, <<8, 8, 8>>, <<0, 8, 8>>>>>>),
    Polygon(102, <<0, 1, 0>>, <<<<<<0, 8, 0>>, <<0, 8, 8>>, <<8, 8, 8>>, <<8, 8, 0>>>>>>),
    Polygon(182, <<1, 0, 0>>, <<<<<<8, 0, 0>>, <<8, 8, 0>>, <<8, 8, 8>>, <<8, 0, 8>>>>>>),
    Polygon(181, <<-1, 0, 0>>, <<<<<<0, 0, 0>>, <<0, 0, 8>>, <<0, 8, 8>>, <<0, 8, 0>>>>>>),
    Polygon(104, <<0, -1, 0>>, <<<<<<0, 0, 0>>, <<8, 0, 0>>, <<8, 0, 8>>, <<0, 0, 8>>>>>>),
    Polygon(191, <<0, 0, -1>>, <<<<<<0, 0, 0>>, <<0, 8, 0>>, <<8, 8, 0>>, <<8, 0, 0>>>>>>)>>, TRUE)

\* The same with a foot.
SplitAbove == FromPolygons(<<
    Polygon(190, <<0, 0, 1>>, <<<<<<0, 0, 8>>, <<8, 0, 8>>, <<8, 8, 8>>>>>>),
    Polygon(103, <<0, 0, 1>>, <<<<<<0, 0, 8>>, <<8, 8, 8>>, <<0, 8, 8>>>>>>),
    Polygon(102, <<0, 1, 0>>, <<<<<<0, 8, 0>>, <<0, 8, 8>>, <<8, 8, 8>>, <<8, 8, 0>>>>>>),
    Polygon(182, <<1, 0, 0>>, <<<<<<8, 0, 0>>, <<8, 8, 0>>, <<8, 8, 8>>, <<8, 0, 8>>>>>>),
    Polygon(181, <<-1, 0, 0>>, <<<<<<0, 0, 0>>, <<0, 0, 8>>, <<0, 8, 8>>, <<0, 8, 0>>>>>>),
    Polygon(104, <<0, -1, 0>>, <<<<<<0, 0, 0>>, <<8, 0, 0>>, <<8, 0, 8>>, <<0, 0, 8>>>>>>),
    Polygon(191, <<0, 0, -1>>, <<<<<<0, 0, 0>>, <<0, 8, 0>>, <<8, 8, 0>>, <<8, 0, 0>>>>, <<<<2, 2, 0>>, <<6, 2, 0>>, <<6, 6, 0>>, <<2, 6, 0>>>>>>),
    Polygon(205, <<0, 0, -1>>, <<<<<<2, 2, -4>>, <<2, 6, -4>>, <<6, 6, -4>>, <<6, 2, -4>>>>>>),
    Polygon(201, <<0, -1, 0>>, <<<<<<2, 2, -4>>, <<6, 2, -4>>, <<6, 2, 0>>, <<2, 2, 0>>>>>>),
    Polygon(202, <<1, 0, 0>>, <<<<<<6, 2, -4>>, <<6, 6, -4>>, <<6, 6, 0>>, <<6, 2, 0>>>>>>),
    Polygon(203, <<0, 1, 0>>, <<<<<<6, 6, -4>>, <<2, 6, -4>>, <<2, 6, 0>>, <<6, 6, 0>>>>>>),
    Polygon(204, <<-1, 0, 0>>, <<<<<<2, 6, -4>>, <<2, 2, -4>>, <<2, 2, 0>>, <<2, 6, 0>>>>>>)>>, TRUE)

\* Two bars that cross, the one along y twice as high.
Cross2 == FromPolygons(<<
    Polygon(191, <<0, 0, -1>>, <<<<<<0, 4, 0>>, <<0, 8, 0>>, <<4, 8, 0>>, <<4, 12, 0>>, <<8, 12, 0>>, <<8, 8, 0>>,
        <<12, 8, 0>>, <<12, 4, 0>>, <<8, 4, 0>>, <<8, 0, 0>>, <<4, 0, 0>>, <<4, 4, 0>>>>>>),
    Polygon(190, <<0, 0, 1>>, <<<<<<4, 0, 8>>, <<8, 0, 8>>, <<8, 12, 8>>, <<4, 12, 8>>>>>>),
    Polygon(102, <<0, 0, 1>>, <<<<<<0, 4, 4>>, <<4, 4, 4>>, <<4, 8, 4>>, <<0, 8, 4>>>>>>),
    Polygon(103, <<0, 0, 1>>, <<<<<<8, 4, 4>>, <<12, 4, 4>>, <<12, 8, 4>>, <<8, 8, 4>>>>>>),
    Polygon(104, <<-1, 0, 0>>, <<<<<<0, 4, 0>>, <<0, 4, 4>>, <<0, 8, 4>>, <<0, 8, 0>>>>>>),
    Polygon(105, <<1, 0, 0>>, <<<<<<12, 4, 0>>, <<12, 8, 0>>, <<12, 8, 4>>, <<12, 4, 4>>>>>>),
    Polygon(106, <<0, -1, 0>>, <<<<<<4, 0, 0>>, <<8, 0, 0>>, <<8, 0, 8>>, <<4, 0, 8>>>>>>),
    Polygon(107, <<0, 1, 0>>, <<<<<<4, 12, 0>>, <<4, 12, 8>>, <<8, 12, 8>>, <<8, 12, 0>>>>>>),
    Polygon(108, <<0, -1, 0>>, <<<<<<0, 4, 0>>, <<4, 4, 0>>, <<4, 4, 4>>, <<0, 4, 4>>>>>>),
    Polygon(109, <<0, -1, 0>>, <<<<<<8, 4, 0>>, <<12, 4, 0>>, <<12, 4, 4>>, <<8, 4, 4>>>>>>),
    Polygon(110, <<0, 1, 0>>, <<<<<<0, 8, 0>>, <<0, 8, 4>>, <<4, 8, 4>>, <<4, 8, 0>>>>>>),
    Polygon(111, <<0, 1, 0>>, <<<<<<8, 8, 0>>, <<8, 8, 4>>, <<12, 8, 4>>, <<12, 8, 0>>>>>>),
    Polygon(112, <<-1, 0, 0>>, <<<<<<4, 0, 0>>, <<4, 0, 8>>, <<4, 12, 8>>, <<4, 12, 0>>, <<4, 8, 0>>, <<4, 8, 4>>,
        <<4, 4, 4>>, <<4, 4, 0>>>>>>),
    Polygon(113, <<1, 0, 0>>, <<<<<<8, 0, 0>>, <<8, 4, 0>>, <<8, 4, 4>>, <<8, 8, 4>>, <<8, 8, 0>>, <<8, 12, 0>>,
        <<8, 12, 8>>, <<8, 0, 8>>>>>>)>>, TRUE)

\* Three bars on each other, the one in the middle across: what is lowest and what is
\* highest are the caps of no bar.
Stack3 == FromPolygons(<<
    Polygon(191, <<0, 0, -1>>, <<<<<<0, 3, 0>>, <<0, 9, 0>>, <<12, 9, 0>>, <<12, 3, 0>>>>>>),
    Polygon(101, <<0, 0, 1>>, <<<<<<0, 5, 4>>, <<4, 5, 4>>, <<4, 11, 4>>, <<0, 11, 4>>>>>>),
    Polygon(102, <<0, 0, 1>>, <<<<<<8, 5, 4>>, <<12, 5, 4>>, <<12, 11, 4>>, <<8, 11, 4>>>>>>),
    Polygon(103, <<-1, 0, 0>>, <<<<<<0, 3, 0>>, <<0, 5, 4>>, <<0, 11, 4>>, <<0, 9, 0>>>>>>),
    Polygon(104, <<1, 0, 0>>, <<<<<<12, 3, 0>>, <<12, 9, 0>>, <<12, 11, 4>>, <<12, 5, 4>>>>>>),
    Polygon(105, <<0, -2, 1>>, <<<<<<0, 3, 0>>, <<12, 3, 0>>, <<12, 5, 4>>, <<8, 5, 4>>, <<4, 5, 4>>, <<0, 5, 4>>>>>>),
    Polygon(106, <<0, 2, -1>>, <<<<<<0, 9, 0>>, <<0, 11, 4>>, <<4, 11, 4>>, <<8, 11, 4>>, <<12, 11, 4>>, <<12, 9, 0>>>>>>),
    Polygon(201, <<0, 0, -1>>, <<<<<<4, 0, 4>>, <<4, 5, 4>>, <<8, 5, 4>>, <<8, 0, 4>>>>>>),
    Polygon(202, <<0, 0, -1>>, <<<<<<4, 11, 4>>, <<4, 14, 4>>, <<8, 14, 4>>, <<8, 11, 4>>>>>>),
    Polygon(203, <<-1, 0, 0>>, <<<<<<4, 0, 4>>, <<4, 0, 8>>, <<4, 5, 8>>, <<4, 11, 8>>, <<4, 14, 8>>, <<4, 14, 4>>, <<4, 11, 4>>, <<4, 5, 4>>>>>>),
    Polygon(204, <<1, 0, 0>>, <<<<<<8, 0, 4>>, <<8, 5, 4>>, <<8, 11, 4>>, <<8, 14, 4>>, <<8, 14, 8>>, <<8, 11, 8>>, <<8, 5, 8>>, <<8, 0, 8>>>>>>),
    Polygon(205, <<0, -1, 0>>, <<<<<<4, 0, 4>>, <<8, 0, 4>>, <<8, 0, 8>>, <<4, 0, 8>>>>>>),
    Polygon(206, <<0, 1, 0>>, <<<<<<4, 14, 4>>, <<4, 14, 8>>, <<8, 14, 8>>, <<8, 14, 4>>>>>>),
    Polygon(207, <<0, 0, 1>>, <<<<<<4, 0, 8>>, <<8, 0, 8>>, <<8, 5, 8>>, <<4, 5, 8>>>>>>),
    Polygon(208, <<0, 0, 1>>, <<<<<<4, 11, 8>>, <<8, 11, 8>>, <<8, 14, 8>>, <<4, 14, 8>>>>>>),
    Polygon(301, <<0, 0, -1>>, <<<<<<0, 5, 8>>, <<0, 11, 8>>, <<4, 11, 8>>, <<4, 5, 8>>>>>>),
    Polygon(302, <<0, 0, -1>>, <<<<<<8, 5, 8>>, <<8, 11, 8>>, <<12, 11, 8>>, <<12, 5, 8>>>>>>),
    Polygon(303, <<-1, 0, 0>>, <<<<<<0, 5, 8>>, <<0, 3, 12>>, <<0, 9, 12>>, <<0, 11, 8>>>>>>),
    Polygon(304, <<1, 0, 0>>, <<<<<<12, 5, 8>>, <<12, 11, 8>>, <<12, 9, 12>>, <<12, 3, 12>>>>>>),
    Polygon(305, <<0, -2, -1>>, <<<<<<0, 5, 8>>, <<4, 5, 8>>, <<8, 5, 8>>, <<12, 5, 8>>, <<12, 3, 12>>, <<0, 3, 12>>>>>>),
    Polygon(306, <<0, 2, 1>>, <<<<<<0, 11, 8>>, <<0, 9, 12>>, <<12, 9, 12>>, <<12, 11, 8>>, <<8, 11, 8>>, <<4, 11, 8>>>>>>),
    Polygon(390, <<0, 0, 1>>, <<<<<<0, 3, 12>>, <<12, 3, 12>>, <<12, 9, 12>>, <<0, 9, 12>>>>>>)>>, TRUE)

\* The face n is on a surface that nobody reads.
Unread(e, n) ==
    [e EXCEPT ![e[n].on] = [kind |-> "spline", centre |-> Origin3, radius |-> 0, top |-> 0]]

-----------------------------------------------------------------------------
(* Files.                                                                  *)

Ground == Block(Rectangle(0, 0, 6, 4), 2)
Corner(x, y) == <<<<x, y>>, <<x + 2, y>>, <<x + 2, y + 1>>, <<x + 1, y + 1>>, <<x + 1, y + 2>>, <<x, y + 2>>>>
CornerTurned(x, y) == <<<<x, y>>, <<x + 2, y>>, <<x + 2, y + 2>>, <<x + 1, y + 2>>, <<x + 1, y + 1>>, <<x, y + 1>>>>
OnTop(corners) == On(TopOf(1), corners, 2)

Plain == Numbered(1, <<Ground, OnTop(Rectangle(1, 1, 2, 1)), OnTop(Rectangle(4, 1, 1, 2))>>)
Corners == Numbered(1, <<Ground, OnTop(Corner(0, 0)), OnTop(CornerTurned(3, 1))>>)
Storeys == <<Ground, On(TopOf(1), Rectangle(1, 1, 4, 2), 2), On(TopOf(2), Rectangle(2, 1, 3, 2), 2)>>
Tower == Numbered(1, Storeys)
Spire == Numbered(1, Append(Storeys, On(TopOf(3), Rectangle(3, 1, 1, 1), 2)))
Pit == Numbered(1, <<Block(Rectangle(0, 0, 6, 4), 4), OnTop(Rectangle(1, 1, 4, 2)), On(TopOf(2), Rectangle(2, 1, 2, 1), -4)>>)
Pierced == Numbered(1, <<Ground, OnTop(Rectangle(1, 1, 4, 2)), Through(TopOf(2), BottomOf(1), Rectangle(2, 1, 2, 1))>>)
Ring == Numbered(1, <<Ground, Through(TopOf(1), BottomOf(1), Rectangle(2, 1, 2, 1))>>)
Frame3 == Numbered(1, <<Ground, Through(TopOf(1), BottomOf(1), Rectangle(2, 1, 2, 1)), OnTop(Rectangle(0, 0, 1, 2))>>)
Turned3 == Numbered(11, <<Block(Rectangle(20, 0, 4, 6), 2), On(TopOf(11), Rectangle(22, 1, 1, 2), 2),
                          On(TopOf(11), Rectangle(21, 4, 2, 1), 2)>>)

\* Nobody has marked the outer bounds.
Unmarked(e) == [n \in DOMAIN e |-> IF e[n].kind = "bound" THEN [e[n] EXCEPT !.outer = FALSE] ELSE e[n]]

\* What the chain grammar knows of the solid; a second solid on its shell; a second
\* representation that lists it.
WithChain(s) == s @@ (5 :> [kind |-> "chain", of |-> 11])
TwoOnOne(s) == s @@ (6 :> [kind |-> "solid", shell |-> 10])
ListedTwice(s) == s @@ (4 :> [kind |-> "brep", items |-> <<11>>, context |-> 2])

One(body) == <<Section(<<body>>)>>
MCFiles ==
    {One(b) : b \in {Plain, Corners, Tower, Pit, Pierced, Frame3, Unmarked(Frame3), Unmarked(Ring), TwoChamfers, SplitTop, SplitAbove,
                     Cross2, Stack3, Unread(Tower, 101), Unread(Spire, 101), Unread(Plain, 201)}}
    \cup {<<Section(<<Plain, Turned3>>)>>, <<Section(<<Tower>>), Section(<<SplitTop>>)>>}
    \cup {<<WithChain(Section(<<Plain>>))>>, <<WithChain(Section(<<Unread(Plain, 101)>>))>>,
           <<TwoOnOne(Section(<<Plain>>))>>, <<ListedTwice(Section(<<Plain>>))>>}
===============================================================================
