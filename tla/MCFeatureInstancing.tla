------------------------ MODULE MCFeatureInstancing ------------------------
(***************************************************************************)
(* Files of one block with up to six features for TLC, and the two passes  *)
(* over them, one per behaviour.  Planks, tiles and L-shaped bosses lie in *)
(* any quarter; there are pins on bosses, bosses with a pit, rings,        *)
(* pockets, holes and balls.  Two of a kind are a family here.             *)
(***************************************************************************)
EXTENDS SphericalCaps, SampleShells

MCMinGroup == 2
MCMaxFeatureFaces == 20

Ground == Block(Rectangle(0, 0, 9, 4), 1)
Corner(x, y) == <<<<x, y>>, <<x + 2, y>>, <<x + 2, y + 1>>, <<x + 1, y + 1>>, <<x + 1, y + 2>>, <<x, y + 2>>>>
CornerTurned(x, y) == <<<<x, y>>, <<x + 2, y>>, <<x + 2, y + 2>>, <<x + 1, y + 2>>, <<x + 1, y + 1>>, <<x, y + 1>>>>

\* What can stand at a place of its own on the block.
Shape(s, x, y) ==
    CASE s = "plank" -> Rectangle(x, y, 2, 1) [] s = "upright" -> Rectangle(x, y, 1, 2)
      [] s = "corner" -> Corner(x, y) [] s = "turned" -> CornerTurned(x, y)
      [] OTHER -> Rectangle(x, y, 2, 2)
Boss(s, x, y) == On(TopOf(1), Shape(s, x, y), 1)
Pocket(s, x, y) == On(TopOf(1), Shape(s, x, y), -1)
Hole(s, x, y) == Through(TopOf(1), BottomOf(1), Shape(s, x, y))

Looks == {"red", "blue"}
FacesOfFeature(e, i) == {n \in PartFaces(e) : n \div 100 = i}

\* styles: [feature or 0 for the solid -> a look and how many of the faces have it].
StyleEntities(e, styles) ==
    LET Painted(i) ==
            IF i = 0 THEN {11}
            ELSE IF styles[i][2] = "all" THEN FacesOfFeature(e, i) ELSE {100 * i + 90}
        targets == UNION {Painted(i) : i \in DOMAIN styles}
        ids == [n \in targets |-> 3000 + n]
    IN  [s \in {3000 + n : n \in targets} |->
            [kind |-> "style", of |-> s - 3000,
             looks |-> styles[IF s - 3000 = 11 THEN 0 ELSE (s - 3000) \div 100][1]]]

\* The file of <<features, styles>>.
File(design) ==
    LET e == Part(design[1])
        painted == StyleEntities(e, design[2])
    IN  e @@ painted @@ (3 :> [kind |-> "presentation", items |-> InOrder(DOMAIN painted)])

Row(a, b, c) == <<Ground, Boss(a, 0, 0), Boss(b, 3, 0), Boss(c, 6, 0)>>
Plain == {<<Row(a, b, c), <<>>>> :
            a \in {"plank", "corner"}, b \in {"plank", "upright", "turned"}, c \in {"plank", "corner", "tile"}}

Red == <<"red", "all">>
Styles == {
    <<>>, 0 :> Red,
    (2 :> Red) @@ (3 :> Red) @@ (4 :> Red),
    (2 :> Red) @@ (3 :> Red) @@ (4 :> <<"blue", "all">>),
    (0 :> <<"blue", "all">>) @@ (2 :> Red) @@ (3 :> Red),
    (0 :> <<"blue", "all">>) @@ (2 :> Red) @@ (3 :> <<"red", "some">>) @@ (4 :> Red),
    (2 :> Red) @@ (3 :> <<"red", "some">>)}
Painted == {<<Row("plank", "upright", "plank"), s>> : s \in Styles}

\* Bosses with a pit, rings, pockets, holes, bosses below, a boss on a boss.
Four(a, b, c, d) == <<Ground, a, b, c, d>>
Two(a, b, x, y) == <<Ground, a, b, x, y>>
Mixed == {<<f, s>> : s \in {<<>>, 0 :> Red}, f \in {
    Four(Boss("tile", 0, 0), Boss("tile", 3, 0), On(TopOf(2), Rectangle(0, 0, 1, 1), 1),
         On(TopOf(3), Rectangle(3, 1, 1, 1), 1)),
    Four(Boss("tile", 0, 0), Boss("tile", 3, 0), Pocket("tile", 6, 0), Pocket("tile", 6, 2)),
    Four(Boss("plank", 0, 0), Hole("plank", 3, 0), Boss("plank", 6, 0), Hole("upright", 6, 2)),
    <<Ground, Boss("plank", 0, 0), Boss("upright", 3, 0),
      On(BottomOf(1), Rectangle(0, 0, 2, 1), -1), On(BottomOf(1), Rectangle(4, 0, 2, 1), -1)>>}}
Ring(x, y) == On(TopOf(1), Rectangle(x, y, 3, 3), 1)
Rings == {<<<<Ground, Ring(0, 0), Ring(4, 0), On(TopOf(2), Rectangle(1, 1, 1, 1), d),
                 On(TopOf(3), Rectangle(5, 1, 1, 1), d)>>, <<>>>> : d \in {1, -1}}

\* Balls of two looks, in one plane or two, among other things.
Ball(x, y) == Dome(TopOf(1), x, y, 1)
Balls4 == <<Ground, Ball(0, 0), Ball(2, 0), Ball(4, 0), Ball(6, 2)>>
CapStyles == {
    [i \in 2 .. 5 |-> Red],
    (2 :> Red) @@ (3 :> Red) @@ (4 :> <<"blue", "all">>) @@ (5 :> Red),
    (0 :> <<"blue", "all">>) @@ (2 :> Red) @@ (3 :> Red),
    (0 :> Red)}
CapFiles ==
    {<<Balls4, s>> : s \in CapStyles}
    \cup {<<<<Ground, Ball(0, 0), Ball(2, 0), Dome(BottomOf(1), 0, 0, -1), Dome(BottomOf(1), 4, 0, -1),
                 Boss("plank", 6, 0)>>, [i \in 2 .. 5 |-> Red]>>,
           <<<<Ground, Ball(0, 0), Boss("tile", 3, 0), Dome(TopOf(3), 3, 0, 1), Ball(6, 0), Ball(6, 2)>>,
                [i \in {2, 4, 5, 6} |-> Red]>>,
           <<<<Ground, Ball(0, 0), Dome(TopOf(1), 3, 0, 2)>>, [i \in 2 .. 3 |-> Red]>>}

\* Two bosses, each with two pins.
PinsOn(i, x) == <<On(TopOf(i), Rectangle(x, 0, 1, 1), 1), On(TopOf(i), Rectangle(x + 1, 1, 1, 1), 1)>>
Pinned(s) == <<<<Ground, Boss("tile", 0, 0), Boss("tile", 3, 0)>> \o PinsOn(2, 0) \o PinsOn(3, 3), s>>

VARIABLE pass  \* "bosses" or "caps"

\* Pins in the looks of their bosses are claimed twice.
MCFiles == {File(d) : d \in Plain \cup Painted \cup Mixed \cup Rings \cup {Pinned(<<>>)}}
MCCapFiles == {File(d) : d \in CapFiles}
MCInit == /\ pass \in {"bosses", "caps"}
          /\ ent \in (IF pass = "bosses" THEN Files ELSE MCCapFiles)
          /\ start = ent /\ step = "start" /\ todo = {} /\ work = Clean /\ round = 1
MCNext == (IF pass = "bosses" THEN Next ELSE NextCaps) /\ UNCHANGED pass
MCSpec == MCInit /\ [][MCNext]_<<pass, vars>>
MCTypeOK == IF pass = "bosses" THEN TypeOK ELSE CapsTypeOK

=============================================================================
