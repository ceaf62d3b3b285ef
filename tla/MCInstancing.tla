----------------------------- MODULE MCInstancing -----------------------------
(***************************************************************************)
(* Files of four solids or five for TLC: brackets and hooks have one position in   *)
(* four quarter turns, plates two, cubes four, and balls too few vertices. *)
(***************************************************************************)
EXTENDS Instancing

MCPeriod == [s \in {"bracket", "hook", "plate", "cube", "ball"} |->
    CASE s = "plate" -> 2 [] s = "cube" -> 1 [] OTHER -> 4]
MCCorners == [s \in {"bracket", "hook", "plate", "cube", "ball"} |->
    IF s = "ball" THEN 2 ELSE 8]

\* A solid as it is in a file: the looks of its two faces, and of its root.
Body(shape, turn, looks, root) == [shape |-> shape, turn |-> turn, looks |-> looks, root |-> root]
Red(shape, turn) == Body(shape, turn, <<"red", "red">>, "none")

At(i) == <<<<2, 1>>, <<5, 0>>, <<0, 4>>, <<3, 3>>, <<7, 2>>>>[i]

\* Ids 10 * i .. for body i: the solid, its faces, their styles and the root's.
Styles(bodies) ==
    {10 * x[1] + 2 + x[2] : x \in {y \in (DOMAIN bodies) \X (1 .. 2) : bodies[y[1]].looks[y[2]] # "none"}}
    \cup {10 * i + 5 : i \in {j \in DOMAIN bodies : bodies[j].root # "none"}}

Bodies(bodies) ==
    [n \in {10 * x[1] + x[2] : x \in (DOMAIN bodies) \X (0 .. 2)} \cup Styles(bodies) |->
        LET i == n \div 10
            b == bodies[i]
        IN  CASE n % 10 = 0 -> [kind |-> "solid", shape |-> b.shape, at |-> At(i),
                                turn |-> b.turn, faces |-> {n + 1, n + 2}]
              \* The first face of every body lies on one shared value.
              [] n % 10 = 1 -> [kind |-> "face", on |-> 1]
              [] n % 10 = 2 -> [kind |-> "face", on |-> i + 1]
              [] n % 10 = 5 -> [kind |-> "style", of |-> 10 * i, look |-> b.root]
              [] OTHER -> [kind |-> "style", of |-> n - 2, look |-> b.looks[(n % 10) - 2]]]
    @@ [n \in 1 .. 6 |-> [kind |-> "value"]]

Rep(kind, bodies) ==
    [kind |-> kind, source |-> FALSE, items |-> [k \in DOMAIN bodies |-> 10 * bodies[k]]]
Of(product, rep) == [kind |-> "sdr", product |-> product, rep |-> rep]
Kind(k, complete) == [kind |-> k, complete |-> complete]

\* A file: the bodies in one representation (100) with its product, all styles in one
\* presentation, and more.
File(bodies, more) ==
    more @@ Bodies(bodies)
    @@ (100 :> Rep("brep", [i \in DOMAIN bodies |-> i]))
    @@ (110 :> [kind |-> "presentation", items |-> InOrder(Styles(bodies))])
    @@ (120 :> Kind("product", TRUE)) @@ (121 :> Of(120, 100))

Plain == <<Red("bracket", 0), Red("bracket", 1), Red("hook", 0), Red("hook", 3)>>

\* Two families whose members are not next to each other, and one more solid.
Nested(last) == <<Red("bracket", 0), Red("hook", 0), Red("hook", 2), Red("bracket", 3), Red(last, 0)>>

Odd == {Red("bracket", 3), Red("hook", 1), Red("plate", 0), Red("cube", 0), Red("ball", 0),
        Body("bracket", 2, <<"blue", "blue">>, "none"), Body("bracket", 2, <<"red", "blue">>, "none"),
        Body("bracket", 2, <<"red", "none">>, "none"), Body("bracket", 2, <<"red", "red">>, "blue")}

\* Two brackets and any two more.
Mixed == {File(<<Body("bracket", 0, <<"red", "red">>, root), Red("bracket", t), x, y>>, <<>>) :
             root \in {"none", "blue"}, t \in {0, 1}, x \in Odd, y \in Odd}

\* A layer with the styles of one body, a second representation of some of the bodies
\* with or without a product, and somebody else who uses a solid.
Layer(bodies, i) == 111 :> [kind |-> "layer", items |-> InOrder({s \in Styles(bodies) : s \div 10 = i})]
Second(rep, sdr) ==
    (101 :> rep) @@ (IF sdr = "none" THEN <<>>
                     ELSE (122 :> Kind("product", sdr = "complete")) @@ (123 :> Of(122, 101)))
Note(n) == 130 :> [kind |-> "note", of |-> n]

Bundles ==
    {<<Red("bracket", 0), Red("bracket", 1), Red("bracket", 2), Red("bracket", 2)>>, Plain,
     <<Red("bracket", 0), Red("bracket", 2), Red("cube", 0), Red("bracket", 3)>>}
Subsets == {<<2, 3>>, <<1, 2, 3>>, <<2, 3, 4>>, <<4, 3, 2, 1>>}

Rich ==
    {File(b, Layer(b, i)) : b \in Bundles, i \in 1 .. 3}
    \cup {File(b, Second(Rep("brep", s), sdr)) : b \in Bundles, s \in Subsets,
            sdr \in {"none", "complete", "incomplete"}}
    \cup {File(b, Note(n)) : b \in Bundles, n \in {20, 21, 2, 30}}
    \cup {File(b, 123 :> Of(120, 100)) : b \in Bundles}

\* A shape representation of one of the solids, as exporters add it for properties.
Auxiliary == {File(b, Second(Rep("shape", s), "none")) : b \in Bundles, s \in {<<2>>, <<3>>, <<1, 2>>}}

\* The assembly pass is run on files without such representations.
MCFiles ==
    [m \in {"mapped", "assembly"} |->
        Mixed \cup Rich \cup {File(Nested(last), <<>>) : last \in {"plate", "hook"}}
        \cup (IF m = "mapped" THEN Auxiliary ELSE {})]

AuxiliaryFiles == [m \in {"assembly"} |-> Auxiliary]
=============================================================================
