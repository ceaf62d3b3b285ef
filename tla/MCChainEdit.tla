------------------------------ MODULE MCChainEdit ------------------------------
(***************************************************************************)
(* Chains for TLC: bars with a pitch of 4 whose cross-section is a polygon *)
(* of lanes.  Side k of the bar lies between lane k and the next lane and  *)
(* is cut along the bar into segments; the ends are closed by two faces.   *)
(***************************************************************************)
EXTENDS ChainEdit

Segment(lo, hi, kind) == [lo |-> lo, hi |-> hi, kind |-> kind]
Long(n, kind) == {Segment(0, 4 * n, kind)}

\* A site over the middle half of every cell, webs between the sites, two end pieces.
Cells(n, site, web) ==
    {Segment(4 * i + 1, 4 * i + 3, site) : i \in 0 .. n - 1}
    \cup {Segment(4 * i + 3, 4 * i + 5, web) : i \in 0 .. n - 2}
    \cup {Segment(0, 1, "end"), Segment(4 * n - 1, 4 * n, "end")}
\* Sites that touch each other.
Tiles(n) == {Segment(4 * i, 4 * i + 4, "tile") : i \in 0 .. n - 1}
\* Gaps that touch each other, above the middle of the sites.
Strips(n) == {Segment(4 * i + 2, 4 * i + 6, "strip") : i \in 0 .. n - 2}
             \cup {Segment(0, 2, "end"), Segment(4 * n - 2, 4 * n, "end")}
\* A key before the first site; one in the middle.
Keyed(n) == {Segment(0, 1, "key"), Segment(1, 4 * n, "long")}
KeyedInside(n) == {Segment(0, 13, "long"), Segment(13, 14, "key"), Segment(14, 4 * n, "long")}

\* The bar: its sides in order, on lanes base + 1, base + 2, ...
Bar(base, sides, n) ==
    LET m == Len(sides)
        Lane(k) == base + ((k - 1) % m) + 1
        Cuts(k) == {g.lo : g \in sides[((k - 1) % m) + 1]} \cup {g.hi : g \in sides[((k - 1) % m) + 1]}
        \* The points along the lane of which the side before and the side after know.
        Points(k) == Cuts(k) \cup Cuts(k + m - 1)
        Steps(k, lo, hi) == {q \in (Points(k) \cap lo .. hi) \X (Points(k) \cap lo .. hi) :
                                q[1] < q[2] /\ \A x \in Points(k) : ~(q[1] < x /\ x < q[2])}
        Line(p, q) == [ends |-> {p, q}, curve |-> "line"]
        AlongLane(k, lo, hi) == {Line(<<q[1], Lane(k)>>, <<q[2], Lane(k)>>) : q \in Steps(k, lo, hi)}
        Across(k, x) == Line(<<x, Lane(k)>>, <<x, Lane(k + 1)>>)
        Face(k, g) == [kind |-> g.kind,
                       edges |-> AlongLane(k, g.lo, g.hi) \cup AlongLane(k + 1, g.lo, g.hi)
                                 \cup {Across(k, g.lo), Across(k, g.hi)}]
        Cap(x, kind) == [kind |-> kind, edges |-> {Across(k, x) : k \in 1 .. m}]
    IN  UNION {{Face(k, g) : g \in sides[k]} : k \in 1 .. m}
        \cup {Cap(0, "cap"), Cap(4 * n, "cap")}

MCDesign == {"plain", "tiled", "keyed", "keyed inside", "flat", "strips"}
MCIdeal ==
    LET Sites == 6 .. 9
        L(n) == Long(n, "long") IN
    [d \in MCDesign |-> [n \in Sites |->
        CASE d = "plain" -> Bar(0, <<Cells(n, "pin", "web"), L(n), L(n), L(n)>>, n)
          [] d = "tiled" -> Bar(0, <<Cells(n, "pin", "web"), L(n), Tiles(n), L(n), L(n)>>, n)
          [] d = "keyed" -> Bar(0, <<Cells(n, "pin", "web"), L(n), Keyed(n), L(n)>>, n)
          [] d = "keyed inside" -> Bar(0, <<Cells(n, "pin", "web"), L(n), KeyedInside(n), L(n)>>, n)
          [] d = "flat" -> Bar(10, <<Cells(n, "pin", "web"), L(n), L(n), Cells(n, "pin", "web"),
                                     L(n), L(n)>>, n)
          [] d = "strips" -> Bar(0, <<Cells(n, "pin", "web"), Strips(n), Cells(n, "pad", "web"),
                                      Tiles(n), L(n), L(n)>>, n)]]

\* The sides with the cells of a flat bar are closer to each other than the tolerance.
MCPlace == [lane \in 1 .. 16 |->
    CASE lane = 14 -> 12 [] lane = 15 -> 11 [] lane = 13 -> 13 [] OTHER -> lane]

\* One chain to edit, of any design, beside a tiled one of seven sites.
MCFiles == {[x \in {"c", "d"} |-> IF x = "c" THEN m
                                 ELSE [design |-> "tiled", sites |-> 7, at |-> 0]] :
              m \in [design : MCDesign, sites : 6 .. 8, at : {0}]}

=============================================================================
