------------------------------ MODULE MCBodyEdit ------------------------------
(***************************************************************************)
(* Bodies for TLC: bars of square cross-section (lanes 1 to 4) with notches *)
(* in the edge along lane 2, one in the middle of each cell of the lattice *)
(* (lanes 5 to 7 are the inner corners of a notch).                        *)
(***************************************************************************)
EXTENDS BodyEdit

Line(p, q) == [ends |-> {p, q}, curve |-> "line"]
AlongLane(lane, xs) == {Line(<<q[1], lane>>, <<q[2], lane>>) :
                        q \in {q \in xs \X xs : q[1] < q[2] /\ \A x \in xs : ~(q[1] < x /\ x < q[2])}}
Ring(x, lanes) == LET n == Len(lanes) IN
    {Line(<<x, lanes[k]>>, <<x, lanes[(k % n) + 1]>>) : k \in 1 .. n}
Face(kind, edges) == [kind |-> kind, edges |-> edges]

\* The bar with a notch lo .. hi for each of the pairs, its edge kept elsewhere.
Notched(length, notches, extra) ==
    LET solidEdge == {x \in 0 .. length : \E q \in notches : x \in {q[1], q[2]}} \cup {0, length}
        inside(q) == \E m \in notches : m[1] <= q[1] /\ q[2] <= m[2]
        corner == {Line(<<q[1], 2>>, <<q[2], 2>>) :
                     q \in {q \in solidEdge \X solidEdge :
                              /\ q[1] < q[2] /\ \A x \in solidEdge : ~(q[1] < x /\ x < q[2])
                              /\ ~inside(q)}}
        \* The way around a notch on a side whose inner lane is l.
        Around(l) == UNION {{Line(<<m[1], 2>>, <<m[1], l>>), Line(<<m[2], 2>>, <<m[2], l>>),
                             Line(<<m[1], l>>, <<m[2], l>>)} : m \in notches}
        Across(x, a, b) == Line(<<x, a>>, <<x, b>>)
        Long(l) == AlongLane(l, {0, length})
    IN  {Face("top", Long(1) \cup corner \cup Around(5) \cup {Across(0, 1, 2), Across(length, 1, 2)}
                     \cup (IF extra = {} THEN {} ELSE extra)),
         Face("front", Long(3) \cup corner \cup Around(7) \cup {Across(0, 2, 3), Across(length, 2, 3)}),
         Face("bottom", Long(3) \cup Long(4) \cup {Across(0, 3, 4), Across(length, 3, 4)}),
         Face("back", Long(4) \cup Long(1) \cup {Across(0, 4, 1), Across(length, 4, 1)}),
         Face("cap", Ring(0, <<1, 2, 3, 4>>)), Face("cap", Ring(length, <<1, 2, 3, 4>>))}
        \cup UNION {{Face("left", Ring(m[1], <<2, 5, 6, 7>>)), Face("right", Ring(m[2], <<2, 5, 6, 7>>)),
                     Face("wall", {Across(m[1], 5, 6), Across(m[2], 5, 6)}
                                  \cup AlongLane(5, {m[1], m[2]}) \cup AlongLane(6, {m[1], m[2]})),
                     Face("floor", {Across(m[1], 6, 7), Across(m[2], 6, 7)}
                                  \cup AlongLane(6, {m[1], m[2]}) \cup AlongLane(7, {m[1], m[2]}))} :
                    m \in notches}

\* A hole in the top (lanes 8 to 11, its floor on the same lanes deeper, 12 to 15).
HoleRim(x) == Ring(x, <<8, 9, 10, 11>>)
Hole(x) == {Face("hole floor", Ring(x, <<12, 13, 14, 15>>))}
           \cup {Face("hole wall", {Line(<<x, k>>, <<x, 8 + ((k - 7) % 4)>>),
                                    Line(<<x, k>>, <<x, k + 4>>),
                                    Line(<<x, 8 + ((k - 7) % 4)>>, <<x, 12 + ((k - 7) % 4)>>),
                                    Line(<<x, k + 4>>, <<x, 12 + ((k - 7) % 4)>>)}) : k \in 8 .. 11}

Cells(n) == {<<4 * i + 1, 4 * i + 3>> : i \in 0 .. n - 1}

MCDesign == {"notched", "end hole", "key"}
MCIdeal == [d \in MCDesign |-> [n \in 4 .. 7 |->
    CASE d = "notched" -> Notched(4 * n, Cells(n), {})
      \* A hole beside the last notch; it belongs to no end.
      [] d = "end hole" -> Notched(4 * n, Cells(n), HoleRim(4 * n - 3)) \cup Hole(4 * n - 3)
      \* One more notch, out of the lattice.
      [] d = "key" -> Notched(4 * n + 4, Cells(n) \cup {<<4 * n, 4 * n + 2>>}, {})]]
MCPlace == [l \in 1 .. 15 |-> l]

=============================================================================
