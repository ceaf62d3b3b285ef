---------------------------- MODULE SampleShells ----------------------------
(***************************************************************************)
(* Closed shells for the runs: a block and, on its faces or on each        *)
(* other's, bosses, pockets, through holes and domes.  A feature is a      *)
(* prism over a polygon: [host, to, corners, height], where host is <<i,   *)
(* "top">> or <<1, "bottom">>, to is such a face too for a through hole    *)
(* and <<>> otherwise, and the first feature is the block itself.          *)
(* Entities of feature i have the ids from 100 * i on.                     *)
(* Domes are of two spherical faces, whose seam runs over a point on top.   *)
(***************************************************************************)
EXTENDS Integers, SequencesExt

Twice(p) == <<2 * p[1], 2 * p[2]>>
Next1(k, n) == (k % n) + 1

Rectangle(x, y, dx, dy) == <<<<x, y>>, <<x + dx, y>>, <<x + dx, y + dy>>, <<x, y + dy>>>>
Block(corners, height) == [host |-> <<>>, to |-> <<>>, corners |-> corners, height |-> height]
On(host, corners, height) == [host |-> host, to |-> <<>>, corners |-> corners, height |-> height]
Dome(host, x, y, height) == [host |-> host, to |-> <<"dome">>, corners |-> Rectangle(x, y, 2, 2), height |-> height]
Through(from, to, corners) == [host |-> from, to |-> to, corners |-> corners, height |-> 0]

TopOf(i) == <<i, "top">>
BottomOf(i) == <<i, "bottom">>

\* The cells inside a polygon with sides along the axes.
Inside(corners) ==
    LET n == Len(corners)
        xs == {c[1] : c \in ToSet(corners)}
        ys == {c[2] : c \in ToSet(corners)}
        Right(x, y) == {k \in 1 .. n :
            LET a == corners[k]
                b == corners[Next1(k, n)]
            IN  a[1] = b[1] /\ 2 * a[1] > x /\ 2 * Min({a[2], b[2]}) < y /\ 2 * Max({a[2], b[2]}) > y}
    IN  {p \in {q \in (2 * Min(xs) .. 2 * Max(xs)) \X (2 * Min(ys) .. 2 * Max(ys)) :
                    q[1] % 2 = 1 /\ q[2] % 2 = 1} : Cardinality(Right(p[1], p[2])) % 2 = 1}

\* Where a host face lies and whether it looks up; the block stands on 0.
LevelOf(f, host) ==
    LET at[i \in DOMAIN f] ==
            IF f[i].host = <<>> THEN 2 * f[i].height
            ELSE (IF f[i].host[2] = "bottom" THEN 0 ELSE at[f[i].host[1]]) + 2 * f[i].height
    IN  IF host = <<>> \/ host[2] = "bottom" THEN 0 ELSE at[host[1]]
LooksUp(f, host) ==
    LET up[i \in DOMAIN f] ==
            IF f[i].host = <<>> THEN TRUE
            ELSE f[i].host[2] # "bottom" /\ up[f[i].host[1]]
    IN  host = <<>> \/ (host[2] # "bottom" /\ up[host[1]])

\* The inner bounds of a host face.
InnerBounds(f, host) ==
    {100 * i + 94 : i \in {j \in DOMAIN f : f[j].host = host}}
    \cup {100 * i + 95 : i \in {j \in DOMAIN f : f[j].to = host}}

Normal(a, b) ==
    CASE b[1] > a[1] -> <<0, -1, 0>> [] b[1] < a[1] -> <<0, 1, 0>>
      [] b[2] > a[2] -> <<1, 0, 0>> [] OTHER -> <<-1, 0, 0>>

\* The entities of feature i: sides 1.., planes 11.., bounds 21.., loops 31.., edges at
\* the foot 41.., at the top 51.., upright 61..; 90 the top, 91 the bottom, with planes
\* 92 and 93, the bounds on the hosts 94 and 95, of top and bottom 96 and 97, and the
\* loops 98 (foot) and 99 (top).
FeatureEntities(f, i) ==
    LET n == Len(f[i].corners)
        zFrom == LevelOf(f, f[i].host)
        zTo == IF f[i].to = <<>> THEN zFrom + 2 * f[i].height ELSE LevelOf(f, f[i].to)
        up == LooksUp(f, f[i].host)
        convex == f[i].host = <<>> \/ (f[i].to = <<>> /\ (f[i].height > 0) = up)
        b == 100 * i
        At(k, z) == Twice(f[i].corners[k]) \o <<z>>
        Line(p, q) == [kind |-> "edge", from |-> p, to |-> q, curve |-> "line"]
        Foot(k) == b + 40 + k
        Head1(k) == b + 50 + k
        Upright(k) == b + 60 + k
        Out(k) == Normal(f[i].corners[k], f[i].corners[Next1(k, n)])
        cells == Inside(f[i].corners)
        Flat(z) == [kind |-> "plane", normal |-> <<0, 0, 1>>, at |-> z]
    IN  [x \in {b + k : k \in 1 .. n} |->
            [kind |-> "face", on |-> x + 10, bounds |-> {x + 20}, sense |-> convex]]
        @@ [x \in {b + 10 + k : k \in 1 .. n} |->
            LET k == x - b - 10
                o == Out(k)
                p == At(k, zFrom)
            IN  [kind |-> "plane", normal |-> o, at |-> p[1] * o[1] + p[2] * o[2]]]
        @@ [x \in {b + 20 + k : k \in 1 .. n} |->
            [kind |-> "bound", outer |-> TRUE, loop |-> x + 10, forward |-> TRUE]]
        @@ [x \in {b + 30 + k : k \in 1 .. n} |->
            LET k == x - b - 30 IN
            [kind |-> "loop", area |-> {},
             uses |-> <<<<Foot(k), TRUE>>, <<Upright(Next1(k, n)), TRUE>>,
                        <<Head1(k), FALSE>>, <<Upright(k), FALSE>>>>]]
        @@ [x \in {Foot(k) : k \in 1 .. n} |-> Line(At(x - b - 40, zFrom), At(Next1(x - b - 40, n), zFrom))]
        @@ [x \in {Head1(k) : k \in 1 .. n} |-> Line(At(x - b - 50, zTo), At(Next1(x - b - 50, n), zTo))]
        @@ [x \in {Upright(k) : k \in 1 .. n} |-> Line(At(x - b - 60, zFrom), At(x - b - 60, zTo))]
        @@ ((b + 98) :> [kind |-> "loop", area |-> cells, uses |-> [k \in 1 .. n |-> <<Foot(k), TRUE>>]])
        @@ ((b + 99) :> [kind |-> "loop", area |-> cells, uses |-> [k \in 1 .. n |-> <<Head1(k), TRUE>>]])
        @@ (IF f[i].to # <<>>
            THEN (b + 95) :> [kind |-> "bound", outer |-> FALSE, loop |-> b + 99, forward |-> TRUE]
            ELSE ((b + 90) :> [kind |-> "face", on |-> b + 92, sense |-> up,
                               bounds |-> {b + 96} \cup InnerBounds(f, TopOf(i))])
                 @@ ((b + 92) :> Flat(zTo))
                 @@ ((b + 96) :> [kind |-> "bound", outer |-> TRUE, loop |-> b + 99, forward |-> TRUE]))
        @@ (IF f[i].host # <<>>
            THEN (b + 94) :> [kind |-> "bound", outer |-> FALSE, loop |-> b + 98, forward |-> FALSE]
            ELSE ((b + 91) :> [kind |-> "face", on |-> b + 93, sense |-> FALSE,
                               bounds |-> {b + 97} \cup InnerBounds(f, BottomOf(i))])
                 @@ ((b + 93) :> Flat(zFrom))
                 @@ ((b + 97) :> [kind |-> "bound", outer |-> TRUE, loop |-> b + 98, forward |-> FALSE]))

\* A dome: faces 1 and 2 with one edge each on the host, 41 and 42, and two of the seam.
DomeEntities(f, i) ==
    LET b == 100 * i
        z == LevelOf(f, f[i].host)
        a == Twice(f[i].corners[1])
        From == <<a[1] + 2, a[2], z>>
        To == <<a[1] + 2, a[2] + 4, z>>
        Apex == <<a[1] + 2, a[2] + 2, z + 2 * f[i].height>>
        Edge(p, q) == [kind |-> "edge", from |-> p, to |-> q, curve |-> "arc"]
        cells == Inside(f[i].corners)
        right == {c \in cells : c[1] > a[1] + 2}
        Face(k) == [kind |-> "face", on |-> b + 11, bounds |-> {b + 20 + k}, sense |-> TRUE]
        Outer(k) == [kind |-> "bound", outer |-> TRUE, loop |-> b + 30 + k, forward |-> TRUE]
    IN  ((b + 1) :> Face(1)) @@ ((b + 2) :> Face(2))
        @@ ((b + 11) :> [kind |-> "sphere", centre |-> <<a[1] + 2, a[2] + 2, z>>,
                         radius |-> f[i].height, top |-> z + 2 * f[i].height])
        @@ ((b + 21) :> Outer(1)) @@ ((b + 22) :> Outer(2))
        @@ ((b + 31) :> [kind |-> "loop", area |-> right,
                         uses |-> <<<<b + 41, TRUE>>, <<b + 62, FALSE>>, <<b + 61, FALSE>>>>])
        @@ ((b + 32) :> [kind |-> "loop", area |-> cells \ right,
                         uses |-> <<<<b + 42, TRUE>>, <<b + 61, TRUE>>, <<b + 62, TRUE>>>>])
        @@ ((b + 41) :> Edge(From, To)) @@ ((b + 42) :> Edge(To, From))
        @@ ((b + 61) :> Edge(From, Apex)) @@ ((b + 62) :> Edge(Apex, To))
        @@ ((b + 94) :> [kind |-> "bound", outer |-> FALSE, loop |-> b + 98, forward |-> FALSE])
        @@ ((b + 98) :> [kind |-> "loop", area |-> cells,
                         uses |-> <<<<b + 41, TRUE>>, <<b + 42, TRUE>>>>])

\* All entities of a part, its shell (10), its solid (11) and a representation (1).
PartEntities(f) ==
    FoldSet(LAMBDA i, e : (IF f[i].to = <<"dome">> THEN DomeEntities(f, i) ELSE FeatureEntities(f, i)) @@ e,
            <<>>, DOMAIN f)
PartFaces(e) == {n \in DOMAIN e : e[n].kind = "face"}
Part(f) ==
    LET e == PartEntities(f)
    IN  e @@ (10 :> [kind |-> "shell", closed |-> TRUE, faces |-> PartFaces(e)])
          @@ (11 :> [kind |-> "solid", shell |-> 10])
          @@ (1 :> [kind |-> "brep", items |-> <<11>>, context |-> 2])
          @@ (2 :> [kind |-> "context"])
=============================================================================
