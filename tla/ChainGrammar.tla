------------------------------ MODULE ChainGrammar ------------------------------
(***************************************************************************)
(* Periodic chains (periodic_chains.rs): one fused solid of which most     *)
(* faces fall into sites at a constant pitch and gaps between them.  The   *)
(* lattice is voted for by rows of equal faces, every position of the      *)
(* lattice that the faces allow is tried, and the best scoring partition   *)
(* of the faces becomes the pattern, with a verdict on whether it is       *)
(* proven.                                                                 *)
(*                                                                         *)
(* Lengths are doubled, so that centres are integers.  One axis is modelled *)
(* and the rows of the other two are left out.                             *)
(***************************************************************************)
EXTENDS PeriodicSolid

CONSTANTS
    MinFaces,     \* fewest faces of a chain (16 in the code)
    MinRow,       \* MIN_FAMILY_INSTANCES (4 in the code)
    MinVotes      \* MIN_LATTICE_FAMILY_VOTES (4 in the code)

ASSUME GrammarAssumption == MinFaces \in Nat /\ MinRow \in Nat \ {0, 1} /\ MinVotes \in Nat

Diff(a, b) == IF a > b THEN a - b ELSE b - a

\* face_geometry: the extent of a face along the axis, and all of its shape but the
\* position along it (IntrinsicFaceKey with the other two coordinates).
FaceGeometry(s, f) ==
    LET points == {At(s, v) : v \in VerticesOf(s, s.bound[f])}
        lo == Min({p[1] : p \in points})  hi == Max({p[1] : p \in points})
    IN  [lo |-> 2 * lo, hi |-> 2 * hi, centre |-> lo + hi, span |-> 2 * (hi - lo),
         key |-> [kind |-> s.kind[f], edges |-> Cardinality(s.bound[f]),
                  points |-> {<<2 * p[1] - (lo + hi), p[2]>> : p \in points}],
         coarse |-> <<hi - lo, s.kind[f], Cardinality(s.bound[f])>>]

Geometry(s) == [f \in s.shell |-> FaceGeometry(s, f)]

\* The faces of equal shape, one for every centre they have.
Rows(g, faces) ==
    LET keys == {g[f].key : f \in faces}
    IN  {LET same == {f \in faces : g[f].key = k}
             First(c) == CHOOSE f \in same :
                            g[f].centre = c /\ \A h \in same : g[h].centre = c => f <= h
         IN  {First(c) : c \in {g[f].centre : f \in same}} : k \in keys}

Centres(g, row) == {g[f].centre : f \in row}
RowPitch(c) == (Max(c) - Min(c)) \div (Cardinality(c) - 1)

\* infer_lattice: rows at a constant pitch vote for the pitch and the number of sites.
Lattices(g) ==
    LET Even(c) == Cardinality(c) >= MinRow
                   /\ c = {Min(c) + i * RowPitch(c) : i \in 0 .. Cardinality(c) - 1}
        even == {r \in Rows(g, DOMAIN g) : Even(Centres(g, r))}
        Votes(r) == <<RowPitch(Centres(g, r)), Cardinality(r)>>
    IN  {[pitch |-> v[1], sites |-> v[2], rows |-> {r \in even : Votes(r) = v}] :
            v \in {Votes(r) : r \in even}}

Preferred(a, b) ==
    \/ Cardinality(a.rows) > Cardinality(b.rows)
    \/ /\ Cardinality(a.rows) = Cardinality(b.rows)
       /\ a.sites > b.sites \/ (a.sites = b.sites /\ a.pitch < b.pitch)

InferLattice(g) ==
    CHOOSE l \in Lattices(g) : \A m \in Lattices(g) : m # l => Preferred(l, m)

\* choose_partition: the runs of face centres at the pitch, and in them every window
\* of as many centres as the lattice has sites.
Windows(g, l) ==
    LET ticks == {g[f].centre : f \in {f \in DOMAIN g : g[f].span <= l.pitch}}
    IN  {c \in ticks : \A i \in 0 .. l.sites - 1 : c + i * l.pitch \in ticks}

Observed(g, l, w) ==
    Cardinality({f \in DOMAIN g :
        /\ g[f].span <= l.pitch /\ (g[f].centre - w) % l.pitch = 0
        /\ g[f].centre \in w .. w + (l.sites - 1) * l.pitch})

Rest(g, part) ==
    DOMAIN g \ (UNION {part.site[i] : i \in DOMAIN part.site}
                \cup UNION {part.gap[i] : i \in DOMAIN part.gap} \cup part.stretch)

\* classify_faces, of the window that starts at w: the rows of the lattice are the
\* sites, what is longer than the pitch is stretched, and of the rest the faces
\* between two sites that the most frequent census of a gap asks for are its gap.
Classified(g, l, w) ==
    LET Nth(row, i) == CHOOSE f \in row :
                          g[f].centre = Min(Centres(g, row)) + i * l.pitch
        site == [i \in 0 .. l.sites - 1 |-> {Nth(r, i) : r \in l.rows}]
        sited == UNION l.rows
        stretch == {f \in DOMAIN g \ sited : g[f].span > l.pitch}
        Centre(i) == w + i * l.pitch
        Middle(i) == Centre(i) + l.pitch \div 2
        between == [i \in 0 .. l.sites - 2 |->
            {f \in DOMAIN g \ (sited \cup stretch) :
                /\ g[f].lo <= Middle(i) /\ g[f].hi >= Middle(i)
                /\ g[f].lo >= Centre(i) /\ g[f].hi <= Centre(i + 1)}]
        Census(i) == LET kinds == {g[f].coarse : f \in between[i]}
                     IN  [k \in kinds |-> Cardinality({f \in between[i] : g[f].coarse = k})]
        Frequency(c) == Cardinality({i \in DOMAIN between : Census(i) = c})
        censuses == {Census(i) : i \in DOMAIN between}
        generic == CHOOSE c \in censuses :
                      \A d \in censuses : Frequency(d) <= Frequency(c)
        Wanted(i, f) ==
            /\ g[f].coarse \in DOMAIN generic
            /\ Cardinality({h \in between[i] : g[h].coarse = g[f].coarse /\ h < f})
                 < generic[g[f].coarse]
    IN  [site |-> site, stretch |-> stretch,
         gap |-> [i \in DOMAIN between |-> {f \in between[i] : Wanted(i, f)}]]

\* overlay_site_alignment: the site a run of further faces starts at, if one is nearest.
Alignments(l, w, first, length) ==
    LET starts == {j \in 0 .. l.sites - length :
                      Diff(first, w + j * l.pitch) <= l.pitch \div 2 + 1}
    IN  {j \in starts : \A k \in starts \ {j} :
            Diff(first, w + j * l.pitch) < Diff(first, w + k * l.pitch)}

\* promote_periodic_overlays: rows of equal faces among the rest, of any phase, that
\* run along all sites but two belong to the sites they run along.
Promoted(g, l, w, part) ==
    LET least == IF l.sites - 2 > MinRow THEN l.sites - 2 ELSE MinRow
        spare == {f \in Rest(g, part) : g[f].span <= l.pitch}
        Overlay(i) ==
            {f \in spare : \E row \in Rows(g, spare) :
                LET c == Centres(g, row)
                    Length(a) == Max({n \in 1 .. Cardinality(c) :
                                        \A k \in 0 .. n - 1 : a + k * l.pitch \in c})
                IN  /\ f \in row
                    /\ \E a \in {a \in c : a - l.pitch \notin c} :
                          /\ Length(a) \in least .. l.sites
                          /\ \E j \in Alignments(l, w, a, Length(a)) :
                                /\ i - j \in 0 .. Length(a) - 1
                                /\ g[f].centre = a + (i - j) * l.pitch}
    IN  [part EXCEPT !.site = [i \in DOMAIN @ |-> @[i] \cup Overlay(i)]]

\* Values of counts by number: mode_frequency, mode_value, symmetric_abs_difference.
Times(c, n) == Cardinality({i \in DOMAIN c : c[i] = n})
Values(c) == {c[i] : i \in DOMAIN c}
ModeFrequency(c) == Max({Times(c, n) : n \in Values(c)})
ModeValue(c) == Max({n \in Values(c) : Times(c, n) = ModeFrequency(c)})
Asymmetry(c) ==
    LET n == Cardinality(DOMAIN c)
    IN  MapThenSumSet(LAMBDA i : Diff(c[i], c[n - 1 - i]), 0 .. (n \div 2) - 1)

Counts(part) == [i \in DOMAIN part |-> Cardinality(part[i])]

\* partition_score, best first.
Score(g, l, w, part) ==
    LET fixed == Rest(g, part)
        middle == 2 * w + (l.sites - 1) * l.pitch
        Beside(less) == Cardinality({f \in fixed : IF less THEN 2 * g[f].centre < middle
                                                           ELSE 2 * g[f].centre > middle})
    IN  << -Diff(Beside(TRUE), Beside(FALSE)),
           -Asymmetry(Counts(part.site)), -Asymmetry(Counts(part.gap)),
           ModeFrequency(Counts(part.gap)), ModeFrequency(Counts(part.site)),
           -Cardinality(fixed), Beside(TRUE) + Beside(FALSE) - Cardinality(fixed),
           Observed(g, l, w) >>

Better(a, b) ==
    \E i \in DOMAIN a : a[i] > b[i] /\ \A j \in 1 .. i - 1 : a[j] = b[j]

\* The windows are tried from the lowest; a later one has to be better.
\* (Slip: the overlays are promoted in the chosen partition only.)
ChosenThenPromoted(g, l) ==
    LET tried == [w \in Windows(g, l) |-> Classified(g, l, w)]
        score == [w \in DOMAIN tried |-> Score(g, l, w, tried[w])]
        best == CHOOSE w \in DOMAIN tried : \A v \in DOMAIN tried \ {w} :
                    \/ Better(score[w], score[v])
                    \/ ~Better(score[v], score[w]) /\ w < v
    IN  [part |-> Promoted(g, l, best, tried[best]), window |-> best]

ChoosePartition(g, l) ==
    LET tried == [w \in Windows(g, l) |-> Promoted(g, l, w, Classified(g, l, w))]
        score == [w \in DOMAIN tried |-> Score(g, l, w, tried[w])]
        best == CHOOSE w \in DOMAIN tried : \A v \in DOMAIN tried \ {w} :
                    \/ Better(score[w], score[v])
                    \/ ~Better(score[v], score[w]) /\ w < v
    IN  [part |-> tried[best], window |-> best]

\* build_pattern: what a chain is edited by, and whether it may be.  The fixed faces
\* are told apart by the seam of an edit, between the third and the second last site.
BuildPattern(s, g, l, chosen) ==
    LET part == chosen.part
        n == l.sites
        Centre(i) == chosen.window + i * l.pitch
        seam == Centre(n - 3) + l.pitch \div 2
        fixed == Rest(g, part)
        sites == Counts(part.site)
        gaps == Counts(part.gap)
        shared == [e \in EdgesOf(s, s.shell) |-> EdgeFaces(s, e, s.shell)]
        manifold == {e \in DOMAIN shared : Cardinality(shared[e]) = 2}
        SiteOf(f) == CHOOSE i \in DOMAIN part.site : f \in part.site[i]
        sited == UNION {part.site[i] : i \in DOMAIN part.site}
        \* Edges between two sites.
        crossing == {e \in manifold : shared[e] \subseteq sited
                                      /\ Cardinality({SiteOf(f) : f \in shared[e]}) = 2}
        Step(e) == Max({SiteOf(f) : f \in shared[e]}) - Min({SiteOf(f) : f \in shared[e]})
        seams == [i \in 0 .. n - 2 |->
                    Cardinality({e \in crossing : Step(e) = 1
                                      /\ Min({SiteOf(f) : f \in shared[e]}) = i})]
        interior == IF n > 4 THEN 2 .. n - 3 ELSE 0 .. n - 1
        periodic == MapThenSumSet(LAMBDA i : sites[i], DOMAIN sites)
                    + MapThenSumSet(LAMBDA i : gaps[i], DOMAIN gaps)
    IN  [sites |-> n, pitch |-> l.pitch, first |-> Centre(0),
         site |-> part.site, gap |-> part.gap, stretch |-> part.stretch,
         negative |-> {f \in fixed : g[f].centre < seam},
         positive |-> {f \in fixed : g[f].centre > seam},
         siteFaces |-> ModeValue(sites), gapFaces |-> ModeValue(gaps), seams |-> seams,
         proven |->
            /\ Cardinality(l.rows) >= MinVotes
            /\ manifold = DOMAIN shared
            /\ \A e \in crossing : Step(e) = 1
            /\ \A i \in DOMAIN seams : seams[i] = seams[0]
            /\ \A f \in fixed : g[f].centre # seam
            /\ \A i \in DOMAIN gaps : gaps[i] = ModeValue(gaps)
            /\ \A i \in interior : sites[i] = ModeValue(sites)
            /\ 2 * periodic >= Cardinality(s.shell)]

\* detect_periodic_chains, of one solid: its patterns, none or one.
Detected(s) ==
    LET g == Geometry(s) IN
    IF /\ Cardinality(s.shell) >= MinFaces
       /\ \E l \in Lattices(g) : Cardinality(l.rows) >= MinVotes
       /\ Windows(g, InferLattice(g)) # {}
    THEN LET l == InferLattice(g) IN {BuildPattern(s, g, l, ChoosePartition(g, l))}
    ELSE {}

\* The grammar that the editor compares two patterns by.  The sites themselves are
\* not compared.
SameGrammar(p, q) ==
    /\ p.pitch = q.pitch
    /\ p.siteFaces = q.siteFaces /\ p.gapFaces = q.gapFaces
    /\ Cardinality(p.stretch) = Cardinality(q.stretch)
    /\ Cardinality(p.negative) = Cardinality(q.negative)
    /\ Cardinality(p.positive) = Cardinality(q.positive)

=============================================================================
