------------------------------- MODULE BodyEdit -------------------------------
(***************************************************************************)
(* Resizing the periodic body of a count parameter (periodic_bodies.rs and *)
(* periodic_resize/body.rs).  The lattice of the body comes from a row of  *)
(* instances.  Faces of the body that repeat on the lattice are its sites, *)
(* faces that run along all of them are stretched and the rest is fixed to *)
(* an end.  A body grows by copies of its middle site and shrinks by       *)
(* leaving out its last ones; the cap at that end moves, and the stretched *)
(* faces get boundaries over what is there then.                           *)
(*                                                                         *)
(* Unlike the chain editor this one welds nothing and collects nothing:    *)
(* what left the shell stays in the file.                                  *)
(***************************************************************************)
EXTENDS PeriodicSolid, Sequences

CONSTANTS
    Design,      \* what the body may be
    Ideal,       \* [Design -> [sites -> the skin of the body that starts at 0]]
    Regular,     \* the designs of which every fixed face is at an end
    Pitch,       \* of the row of instances
    MinFamilies, \* fewest families of repeated faces (4 in the code)
    MinSites,    \* fewest sites (4 in the code)
    MaxSites,    \* bound: most sites
    MaxEdits     \* bound: edits of one behaviour

BodyAssumption ==
    /\ Regular \subseteq Design /\ Pitch \in Nat \ {0} /\ MinFamilies \in Nat \ {0}
    /\ MinSites \in Nat /\ MinSites >= 2 /\ MaxSites \in Nat /\ MaxEdits \in Nat
    /\ \A d \in Design : MinSites .. MaxSites \subseteq DOMAIN Ideal[d]

VARIABLES
    file,      \* the bytes the caller has: the body and the sites of its row
    draft,     \* the body the edit works on
    edit,      \* the edit under way
    meant,     \* for the properties: what the body should be
    edits      \* bound: edits so far

vars == <<file, draft, edit, meant, edits>>

Anchors == {"start", "end"}
Idle(outcome) == [step |-> "idle", outcome |-> outcome]

Meant(m) == Shifted(Ideal[m.design][m.sites], m.at)

-----------------------------------------------------------------------------
(* Detection (detect_periodic_bodies_with_index).                          *)

\* analyze_planar_line_face: only faces with straight edges are analysed.  Lengths are
\* doubled; the key is the shape but the position along the axis.
FaceInfo(s, f) ==
    LET points == {s.pt[v] : v \in VerticesOf(s, s.bound[f])}
        xs == {p[1] : p \in points}
    IN  [centre |-> Min(xs) + Max(xs), span |-> 2 * (Max(xs) - Min(xs)),
         key |-> [kind |-> s.kind[f], edges |-> Cardinality(s.bound[f]),
                  points |-> {<<2 * p[1] - (Min(xs) + Max(xs)), p[2]>> : p \in points}]]

Analysed(s) == {f \in s.shell : \A e \in s.bound[f] : s.curve[e] = "line"}

\* A family has one face of one shape and phase at each of the sites.
Families(s, n) ==
    LET info == [f \in Analysed(s) |-> FaceInfo(s, f)]
        Group(f) == {h \in DOMAIN info :
                        /\ info[h].key = info[f].key
                        /\ (info[h].centre - info[f].centre) % (2 * Pitch) = 0}
        Centres(g) == {info[h].centre : h \in g}
    IN  {g \in {Group(f) : f \in DOMAIN info} :
            /\ Cardinality(g) = n
            /\ Centres(g) = {Min(Centres(g)) + 2 * Pitch * i : i \in 0 .. n - 1}}

Bodies(s, n) ==
    LET families == Families(s, n)
        repeat == UNION families
        stretch == {f \in Analysed(s) \ repeat : FaceInfo(s, f).span >= 2 * (n - 1) * Pitch}
        Nth(g, i) == CHOOSE f \in g :
            Cardinality({h \in g : FaceInfo(s, h).centre < FaceInfo(s, f).centre}) = i
    IN  IF /\ Cardinality(s.shell) >= 4 * n
           /\ Cardinality(families) >= MinFamilies
        THEN {[sites |-> n, site |-> [i \in 0 .. n - 1 |-> {Nth(g, i) : g \in families}],
               stretch |-> stretch, fixed |-> s.shell \ (repeat \cup stretch)]}
        ELSE {}

\* detect_count_parameters, of one row and one body.
Parameters(s, n) == IF n >= MinSites THEN Bodies(s, n) ELSE {}

-----------------------------------------------------------------------------
(* The body as an edit looks at it (BodyResizeContext).                    *)

\* (Slip: both anchors are the start.)
DirectionIgnored(anchor) == 1
Direction(anchor) == IF anchor = "end" THEN -1 ELSE 1

\* reverse_periodic_body.
Directed(b, dir) ==
    IF dir = 1 THEN b ELSE [b EXCEPT !.site = [i \in DOMAIN @ |-> @[b.sites - 1 - i]]]

Repeat(b) == UNION {b.site[i] : i \in DOMAIN b.site}

\* The fixed faces half a pitch beyond the last site belong to the cap that moves.
RightFixed(s, b, dir) ==
    LET last == b.site[b.sites - 1]
        n == Cardinality(last)
    IN  {f \in b.fixed : dir * FaceInfo(s, f).centre * n
                            >= MapThenSumSet(LAMBDA h : dir * FaceInfo(s, h).centre, last)
                               + n * Pitch}

Delta(e) == e.dir * (e.sites - e.body.sites) * Pitch

\* The site that is copied, the sites that stay.
Canonical(e) == e.body.sites \div 2
KeptSites(e) == 0 .. (IF e.sites < e.body.sites THEN e.sites ELSE e.body.sites) - 1
Kept(e) == UNION {e.body.site[i] : i \in KeptSites(e)}
Image(m, S) == {m[x] : x \in S}

\* The faces an edge of the stretched faces can end at, and find_vertex on them.
TargetPatch(e) ==
    Kept(e) \cup (e.body.fixed \ e.right) \cup Image(e.cap.faces, e.right)
    \cup UNION {Image(c.faces, e.body.site[Canonical(e)]) : c \in e.copies}
VerticesAt(e, s, p) ==
    {v \in VerticesOf(s, EdgesOf(s, TargetPatch(e))) : s.pt[v] = p}

Moved(p, dx) == <<p[1] + dx, p[2]>>

-----------------------------------------------------------------------------
(* The stretched faces (BodyStretchRewrite::run).                          *)

\* The edges of a stretched face that another face has already: the sites that stay,
\* the copies of the canonical one, the fixed faces and the cap that moved.
SharedEdges(e, src, f) ==
    LET With(faces) == src.bound[f] \cap EdgesOf(src, faces)
    IN  With(Kept(e)) \cup With(e.body.fixed \ e.right) \cup Image(e.cap.edges, With(e.right))
        \cup UNION {Image(c.edges, With(e.body.site[Canonical(e)])) : c \in e.copies}

\* The rows of edges between two stretched faces, in the order of their centres.
StretchPairs(e, src) ==
    {p \in SUBSET e.body.stretch : Cardinality(p) = 2
        /\ \E x \in EdgesOf(src, p) : EdgeFaces(src, x, src.shell) = p}
RowOf(e, src, p) == {x \in EdgesOf(src, p) : EdgeFaces(src, x, src.shell) = p}
IsFull(e, src, x) == EdgeSpan(src, x, e.dir) > (e.body.sites - 1) * Pitch
Short(e, src, p) == {x \in RowOf(e, src, p) : ~IsFull(e, src, x)}
NthShort(e, src, p, i) ==
    CHOOSE x \in Short(e, src, p) :
        Cardinality({y \in Short(e, src, p) :
                        EdgeCentre2(src, y, e.dir) < EdgeCentre2(src, x, e.dir)}) = i

\* What becomes of the row: edges that stay, and edges [like, ends] that are made.
\* An edge along all sites gets a new far end; of the short ones the first stays, those
\* between sites stay or are continued at the pitch, and the last moves with the cap.
RowKept(e, src, p) ==
    LET n == e.body.sites
        gaps == IF e.sites > n THEN n - 1 ELSE e.sites - 1
    IN  IF Short(e, src, p) = {} THEN {}
        ELSE {NthShort(e, src, p, i) : i \in 0 .. gaps}
RowMade(e, src, s, p) ==
    LET n == e.body.sites
        Ends2(x, dx) == [i \in 1 .. 2 |-> VerticesAt(e, s, Moved(src.pt[src.ends[x][i]], dx))]
        near(x) == CHOOSE v \in VerticesOf(src, {x}) :
                      \A w \in VerticesOf(src, {x}) : e.dir * src.pt[v][1] <= e.dir * src.pt[w][1]
        far(x) == CHOOSE v \in VerticesOf(src, {x}) : v # near(x)
        full == {[like |-> x, ends |-> <<{near(x)}, VerticesAt(e, s, Moved(src.pt[far(x)], Delta(e)))>>] :
                    x \in RowOf(e, src, p) \ Short(e, src, p)}
        gap == NthShort(e, src, p, n - 1)
        last == NthShort(e, src, p, n)
    IN  full \cup
        (IF Short(e, src, p) = {} THEN {}
         ELSE {[like |-> last, ends |-> Ends2(last, Delta(e))]}
              \cup {[like |-> gap, ends |-> Ends2(gap, e.dir * i * Pitch)] :
                        i \in 1 .. (IF e.sites > n THEN e.sites - n ELSE 0)})

\* The solid with the stretched faces rebuilt, and whether that could be done.
Restretched(e, src, s) ==
    LET pairs == StretchPairs(e, src)
        making == {[pair |-> p, edge |-> m] :
                     <<p, m>> \in UNION {{<<p, m>> : m \in RowMade(e, src, s, p)} : p \in pairs}}
        grammar == \A p \in pairs : Cardinality(Short(e, src, p)) \in {0, e.body.sites + 1}
        made == FoldSet(LAMBDA x, acc :
                    IF \A i \in 1 .. 2 : Cardinality(x.edge.ends[i]) = 1
                    THEN [solid |-> MakeEdgeLike(acc.solid, x.edge.like,
                                        CHOOSE v \in x.edge.ends[1] : TRUE,
                                        CHOOSE v \in x.edge.ends[2] : TRUE),
                          of |-> (NextId(DOMAIN acc.solid.ends) :> x.pair) @@ acc.of,
                          ok |-> acc.ok]
                    ELSE [acc EXCEPT !.ok = FALSE],
                    [solid |-> s, of |-> <<>>, ok |-> TRUE], making)
        Boundary(f) == SharedEdges(e, src, f)
                       \cup UNION {RowKept(e, src, p) : p \in {p \in pairs : f \in p}}
                       \cup {x \in DOMAIN made.of : f \in made.of[x]}
    IN  IF grammar /\ made.ok
        THEN LET t == [made.solid EXCEPT !.bound = [f \in e.body.stretch |-> Boundary(f)] @@ @]
             IN  [solid |-> t, ok |-> \A f \in e.body.stretch : IsBoundary(t, t.bound[f])]
        ELSE [solid |-> s, ok |-> FALSE]

-----------------------------------------------------------------------------
Init ==
    /\ meant \in [design : Design, sites : MinSites .. MaxSites, at : {0}]
    /\ file = [body |-> Solid(Meant(meant)), sites |-> meant.sites]
    /\ draft = file.body
    /\ edit = Idle("none")
    /\ edits = 0

\* The edit looks at the body from the end that is fixed.
Begin(n, anchor) ==
    /\ edit.step = "idle" /\ edits < MaxEdits
    /\ n # file.sites /\ n >= MinSites
    /\ \E p \in Parameters(file.body, file.sites) :
        LET dir == Direction(anchor)
            b == Directed(p, dir)
            right == RightFixed(file.body, b, dir)
        IN  /\ right # {} /\ right # b.fixed
            /\ edit' = [step |-> "cap", body |-> b, dir |-> dir, sites |-> n, anchor |-> anchor, right |-> right,
                        cap |-> [faces |-> <<>>, edges |-> <<>>], copies |-> {}]
    /\ draft' = file.body
    /\ edits' = edits + 1
    /\ UNCHANGED <<file, meant>>

\* The cap at the far end is copied to where it will be.
MoveCap ==
    /\ edit.step = "cap"
    /\ LET q == CloneDescendants(draft, edit.right, Delta(edit))
       IN  /\ draft' = q.solid
           /\ edit' = [edit EXCEPT !.cap = [faces |-> q.faces, edges |-> q.edges],
                                   !.step = IF edit.sites > edit.body.sites THEN "copy" ELSE "rewrite"]
    /\ UNCHANGED <<file, meant, edits>>

\* One more copy of the canonical site.
\* (Slip: counted from the last site.)
CopySiteFromLast ==
    /\ edit.step = "copy"
    /\ LET n == edit.body.sites
           i == Cardinality(edit.copies) + 1
           q == CloneDescendants(draft, edit.body.site[Canonical(edit)], edit.dir * i * Pitch)
       IN  /\ draft' = q.solid
           /\ edit' = [edit EXCEPT !.copies = @ \cup {[faces |-> q.faces, edges |-> q.edges]},
                                   !.step = IF n + i = edit.sites THEN "rewrite" ELSE "copy"]
    /\ UNCHANGED <<file, meant, edits>>

CopySite ==
    /\ edit.step = "copy"
    /\ LET n == edit.body.sites
           i == Cardinality(edit.copies)
           q == CloneDescendants(draft, edit.body.site[Canonical(edit)],
                                 edit.dir * (n + i - Canonical(edit)) * Pitch)
       IN  /\ draft' = q.solid
           /\ edit' = [edit EXCEPT !.copies = @ \cup {[faces |-> q.faces, edges |-> q.edges]},
                                   !.step = IF n + i + 1 = edit.sites THEN "rewrite" ELSE "copy"]
    /\ UNCHANGED <<file, meant, edits>>

\* The shell without what was left out or replaced, with what is new.
\* (Slip: the old cap stays.)
ShelledWithOldCap(e, shell) ==
    (shell \ (Repeat(e.body) \ Kept(e))) \cup Image(e.cap.faces, e.right)
    \cup UNION {Image(c.faces, e.body.site[Canonical(e)]) : c \in e.copies}
Shelled(e, shell) ==
    (shell \ (e.right \cup (Repeat(e.body) \ Kept(e)))) \cup Image(e.cap.faces, e.right)
    \cup UNION {Image(c.faces, e.body.site[Canonical(e)]) : c \in e.copies}

Rewritten == Restretched(edit, file.body, draft)

\* The stretched faces, then the shell.
Rewrite ==
    /\ edit.step = "rewrite" /\ Rewritten.ok
    /\ draft' = Renumbered([Rewritten.solid EXCEPT !.shell = Shelled(edit, @)])
    /\ edit' = [edit EXCEPT !.step = "verify"]
    /\ UNCHANGED <<file, meant, edits>>

\* The row is resized along with the body; the parameter must be there again.
Verified == Parameters(draft, edit.sites) # {}

Accept ==
    /\ edit.step = "verify" /\ Verified
    /\ file' = [body |-> draft, sites |-> edit.sites]
    /\ meant' = [meant EXCEPT !.sites = edit.sites,
                    !.at = IF edit.anchor = "end" THEN @ - (edit.sites - file.sites) * Pitch ELSE @]
    /\ edit' = Idle("accepted")
    /\ UNCHANGED <<draft, edits>>

\* The caller keeps the bytes it had.
Refuse ==
    /\ \/ edit.step = "rewrite" /\ ~Rewritten.ok
       \/ edit.step = "verify" /\ ~Verified
    /\ edit' = Idle("refused")
    /\ draft' = file.body
    /\ UNCHANGED <<file, meant, edits>>

Next ==
    \/ \E n \in MinSites .. MaxSites, anchor \in Anchors : Begin(n, anchor)
    \/ MoveCap
    \/ CopySite
    \/ Rewrite
    \/ Accept
    \/ Refuse

Spec == Init /\ [][Next]_vars

-----------------------------------------------------------------------------
TypeOK ==
    /\ \A s \in {file.body, draft} :
          /\ s.shell \subseteq DOMAIN s.bound /\ DOMAIN s.kind = DOMAIN s.bound
          /\ EdgesOf(s, DOMAIN s.bound) \subseteq DOMAIN s.ends /\ DOMAIN s.curve = DOMAIN s.ends
          /\ VerticesOf(s, DOMAIN s.ends) \subseteq DOMAIN s.pt
    /\ file.sites \in MinSites .. MaxSites
    /\ edit.step \in {"idle", "cap", "copy", "rewrite", "verify"}
    /\ meant.design \in Design /\ meant.sites \in MinSites .. MaxSites /\ meant.at \in Int
    /\ edits \in 0 .. MaxEdits

\* An accepted edit of a body whose fixed faces are at its ends makes that body with the
\* new number of sites, whatever its entities are, with the anchored end where it was.
\* (README.md:28: the direct graph rewrite produces a valid closed B-rep.)
ResultIsTheBody ==
    meant.design \in Regular => Skin(file.body) = Meant(meant)

\* Whatever the body is, the shell of a result is closed: every edge of it has two of
\* its faces.  No step of the edit checks this.
ShellIsClosed ==
    \A e \in EdgesOf(file.body, file.body.shell) :
        Cardinality(EdgeFaces(file.body, e, file.body.shell)) = 2

\* A body whose fixed faces are at its ends is edited, whatever the counts.
RegularBodiesAreEdited ==
    meant.design \in Regular /\ edit.step = "idle" => edit.outcome # "refused"

=============================================================================
