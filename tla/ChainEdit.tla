------------------------------- MODULE ChainEdit -------------------------------
(***************************************************************************)
(* Resizing a periodic chain (lib.rs, periodic_resize/chain.rs and         *)
(* chain_weld.rs).  A chain grows by copies of one gap and one site and by *)
(* moving its tail (the last two sites with what is beyond them), or it    *)
(* shrinks by dropping sites before the tail.  The copies are welded where *)
(* they meet, the faces that run along the whole chain get new boundaries, *)
(* and the result has to show the grammar of the original again.  An edit  *)
(* at the far end looks at the chain reversed; a centred edit is one half  *)
(* at each end, the second on the bytes of the first.                      *)
(***************************************************************************)
EXTENDS ChainGrammar, Sequences

CONSTANTS
    Name,        \* the solids of the file
    Design,      \* what the solids may be
    Ideal,       \* [Design -> [sites -> the skin of the chain that starts at 0]]
    Regular,     \* the designs whose seams can be told apart and welded
    MinSites,    \* fewest sites an edit accepts (6 in the code)
    MaxSites,    \* bound: most sites
    MaxEdits,    \* bound: edits of one behaviour
    Files        \* what the files may be: [Name -> a design, its sites, where it starts]

ASSUME EditAssumption ==
    /\ Files \subseteq [Name -> [design : Design, sites : MinSites .. MaxSites, at : {0}]]
    /\ Regular \subseteq Design
    /\ MinSites \in Nat /\ MinSites >= 4 /\ MaxSites \in Nat /\ MaxEdits \in Nat
    /\ \A d \in Design : MinSites .. MaxSites \subseteq DOMAIN Ideal[d]

VARIABLES
    file,      \* the bytes the caller has: [Name -> solid]
    draft,     \* the entities the edit works on
    edit,      \* the edit under way
    meant,     \* for the properties: what each solid of the file should be
    edits      \* bound: edits so far

vars == <<file, draft, edit, meant, edits>>

Anchors == {"start", "center", "end"}
Idle(outcome) == [step |-> "idle", outcome |-> outcome]

Meant(m) == Shifted(Ideal[m.design][m.sites], m.at)

-----------------------------------------------------------------------------
(* The chain as an edit looks at it.                                       *)

\* reverse_periodic_chain: the same chain along the opposite axis.
Reversed(p) ==
    [p EXCEPT !.first = -(p.first + (p.sites - 1) * p.pitch),
              !.site = [i \in DOMAIN @ |-> @[p.sites - 1 - i]],
              !.gap = [i \in DOMAIN @ |-> @[p.sites - 2 - i]],
              !.negative = p.positive, !.positive = p.negative]

Directed(p, dir) == IF dir = 1 THEN p ELSE Reversed(p)

\* What moves, what is copied once per new site, what is dropped and what stays.
Moving(p) == p.gap[p.sites - 3] \cup p.site[p.sites - 2]
           \cup p.gap[p.sites - 2] \cup p.site[p.sites - 1] \cup p.positive
Unit(p) == p.gap[p.sites - 4] \cup p.site[p.sites - 3]
Kept(p, n) == UNION {p.site[i] : i \in 0 .. n - 3} \cup UNION {p.gap[i] : i \in 0 .. n - 4}
              \cup p.negative
Dropped(p, n) == UNION {p.site[i] : i \in n - 2 .. p.sites - 3}
                 \cup UNION {p.gap[i] : i \in n - 3 .. p.sites - 4}

Lesser(a, b) == IF a < b THEN a ELSE b

\* How far the tail moves, undoubled and in the coordinates of the file.
Shift(e, by) == e.dir * by * (e.chain.pitch \div 2)
Extra(e) == IF e.sites > e.chain.sites THEN e.sites - e.chain.sites ELSE 0
Delta(e) == Shift(e, e.sites - e.chain.sites)

-----------------------------------------------------------------------------
(* Welding (chain_weld.rs).                                                *)

EdgeKey(s, e) == [ends |-> {Quantised(q) : q \in Ends(s, e)}, curve |-> s.curve[e]]
Image(m, edges) == {m.edges[e] : e \in edges}
Copy(e, i) == e.units[i]

\* plan_chain_expansion_welds: the seams between what stays, the copies and the tail,
\* each as the edges that stay and the edges that go; of the sites with their gaps,
\* and of neighbouring sites where they touch.
\* (Slip: the tail is not welded to the last copy.)
GrowSeamsOpenTail(e, p, left, right) ==
    LET k == Len(e.units)
    IN  {<<right, Image(Copy(e, 1), left)>>}
        \cup {<<Image(Copy(e, i), right), Image(Copy(e, i + 1), left)>> : i \in 1 .. k - 1}
GrowSeams(e, p, left, right) ==
    LET k == Len(e.units)
    IN  {<<right, Image(Copy(e, 1), left)>>,
         <<Image(Copy(e, k), right), Image(e.tail, right)>>}
        \cup {<<Image(Copy(e, i), right), Image(Copy(e, i + 1), left)>> : i \in 1 .. k - 1}

\* plan_chain_shrink_welds.
Seams(e, s, overlay) ==
    LET p == e.chain  N == p.sites  n == e.sites
        Between(i, j) == Interface(s, p.site[i], IF overlay THEN p.site[j] ELSE p.gap[j])
    IN  IF n > N
        THEN GrowSeams(e, p, IF overlay THEN Between(N - 4, N - 3)
                                        ELSE Interface(s, p.gap[N - 4], p.site[N - 4]),
                             Between(N - 3, IF overlay THEN N - 2 ELSE N - 3))
        ELSE {<<Between(n - 3, IF overlay THEN n - 2 ELSE n - 3),
                Image(e.tail, Between(N - 3, IF overlay THEN N - 2 ELSE N - 3))>>}

AllSeams(e, s) ==
    Seams(e, s, FALSE) \cup (IF e.chain.seams[0] > 0 THEN Seams(e, s, TRUE) ELSE {})

\* chain_pair_edges_by_geometry: the edges of a seam are matched by their quantised
\* ends and their curve, one to one.
Pairable(s, seam) ==
    /\ {EdgeKey(s, a) : a \in seam[1]} = {EdgeKey(s, b) : b \in seam[2]}
    /\ \A side \in {1, 2} : \A a, b \in seam[side] : EdgeKey(s, a) = EdgeKey(s, b) => a = b

SeamsAreSound(e, s) ==
    /\ \A seam \in Seams(e, s, FALSE) : seam[1] # {} /\ seam[2] # {}
    /\ \A seam \in Seams(e, s, TRUE) : \A side \in {1, 2} :
          Cardinality(seam[side]) = e.chain.seams[0]
    /\ \A seam \in AllSeams(e, s) :
          /\ \A a \in seam[1] \cup seam[2] : s.curve[a] \in {"line", "spline"}
          /\ Pairable(s, seam)

\* chain_build_weld_maps: of two paired edges the second goes, and so do its vertices.
EdgeWelds(e, s) ==
    UNION {{<<b, CHOOSE a \in seam[1] : EdgeKey(s, a) = EdgeKey(s, b)>> : b \in seam[2]} :
              seam \in AllSeams(e, s)}
VertexWelds(e, s) ==
    UNION {{w \in VerticesOf(s, {q[1]}) \X VerticesOf(s, {q[2]}) : At(s, w[1]) = At(s, w[2])} :
              q \in EdgeWelds(e, s)}

IsMap(pairs) == \A a, b \in pairs : a[1] = b[1] => a = b
AsMap(pairs) == [x \in {q[1] : q \in pairs} |-> (CHOOSE q \in pairs : q[1] = x)[2]]

-----------------------------------------------------------------------------
(* The faces that run along the chain (ChainStretchRewrite::run).          *)

\* The welded solid, the faces of it that are neither stretched nor about to go.
Standing(e) ==
    Kept(e.chain, Lesser(e.sites, e.chain.sites))
    \cup {e.tail.faces[f] : f \in Moving(e.chain)}
    \cup UNION {{e.units[i].faces[f] : f \in Unit(e.chain)} : i \in DOMAIN e.units}

\* find_vertex: the vertices of those faces at a point.
VerticesAt(e, s, p) ==
    {v \in VerticesOf(s, EdgesOf(s, Standing(e))) : At(s, v) = Quantised(p)}

Moved(p, dx) == <<p[1] + dx, p[2]>>

\* The edges between two stretched faces: one along the whole chain gets a new far
\* end, one before the middle stays and one after it moves.
StretchEdges(e, src) ==
    {x \in EdgesOf(src, e.chain.stretch) :
        LET faces == EdgeFaces(src, x, src.shell)
        IN  Cardinality(faces) = 2 /\ faces \subseteq e.chain.stretch}

RunsAlong(e, src, x) == 2 * EdgeSpan(src, x, e.dir) > (e.chain.sites - 1) * e.chain.pitch
BeforeMiddle(e, src, x) ==
    2 * EdgeCentre2(src, x, e.dir) < 2 * e.chain.first + (e.chain.sites - 1) * e.chain.pitch

\* The ends an edge of the old solid gets in the new one: sets of vertices, each of
\* one vertex if the edge can be made.
NewEnds(e, src, s, x) ==
    LET near == CHOOSE v \in VerticesOf(src, {x}) :
                   \A w \in VerticesOf(src, {x}) : e.dir * src.pt[v][1] <= e.dir * src.pt[w][1]
        far == CHOOSE w \in VerticesOf(src, {x}) : VerticesOf(src, {x}) \ {w} \subseteq {near}
    IN  IF RunsAlong(e, src, x)
        THEN <<{near}, VerticesAt(e, s, Moved(src.pt[far], Delta(e)))>>
        ELSE [i \in 1 .. 2 |-> VerticesAt(e, s, Moved(src.pt[src.ends[x][i]], Delta(e)))]

Replaced(e, src) ==
    {x \in StretchEdges(e, src) : RunsAlong(e, src, x) \/ ~BeforeMiddle(e, src, x)}

\* The boundary of a stretched face with the faces that stay, are copied and move.
Bordering(e, src, f, emap) ==
    LET W(x) == IF x \in DOMAIN emap THEN emap[x] ELSE x
        Border(faces) == src.bound[f] \cap EdgesOf(src, faces)
    IN  {W(x) : x \in Border(Kept(e.chain, Lesser(e.sites, e.chain.sites)))}
        \cup {W(e.tail.edges[x]) : x \in Border(Moving(e.chain))}
        \cup UNION {{W(e.units[i].edges[x]) : x \in Border(Unit(e.chain))} : i \in DOMAIN e.units}

\* What the stretched faces become: the solid with the new edges, and whether they
\* all could be made and close the faces.
Restretched(e, src, s, emap) ==
    LET goes == Replaced(e, src)
        made == FoldSet(LAMBDA x, acc :
                    LET q == NewEnds(e, src, s, x) IN
                    IF \A i \in 1 .. 2 : Cardinality(q[i]) = 1
                    THEN [solid |-> MakeEdgeLike(acc.solid, x, CHOOSE v \in q[1] : TRUE,
                                                               CHOOSE v \in q[2] : TRUE),
                          edge |-> (x :> NextId(DOMAIN acc.solid.ends)) @@ acc.edge,
                          ok |-> acc.ok]
                    ELSE [acc EXCEPT !.ok = FALSE],
                    [solid |-> s, edge |-> <<>>, ok |-> TRUE], goes)
        Boundary(f) == Bordering(e, src, f, emap)
                       \cup {IF x \in goes THEN made.edge[x] ELSE x :
                                x \in StretchEdges(e, src) \cap src.bound[f]}
    IN  IF made.ok /\ StretchEdges(e, src) # {}
        THEN LET t == [made.solid EXCEPT !.bound =
                          [f \in e.chain.stretch |-> Boundary(f)] @@ @]
             IN  [solid |-> t, ok |-> \A f \in e.chain.stretch : IsBoundary(t, t.bound[f])]
        ELSE [solid |-> s, ok |-> FALSE]

-----------------------------------------------------------------------------
Init ==
    /\ meant \in Files
    /\ file = [c \in Name |-> Solid(Meant(meant[c]))]
    /\ draft = file
    /\ edit = Idle("none")
    /\ edits = 0

\* A one-sided edit begins on some bytes: c is the solid, p its pattern there.
Half(bytes, c, p, n, dir) ==
    [step |-> IF n > p.sites THEN "copy" ELSE "tail", solid |-> c, source |-> bytes[c],
     chain |-> Directed(p, dir), original |-> p, dir |-> dir, sites |-> n, units |-> <<>>]

\* The sites of the first half of an edit.
\* (Slip: the halving is forgotten.)
FirstSitesAll(p, n, anchor) == n
FirstSites(p, n, anchor) == IF anchor = "center" THEN (p.sites + n) \div 2 ELSE n

Proven(bytes, c) == {p \in Detected(bytes[c]) : p.proven}

Begin(c, p, n, anchor) ==
    /\ n # p.sites
    /\ anchor = "center" => n >= MinSites /\ (n - p.sites) % 2 = 0
    /\ p.sites >= MinSites /\ n >= MinSites
    /\ edit' = Half(file, c, p, FirstSites(p, n, anchor), IF anchor = "end" THEN -1 ELSE 1)
               @@ [want |-> n, anchor |-> anchor, asked |-> c, first |-> p]
    /\ draft' = file
    /\ edits' = edits + 1
    /\ UNCHANGED <<file, meant>>

\* One more copy of the unit, with its styles.
CopyUnit ==
    /\ edit.step = "copy" /\ Len(edit.units) < Extra(edit)
    /\ LET i == Len(edit.units) + 1
           q == CloneDescendants(draft[edit.solid], Unit(edit.chain), Shift(edit, i))
       IN  /\ draft' = [draft EXCEPT ![edit.solid] = CloneStyles(q.solid, q.faces)]
           /\ edit' = [edit EXCEPT !.units = Append(@, [faces |-> q.faces, edges |-> q.edges]),
                                   !.step = IF i = Extra(edit) THEN "tail" ELSE "copy"]
    /\ UNCHANGED <<file, meant, edits>>

MoveTail ==
    /\ edit.step = "tail"
    /\ LET q == CloneDescendants(draft[edit.solid], Moving(edit.chain), Delta(edit))
       IN  /\ draft' = [draft EXCEPT ![edit.solid] = CloneStyles(q.solid, q.faces)]
           /\ edit' = ("tail" :> [faces |-> q.faces, edges |-> q.edges])
                      @@ [edit EXCEPT !.step = "weld"]
    /\ UNCHANGED <<file, meant, edits>>

\* chain_apply_weld, the stretched faces, the shell, the styles and the collection of
\* what was replaced, then the passes over the whole section.
Finished(e, s, emap, vmap) ==
    LET p == e.chain
        gone == Moving(p) \cup (IF e.sites < p.sites THEN Dropped(p, e.sites) ELSE {})
        shelled == [s EXCEPT !.shell = (e.source.shell \ gone)
                                       \cup {e.tail.faces[f] : f \in Moving(p)}
                                       \cup UNION {{e.units[i].faces[f] : f \in Unit(p)} :
                                                     i \in DOMAIN e.units}]
    IN  Pruned(RemoveStyles(shelled, gone), gone,
               DOMAIN emap \cup EdgesOf(e.source, p.stretch), DOMAIN vmap)

\* What the copies and the tail are joined to, if they can be.
Joined(e, s) ==
    LET emap == AsMap(EdgeWelds(e, s))
        vmap == AsMap(VertexWelds(e, s))
        r == Restretched(e, e.source, Welded(s, Standing(e) \cup e.chain.stretch, vmap, emap),
                         emap)
    IN  IF SeamsAreSound(e, s) /\ IsMap(VertexWelds(e, s)) /\ r.ok
        THEN {Renumbered(WithoutDetachedVertices(Finished(e, r.solid, emap, vmap)))}
        ELSE {}

\* A seam, an edge or a boundary that cannot be made, or a result that does not
\* verify: the caller keeps the bytes it had.
Refuse ==
    /\ edit' = Idle("refused")
    /\ draft' = file
    /\ UNCHANGED <<file, meant, edits>>

Join ==
    /\ edit.step = "weld"
    /\ \E joined \in {Joined(edit, draft[edit.solid])} :
          \/ joined = {} /\ Refuse
          \/ /\ \E s \in joined : draft' = [draft EXCEPT ![edit.solid] = s]
             /\ edit' = [edit EXCEPT !.step = "verify"]
             /\ UNCHANGED <<file, meant, edits>>

\* Post-edit verification: some solid of the file shows the grammar with the sites.
Verified ==
    \E c \in Name : \E q \in Proven(draft, c) :
        /\ q.sites = edit.sites
        /\ SameGrammar(q, edit.original)
        /\ \A i \in DOMAIN q.seams : q.seams[i] = edit.original.seams[0]

\* find_matching_periodic_chain.
Matching == {c \in Name : \E q \in Proven(draft, c) :
                q.sites = edit.sites /\ SameGrammar(q, edit.first)}

\* The second half, at the other end of the chain that was found again.
OtherEnd ==
    \E found \in {Matching} :
    \/ Cardinality(found) # 1 /\ Refuse
    \/ \E c \in found :
          /\ found = {c}
          /\ edit' = Half(draft, c, CHOOSE q \in Proven(draft, c) : TRUE, edit.want, -1)
                     @@ [want |-> edit.want, anchor |-> edit.anchor,
                         asked |-> edit.asked, first |-> edit.first]
          /\ UNCHANGED <<file, draft, meant, edits>>

\* The result replaces the bytes.
Accept ==
    /\ file' = draft
    /\ LET grown == edit.want - edit.first.sites
           back == CASE edit.anchor = "start" -> 0
                     [] edit.anchor = "end" -> grown
                     [] OTHER -> grown \div 2
       IN  meant' = [meant EXCEPT ![edit.asked].sites = @ + grown,
                                  ![edit.asked].at = @ - back * (edit.first.pitch \div 2)]
    /\ edit' = Idle("accepted")
    /\ UNCHANGED <<draft, edits>>

Verify ==
    /\ edit.step = "verify"
    /\ \E verified \in {Verified} :
          \/ ~verified /\ Refuse
          \/ verified /\ edit.sites # edit.want /\ OtherEnd
          \/ verified /\ edit.sites = edit.want /\ Accept

Next ==
    \/ /\ edit.step = "idle" /\ edits < MaxEdits
       /\ \E c \in Name : \E p \in Proven(file, c) :
             \E n \in MinSites .. MaxSites, anchor \in Anchors : Begin(c, p, n, anchor)
    \/ CopyUnit
    \/ MoveTail
    \/ Join
    \/ Verify

Spec == Init /\ [][Next]_vars

-----------------------------------------------------------------------------
Entities(s) ==
    /\ s.shell \subseteq DOMAIN s.bound /\ DOMAIN s.kind = DOMAIN s.bound
    /\ EdgesOf(s, DOMAIN s.bound) \subseteq DOMAIN s.ends /\ DOMAIN s.curve = DOMAIN s.ends
    /\ VerticesOf(s, DOMAIN s.ends) \subseteq DOMAIN s.pt

TypeOK ==
    /\ \A c \in Name : Entities(file[c]) /\ Entities(draft[c])
    /\ \A c \in Name : /\ meant[c].design \in Design /\ meant[c].at \in Int
                       /\ meant[c].sites \in DOMAIN Ideal[meant[c].design]
    /\ edit.step \in {"idle", "copy", "tail", "weld", "verify"}
    /\ edits \in 0 .. MaxEdits

\* Every edit that is accepted makes the chain it was asked for: the skin of the
\* solid, whatever its entities, is that of a chain drawn with the new number of
\* sites, its anchor where it was; and the other solids of the file are untouched.
\* (README: the two sites of the tail, the fixed ends and the interior are kept.)
ResultIsTheChain == \A c \in Name : Skin(file[c]) = Meant(meant[c])

\* The shell of every solid is closed: each of its edges has two faces of the shell,
\* in the one instance that is there; and nothing of what was replaced is left over:
\* every face is in the shell, every edge on a face and every vertex on an edge.
ShellIsClosedAndClean ==
    \A c \in Name : LET s == file[c] IN
        /\ DOMAIN s.bound = s.shell
        /\ DOMAIN s.ends = EdgesOf(s, s.shell)
        /\ DOMAIN s.pt = VerticesOf(s, DOMAIN s.ends)
        /\ \A e \in DOMAIN s.ends : Cardinality(EdgeFaces(s, e, s.shell)) = 2

\* A chain whose seams can be told apart is edited: whatever its number of sites and
\* the new one, at whatever end, no seam, new edge, boundary or second half fails, and
\* a chain of another grammar in the file does not get in the way.
RegularChainsAreEdited ==
    edit.step = "idle" /\ edit.outcome = "refused" =>
        \/ \E c \in Name : meant[c].design \notin Regular
        \/ \E c, d \in Name : c # d /\ meant[c].design = meant[d].design

\* Every face keeps the colour of its kind: the copies have the styles of what they
\* are copies of, and no style is left on a face that went.
StylesFollowTheFaces ==
    \A c \in Name : LET s == file[c] IN
        s.styles = {[of |-> f, colour |-> s.kind[f]] : f \in s.shell}

=============================================================================
