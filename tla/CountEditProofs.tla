---------------------------- MODULE CountEditProofs ----------------------------
(***************************************************************************)
(* What the verification of a count edit is worth, for any number of rows, *)
(* bodies and sites.  It compares sizes, not members; where all rows and   *)
(* bodies have one lattice that is enough (SameGrammarIsRecovered): the    *)
(* group with the requested sites then contains what was edited, and a set *)
(* that contains another of its own finite size is that set.               *)
(***************************************************************************)
EXTENDS MCEditors, FiniteSetTheorems, TLAPS

OneLattice == \A k, l \in Lattice : k = l

\* What is left to do agrees with the step the edit is at.
Progress ==
    edit.step # "idle" =>
        /\ edit.bodies \subseteq edit.target.bodies
        /\ edit.rows \subseteq edit.target.rows
        /\ edit.step \in {"rows", "verify"} => edit.bodies = {}
        /\ edit.step = "verify" => edit.rows = {}

\* What has been done: the target's rows and bodies have the sites of this pass,
\* the others are those of the file.
Edited ==
    edit.step # "idle" =>
        /\ \A r \in edit.target.rows \ edit.rows : draft.rows[r].sites = edit.sites
        /\ \A b \in edit.target.bodies \ edit.bodies : draft.bodies[b].sites = edit.sites
        /\ \A r \in Row \ edit.target.rows : draft.rows[r] = file.rows[r]
        /\ \A b \in Body \ edit.target.bodies : draft.bodies[b] = file.bodies[b]

\* The parameter that is edited is the one the caller chose, in both passes.
SameTarget ==
    edit.step # "idle" =>
        /\ edit.original \in Parameters(file)
        /\ edit.target.rows = edit.original.rows
        /\ edit.target.bodies = edit.original.bodies

IInv == TypeOK /\ Progress /\ Edited /\ SameTarget

-----------------------------------------------------------------------------
\* A parameter is a group.
LEMMA ParameterType ==
    ASSUME NEW f \in File, NEW g \in Parameters(f)
    PROVE  /\ g \in Group
           /\ g.rows = {r \in Row : f.rows[r].lattice = g.lattice /\ f.rows[r].sites = g.sites}
           /\ g.bodies = {b \in Body : f.bodies[b].lattice = g.lattice
                                        /\ f.bodies[b].sites = g.sites}
           /\ g.rows # {} /\ g.bodies # {}
BY DEF Parameters, GroupOf, Group

\* The count of a first pass lies between the old and the requested one.
LEMMA FirstSitesType ==
    ASSUME NEW g \in Group, NEW n \in MinSites .. MaxSites, NEW a \in Anchors
    PROVE  FirstSites(g, n, a) \in MinSites .. MaxSites
<1>1. g.sites \in MinSites .. MaxSites
  BY DEF Group
<1> QED
  BY <1>1, SizeAssumption DEF FirstSites

\* A moved extent that fits is an extent, of the same lattice.
LEMMA MovedType ==
    ASSUME NEW e \in Extent, NEW n \in MinSites .. MaxSites, NEW s, Fits(Moved(e, n, s))
    PROVE  Moved(e, n, s) \in Extent /\ Moved(e, n, s).sites = n
<1>1. Moved(e, n, s).lo \in -Reach .. Reach
  BY DEF Fits
<1>2. n \in 1 .. MaxSites /\ e.lattice \in Lattice
  BY SizeAssumption DEF Extent
<1> QED
  BY <1>1, <1>2 DEF Extent, Moved

\* Beginning an edit.
LEMMA BeginType ==
    ASSUME TypeOK, NEW g \in Parameters(file), NEW n \in MinSites .. MaxSites,
           NEW a \in Anchors, Begin(g, n, a)
    PROVE  TypeOK'
<1>1. g \in Group
  BY ParameterType DEF TypeOK
<1>2. FirstSites(g, n, a) \in MinSites .. MaxSites
  BY <1>1, FirstSitesType
<1>3. edit' \in Running
  BY <1>1, <1>2 DEF Begin, Running, Group, Steps, Anchors
<1> QED
  BY <1>3 DEF Begin, TypeOK

\* What is left of an edit after one body or one row.
LEMMA BodyType ==
    ASSUME TypeOK, NEW b \in Body, ResizeBody(b)
    PROVE  TypeOK'
<1>1. edit \in Running
  BY DEF TypeOK, ResizeBody, Idle
<1>2. draft.bodies[b] \in Extent /\ edit.sites \in MinSites .. MaxSites
  BY <1>1 DEF TypeOK, File, Running
<1>3. Moved(draft.bodies[b], edit.sites, edit.side) \in Extent
  BY <1>2, MovedType DEF ResizeBody
<1>4. draft' \in File
  BY <1>3 DEF ResizeBody, TypeOK, File
<1>5. edit' \in Running
  BY <1>1 DEF ResizeBody, Running, Steps
<1> QED
  BY <1>4, <1>5 DEF ResizeBody, TypeOK

\* Resizing one row of a parameter keeps the types.
LEMMA RowType ==
    ASSUME TypeOK, NEW r \in Row, ResizeRow(r)
    PROVE  TypeOK'
<1>1. edit \in Running
  BY DEF TypeOK, ResizeRow, Idle
<1>2. draft.rows[r] \in Extent /\ edit.sites \in MinSites .. MaxSites
  BY <1>1 DEF TypeOK, File, Running
<1>3. Moved(draft.rows[r], edit.sites, edit.side) \in Extent
  BY <1>2, MovedType DEF ResizeRow
<1>4. draft' \in File
  BY <1>3 DEF ResizeRow, TypeOK, File
<1>5. edit' \in Running
  BY <1>1 DEF ResizeRow, Running, Steps
<1> QED
  BY <1>4, <1>5 DEF ResizeRow, TypeOK

\* Turning to the other end of a centred edit keeps the types.
LEMMA OtherEndType ==
    ASSUME TypeOK, OtherEnd
    PROVE  TypeOK'
<1>1. edit \in Running
  BY DEF TypeOK, OtherEnd, Idle
<1>2. PICK g \in Matching :
        edit' = [edit EXCEPT !.step = "bodies", !.target = g, !.sites = edit.want,
                             !.side = "end", !.bodies = g.bodies, !.rows = g.rows]
  BY DEF OtherEnd
<1>3. g \in Group
  BY <1>2, ParameterType DEF Matching, TypeOK
<1>4. edit' \in Running
  BY <1>1, <1>2, <1>3 DEF Running, Steps, Group
<1> QED
  BY <1>4 DEF OtherEnd, TypeOK

\* The state has its type at every step of every edit.
THEOREM TypeCorrect == Spec => []TypeOK
<1>1. Init => TypeOK
  BY DEF Init, TypeOK, Idle
<1>2. TypeOK /\ [Next]_vars => TypeOK'
  <2> SUFFICES ASSUME TypeOK, [Next]_vars PROVE TypeOK'
    OBVIOUS
  <2>1. CASE \E g \in Parameters(file), n \in MinSites .. MaxSites, a \in Anchors : Begin(g, n, a)
    BY <2>1, BeginType
  <2>2. CASE \E b \in Body : ResizeBody(b)
    BY <2>2, BodyType
  <2>3. CASE \E r \in Row : ResizeRow(r)
    BY <2>3, RowType
  <2>4. CASE OtherEnd
    BY <2>4, OtherEndType
  <2>5. CASE Accept
    BY <2>5 DEF Accept, TypeOK, Idle
  <2>6. CASE Bail
    BY <2>6 DEF Bail, TypeOK, Idle
  <2>7. CASE UNCHANGED vars
    BY <2>7 DEF vars, TypeOK
  <2> QED
    BY <2>1, <2>2, <2>3, <2>4, <2>5, <2>6, <2>7 DEF Next
<1> QED
  BY <1>1, <1>2, PTL DEF Spec

-----------------------------------------------------------------------------
\* With one lattice, a group of the requested sites whose sizes are those of the
\* parameter that was edited consists of what was edited.
LEMMA MatchIsTarget ==
    ASSUME OneLattice, IInv, edit.step = "verify",
           NEW g \in Parameters(draft), g.sites = edit.sites, SameGrammar(g, edit.target)
    PROVE  g.rows = edit.target.rows /\ g.bodies = edit.target.bodies
<1>1. edit \in Running /\ draft \in File
  BY DEF IInv, TypeOK, Idle
<1>2. edit.target.rows \subseteq Row /\ edit.target.bodies \subseteq Body
  BY <1>1 DEF Running, Group
<1>3. /\ g \in Group
      /\ g.rows = {r \in Row : draft.rows[r].lattice = g.lattice /\ draft.rows[r].sites = g.sites}
      /\ g.bodies = {b \in Body : draft.bodies[b].lattice = g.lattice
                                   /\ draft.bodies[b].sites = g.sites}
  BY <1>1, ParameterType
<1>4. edit.target.rows \subseteq g.rows
  <2> SUFFICES ASSUME NEW r \in edit.target.rows PROVE r \in g.rows
    OBVIOUS
  <2>1. r \in Row /\ draft.rows[r].sites = edit.sites
    BY <1>2 DEF IInv, Progress, Edited
  <2>2. draft.rows[r].lattice = g.lattice
    BY <1>1, <1>3, <2>1 DEF OneLattice, File, Extent, Group
  <2> QED
    BY <1>3, <2>1, <2>2
<1>5. edit.target.bodies \subseteq g.bodies
  <2> SUFFICES ASSUME NEW b \in edit.target.bodies PROVE b \in g.bodies
    OBVIOUS
  <2>1. b \in Body /\ draft.bodies[b].sites = edit.sites
    BY <1>2 DEF IInv, Progress, Edited
  <2>2. draft.bodies[b].lattice = g.lattice
    BY <1>1, <1>3, <2>1 DEF OneLattice, File, Extent, Group
  <2> QED
    BY <1>3, <2>1, <2>2
<1>6. IsFiniteSet(g.rows) /\ IsFiniteSet(g.bodies)
  BY <1>3, FS_Subset, SizeAssumption DEF Group
<1>7. g.rows = edit.target.rows
  BY <1>4, <1>6, FS_Subset DEF SameGrammar
<1>8. g.bodies = edit.target.bodies
  BY <1>5, <1>6, FS_Subset DEF SameGrammar
<1> QED
  BY <1>7, <1>8

\* The edit stays with the parameter the caller chose, whatever else the file holds.
LEMMA IInvInductive ==
    ASSUME OneLattice, IInv, [Next]_vars, TypeOK'
    PROVE  IInv'
<1> USE DEF IInv
<1>1. CASE \E g \in Parameters(file), n \in MinSites .. MaxSites, a \in Anchors : Begin(g, n, a)
  <2> PICK g \in Parameters(file), n \in MinSites .. MaxSites, a \in Anchors : Begin(g, n, a)
    BY <1>1
  <2>1. g.rows # {} /\ g.bodies # {}
    BY ParameterType DEF TypeOK
  <2>2. Progress'
    BY DEF Begin, Progress
  <2>3. Edited'
    BY DEF Begin, Edited
  <2>4. SameTarget'
    BY DEF Begin, SameTarget
  <2> QED
    BY <2>2, <2>3, <2>4
<1>2. CASE \E b \in Body : ResizeBody(b)
  <2> PICK b \in Body : ResizeBody(b)
    BY <1>2
  <2>1. edit \in Running /\ draft \in File
    BY DEF TypeOK, ResizeBody, Idle
  <2>2. /\ edit' = [edit EXCEPT !.bodies = edit.bodies \ {b},
                                !.step = IF edit.bodies = {b} THEN "rows" ELSE "bodies"]
        /\ b \in edit.target.bodies /\ edit.step = "bodies"
    BY DEF ResizeBody, Progress
  <2>3. /\ edit'.target = edit.target /\ edit'.rows = edit.rows /\ edit'.sites = edit.sites
        /\ edit'.original = edit.original /\ edit'.bodies = edit.bodies \ {b}
        /\ edit'.step = IF edit.bodies = {b} THEN "rows" ELSE "bodies"
    BY <2>1, <2>2 DEF Running
  <2>4. Progress'
    BY <2>2, <2>3 DEF Progress
  <2>5. /\ draft'.rows = draft.rows
        /\ draft'.bodies = [draft.bodies EXCEPT ![b] = Moved(@, edit.sites, edit.side)]
        /\ file' = file
    BY <2>1 DEF ResizeBody, File
  <2>6. draft'.bodies[b].sites = edit.sites
    BY <2>1, <2>5, MovedType DEF ResizeBody, File, Running
  <2>7. \A c \in Body \ {b} : draft'.bodies[c] = draft.bodies[c]
    BY <2>1, <2>5 DEF File
  <2>8. Edited'
    <3>1. edit.target.bodies \subseteq Body
      BY <2>1 DEF Running, Group
    <3> QED
      BY <2>2, <2>3, <2>5, <2>6, <2>7, <3>1 DEF Edited
  <2>9. SameTarget'
    BY <2>2, <2>3, <2>5 DEF SameTarget
  <2> QED
    BY <2>4, <2>8, <2>9
<1>3. CASE \E r \in Row : ResizeRow(r)
  <2> PICK r \in Row : ResizeRow(r)
    BY <1>3
  <2>1. edit \in Running /\ draft \in File
    BY DEF TypeOK, ResizeRow, Idle
  <2>2. /\ edit' = [edit EXCEPT !.rows = edit.rows \ {r},
                                !.step = IF edit.rows = {r} THEN "verify" ELSE "rows"]
        /\ r \in edit.target.rows /\ edit.step = "rows"
    BY DEF ResizeRow, Progress
  <2>3. /\ edit'.target = edit.target /\ edit'.bodies = edit.bodies /\ edit'.sites = edit.sites
        /\ edit'.original = edit.original /\ edit'.rows = edit.rows \ {r}
        /\ edit'.step = IF edit.rows = {r} THEN "verify" ELSE "rows"
    BY <2>1, <2>2 DEF Running
  <2>4. Progress'
    BY <2>2, <2>3 DEF Progress
  <2>5. /\ draft'.bodies = draft.bodies
        /\ draft'.rows = [draft.rows EXCEPT ![r] = Moved(@, edit.sites, edit.side)]
        /\ file' = file
    BY <2>1 DEF ResizeRow, File
  <2>6. draft'.rows[r].sites = edit.sites
    BY <2>1, <2>5, MovedType DEF ResizeRow, File, Running
  <2>7. \A c \in Row \ {r} : draft'.rows[c] = draft.rows[c]
    BY <2>1, <2>5 DEF File
  <2>8. Edited'
    <3>1. edit.target.rows \subseteq Row
      BY <2>1 DEF Running, Group
    <3> QED
      BY <2>2, <2>3, <2>5, <2>6, <2>7, <3>1 DEF Edited
  <2>9. SameTarget'
    BY <2>2, <2>3, <2>5 DEF SameTarget
  <2> QED
    BY <2>4, <2>8, <2>9
<1>4. CASE OtherEnd
  <2>1. edit \in Running /\ edit.step = "verify"
    BY <1>4 DEF TypeOK, OtherEnd, Idle
  <2>2. PICK g \in Matching :
          edit' = [edit EXCEPT !.step = "bodies", !.target = g, !.sites = edit.want,
                               !.side = "end", !.bodies = g.bodies, !.rows = g.rows]
    BY <1>4 DEF OtherEnd
  <2>3. SameGrammar(g, edit.target)
    BY <2>1, <2>2 DEF Matching, SameGrammar, SameTarget
  <2>4. g.rows = edit.target.rows /\ g.bodies = edit.target.bodies
    BY <2>1, <2>2, <2>3, MatchIsTarget DEF Matching
  <2>5. /\ edit'.target = g /\ edit'.rows = g.rows /\ edit'.bodies = g.bodies
        /\ edit'.original = edit.original /\ edit'.step = "bodies"
    BY <2>1, <2>2 DEF Running
  <2>6. file' = file /\ draft' = draft
    BY <1>4 DEF OtherEnd
  <2>7. Progress'
    BY <2>5 DEF Progress
  <2>8. Edited'
    BY <2>1, <2>4, <2>5, <2>6 DEF Edited
  <2>9. SameTarget'
    BY <2>1, <2>4, <2>5, <2>6 DEF SameTarget
  <2> QED
    BY <2>7, <2>8, <2>9
<1>5. CASE Accept \/ Bail
  BY <1>5 DEF Accept, Bail, Progress, Edited, SameTarget
<1>6. CASE UNCHANGED vars
  BY <1>6 DEF vars, Progress, Edited, SameTarget
<1> QED
  BY <1>1, <1>2, <1>3, <1>4, <1>5, <1>6 DEF Next

\* An accepted edit has recovered the rows and bodies that were edited, at the count
\* asked for, for every size of the file and any number of edits, provided all its
\* rows and bodies have one lattice.  Without that the editor's own check is not
\* enough: the run with two lattices has the counterexample.
THEOREM SameGrammarIsRecovered == OneLattice /\ Spec => SameGrammarRecovered
<1> SUFFICES ASSUME OneLattice PROVE Spec => SameGrammarRecovered
  OBVIOUS
<1>1. Init => IInv
  BY DEF Init, IInv, TypeOK, Idle, Progress, Edited, SameTarget
<1>2. IInv /\ TypeOK' /\ [Next]_vars => IInv'
  BY IInvInductive
<1>3. IInv /\ [Next]_vars
        => [Accept => \E g \in Parameters(file') :
                         /\ g.sites = edit.want
                         /\ g.rows = edit.original.rows
                         /\ g.bodies = edit.original.bodies]_vars
  <2> SUFFICES ASSUME IInv, Accept
               PROVE  \E g \in Parameters(file') :
                         /\ g.sites = edit.want
                         /\ g.rows = edit.original.rows
                         /\ g.bodies = edit.original.bodies
    OBVIOUS
  <2>1. PICK g \in Parameters(draft) : g.sites = edit.sites /\ SameGrammar(g, edit.target)
    BY DEF Accept, Verified
  <2>2. g.rows = edit.target.rows /\ g.bodies = edit.target.bodies
    BY <2>1, MatchIsTarget DEF Accept
  <2>3. edit.target.rows = edit.original.rows /\ edit.target.bodies = edit.original.bodies
    BY DEF IInv, SameTarget, Accept
  <2> QED
    BY <2>1, <2>2, <2>3 DEF Accept
<1> QED
  BY <1>1, <1>2, <1>3, TypeCorrect, PTL DEF Spec, SameGrammarRecovered

-----------------------------------------------------------------------------
\* Away from the old and the new count an edit changes no group.
LEMMA SameElsewhere ==
    ASSUME IInv, edit.step = "verify", NEW l \in Lattice, NEW n \in MinSites .. MaxSites,
           n # edit.original.sites, n # edit.sites
    PROVE  GroupOf(draft, l, n) = GroupOf(file, l, n)
<1>1. edit \in Running /\ draft \in File /\ file \in File
  BY DEF IInv, TypeOK, Idle
<1>2. /\ edit.original \in Group
      /\ \A r \in edit.original.rows : r \in Row /\ file.rows[r].sites = edit.original.sites
      /\ \A b \in edit.original.bodies :
            b \in Body /\ file.bodies[b].sites = edit.original.sites
  BY <1>1, ParameterType DEF IInv, SameTarget
<1>3. /\ edit.target.rows = edit.original.rows /\ edit.target.bodies = edit.original.bodies
      /\ edit.rows = {} /\ edit.bodies = {}
  BY DEF IInv, SameTarget, Progress
<1>4. /\ \A r \in edit.original.rows : draft.rows[r].sites = edit.sites
      /\ \A b \in edit.original.bodies : draft.bodies[b].sites = edit.sites
      /\ \A r \in Row \ edit.original.rows : draft.rows[r] = file.rows[r]
      /\ \A b \in Body \ edit.original.bodies : draft.bodies[b] = file.bodies[b]
  BY <1>3 DEF IInv, Edited
<1>5. \A r \in Row : (draft.rows[r].lattice = l /\ draft.rows[r].sites = n)
                    <=> (file.rows[r].lattice = l /\ file.rows[r].sites = n)
  BY <1>2, <1>4
<1>6. \A b \in Body : (draft.bodies[b].lattice = l /\ draft.bodies[b].sites = n)
                     <=> (file.bodies[b].lattice = l /\ file.bodies[b].sites = n)
  BY <1>2, <1>4
<1> QED
  BY <1>5, <1>6 DEF GroupOf

\* With one lattice a parameter is known by its count.
LEMMA KnownByCount ==
    ASSUME OneLattice, NEW f \in File, NEW g \in Parameters(f), NEW h \in Parameters(f),
           g.sites = h.sites
    PROVE  g.rows = h.rows /\ g.bodies = h.bodies
<1>1. g.lattice = h.lattice
  BY ParameterType DEF OneLattice, Group
<1>2. PICK l \in Lattice, n \in MinSites .. MaxSites : g = GroupOf(f, l, n)
  BY DEF Parameters
<1>3. PICK k \in Lattice, m \in MinSites .. MaxSites : h = GroupOf(f, k, m)
  BY DEF Parameters
<1>4. k = l /\ m = n
  BY <1>1, <1>2, <1>3 DEF GroupOf
<1> QED
  BY <1>2, <1>3, <1>4

\* An accepted edit leaves the couplings as they were.
LEMMA AcceptKeepsCouplings ==
    ASSUME OneLattice, IInv, Accept
    PROVE  Couplings(draft) = Couplings(file)
<1>1. /\ edit \in Running /\ draft \in File /\ file \in File
      /\ edit.step = "verify" /\ edit.original \in Parameters(file)
  BY DEF IInv, TypeOK, Idle, Accept, SameTarget
<1>2. PICK g \in Parameters(draft) : g.sites = edit.sites /\ SameGrammar(g, edit.target)
  BY DEF Accept, Verified
<1>3. g.rows = edit.original.rows /\ g.bodies = edit.original.bodies
  BY <1>1, <1>2, MatchIsTarget DEF IInv, SameTarget
<1>4. ASSUME NEW h \in Parameters(file)
      PROVE  [rows |-> h.rows, bodies |-> h.bodies] \in Couplings(draft)
  <2>1. CASE h.sites = edit.original.sites
    <3>1. h.rows = g.rows /\ h.bodies = g.bodies
      BY <1>1, <1>3, <2>1, KnownByCount
    <3> QED
      BY <3>1 DEF Couplings
  <2>2. CASE h.sites # edit.original.sites
    <3>1. PICK r \in h.rows : r \in Row /\ file.rows[r].sites = h.sites
      BY <1>1, ParameterType
    <3>2. r \notin edit.original.rows
      BY <1>1, <2>2, <3>1, ParameterType
    <3>3. draft.rows[r] = file.rows[r]
      BY <1>1, <3>1, <3>2 DEF IInv, Edited, SameTarget
    <3>4. h.sites # edit.sites
      <4> SUFFICES ASSUME h.sites = edit.sites PROVE FALSE
        OBVIOUS
      <4>1. draft.rows[r].lattice = g.lattice
        BY <1>1, <1>2, <3>1, ParameterType DEF OneLattice, File, Extent, Group
      <4>2. r \in g.rows
        BY <1>1, <1>2, <3>1, <3>3, <4>1, ParameterType
      <4> QED
        BY <1>3, <3>2, <4>2
    <3>5. PICK l \in Lattice, n \in MinSites .. MaxSites : h = GroupOf(file, l, n)
      BY DEF Parameters
    <3>6. n = h.sites
      BY <3>5 DEF GroupOf
    <3>7. h = GroupOf(draft, l, n)
      BY <1>1, <2>2, <3>4, <3>5, <3>6, SameElsewhere
    <3>8. h \in Parameters(draft)
      BY <1>1, <3>7, ParameterType DEF Parameters
    <3> QED
      BY <3>8 DEF Couplings
  <2> QED
    BY <2>1, <2>2
<1>5. ASSUME NEW h \in Parameters(draft)
      PROVE  [rows |-> h.rows, bodies |-> h.bodies] \in Couplings(file)
  <2>1. CASE h.sites = g.sites
    <3>1. h.rows = edit.original.rows /\ h.bodies = edit.original.bodies
      BY <1>1, <1>3, <2>1, KnownByCount
    <3> QED
      BY <1>1, <3>1 DEF Couplings
  <2>2. CASE h.sites # g.sites
    <3>1. PICK r \in h.rows : r \in Row /\ draft.rows[r].sites = h.sites
      BY <1>1, ParameterType
    <3>2. r \notin edit.original.rows
      <4>1. \A x \in g.rows : draft.rows[x].sites = g.sites
        BY <1>1, <1>2, ParameterType
      <4> QED
        BY <1>3, <2>2, <3>1, <4>1
    <3>3. draft.rows[r] = file.rows[r]
      BY <1>1, <3>1, <3>2 DEF IInv, Edited, SameTarget
    <3>4. h.sites # edit.original.sites
      <4> SUFFICES ASSUME h.sites = edit.original.sites PROVE FALSE
        OBVIOUS
      <4>1. file.rows[r].lattice = edit.original.lattice
        BY <1>1, <3>1, ParameterType DEF OneLattice, File, Extent, Group
      <4>2. r \in edit.original.rows
        BY <1>1, <3>1, <3>3, <4>1, ParameterType
      <4> QED
        BY <3>2, <4>2
    <3>5. PICK l \in Lattice, n \in MinSites .. MaxSites : h = GroupOf(draft, l, n)
      BY DEF Parameters
    <3>6. n = h.sites
      BY <3>5 DEF GroupOf
    <3>7. h = GroupOf(file, l, n)
      BY <1>1, <1>2, <2>2, <3>4, <3>5, <3>6, SameElsewhere
    <3>8. h \in Parameters(file)
      BY <1>1, <3>7, ParameterType DEF Parameters
    <3> QED
      BY <3>8 DEF Couplings
  <2> QED
    BY <2>1, <2>2
<1> QED
  BY <1>4, <1>5 DEF Couplings

\* With one lattice no edit ever merges two parameters or takes one apart: the
\* verification refuses an edit that would bring two of them to one count.
THEOREM ParametersNeverMerge == OneLattice /\ Spec => ParametersStayApart
<1> SUFFICES ASSUME OneLattice PROVE Spec => ParametersStayApart
  OBVIOUS
<1>1. Init => IInv
  BY DEF Init, IInv, TypeOK, Idle, Progress, Edited, SameTarget
<1>2. IInv /\ TypeOK' /\ [Next]_vars => IInv'
  BY IInvInductive
<1>3. IInv /\ [Next]_vars => [Couplings(file') = Couplings(file)]_vars
  <2> SUFFICES ASSUME IInv, Next PROVE Couplings(file') = Couplings(file)
    OBVIOUS
  <2>1. CASE Accept
    BY <2>1, AcceptKeepsCouplings DEF Accept
  <2>2. CASE ~Accept
    <3>1. file' = file
      BY <2>2 DEF Next, Begin, ResizeBody, ResizeRow, OtherEnd, Bail
    <3> QED
      BY <3>1 DEF Couplings
  <2> QED
    BY <2>1, <2>2
<1> QED
  BY <1>1, <1>2, <1>3, TypeCorrect, PTL DEF Spec, ParametersStayApart

-----------------------------------------------------------------------------
(***************************************************************************)
(* Where the rows and bodies are.  A pass finds its target where the pass  *)
(* before left it and moves each member once (Placed); a centred edit is   *)
(* the only one of two passes, and the halves of an even change add up.    *)
(***************************************************************************)
Second == edit.anchor = "center" /\ edit.side = "end"
Half == FirstSites(edit.original, edit.want, edit.anchor)
Before(e) == IF Second THEN Moved(e, Half, "start") ELSE e

Placed ==
    edit.step # "idle" =>
        /\ edit.want # edit.original.sites
        /\ edit.anchor = "center" => (edit.want - edit.original.sites) % 2 = 0
        /\ edit.anchor # "center" => edit.side = edit.anchor
        /\ edit.sites = IF Second THEN edit.want ELSE Half
        /\ \A r \in edit.target.rows :
              draft.rows[r] = IF r \in edit.rows THEN Before(file.rows[r])
                              ELSE Moved(Before(file.rows[r]), edit.sites, edit.side)
        /\ \A b \in edit.target.bodies :
              draft.bodies[b] = IF b \in edit.bodies THEN Before(file.bodies[b])
                                ELSE Moved(Before(file.bodies[b]), edit.sites, edit.side)

\* The second half starts where the first has left the target.
LEMMA OtherEndPlaces ==
    ASSUME OneLattice, IInv, Placed, OtherEnd
    PROVE  Placed'
<1>1. edit \in Running /\ edit.step = "verify" /\ edit.sites # edit.want
  BY DEF IInv, TypeOK, OtherEnd, Idle
<1>2. PICK g \in Matching :
        edit' = [edit EXCEPT !.step = "bodies", !.target = g, !.sites = edit.want,
                             !.side = "end", !.bodies = g.bodies, !.rows = g.rows]
  BY DEF OtherEnd
<1>3. g.rows = edit.target.rows /\ g.bodies = edit.target.bodies
  <2>1. SameGrammar(g, edit.target)
    BY <1>1, <1>2 DEF Matching, SameGrammar, IInv, SameTarget
  <2> QED
    BY <1>1, <1>2, <2>1, MatchIsTarget DEF Matching
<1>4. /\ edit'.target = g /\ edit'.rows = g.rows /\ edit'.bodies = g.bodies
      /\ edit'.original = edit.original /\ edit'.anchor = edit.anchor /\ edit'.want = edit.want
      /\ edit'.sites = edit.want /\ edit'.side = "end"
  BY <1>1, <1>2 DEF Running
<1>5. file' = file /\ draft' = draft
  BY DEF OtherEnd
<1>6. edit.anchor = "center" /\ edit.side = "start" /\ edit.sites = Half
  BY <1>1 DEF Placed, Second, Half, FirstSites, Running, Anchors
<1>7. Second' /\ Half' = Half /\ ~Second
  BY <1>4, <1>6 DEF Second, Half, FirstSites
<1>8. \A e : Before(e)' = Moved(e, edit.sites, edit.side) /\ Before(e) = e
  BY <1>6, <1>7 DEF Before, Moved
<1>9. \A r \in g.rows : draft.rows[r] = Moved(file.rows[r], edit.sites, edit.side)
  BY <1>1, <1>3, <1>8 DEF Placed, IInv, Progress
<1>10. \A b \in g.bodies : draft.bodies[b] = Moved(file.bodies[b], edit.sites, edit.side)
  BY <1>1, <1>3, <1>8 DEF Placed, IInv, Progress
<1>11. \A r \in g.rows : draft'.rows[r] = Before(file.rows[r])'
  BY <1>5, <1>8, <1>9 DEF Before
<1>12. \A b \in g.bodies : draft'.bodies[b] = Before(file.bodies[b])'
  BY <1>5, <1>8, <1>10 DEF Before
<1> QED
  BY <1>1, <1>4, <1>6, <1>7, <1>11, <1>12 DEF Placed

\* Each step moves its body or its row once.
LEMMA PlacedStep ==
    ASSUME OneLattice, IInv, Placed, [Next]_vars
    PROVE  Placed'
<1>1. CASE \E g \in Parameters(file), n \in MinSites .. MaxSites, a \in Anchors : Begin(g, n, a)
  <2> PICK g \in Parameters(file), n \in MinSites .. MaxSites, a \in Anchors : Begin(g, n, a)
    BY <1>1
  <2>1. /\ edit'.original = g /\ edit'.target = g /\ edit'.want = n /\ edit'.anchor = a
        /\ edit'.sites = FirstSites(g, n, a) /\ edit'.rows = g.rows /\ edit'.bodies = g.bodies
        /\ edit'.side = IF a = "end" THEN "end" ELSE "start"
        /\ draft' = file /\ file' = file
    BY DEF Begin
  <2>2. ~Second' /\ Half' = FirstSites(g, n, a)
    BY <2>1 DEF Second, Half
  <2>3. \A e : Before(e)' = e
    BY <2>2 DEF Before
  <2>4. n # g.sites /\ (a = "center" => (n - g.sites) % 2 = 0)
    BY DEF Begin
  <2>5. a # "center" => edit'.side = a
    BY <2>1 DEF Anchors
  <2>6. /\ \A r \in g.rows : draft'.rows[r] = Before(file.rows[r])'
        /\ \A b \in g.bodies : draft'.bodies[b] = Before(file.bodies[b])'
    BY <2>1, <2>2 DEF Before
  <2> QED
    BY <2>1, <2>2, <2>4, <2>5, <2>6 DEF Placed
<1>2. ASSUME NEW b \in Body, ResizeBody(b) PROVE Placed'
  <2>1. edit \in Running /\ draft \in File
    BY <1>2 DEF IInv, TypeOK, ResizeBody, Idle
  <2>2. /\ edit'.original = edit.original /\ edit'.target = edit.target /\ edit'.want = edit.want
        /\ edit'.anchor = edit.anchor /\ edit'.sites = edit.sites /\ edit'.side = edit.side
        /\ edit'.rows = edit.rows /\ edit'.bodies = edit.bodies \ {b}
        /\ b \in edit.bodies /\ edit.step # "idle"
    BY <1>2, <2>1 DEF ResizeBody, Running
  <2>3. /\ draft'.rows = draft.rows /\ file' = file
        /\ draft'.bodies = [draft.bodies EXCEPT ![b] = Moved(@, edit.sites, edit.side)]
    BY <1>2, <2>1 DEF ResizeBody, File
  <2>4. (Second' <=> Second) /\ Half' = Half /\ \A e : Before(e)' = Before(e)
    BY <2>2 DEF Second, Half, Before, FirstSites
  <2>5. b \in edit.target.bodies /\ edit.target.bodies \subseteq Body
    BY <2>1, <2>2 DEF IInv, Progress, Running, Group
  <2>6. draft'.bodies[b] = Moved(Before(file.bodies[b]), edit.sites, edit.side)
    BY <1>2, <2>1, <2>2, <2>3, <2>5 DEF Placed, File
  <2>7. \A c \in Body \ {b} : draft'.bodies[c] = draft.bodies[c]
    BY <2>1, <2>3 DEF File
  <2>8. \A c \in edit.target.bodies :
            draft'.bodies[c] = IF c \in edit'.bodies THEN Before(file.bodies[c])
                               ELSE Moved(Before(file.bodies[c]), edit.sites, edit.side)
    BY <2>2, <2>5, <2>6, <2>7 DEF Placed
  <2>9. /\ \A r : Before(file.rows[r])' = Before(file.rows[r])
        /\ \A c : Before(file.bodies[c])' = Before(file.bodies[c])
    BY <2>2, <2>3, <2>4 DEF Before
  <2> QED
    BY <2>2, <2>3, <2>4, <2>8, <2>9 DEF Placed
<1>3. ASSUME NEW r \in Row, ResizeRow(r) PROVE Placed'
  <2>1. edit \in Running /\ draft \in File
    BY <1>3 DEF IInv, TypeOK, ResizeRow, Idle
  <2>2. /\ edit'.original = edit.original /\ edit'.target = edit.target /\ edit'.want = edit.want
        /\ edit'.anchor = edit.anchor /\ edit'.sites = edit.sites /\ edit'.side = edit.side
        /\ edit'.bodies = edit.bodies /\ edit'.rows = edit.rows \ {r}
        /\ r \in edit.rows /\ edit.step # "idle"
    BY <1>3, <2>1 DEF ResizeRow, Running
  <2>3. /\ draft'.bodies = draft.bodies /\ file' = file
        /\ draft'.rows = [draft.rows EXCEPT ![r] = Moved(@, edit.sites, edit.side)]
    BY <1>3, <2>1 DEF ResizeRow, File
  <2>4. (Second' <=> Second) /\ Half' = Half /\ \A e : Before(e)' = Before(e)
    BY <2>2 DEF Second, Half, Before, FirstSites
  <2>5. r \in edit.target.rows /\ edit.target.rows \subseteq Row
    BY <2>1, <2>2 DEF IInv, Progress, Running, Group
  <2>6. draft'.rows[r] = Moved(Before(file.rows[r]), edit.sites, edit.side)
    BY <1>3, <2>1, <2>2, <2>3, <2>5 DEF Placed, File
  <2>7. \A c \in Row \ {r} : draft'.rows[c] = draft.rows[c]
    BY <2>1, <2>3 DEF File
  <2>8. \A c \in edit.target.rows :
            draft'.rows[c] = IF c \in edit'.rows THEN Before(file.rows[c])
                             ELSE Moved(Before(file.rows[c]), edit.sites, edit.side)
    BY <2>2, <2>5, <2>6, <2>7 DEF Placed
  <2>9. /\ \A c : Before(file.rows[c])' = Before(file.rows[c])
        /\ \A b : Before(file.bodies[b])' = Before(file.bodies[b])
    BY <2>2, <2>3, <2>4 DEF Before
  <2> QED
    BY <2>2, <2>3, <2>4, <2>8, <2>9 DEF Placed
<1>4. CASE Accept \/ Bail
  BY <1>4 DEF Accept, Bail, Placed
<1>5. CASE UNCHANGED vars
  BY <1>5 DEF vars, Placed, Second, Half, Before, FirstSites
<1> QED
  BY <1>1, <1>2, <1>3, <1>4, <1>5, OtherEndPlaces DEF Next

\* One pass keeps the end it says, two passes of half the change keep the centre.
LEMMA PassesAnchor ==
    ASSUME IInv, Placed, Accept, NEW e \in Extent, e.sites = edit.original.sites
    PROVE  Anchored(e, Moved(Before(e), edit.sites, edit.side), edit.anchor)
<1>1. edit \in Running /\ edit.sites = edit.want /\ edit.step = "verify"
  BY DEF IInv, TypeOK, Accept, Idle
<1>2. edit.want \in Int /\ e.sites \in Int /\ e.lo \in Int /\ edit.original.sites \in Int
  BY <1>1, SizeAssumption DEF Running, Group, Extent
<1>3. CASE edit.anchor = "start"
  BY <1>1, <1>2, <1>3 DEF Placed, Before, Second, Moved, Anchored
<1>4. CASE edit.anchor = "end"
  BY <1>1, <1>2, <1>4 DEF Placed, Before, Second, Moved, Anchored
<1>5. CASE edit.anchor = "center"
  <2>1. /\ edit.want # e.sites /\ (edit.want - e.sites) % 2 = 0
        /\ Half = (e.sites + edit.want) \div 2
    BY <1>1, <1>5 DEF Placed, Half, FirstSites
  <2>2. Half \in Int /\ 2 * Half = e.sites + edit.want
    BY <1>2, <2>1
  <2>3. edit.side = "end" /\ Second
    <3>1. Half # edit.want
      BY <1>2, <2>1, <2>2
    <3>2. Second
      BY <1>1, <3>1 DEF Placed
    <3> QED
      BY <3>2 DEF Second
  <2> DEFINE m == Moved(Before(e), edit.sites, edit.side)
  <2>4. m.sites = edit.want /\ m.lo = e.lo + Half - edit.want
    BY <1>1, <2>3 DEF Before, Moved
  <2>5. 2 * m.lo + m.sites = 2 * e.lo + e.sites
    BY <1>2, <2>2, <2>4
  <2> HIDE DEF m
  <2>6. Anchored(e, m, edit.anchor)
    BY <1>5, <2>5 DEF Anchored
  <2> QED
    BY <2>6 DEF m
<1> QED
  BY <1>1, <1>3, <1>4, <1>5 DEF Running, Anchors

\* Every accepted edit of a file of one lattice leaves the anchored end or the centre of
\* each row and body of the parameter in place, and nothing else has moved: a centred
\* edit, two passes over files that are parsed and recovered anew, is no exception.
THEOREM EditsAreAnchored == OneLattice /\ Spec => EditIsAnchored
<1> SUFFICES ASSUME OneLattice PROVE Spec => EditIsAnchored
  OBVIOUS
<1> DEFINE Kept ==
        /\ \A r \in Row : IF r \in edit.original.rows
                          THEN Anchored(file.rows[r], file'.rows[r], edit.anchor)
                          ELSE file'.rows[r] = file.rows[r]
        /\ \A b \in Body : IF b \in edit.original.bodies
                           THEN Anchored(file.bodies[b], file'.bodies[b], edit.anchor)
                           ELSE file'.bodies[b] = file.bodies[b]
<1>1. Init => IInv /\ Placed
  BY DEF Init, IInv, TypeOK, Idle, Progress, Edited, SameTarget, Placed
<1>2. IInv /\ Placed /\ TypeOK' /\ [Next]_vars => IInv' /\ Placed'
  BY IInvInductive, PlacedStep
<1>3. IInv /\ Placed /\ [Next]_vars => [Accept => Kept]_vars
  <2> SUFFICES ASSUME IInv, Placed, Accept PROVE Kept
    OBVIOUS
  <2>1. /\ edit \in Running /\ edit.step # "idle" /\ file \in File /\ file' = draft
        /\ edit.rows = {} /\ edit.bodies = {}
        /\ edit.original \in Parameters(file)
        /\ edit.target.rows = edit.original.rows /\ edit.target.bodies = edit.original.bodies
    BY DEF IInv, TypeOK, Accept, Idle, Progress, SameTarget
  <2>2. ASSUME NEW r \in Row, r \in edit.original.rows
        PROVE  Anchored(file.rows[r], file'.rows[r], edit.anchor)
    <3>1. file.rows[r] \in Extent /\ file.rows[r].sites = edit.original.sites
      BY <2>1, <2>2, ParameterType DEF File
    <3>2. file'.rows[r] = Moved(Before(file.rows[r]), edit.sites, edit.side)
      BY <2>1, <2>2 DEF Placed
    <3> QED
      BY <3>1, <3>2, PassesAnchor
  <2>3. ASSUME NEW b \in Body, b \in edit.original.bodies
        PROVE  Anchored(file.bodies[b], file'.bodies[b], edit.anchor)
    <3>1. file.bodies[b] \in Extent /\ file.bodies[b].sites = edit.original.sites
      BY <2>1, <2>3, ParameterType DEF File
    <3>2. file'.bodies[b] = Moved(Before(file.bodies[b]), edit.sites, edit.side)
      BY <2>1, <2>3 DEF Placed
    <3> QED
      BY <3>1, <3>2, PassesAnchor
  <2>4. /\ \A r \in Row \ edit.original.rows : file'.rows[r] = file.rows[r]
        /\ \A b \in Body \ edit.original.bodies : file'.bodies[b] = file.bodies[b]
    BY <2>1 DEF IInv, Edited
  <2> QED
    BY <2>2, <2>3, <2>4
<1> QED
  BY <1>1, <1>2, <1>3, TypeCorrect, PTL DEF Spec, EditIsAnchored

-----------------------------------------------------------------------------
(* Beside the editor of rows of instances: the behaviours of MCEditors.    *)

Line == INSTANCE PatternResizeProofs WITH Reach <- RowReach, Rows <- RowStarts

\* The two instances of PatternResize, that of the model and that of its proofs, are one.
LEMMA SameRows == Line!BoundAssumption /\ Line!RowsAssumption
BY PatternAssumption DEF Pattern!BoundAssumption, Pattern!RowsAssumption,
    Line!BoundAssumption, Line!RowsAssumption, Pattern!Item, Line!Item

\* The two instances of the row editor start alike,
LEMMA SameStart == Pattern!Init => Line!Init
<1>1. /\ Pattern!Item = Line!Item /\ Pattern!Host = Line!Host /\ Pattern!Source = Line!Source
      /\ \A s : Pattern!ToSet(s) = Line!ToSet(s)
  BY DEF Pattern!Item, Line!Item, Pattern!Host, Line!Host, Pattern!Source, Line!Source,
     Pattern!ToSet, Line!ToSet
<1> QED
  BY <1>1, Zenon DEF Pattern!Init, Line!Init

\* Sizes of sets.
LEMMA SameSizes == \A S : Pattern!Cardinality(S) = Line!Cardinality(S)
BY Zenon DEF Pattern!Cardinality, Line!Cardinality, Pattern!IsFiniteSet, Line!IsFiniteSet

\* The operators of the two.
LEMMA SameLattice ==
    /\ \A p : Pattern!Mapped(p) = Line!Mapped(p)
    /\ \A p, a : Pattern!Positions(p, a) = Line!Positions(p, a)
    /\ \A S : Pattern!LeastOf(S) = Line!LeastOf(S)
    /\ \A S : Pattern!GreatestOf(S) = Line!GreatestOf(S)
    /\ \A S : Pattern!Pitches(S) = Line!Pitches(S)
    /\ \A o, d, n : Pattern!SitesOf(o, d, n) = Line!SitesOf(o, d, n)
    /\ \A o, d, n, i : Pattern!Places(o, d, n, i) = Line!Places(o, d, n, i)
    /\ \A f, n, a : Pattern!NewOrigin(f, n, a) = Line!NewOrigin(f, n, a)
    /\ \A s, old, new : Pattern!Spliced(s, old, new) = Line!Spliced(s, old, new)
    /\ \A S, key : Pattern!InOrder(S, key) = Line!InOrder(S, key)
<1> USE DEF Pattern!Item, Line!Item, Pattern!ToSet, Line!ToSet
<1>1. \A p : Pattern!Mapped(p) = Line!Mapped(p)
  BY DEF Pattern!Mapped, Line!Mapped
<1>2. \A p, a : Pattern!Positions(p, a) = Line!Positions(p, a)
  BY <1>1 DEF Pattern!Positions, Line!Positions
<1>3. \A S : Pattern!LeastOf(S) = Line!LeastOf(S)
  BY DEF Pattern!LeastOf, Line!LeastOf
<1>4. \A S : Pattern!GreatestOf(S) = Line!GreatestOf(S)
  BY DEF Pattern!GreatestOf, Line!GreatestOf
<1>5. \A S : Pattern!Pitches(S) = Line!Pitches(S)
  BY <1>3 DEF Pattern!Pitches, Line!Pitches
<1>6. \A o, d, n : Pattern!SitesOf(o, d, n) = Line!SitesOf(o, d, n)
  BY DEF Pattern!SitesOf, Line!SitesOf
<1>7. \A o, d, n, i : Pattern!Places(o, d, n, i) = Line!Places(o, d, n, i)
  BY DEF Pattern!Places, Line!Places
<1>8. \A f, n, a : Pattern!NewOrigin(f, n, a) = Line!NewOrigin(f, n, a)
  BY Zenon DEF Pattern!NewOrigin, Line!NewOrigin
<1>9. \A s, old, new : Pattern!Spliced(s, old, new) = Line!Spliced(s, old, new)
  BY Zenon DEF Pattern!Spliced, Line!Spliced
<1>10. \A S, key : Pattern!InOrder(S, key) = Line!InOrder(S, key)
  BY Zenon DEF Pattern!InOrder, Line!InOrder, Pattern!Cardinality, Line!Cardinality,
     Pattern!IsFiniteSet, Line!IsFiniteSet
<1> QED
  BY <1>1, <1>2, <1>3, <1>4, <1>5, <1>6, <1>7, <1>8, <1>9, <1>10

\* detect alike
LEMMA SameDetection == \A p, a : Pattern!Detected(p, a) = Line!Detected(p, a)
<1> SUFFICES ASSUME NEW p, NEW a PROVE Pattern!Detected(p, a) = Line!Detected(p, a)
  OBVIOUS
<1> DEFINE S == Line!Positions(p, a)
           M == Line!Mapped(p)
           here == Line!ToSet(p)
           o == Line!LeastOf(S)
           g == Line!GreatestOf(S)
           P == Line!Pitches(S)
           d == Line!GreatestOf(P)
           sites == Line!SitesOf(o, d, ((g - o) \div d) + 1)
<1>1. /\ Pattern!Positions(p, a) = S /\ Pattern!Mapped(p) = M /\ Pattern!ToSet(p) = here
      /\ Pattern!LeastOf(S) = o /\ Pattern!GreatestOf(S) = g /\ Pattern!Pitches(S) = P
      /\ Pattern!GreatestOf(P) = d
      /\ Pattern!SitesOf(o, d, ((g - o) \div d) + 1) = sites
      /\ Pattern!Cardinality(M) = Line!Cardinality(M)
      /\ Pattern!Cardinality(S) = Line!Cardinality(S)
      /\ Pattern!Source = Line!Source
  BY SameLattice, SameSizes, Zenon DEF Pattern!ToSet, Line!ToSet, Pattern!Source, Line!Source
<1> QED
  BY <1>1 DEF Pattern!Detected, Line!Detected

\* and name the instances alike.
LEMMA SameNames == Pattern!Names = Line!Names
BY SameLattice, Zenon DEF Pattern!Names, Line!Names, Pattern!Item, Line!Item

\* Their steps.
LEMMA SameEdit == [Pattern!Next]_rowVars => [Line!Next]_Line!vars
<1> USE DEF Pattern!Item, Line!Item, Pattern!ToSet, Line!ToSet
<1>1. UNCHANGED rowVars => UNCHANGED Line!vars
  BY DEF rowVars, Line!vars
<1>2. \A f, n, a : Pattern!CanResize(f, n, a) <=> Line!CanResize(f, n, a)
  BY SameLattice, Zenon DEF Pattern!CanResize, Line!CanResize
<1>3. \A place, new : Pattern!Rewrite(place, new) => Line!Rewrite(place, new)
  BY SameLattice, Zenon DEF Pattern!Rewrite, Line!Rewrite, Pattern!Dropped, Line!Dropped,
     Pattern!Restyled, Line!Restyled
<1>4. \A f, n, a : Pattern!Resize(f, n, a) => Line!Resize(f, n, a)
  BY <1>2, <1>3, SameLattice, SameNames, Zenon DEF Pattern!Resize, Line!Resize
<1>5. \A f, n, a : Pattern!Refuse(f, n, a) => Line!Refuse(f, n, a)
  BY <1>2, Zenon DEF Pattern!Refuse, Line!Refuse
<1>6. Pattern!Next => Line!Next
  BY <1>4, <1>5, SameDetection, Zenon DEF Pattern!Next, Line!Next, Pattern!Anchors, Line!Anchors
<1> QED
  BY <1>1, <1>6

\* What is said of them.
LEMMA SameWords ==
    /\ Line!TypeOK => Pattern!TypeOK
    /\ Line!ListsFollowTheRow => Pattern!ListsFollowTheRow
    /\ Line!NothingDanglesNothingLeaks => Pattern!NothingDanglesNothingLeaks
    /\ Line!MakesTheLattice => Pattern!MakesTheLattice
<1>1. /\ Pattern!Item = Line!Item /\ Pattern!Host = Line!Host /\ Pattern!Source = Line!Source
      /\ Pattern!Anchors = Line!Anchors /\ \A s : Pattern!ToSet(s) = Line!ToSet(s)
  BY DEF Pattern!Item, Line!Item, Pattern!Host, Line!Host, Pattern!Source, Line!Source,
     Pattern!ToSet, Line!ToSet, Pattern!Anchors, Line!Anchors
<1>2. \A p : Pattern!HasSource(p) <=> Line!HasSource(p)
  BY <1>1, Zenon DEF Pattern!HasSource, Line!HasSource
<1>3. \A p : Pattern!Listed(p) = Line!Listed(p)
  BY <1>2 DEF Pattern!Listed, Line!Listed
<1>4. /\ \A p, a : Pattern!Occupied(p, a) = Line!Occupied(p, a)
      /\ \A p : Pattern!Occurrences(p) = Line!Occurrences(p)
  BY <1>2, SameLattice, SameSizes DEF Pattern!Occupied, Line!Occupied, Pattern!Occurrences,
     Line!Occurrences
<1>5. Line!TypeOK => Pattern!TypeOK
  BY <1>1, Zenon DEF Pattern!TypeOK, Line!TypeOK
<1>6. Line!ListsFollowTheRow => Pattern!ListsFollowTheRow
  BY <1>1, <1>3, SameLattice, SameSizes, Zenon DEF Pattern!ListsFollowTheRow,
     Line!ListsFollowTheRow
<1>7. Line!NothingDanglesNothingLeaks => Pattern!NothingDanglesNothingLeaks
  BY SameLattice, Zenon DEF Pattern!NothingDanglesNothingLeaks, Line!NothingDanglesNothingLeaks
<1>8. Line!MakesTheLattice => Pattern!MakesTheLattice
  BY <1>2, <1>4, SameLattice, SameSizes, SameDetection, Zenon
     DEF Pattern!MakesTheLattice, Line!MakesTheLattice
<1> QED
  BY <1>5, <1>6, <1>7, <1>8

-----------------------------------------------------------------------------
\* There is something to count.
SomeExtent == Lattice # {} /\ MinSites <= MaxSites

\* A behaviour of the two editors is one of CountEdit.
LEMMA EitherIsCountEdit ==
    ASSUME SomeExtent
    PROVE  EitherSpec => Spec
<1>1. MCExtent \subseteq Extent /\ MCExtent # {}
  <2>1. PICK k \in Lattice : TRUE
    BY DEF SomeExtent
  <2>2. [lattice |-> k, lo |-> 0, sites |-> MinSites] \in MCExtent
    BY <2>1, SizeAssumption DEF SomeExtent, MCExtent
  <2>3. MCExtent \subseteq Extent
    BY SizeAssumption DEF MCExtent, Extent
  <2> QED
    BY <2>2, <2>3
<1>2. EitherInit => Init
  <2>1. MCInit => Init
    BY <1>1 DEF MCInit, Init, File
  <2>2. Still \in File
    <3>1. (CHOOSE e \in MCExtent : TRUE) \in Extent
      BY <1>1
    <3> QED
      BY <3>1 DEF Still, File
  <2> QED
    BY <2>1, <2>2 DEF EitherInit, Init
<1>3. [EitherNext]_<<vars, rowVars>> => [Next]_vars
  BY DEF EitherNext
<1> QED
  BY <1>2, <1>3, PTL DEF EitherSpec, Spec

\* The row, if it is there.
RowInv == parent # <<>> => Line!IInv

\* A step of either editor is a step of the row editor or leaves its row alone.
LEMMA RowStep ==
    ASSUME RowInv, [EitherNext]_<<vars, rowVars>>, parent # <<>>
    PROVE  Line!IInv' /\ [Line!MakesTheLattice]_rowVars
<1>1. [Pattern!Next]_rowVars
  BY DEF EitherNext
<1>2. CASE Pattern!Next
  <2>1. Line!Next \/ UNCHANGED Line!vars
    BY <1>2, SameEdit
  <2>2. CASE Line!Next
    BY <2>2, SameRows, Line!EveryStep DEF RowInv
  <2>3. CASE UNCHANGED Line!vars
    <3>1. UNCHANGED rowVars
      BY <2>3 DEF rowVars, Line!vars
    <3> QED
      BY <2>3, <3>1, SameRows, Line!InvariantStep DEF RowInv
  <2> QED
    BY <2>1, <2>2, <2>3
<1>3. CASE UNCHANGED rowVars
  <2>1. UNCHANGED Line!vars
    BY <1>3 DEF rowVars, Line!vars
  <2> QED
    BY <1>3, <2>1, SameRows, Line!InvariantStep DEF RowInv
<1> QED
  BY <1>1, <1>2, <1>3

\* The row editor's invariant holds while it runs beside the count editor.
LEMMA RowInvariant == EitherSpec => []RowInv
<1>1. EitherInit => RowInv
  <2>1. Pattern!Init => Line!IInv
    BY SameRows, SameStart, Line!StartsShown
  <2>2. NoRow => parent = <<>>
    BY DEF NoRow
  <2> QED
    BY <2>1, <2>2 DEF EitherInit, RowInv
<1>2. RowInv /\ [EitherNext]_<<vars, rowVars>> => RowInv'
  <2> SUFFICES ASSUME RowInv, [EitherNext]_<<vars, rowVars>> PROVE RowInv'
    OBVIOUS
  <2>1. CASE parent = <<>>
    BY <2>1 DEF EitherNext, RowInv, rowVars
  <2>2. CASE parent # <<>>
    BY <2>2, RowStep DEF RowInv
  <2> QED
    BY <2>1, <2>2
<1> QED
  BY <1>1, <1>2, PTL DEF EitherSpec

\* Both editors keep the types of their variables.
THEOREM BothEditorsTyped ==
    ASSUME SomeExtent
    PROVE  EitherSpec => []Types
<1>1. RowInv /\ TypeOK => Types
  BY SameWords DEF RowInv, Types, Line!IInv
<1> QED
  BY <1>1, EitherIsCountEdit, TypeCorrect, RowInvariant, PTL

\* Through any number of edits the parent and the lists of styles list the sites of the
\* row, no reference is left to what is gone and nothing is held that no list has.
THEOREM RowsStayListed == EitherSpec => []RowsAreListed
<1>1. RowInv => RowsAreListed
  BY SameRows, SameWords, Line!InvariantLists DEF RowInv, RowsAreListed
<1> QED
  BY <1>1, RowInvariant, PTL

\* An accepted edit makes the lattice that was asked for.
THEOREM RowEditsMakeTheLattice == EitherSpec => RowsMakeTheLattice
<1>1. RowInv /\ [EitherNext]_<<vars, rowVars>> => [parent # <<>> => Pattern!MakesTheLattice]_rowVars
  BY RowStep, SameWords
<1> QED
  BY <1>1, RowInvariant, PTL DEF EitherSpec, RowsMakeTheLattice

=============================================================================
