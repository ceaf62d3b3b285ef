------------------------------- MODULE CountEdit -------------------------------
(***************************************************************************)
(* Editing a recovered count parameter (lib.rs): a group of instance rows  *)
(* and of periodic bodies that share one lattice and one number of sites   *)
(* is taken to a new number of sites, and the parameters are recovered     *)
(* again from the result before it replaces the file.                      *)
(*                                                                         *)
(* Of a row or a body there is left where it starts, how many sites it has *)
(* and the lattice (axis and pitch) they are sites of; the geometry of one *)
(* resize is another module's (PatternResize for a row).                   *)
(***************************************************************************)
EXTENDS Integers, FiniteSets

CONSTANTS
    Lattice,    \* axes with a pitch
    Row,        \* instance patterns: rows of MAPPED_ITEMs
    Body,       \* solids with a periodic face grammar
    MinSites,   \* fewest sites a parameter has (4 in the code)
    MaxSites,   \* bound: most sites
    Reach       \* bound: sites lie within -Reach .. Reach

ASSUME SizeAssumption ==
    /\ IsFiniteSet(Row) /\ IsFiniteSet(Body)
    /\ MinSites \in Nat \ {0} /\ MaxSites \in Nat /\ Reach \in Nat

VARIABLES
    file,    \* the bytes the caller has: [rows, bodies]
    draft,   \* the entities the edit works on
    edit     \* the edit under way

vars == <<file, draft, edit>>

Extent == [lattice : Lattice, lo : -Reach .. Reach, sites : 1 .. MaxSites]
File == [rows : [Row -> Extent], bodies : [Body -> Extent]]

\* detect_count_parameters: the rows of one lattice and count, with the bodies whose
\* face families have that lattice and count.  Without a body there is no proven
\* grammar, without a row no candidate lattice.
GroupOf(f, l, n) ==
    [lattice |-> l, sites |-> n,
     rows |-> {r \in Row : f.rows[r].lattice = l /\ f.rows[r].sites = n},
     bodies |-> {b \in Body : f.bodies[b].lattice = l /\ f.bodies[b].sites = n}]

Parameters(f) ==
    {g \in {GroupOf(f, l, n) : l \in Lattice, n \in MinSites .. MaxSites} :
        g.rows # {} /\ g.bodies # {}}

\* All that the editor compares of two parameters beside the number of sites: how
\* many rows (instances per site) and how many bodies they have.
\* (Slip: the rows are not compared.)
SameBodies(g, h) == Cardinality(g.bodies) = Cardinality(h.bodies)
SameGrammar(g, h) ==
    /\ Cardinality(g.rows) = Cardinality(h.rows)
    /\ Cardinality(g.bodies) = Cardinality(h.bodies)

Anchors == {"start", "center", "end"}
Steps == {"idle", "bodies", "rows", "verify"}

\* An extent taken to n sites, one of its ends fixed.
\* (Slip: always the start.)
MovedFromStart(e, n, side) == [lattice |-> e.lattice, sites |-> n, lo |-> e.lo]
Moved(e, n, side) ==
    [lattice |-> e.lattice, sites |-> n,
     lo |-> IF side = "end" THEN e.lo + e.sites - n ELSE e.lo]

Fits(e) == e.lo \in -Reach .. Reach

-----------------------------------------------------------------------------
Init ==
    /\ file \in File
    /\ draft = file
    /\ edit = [step |-> "idle"]

\* The count of the first one-sided edit: a centred edit makes half of the change at
\* the one end and half at the other.
\* (Slip: the halving is forgotten.)
FirstSitesUnhalved(g, n, anchor) == IF anchor = "center" THEN g.sites + n ELSE n
FirstSites(g, n, anchor) == IF anchor = "center" THEN (g.sites + n) \div 2 ELSE n

Begin(g, n, anchor) ==
    /\ edit.step = "idle"
    /\ n # g.sites
    /\ anchor = "center" => (n - g.sites) % 2 = 0
    /\ draft' = file
    /\ edit' = [step |-> "bodies", original |-> g, target |-> g,
                sites |-> FirstSites(g, n, anchor), want |-> n, anchor |-> anchor,
                side |-> IF anchor = "end" THEN "end" ELSE "start",
                bodies |-> g.bodies, rows |-> g.rows]
    /\ UNCHANGED file

\* The bodies one after the other, then the rows.
ResizeBody(b) ==
    /\ edit.step = "bodies" /\ b \in edit.bodies
    /\ Fits(Moved(draft.bodies[b], edit.sites, edit.side))
    /\ draft' = [draft EXCEPT !.bodies[b] = Moved(@, edit.sites, edit.side)]
    /\ edit' = [edit EXCEPT !.bodies = @ \ {b},
                            !.step = IF edit.bodies = {b} THEN "rows" ELSE "bodies"]
    /\ UNCHANGED file

ResizeRow(r) ==
    /\ edit.step = "rows" /\ r \in edit.rows
    /\ Fits(Moved(draft.rows[r], edit.sites, edit.side))
    /\ draft' = [draft EXCEPT !.rows[r] = Moved(@, edit.sites, edit.side)]
    /\ edit' = [edit EXCEPT !.rows = @ \ {r},
                            !.step = IF edit.rows = {r} THEN "verify" ELSE "rows"]
    /\ UNCHANGED file

\* Post-edit semantic verification: some parameter recovered from the result has the
\* requested sites and looks like the one that was edited.
\* (Slip: the sites are enough.)
VerifiedSites == \E g \in Parameters(draft) : g.sites = edit.sites
Verified == \E g \in Parameters(draft) : g.sites = edit.sites /\ SameGrammar(g, edit.target)

\* find_matching_count_parameter, which refuses to choose between two.
Matching == {g \in Parameters(draft) :
                g.sites = edit.sites /\ SameGrammar(g, edit.original)}

\* The centred edit goes on, from the bytes of its first half, with the parameter
\* it recovers there.
OtherEnd ==
    /\ edit.step = "verify" /\ edit.sites # edit.want
    /\ Verified
    /\ \E g \in Matching :
          /\ Matching = {g}
          /\ edit' = [edit EXCEPT !.step = "bodies", !.target = g, !.sites = edit.want,
                                  !.side = "end", !.bodies = g.bodies, !.rows = g.rows]
    /\ UNCHANGED <<file, draft>>

Accept ==
    /\ edit.step = "verify" /\ edit.sites = edit.want
    /\ Verified
    /\ file' = draft
    /\ edit' = [step |-> "idle"]
    /\ UNCHANGED draft

\* Any of the resizes may refuse the geometry it is given; a failed verification and
\* an ambiguous half refuse too.  The caller keeps the bytes it had.
Bail ==
    /\ edit.step # "idle"
    /\ edit' = [step |-> "idle"]
    /\ draft' = file
    /\ UNCHANGED file

Next ==
    \/ \E g \in Parameters(file), n \in MinSites .. MaxSites, a \in Anchors : Begin(g, n, a)
    \/ \E b \in Body : ResizeBody(b)
    \/ \E r \in Row : ResizeRow(r)
    \/ OtherEnd
    \/ Accept
    \/ Bail

Spec == Init /\ [][Next]_vars

-----------------------------------------------------------------------------
Group == [lattice : Lattice, sites : MinSites .. MaxSites,
          rows : SUBSET Row, bodies : SUBSET Body]

Idle == [step : {"idle"}]
Running == [step : Steps \ {"idle"}, original : Group, target : Group,
            sites : MinSites .. MaxSites, want : MinSites .. MaxSites,
            anchor : Anchors, side : {"start", "end"},
            bodies : SUBSET Body, rows : SUBSET Row]

\* The file and the draft are well formed at every step of an edit, the requested
\* count within the bounds: the request's validation in
\* resize_count_parameter_bytes_with_anchor.
TypeOK ==
    /\ file \in File
    /\ draft \in File
    /\ edit \in Idle \cup Running

\* An edit that is accepted has the count that was asked for, recovered with the
\* rows and the bodies the edited parameter had: what resize_count_parameter_bytes
\* promises of its own verification.
SameGrammarRecovered ==
    [][Accept => \E g \in Parameters(file') :
                    /\ g.sites = edit.want
                    /\ g.rows = edit.original.rows
                    /\ g.bodies = edit.original.bodies]_vars

Couplings(f) == {[rows |-> g.rows, bodies |-> g.bodies] : g \in Parameters(f)}

\* An edit never merges two parameters into one: what could be edited apart before
\* an edit can be edited apart after it, and nothing new moves along.
ParametersStayApart == [][Couplings(file') = Couplings(file)]_vars

\* The rows stand on their body as before the edit, at as many sites: the bodies
\* and the rows of an accepted edit all moved alike (the coupled rows and bodies
\* that resize_count_parameter_bytes_one_side visits one by one).
Anchored(old, new, anchor) ==
    CASE anchor = "start"  -> new.lo = old.lo
      [] anchor = "end"    -> new.lo + new.sites = old.lo + old.sites
      [] anchor = "center" -> 2 * new.lo + new.sites = 2 * old.lo + old.sites

\* The end, or the centre, that the caller anchored has not moved; whatever is not
\* part of the parameter has not changed.
EditIsAnchored ==
    [][Accept =>
         /\ \A r \in Row : IF r \in edit.original.rows
                           THEN Anchored(file.rows[r], file'.rows[r], edit.anchor)
                           ELSE file'.rows[r] = file.rows[r]
         /\ \A b \in Body : IF b \in edit.original.bodies
                            THEN Anchored(file.bodies[b], file'.bodies[b], edit.anchor)
                            ELSE file'.bodies[b] = file.bodies[b]]_vars

=============================================================================
