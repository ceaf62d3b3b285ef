----------------------------- MODULE PatternResize -----------------------------
(***************************************************************************)
(* patterns.rs: one row of MAPPED_ITEMs in a parent representation and the *)
(* edits a user makes to it, one after the other (resize_linear_pattern).  *)
(* Every edit detects the row anew in the file the edit before wrote.      *)
(*                                                                         *)
(* A row may be completed by the mapped solid itself: the parent also      *)
(* lists the source, at zero translation, and that site of the lattice has *)
(* no MAPPED_ITEM (implicit_identity_site).                                *)
(*                                                                         *)
(* Positions are integers, half a pitch of the first row apart, so that a  *)
(* centred edit can fall between two sites.  An item, its STYLED_ITEM and  *)
(* its placement are created and dropped together and share a name.        *)
(***************************************************************************)
EXTENDS Integers, Sequences, FiniteSets, SequencesExt

CONSTANTS
    MinItems,    \* fewest items a row is detected with (4 in the code)
    MaxCount,    \* bound: largest count a user asks for
    MaxItem,     \* bound: names for items
    Reach,       \* bound: positions are within -Reach .. Reach
    Rows,        \* the rows a file may start with: sequences of positions
    Layers       \* the lists of presentation items

BoundAssumption ==
    /\ MinItems \in Nat \ {0, 1}
    /\ MaxCount \in Nat /\ MaxItem \in Nat /\ Reach \in Nat

\* Every row has an item and lies on a grid of whole pitches: half of one is an integer.
RowsAssumption ==
    \A row \in Rows :
        /\ row \in Seq(-Reach .. Reach) /\ Len(row) \in 1 .. MaxItem
        /\ \A j, k \in DOMAIN row : (row[j] - row[k]) % 2 = 0

Item == 1 .. MaxItem
Source == 0           \* the mapped solid, where the parent lists it directly
Host == MaxItem + 1   \* any other item of the parent, any other style of a list

VARIABLES
    parent,   \* items of the parent representation, in order
    at,       \* position of each item's placement
    live,     \* items the file holds
    layer,    \* [Layers -> sequence of styles]
    pinned,   \* items something else refers to
    request   \* the last edit: [count, anchor, done], count = 0 before the first

vars == <<parent, at, live, layer, pinned, request>>

Anchors == {"start", "center", "end"}

-----------------------------------------------------------------------------
(* The lattice of a set of positions: fit_line for points on a line.       *)

Mapped(p) == ToSet(p) \cap Item
Positions(p, a) == {a[i] : i \in Mapped(p)}

LeastOf(S) == CHOOSE x \in S : \A y \in S : x <= y
GreatestOf(S) == CHOOSE x \in S : \A y \in S : x >= y

SitesOf(o, d, n) == {o + d * k : k \in 0 .. n - 1}

\* The positions of the MAPPED_ITEMs of n sites from o, d apart: the sites in order
\* without the one the source has.
Places(o, d, n, implicit) ==
    [k \in 1 .. (IF implicit THEN n - 1 ELSE n) |->
        IF implicit /\ o + d * (k - 1) >= 0 THEN o + d * k ELSE o + d * (k - 1)]

\* The largest difference that puts every position on a site: of the candidate
\* bases the one with the best fill ratio.
Pitches(S) ==
    {d \in {x - y : x, y \in S} : d > 0 /\ \A x \in S : (x - LeastOf(S)) % d = 0}

\* The lattice of a row, and whether it is one that can be edited: filled, or with
\* its only gap at zero and taken there by the source (implicit).
Detected(p, a) ==
    LET S == Positions(p, a)
        d == GreatestOf(Pitches(S))
        n == ((GreatestOf(S) - LeastOf(S)) \div d) + 1
        gaps == SitesOf(LeastOf(S), d, n) \ S
        implicit == gaps = {0} /\ Source \in ToSet(p)
    IN  IF Cardinality(Mapped(p)) < MinItems \/ Cardinality(S) < Cardinality(Mapped(p))
           \/ Pitches(S) = {}
        THEN [editable |-> FALSE]
        ELSE [editable |-> gaps = {} \/ implicit, implicit |-> implicit,
              origin |-> LeastOf(S), pitch |-> d, sites |-> n]

\* anchored_pattern_origin
\* (Slip: one pitch too far from the start.)
NewOriginPastEnd(f, n, anchor) ==
    IF anchor = "start" THEN f.origin ELSE f.origin + f.pitch * (f.sites - n + 1)
NewOrigin(f, n, anchor) ==
    CASE anchor = "start"  -> f.origin
      [] anchor = "center" -> f.origin + (f.pitch * (f.sites - 1) - f.pitch * (n - 1)) \div 2
      [] anchor = "end"    -> f.origin + f.pitch * (f.sites - 1) - f.pitch * (n - 1)

-----------------------------------------------------------------------------
Init ==
    \E row \in Rows, direct \in BOOLEAN :
        /\ direct => 0 \notin ToSet(row)
        /\ at = [i \in Item |-> IF i <= Len(row) THEN row[i] ELSE 0]
        /\ live = 1 .. Len(row)
        /\ parent = (IF direct THEN <<Host, Source>> ELSE <<Host>>)
                      \o [i \in 1 .. Len(row) |-> i] \o <<Host>>
        /\ layer \in [Layers -> {<<Host>> \o [i \in 1 .. Len(row) |-> i], <<Host>>}]
        /\ pinned \in {{}, {1}, {Len(row)}}
        /\ request = [count |-> 0, anchor |-> "start", done |-> TRUE]

\* The occurrence of the source itself, if it completes the row, stays a site.
CanResize(row, n, anchor) ==
    /\ row.editable
    /\ row.implicit => 0 \in SitesOf(NewOrigin(row, n, anchor), row.pitch, n)

\* Replace the members of old by the sequence new, at the first of them
\* (rewrite_ref_sequence).
Spliced(s, old, new) ==
    LET out[k \in 0 .. Len(s)] ==
            IF k = 0 THEN <<>>
            ELSE IF s[k] \notin old THEN Append(out[k - 1], s[k])
            ELSE IF \E j \in 1 .. k - 1 : s[j] \in old THEN out[k - 1]
            ELSE out[k - 1] \o new
    IN  out[Len(s)]

\* The styles of the row in one list (rewrite_presentation_style_lists).
\* (Slip: new styles are appended and none is removed.)
RestyledByAppending(s, old, new) == IF ToSet(s) \cap old = {} THEN s ELSE s \o new
Restyled(s, old, new) == Spliced(s, old, new)

\* Of the items that left the row those go that nothing else refers to
\* (prune_entities_unreferenced).  (Slip: none does.)
DroppedNone(gone) == {}
Dropped(gone) == gone \ pinned

\* The members of a set in the order of their keys.
InOrder(S, key) ==
    [j \in 1 .. Cardinality(S) |->
        CHOOSE x \in S : Cardinality({y \in S : key[y] <= key[x]}) = j]

\* The items in the order of their sites, then names that are free.
Names == InOrder(Mapped(parent), at) \o InOrder(Item \ live, [i \in Item |-> i])

\* An edit that can be done.  The first items are kept and get new placements, in
\* the order of the sites and around the source's own; the rest is created, or
\* unhooked and dropped unless something else refers to it.
Rewrite(place, new) ==
    LET gone == Mapped(parent) \ ToSet(new)
    IN  /\ live' = (live \ Dropped(gone)) \cup ToSet(new)
        /\ at' = [i \in Item |-> IF \E k \in DOMAIN new : new[k] = i
                                 THEN place[CHOOSE k \in DOMAIN new : new[k] = i]
                                 ELSE IF i \in live' THEN at[i] ELSE 0]
        /\ parent' = Spliced(parent, Mapped(parent), new)
        /\ layer' = [l \in Layers |-> Restyled(layer[l], Mapped(parent), new)]

Resize(row, n, anchor) ==
    /\ CanResize(row, n, anchor)
    /\ \E place \in {Places(NewOrigin(row, n, anchor), row.pitch, n, row.implicit)} :
          /\ ToSet(place) \subseteq -Reach .. Reach
          /\ Len(place) <= Len(Names)
          /\ \E new \in {SubSeq(Names, 1, Len(place))} : Rewrite(place, new)
    /\ request' = [count |-> n, anchor |-> anchor, done |-> TRUE]
    /\ UNCHANGED pinned

\* The row is not one that can be edited, or the source would fall out of the
\* lattice or between two sites: the edit fails and writes nothing.
Refuse(row, n, anchor) ==
    /\ ~CanResize(row, n, anchor)
    /\ request' = [count |-> n, anchor |-> anchor, done |-> FALSE]
    /\ UNCHANGED <<parent, at, live, layer, pinned>>

\* resize_linear_pattern_bytes: parse, detect, resize, write.
Next == \E row \in {Detected(parent, at)} :
            \E n \in 1 .. MaxCount, anchor \in Anchors :
                Resize(row, n, anchor) \/ Refuse(row, n, anchor)

Spec == Init /\ [][Next]_vars

-----------------------------------------------------------------------------
TypeOK ==
    /\ live \in SUBSET Item
    /\ parent \in Seq(Item \cup {Source, Host})
    /\ at \in [Item -> -Reach .. Reach]
    /\ layer \in [Layers -> Seq(Item \cup {Host})]
    /\ pinned \in SUBSET live
    /\ request \in [count : 0 .. MaxCount, anchor : Anchors, done : BOOLEAN]

\* Where the solid occurs, the source's own occurrence included.
HasSource(p) == Source \in ToSet(p)
Occupied(p, a) == Positions(p, a) \cup (IF HasSource(p) THEN {0} ELSE {})
Occurrences(p) == Cardinality(Mapped(p)) + (IF HasSource(p) THEN 1 ELSE 0)

\* The instances as the parent lists them: all between its other items.
Listed(p) == SubSeq(p, IF HasSource(p) THEN 3 ELSE 2, Len(p) - 1)

\* Whatever a list showed of the row before, it shows every instance the row has
\* now, once each and in the order of the parent; nothing else of it moved.
ListsFollowTheRow ==
    /\ ToSet(Listed(parent)) = Mapped(parent)
    /\ Len(Listed(parent)) = Cardinality(Mapped(parent))
    /\ \A l \in Layers : layer[l] \in {<<Host>>, <<Host>> \o Listed(parent)}

\* The file holds the instances it lists and, of those it dropped, only what
\* something else still refers to.
NothingDanglesNothingLeaks ==
    /\ Mapped(parent) \subseteq live
    /\ live \ Mapped(parent) \subseteq pinned

\* What a step is, if it is such an edit.
MakesTheLattice ==
    (request'.done /\ (HasSource(parent) => Detected(parent, at).implicit)) =>
        LET S == Occupied(parent, at)
            T == Occupied(parent', at')
            n == request'.count
        IN  /\ Occurrences(parent') = n /\ Cardinality(T) = n
            /\ GreatestOf(T) - LeastOf(T)
                 = (n - 1) * ((GreatestOf(S) - LeastOf(S)) \div (Cardinality(S) - 1))
            /\ request'.anchor = "start" => LeastOf(T) = LeastOf(S)
            /\ request'.anchor = "end" => GreatestOf(T) = GreatestOf(S)
            /\ request'.anchor = "center" =>
                   LeastOf(T) + GreatestOf(T) = LeastOf(S) + GreatestOf(S)

\* An accepted edit of a row whose source, if the parent lists it, is a known site
\* of the lattice: afterwards the solid occurs exactly as often as asked, at sites
\* one pitch apart, none of them twice, and the anchored end or centre stays.
AcceptedEditMakesTheLattice == [][MakesTheLattice]_vars

\* The solid never occurs twice in one place, however many edits are made to a row that
\* the source completes: a lattice site the source occupies directly in the parent has no
\* MAPPED_ITEM, as the comment on InstancePattern::implicit_identity_site has it.  (A row
\* whose lattice the source is no site of is not meant.)
NoSiteOccupiedTwice == Cardinality(Occupied(parent, at)) = Occurrences(parent)

=============================================================================
