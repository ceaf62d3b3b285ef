-------------------------------- MODULE Intern --------------------------------
(***************************************************************************)
(* normalization.rs, intern_section: structural interning of value         *)
(* entities (points, placements, units, styles, ...).  Two values with the *)
(* same keyword and the same parameters, references compared under the     *)
(* redirects found so far, become one; topology is never merged.           *)
(*                                                                         *)
(* The pass works in rounds.  It caches the structural hash of every value *)
(* and recomputes only the dirty ones: those that refer to an entity whose *)
(* redirect changed in the round before.  A hash is modelled by the key it *)
(* is computed from: a collision only puts more values into a bucket, and  *)
(* inside a bucket values are compared again under the current redirects.  *)
(*                                                                         *)
(* An entity is named by its position in the file, which is the order of   *)
(* every scan.  alias[i] = i says that i has no redirect.                  *)
(***************************************************************************)
EXTENDS Integers, Sequences, FiniteSets

CONSTANTS
    N,          \* number of entities in the section
    Labels,     \* keyword and non-reference parameters of an entity
    Sections,   \* the sections considered
    MaxRounds   \* the defensive cap on the rounds (16 in the code)

Pos == 1 .. N
Entity == [label: Labels, value: BOOLEAN, refs: Seq(Pos)]

ASSUME SizeAssumption == N \in Nat /\ MaxRounds \in Nat \ {0}
ASSUME SectionsAssumption == Sections \subseteq [Pos -> Entity]

VARIABLES
    ent,      \* the section that is interned (never changes)
    alias,    \* redirects
    hash,     \* cached structural hashes
    dirty,    \* values whose cached hash must be recomputed
    pending,  \* redirects found in this round
    changed,  \* entities that got a redirect in this round
    round,    \* rounds done
    pc,       \* "rehash", "group", "redirect", "compress", "rewrite", "done"
    live, out \* the entities written and the references they hold

vars == <<ent, alias, hash, dirty, pending, changed, round, pc, live, out>>

-----------------------------------------------------------------------------
\* resolve_alias follows up to 64 redirects.  One round adds at most one to a
\* compressed chain, so two are always enough (RedirectsResolve).
\* (Slip: only one is followed.)
ResolveOnce(al, i) == al[i]
Resolve(al, i) == al[al[i]]

\* What entity_structural_hash hashes and entities_equivalent compares.
\* (Slip: the references are left out.)
KeyWithoutRefs(es, al, i) == [label |-> es[i].label]
KeyOf(es, al, i) ==
    [label |-> es[i].label,
     refs  |-> [k \in DOMAIN es[i].refs |-> Resolve(al, es[i].refs[k])]]

Key(al, i) == KeyOf(ent, al, i)

Keys == [label: Labels, refs: Seq(Pos)]

\* The values a round looks at.
Unmerged(al) == {i \in Pos : ent[i].value /\ al[i] = i}

\* The values that refer to a member of S (parents_by_ref).
\* (Slip: a reference forward in the file is not indexed.)
ValueParentsBehind(S) ==
    {i \in Pos : ent[i].value /\ \E k \in DOMAIN ent[i].refs : ent[i].refs[k] \in S \cap 1 .. i}
ValueParents(S) ==
    {i \in Pos : ent[i].value /\ \E k \in DOMAIN ent[i].refs : ent[i].refs[k] \in S}

\* The values before i that share its bucket and are equivalent to it.
\* (Slip: equal keywords are enough.)
DuplicatesByLabel(i) == {c \in Unmerged(alias) : c < i /\ ent[c].label = ent[i].label}
Duplicates(i) ==
    {c \in Unmerged(alias) : /\ c < i
                             /\ hash[c] = hash[i]
                             /\ Key(alias, c) = Key(alias, i)}

First(S) == CHOOSE i \in S : \A j \in S : i <= j

-----------------------------------------------------------------------------
Init ==
    /\ ent \in Sections
    /\ alias = [i \in Pos |-> i]
    /\ hash = [i \in Pos |-> Key(alias, i)]
    /\ dirty = {} /\ changed = {}
    /\ pending = [i \in Pos |-> i]
    /\ round = 0
    /\ pc = "rehash"
    /\ live = Pos
    /\ out = [i \in Pos |-> ent[i].refs]

\* A round starts by recomputing the hashes of the dirty values.
Rehash ==
    /\ pc = "rehash"
    /\ hash' = [i \in Pos |->
                  IF i \in dirty /\ i \in Unmerged(alias) THEN Key(alias, i) ELSE hash[i]]
    /\ dirty' = {}
    /\ pc' = "group"
    /\ UNCHANGED <<ent, alias, pending, changed, round, live, out>>

\* The scan in file order: a value equivalent to one in its bucket is redirected
\* to the first such one.  A round that finds nothing ends the loop.
Group ==
    /\ pc = "group"
    /\ pending' = [i \in Pos |->
                     IF i \in Unmerged(alias) /\ Duplicates(i) # {}
                     THEN First(Duplicates(i)) ELSE i]
    /\ pc' = IF \A i \in Pos : pending'[i] = i THEN "rewrite" ELSE "redirect"
    /\ UNCHANGED <<ent, alias, hash, dirty, changed, round, live, out>>

Redirect ==
    /\ pc = "redirect"
    /\ changed' = {i \in Pos : pending[i] # i}
    /\ alias' = [i \in Pos |-> IF pending[i] # i THEN pending[i] ELSE alias[i]]
    /\ pending' = [i \in Pos |-> i]
    /\ pc' = "compress"
    /\ UNCHANGED <<ent, hash, dirty, round, live, out>>

\* compress_aliases, then the parents of everything whose redirect changed become
\* dirty.  With none of them the cached hashes are current and the loop ends.
Compress ==
    LET moved == {i \in Pos : Resolve(alias, i) # alias[i]}
    IN  /\ pc = "compress"
        /\ alias' = [i \in Pos |-> Resolve(alias, i)]
        /\ dirty' = ValueParents(changed \cup moved) \cap Unmerged(alias)
        /\ changed' = {}
        /\ round' = round + 1
        /\ pc' = IF dirty' = {} \/ round' = MaxRounds THEN "rewrite" ELSE "rehash"
        /\ UNCHANGED <<ent, hash, pending, live, out>>

\* Redirected entities go, the others refer to the survivors.  The rewriting looks
\* up one redirect only, so the redirects are compressed once more before it.
Rewrite ==
    LET al == [i \in Pos |-> Resolve(alias, i)]
    IN  /\ pc = "rewrite"
        /\ alias' = al
        /\ live' = {i \in Pos : al[i] = i}
        /\ out' = [i \in Pos |-> [k \in DOMAIN ent[i].refs |-> al[ent[i].refs[k]]]]
        /\ pc' = "done"
        /\ UNCHANGED <<ent, hash, dirty, pending, changed, round>>

Done == pc = "done" /\ UNCHANGED vars

Next == Rehash \/ Group \/ Redirect \/ Compress \/ Rewrite \/ Done

Spec == Init /\ [][Next]_vars

-----------------------------------------------------------------------------
TypeOK ==
    /\ ent \in [Pos -> Entity]
    /\ alias \in [Pos -> Pos]
    /\ hash \in [Pos -> Keys]
    /\ dirty \in SUBSET Pos /\ changed \in SUBSET Pos
    /\ pending \in [Pos -> Pos]
    /\ round \in 0 .. MaxRounds
    /\ pc \in {"rehash", "group", "redirect", "compress", "rewrite", "done"}
    /\ live \in SUBSET Pos
    /\ out \in [Pos -> Seq(Pos)]

\* A redirect leads to an earlier value, and following two redirects always
\* reaches an entity without one: no chain is longer than resolve_alias assumes.
RedirectsResolve ==
    \A i \in Pos :
        /\ alias[i] <= i
        /\ alias[Resolve(alias, i)] = Resolve(alias, i)

\* Merging never changes what anything denotes: only values are merged, and an
\* entity and the one it is redirected to have equal keywords and parameters, their
\* references being equal up to redirects again.  (The redirects are a bisimulation
\* of the original section, so the unfolded values are equal.)
MergesOnlyEqualValues ==
    \A i \in Pos : alias[i] # i =>
        /\ ent[i].value /\ ent[alias[i]].value
        /\ Key(alias, i) = Key(alias, alias[i])

\* A hash that is not scheduled for recomputation is the one that a recomputation
\* would give: invalidating direct parents only, in the section as it was read,
\* loses nothing, although compression changes redirects of earlier rounds.
CachedHashesCurrent ==
    pc \in {"rehash", "group"} =>
        \A i \in Unmerged(alias) \ dirty : hash[i] = Key(alias, i)

\* Unless the cap on the rounds stopped it, the pass has merged all there is to
\* merge: no two values of the output are equal.
MaximalSharing ==
    (pc = "done" /\ dirty = {}) =>
        \A i, j \in live : (i # j /\ ent[i].value /\ ent[j].value) =>
            <<ent[i].label, out[i]>> # <<ent[j].label, out[j]>>

\* Every reference of a written entity leads to a written entity.
OutputIsClosed ==
    pc = "done" => \A i \in live : \A k \in DOMAIN out[i] : out[i][k] \in live

=============================================================================
