---------------------------- MODULE GeometricIntern ----------------------------
(***************************************************************************)
(* geometric_intern.rs: planes, cylinders and lines that are the same      *)
(* locus in different exporter frames are merged, the users of the         *)
(* duplicates are given the first of them, and the frames nobody uses any  *)
(* more are collected.                                                     *)
(*                                                                         *)
(* A support may be merged only if all its users trim it themselves:       *)
(* faces for a surface, edge curves for a line.  Anything else (a PCURVE,  *)
(* a TRIMMED_CURVE) reads the support's own parameters.  A line is merged  *)
(* only if its new origin is not too remote for any of its edges.          *)
(***************************************************************************)
EXTENDS Naturals

CONSTANTS
    Supports,   \* bound: 1 .. Supports are the supports, in the order of the file
    Frame,      \* placements, points, directions
    User,       \* what refers to a support
    Loci

Support == 1 .. Supports
Node == Support \cup Frame \cup User

\* An entity is of one kind.
SupportsAssumption ==
    /\ Supports \in Nat
    /\ Support \cap Frame = {} /\ Support \cap User = {} /\ Frame \cap User = {}

VARIABLES
    line,     \* the supports that are lines; the others are surfaces of one kind
    locus,    \* [Support -> Loci]
    trims,    \* the users that trim their support themselves
    near,     \* [User -> lines with an origin close enough for it]
    source,   \* [Node -> SUBSET Node]: the references of the file
    refs,     \* the references now
    live,
    pc,       \* "scan", "collect" or "done"
    next,     \* the support the scan looks at
    seen,     \* supports that are the first of their key
    alias,    \* duplicate -> first, a support that is no duplicate -> itself
    delete, todo, changed   \* the collection's loop

input == <<line, locus, trims, near, source>>
vars == <<line, locus, trims, near, source, refs, live, pc, next, seen, alias,
          delete, todo, changed>>

Parents(r, id) == {p \in live : id \in r[p]}

\* The support has users, and all of them in the role that trims it.
\* (Slip: any users will do.)
HasParents(r, s) == Parents(r, s) # {}
SafeParents(r, s) == Parents(r, s) # {} /\ Parents(r, s) \subseteq trims

SameKey(s, t) == locus[s] = locus[t] /\ (s \in line <=> t \in line)

\* line_alias_is_safe: the edges of the duplicate are checked, each by its own chord.
\* (Slip: no edge is.)
AliasUnchecked(r, s, t) == TRUE
AliasIsSafe(r, s, t) == s \in line => \A e \in Parents(r, s) : t \in near[e]

-----------------------------------------------------------------------------
\* A file: supports refer to frames, frames to frames, users to one support each.
Init ==
    /\ line \in SUBSET Support
    /\ locus \in [Support -> Loci]
    /\ trims \in SUBSET User
    /\ near \in [User -> SUBSET Support]
    /\ source \in [Node -> SUBSET (Support \cup Frame)]
    /\ \A n \in Support \cup Frame : source[n] \subseteq Frame
    /\ \A u \in User : \E s \in Support : source[u] = {s}
    /\ refs = source
    /\ live = Node
    /\ pc = "scan" /\ next = 1
    /\ seen = {}
    /\ alias = [s \in Support |-> s]
    /\ delete = {} /\ todo = {} /\ changed = FALSE

\* The supports a support may be merged into: at most one, by the key they are kept
\* under.  (Slips: only the one before it is looked at; places count from 0.)
FirstsJustBefore(s) == {t \in seen : t = s - 1 /\ SameKey(s, t)}
FirstsFromZero(s) == {t - 1 : t \in {x \in seen : SameKey(s, x)}}
Firsts(s) == {t \in seen : SameKey(s, t)}

\* One support of the scan.  A line that cannot be given its first is left as it is
\* and does not become a first itself.
Scan(s) ==
    /\ pc = "scan" /\ next = s
    /\ next' = s + 1
    /\ IF ~SafeParents(refs, s) THEN UNCHANGED <<seen, alias>>
       ELSE \/ /\ Firsts(s) = {}
               /\ seen' = seen \cup {s}
               /\ UNCHANGED alias
            \/ \E t \in Firsts(s) :
                  /\ alias' = IF AliasIsSafe(refs, s, t) THEN [alias EXCEPT ![s] = t]
                              ELSE alias
                  /\ UNCHANGED seen
    /\ UNCHANGED <<input, refs, live, pc, delete, todo, changed>>

Duplicates == {s \in Support : alias[s] # s}

\* The duplicates and everything below them.
Store == INSTANCE EntityStore
    WITH Ids <- Node, collecting <- FALSE, roots <- {}, seed <- {}
\* (Slip: only the duplicates.)
CandidatesShallow == Duplicates
Candidates == Store!DescendantsOf(Node, source, Duplicates)

\* The references are rewritten; the duplicates go, whatever else does.
Rewrite ==
    /\ pc = "scan" /\ next = Supports + 1
    /\ IF Duplicates = {}
       THEN pc' = "done" /\ UNCHANGED <<refs, delete, todo>>
       ELSE /\ pc' = "collect"
            /\ refs' = [n \in Node |->
                          {IF m \in Support THEN alias[m] ELSE m : m \in refs[n]}]
            /\ delete' = Duplicates
            /\ todo' = Candidates
    /\ UNCHANGED <<input, live, next, seen, alias, changed>>

\* One candidate of a pass, in any order.
Visit(n) ==
    /\ pc = "collect" /\ n \in todo
    /\ todo' = todo \ {n}
    /\ IF n \notin delete /\ Parents(refs, n) \subseteq delete
       THEN delete' = delete \cup {n} /\ changed' = TRUE
       ELSE UNCHANGED <<delete, changed>>
    /\ UNCHANGED <<input, refs, live, pc, next, seen, alias>>

NextPass ==
    /\ pc = "collect" /\ todo = {} /\ changed
    /\ todo' = Candidates
    /\ changed' = FALSE
    /\ UNCHANGED <<input, refs, live, pc, next, seen, alias, delete>>

Sweep ==
    /\ pc = "collect" /\ todo = {} /\ ~changed
    /\ pc' = "done"
    /\ live' = live \ delete
    /\ UNCHANGED <<input, refs, next, seen, alias, delete, todo, changed>>

Next == \/ \E s \in Support : Scan(s)
        \/ Rewrite
        \/ \E n \in Node : Visit(n)
        \/ NextPass
        \/ Sweep

Spec == Init /\ [][Next]_vars

-----------------------------------------------------------------------------
TypeOK ==
    /\ refs \in [Node -> SUBSET Node]
    /\ live \in SUBSET Node /\ delete \in SUBSET Node /\ todo \in SUBSET Node
    /\ pc \in {"scan", "collect", "done"}
    /\ next \in 1 .. Supports + 1
    /\ seen \in SUBSET Support
    /\ alias \in [Support -> Support]
    /\ changed \in BOOLEAN

\* Every user has a support of the locus it had, of the same kind, and an edge whose
\* line was exchanged has one with its origin near: merging changes no geometry
\* (the "safe roles" of intern_geometric_supports).
GeometryIsKept ==
    \A u \in User : \A s \in source[u], t \in refs[u] :
        /\ SameKey(s, t)
        /\ s # t /\ s \in line => t \in near[u]

\* A user that reads its support's parameters keeps the very support, though others
\* share it or its locus.
ParameterUsersKeepTheirSupport ==
    \A u \in User \ trims : refs[u] = source[u] /\ source[u] \subseteq live

\* The collection takes the duplicates and what is detached below them, exactly: in
\* whatever order it visits the candidates nothing that stays dangles, and no frame
\* of a merged duplicate is left over.
CollectsWhatIsDetached ==
    pc = "done" =>
        live = Node \ Store!Detached(Node, refs, Store!DescendantsOf(Node, source, Duplicates),
                                     Duplicates)

\* The pass is a fixed point: run on its own output it would merge nothing, though
\* the collection removed parents and the references changed.
SecondRunMergesNothing ==
    pc = "done" =>
        \A s \in live \cap Support :
            SafeParents(refs, s) =>
                LET firsts == {t \in live \cap 1 .. s - 1 : SafeParents(refs, t) /\ SameKey(s, t)}
                IN  firsts # {} =>
                      ~AliasIsSafe(refs, s, CHOOSE t \in firsts : \A x \in firsts : t <= x)

=============================================================================
