----------------------------- MODULE EntityStore -----------------------------
(***************************************************************************)
(* What a STEP data section promises to the passes that rewrite it: a set  *)
(* of live entities, the references each one holds, and a collection step  *)
(* that removes exactly the entities that became detached.  The module     *)
(* says WHICH entities a collection removes and nothing about how they are *)
(* found; ReferenceGraph implements it with a worklist and a fixed-point   *)
(* loop over hash sets.                                                    *)
(***************************************************************************)

CONSTANT Ids   \* every entity id a section may ever use

VARIABLES
    live,        \* the ids of the entities the section holds
    refs,        \* the references each id holds (nothing for an absent id)
    collecting,  \* has a pass asked for a collection that is not done yet?
    roots, seed  \* what it asked for: where to look, and what goes anyway

vars == <<live, refs, collecting, roots, seed>>

-----------------------------------------------------------------------------
(* The parents of an entity, and the two closures a collection is about.   *)

ParentsIn(L, r, id) == {p \in L : id \in r[p]}

\* S keeps every live child of its members.
DownClosed(L, r, S) == \A p \in S : r[p] \cap L \subseteq S

\* The live entities reachable from R: the least down-closed set over R \cap L.
DescendantsOf(L, r, R) ==
    {id \in L : \A S \in SUBSET L :
        (R \cap L \subseteq S /\ DownClosed(L, r, S)) => id \in S}

\* S holds every candidate all of whose parents are in S.
DetachClosed(L, r, C, S) == \A id \in C : ParentsIn(L, r, id) \subseteq S => id \in S

\* The least set over D that is closed in this sense.
Detached(L, r, C, D) ==
    {id \in L : \A S \in SUBSET L :
        (D \subseteq S /\ DetachClosed(L, r, C, S)) => id \in S}

\* Nothing that stays refers to anything in D.
Unreferenced(L, r, D) == \A p \in L \ D : r[p] \cap D = {}

-----------------------------------------------------------------------------
Init ==
    /\ live \in SUBSET Ids
    /\ refs \in [Ids -> SUBSET Ids]
    /\ \A id \in Ids \ live : refs[id] = {}
    /\ collecting = FALSE
    /\ roots = {} /\ seed = {}

\* A pass replaces the references of one live entity.
Rewire(id, S) ==
    /\ ~collecting
    /\ id \in live
    /\ refs' = [refs EXCEPT ![id] = S]
    /\ UNCHANGED <<live, collecting, roots, seed>>

\* A pass asks for a collection below R; it has unhooked every member of D.
Ask(R, D) ==
    /\ ~collecting
    /\ Unreferenced(live, refs, D)
    /\ collecting' = TRUE
    /\ roots' = R /\ seed' = D
    /\ UNCHANGED <<live, refs>>

\* D goes, and with it what becomes detached among the descendants of R.
Collect ==
    LET gone == Detached(live, refs, DescendantsOf(live, refs, roots), seed)
    IN  /\ collecting
        /\ live' = live \ gone
        /\ refs' = [id \in Ids |-> IF id \in gone THEN {} ELSE refs[id]]
        /\ collecting' = FALSE
        /\ roots' = {} /\ seed' = {}

Next == \/ \E id \in live, S \in SUBSET Ids : Rewire(id, S)
        \/ \E R \in SUBSET live, D \in SUBSET live : Ask(R, D)
        \/ Collect

Spec == Init /\ [][Next]_vars

=============================================================================
