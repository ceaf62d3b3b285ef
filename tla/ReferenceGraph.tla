---------------------------- MODULE ReferenceGraph ----------------------------
(***************************************************************************)
(* step_graph.rs: the reference graph of a data section and the scoped     *)
(* garbage collection every rewriting pass runs after it has unhooked      *)
(* something.                                                              *)
(*                                                                         *)
(*   descendant_closure   a worklist over the present ids (stack,          *)
(*                        descendants);                                    *)
(*   propagate_detached   passes over the candidates, a HashSet, in an     *)
(*                        order nobody controls, until a pass changes      *)
(*                        nothing (todo, changed, delete);                 *)
(*   the two entries      prunable (nothing deleted yet, the roots are     *)
(*                        speculative) and detached (the caller has        *)
(*                        already decided what to delete).                 *)
(*                                                                         *)
(* Between two collections a pass edits references.  The order in which a  *)
(* stack or a hash set yields its members is a free choice here; several   *)
(* equal entries of the stack are one.                                     *)
(***************************************************************************)
EXTENDS FiniteSets

CONSTANT Ids   \* every entity id a section may ever use

VARIABLES
    live,         \* ids of the entities in the section
    refs,         \* [Ids -> SUBSET Ids]: the references an entity holds
    pc,           \* "edit", "descend" or "propagate"
    roots, seed,  \* the arguments of the running collection
    stack,        \* ids still to visit
    descendants,  \* ids reached: the candidates
    delete,       \* ids decided to go
    todo,         \* candidates the current pass has not looked at
    changed       \* did this pass delete anything?

store == <<live, refs>>
vars == <<live, refs, pc, roots, seed, stack, descendants, delete, todo, changed>>

TypeOK ==
    /\ live \in SUBSET Ids
    /\ refs \in [Ids -> SUBSET Ids]
    /\ pc \in {"edit", "descend", "propagate"}
    /\ roots \in SUBSET live
    /\ seed \in SUBSET live
    /\ stack \in SUBSET live
    /\ descendants \in SUBSET live
    /\ delete \in SUBSET live
    /\ todo \in SUBSET descendants
    /\ changed \in BOOLEAN

-----------------------------------------------------------------------------
\* ReferenceGraph::new: the inbound index lists each referencing entity once.
\* (A slip the runs must notice: only candidates count as parents.)
InboundOfCandidates(id) == {p \in descendants : id \in refs[p]}
Inbound(id) == {p \in live : id \in refs[p]}

\* The references the graph follows: one to an absent id leads nowhere.
\* (Slip: it leads to the id.)
ChildrenUnchecked(id) == refs[id]
Children(id) == refs[id] \cap live

Init ==
    /\ live \in SUBSET Ids
    /\ refs \in [Ids -> SUBSET Ids]     \* cycles and dangling references too
    /\ \A id \in Ids \ live : refs[id] = {}
    /\ pc = "edit"
    /\ roots = {} /\ seed = {}
    /\ stack = {} /\ descendants = {} /\ delete = {} /\ todo = {}
    /\ changed = FALSE

\* A pass rewrites the references of one entity (rewrite_entity_refs).
Rewire(id, S) ==
    /\ pc = "edit"
    /\ id \in live
    /\ refs' = [refs EXCEPT ![id] = S]
    /\ UNCHANGED <<live, pc, roots, seed, stack, descendants, delete, todo, changed>>

\* prunable_descendant_closure: speculative roots, nothing deleted yet.
BeginPrunable(R) ==
    /\ pc = "edit"
    /\ pc' = "descend"
    /\ roots' = R /\ seed' = {}
    /\ stack' = R
    /\ delete' = {}
    /\ descendants' = {} /\ todo' = {} /\ changed' = FALSE
    /\ UNCHANGED store

\* detached_descendant_closure: the caller brings a seed, after it has unhooked
\* every member from the entities that stay.
BeginDetached(R, D) ==
    /\ pc = "edit"
    /\ \A p \in live \ D : refs[p] \cap D = {}
    /\ pc' = "descend"
    /\ roots' = R /\ seed' = D
    /\ stack' = R
    /\ delete' = D
    /\ descendants' = {} /\ todo' = {} /\ changed' = FALSE
    /\ UNCHANGED store

\* One iteration of the worklist.
Pop(id) ==
    /\ pc = "descend"
    /\ id \in stack
    /\ IF id \in descendants
       THEN /\ stack' = stack \ {id}
            /\ UNCHANGED descendants
       ELSE /\ descendants' = descendants \cup {id}
            /\ stack' = (stack \ {id}) \cup (Children(id) \ descendants')
    /\ UNCHANGED <<live, refs, pc, roots, seed, delete, todo, changed>>

\* The worklist is empty: the first pass over the candidates starts.
EndDescend ==
    /\ pc = "descend"
    /\ stack = {}
    /\ pc' = "propagate"
    /\ todo' = descendants
    /\ changed' = FALSE
    /\ UNCHANGED <<live, refs, roots, seed, stack, descendants, delete>>

\* An entity goes when all its parents go; one without parents counts as detached.
\* (Slips: it can go twice; a root always stays.)
DetachableAgain(id) == Inbound(id) \subseteq delete
DetachableBelowRoots(id) == id \notin delete \cup roots /\ Inbound(id) \subseteq delete
Detachable(id) == id \notin delete /\ Inbound(id) \subseteq delete

\* One candidate of a pass.
Visit(id) ==
    /\ pc = "propagate"
    /\ id \in todo
    /\ todo' = todo \ {id}
    /\ IF Detachable(id)
       THEN delete' = delete \cup {id} /\ changed' = TRUE
       ELSE UNCHANGED <<delete, changed>>
    /\ UNCHANGED <<live, refs, pc, roots, seed, stack, descendants>>

NextPass ==
    /\ pc = "propagate"
    /\ todo = {} /\ changed
    /\ todo' = descendants
    /\ changed' = FALSE
    /\ UNCHANGED <<live, refs, pc, roots, seed, stack, descendants, delete>>

\* A pass that changed nothing ends the loop and the caller drops the entities
\* (entities.retain); the next graph is built from what is left.
Sweep ==
    /\ pc = "propagate"
    /\ todo = {} /\ ~changed
    /\ live' = live \ delete
    /\ refs' = [id \in Ids |-> IF id \in delete THEN {} ELSE refs[id]]
    /\ pc' = "edit"
    /\ roots' = {} /\ seed' = {}
    /\ stack' = {} /\ descendants' = {} /\ delete' = {} /\ todo' = {}
    /\ changed' = FALSE

Collector == \/ \E id \in Ids : Pop(id) \/ Visit(id)
             \/ EndDescend \/ NextPass \/ Sweep

Next == \/ \E id \in live, S \in SUBSET Ids : Rewire(id, S)
        \/ \E R \in SUBSET live : BeginPrunable(R)
        \/ \E R, D \in SUBSET live : BeginDetached(R, D)
        \/ Collector

\* The collector is a loop of one thread: it runs whenever it can.
Spec == Init /\ [][Next]_vars /\ WF_vars(Collector)

-----------------------------------------------------------------------------
\* While a collection runs nothing that would survive it refers to anything it
\* has decided to delete: the debug_assert at the end of propagate_detached, at
\* every step of the loop.
NoSurvivorRefersToDeleted ==
    \A p \in live \ delete : refs[p] \cap delete = {}

\* No collection, whatever order the hash sets have, leaves a reference to
\* something it removed.
SweepLeavesNoDangling ==
    [][\A p \in live' : refs'[p] \cap (live \ live') = {}]_vars

\* Every collection that starts ends: the loop "until nothing changed" stops.
CollectionTerminates == (pc # "edit") ~> (pc = "edit")

Store == INSTANCE EntityStore WITH collecting <- (pc # "edit")

\* The collector removes exactly the detached set, neither more nor less: the loops
\* of descendant_closure and propagate_detached compute the least fixed points.
ImplementsStore == Store!Spec

=============================================================================
