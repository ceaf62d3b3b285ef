----------------------------- MODULE GraphProofs ------------------------------
(***************************************************************************)
(* Proofs about the two graphs of the program: ReferenceGraph, for every   *)
(* set of ids and every graph, and CadGraph, for every model.              *)
(*                                                                         *)
(* The worklist keeps the reached and the waiting ids between the roots    *)
(* and every down-closed set over them (Worklist); the fixed-point loop    *)
(* keeps what it has decided to delete between the seed and every closed   *)
(* set over it, and remembers that the candidates it has looked at since   *)
(* its last deletion are settled (Fixpoint).  At the sweep the two meet:   *)
(* the deleted set is the least closed set over the seed.                  *)
(*                                                                         *)
(* What puts CAD models together keeps them valid (CadModel::validate), so *)
(* that the evaluation, which follows children to earlier nodes, ends.  A  *)
(* model is only assumed to be a sequence of nodes that have the children  *)
(* their operation asks for (IsModel).                                     *)
(***************************************************************************)
EXTENDS ReferenceGraph, Integers, Sequences, TLAPS

Cad == INSTANCE CadGraph

\* What the worklist of descendant_closure keeps true.
Worklist ==
    /\ pc = "edit" => stack = {} /\ descendants = {}
    /\ pc # "edit" => roots \subseteq descendants \cup stack
    /\ \A p \in descendants : refs[p] \cap live \subseteq descendants \cup stack
    /\ \A S \in SUBSET live :
          (roots \subseteq S /\ Store!DownClosed(live, refs, S))
              => descendants \cup stack \subseteq S
    /\ pc = "propagate" => stack = {}

\* What the passes of propagate_detached keep true.
Fixpoint ==
    /\ seed \subseteq delete
    /\ pc # "propagate" => delete = seed
    /\ pc = "edit" => delete = {}
    /\ \A S \in SUBSET live :
          (seed \subseteq S /\ Store!DetachClosed(live, refs, descendants, S))
              => delete \subseteq S
    /\ (pc = "propagate" /\ ~changed) =>
          \A id \in descendants \ todo : Inbound(id) \subseteq delete => id \in delete

IInv == TypeOK /\ Worklist /\ Fixpoint /\ NoSurvivorRefersToDeleted

-----------------------------------------------------------------------------
\* Each step keeps the types.
LEMMA TypeStep == TypeOK /\ [Next]_vars => TypeOK'
<1> SUFFICES ASSUME TypeOK, [Next]_vars PROVE TypeOK'
  OBVIOUS
<1> USE DEF TypeOK
<1>1. ASSUME NEW id \in live, NEW S \in SUBSET Ids, Rewire(id, S) PROVE TypeOK'
  BY <1>1 DEF Rewire
<1>2. ASSUME NEW R \in SUBSET live, BeginPrunable(R) PROVE TypeOK'
  BY <1>2 DEF BeginPrunable, store
<1>3. ASSUME NEW R \in SUBSET live, NEW D \in SUBSET live, BeginDetached(R, D) 
      PROVE TypeOK'
  BY <1>3 DEF BeginDetached, store
<1>4. ASSUME NEW id \in Ids, Pop(id) PROVE TypeOK'
  BY <1>4 DEF Pop, Children
<1>5. CASE EndDescend
  BY <1>5 DEF EndDescend
<1>6. ASSUME NEW id \in Ids, Visit(id) PROVE TypeOK'
  BY <1>6 DEF Visit, Detachable
<1>7. CASE NextPass
  BY <1>7 DEF NextPass
<1>8. CASE Sweep
  BY <1>8 DEF Sweep
<1>9. CASE UNCHANGED vars
  BY <1>9 DEF vars
<1> QED
  BY <1>1, <1>2, <1>3, <1>4, <1>5, <1>6, <1>7, <1>8, <1>9 DEF Next, Collector

\* Every variable keeps its type: the collector never leaves the live ids.
THEOREM TypeCorrect == Spec => []TypeOK
<1>1. Init => TypeOK
  BY DEF Init, TypeOK
<1> QED
  BY <1>1, TypeStep, PTL DEF Spec

-----------------------------------------------------------------------------
\* The worklist only moves ids from the stack to the reached ones and adds
\* children of what it reached.
LEMMA WorklistStep == TypeOK /\ Worklist /\ [Next]_vars => Worklist'
<1> SUFFICES ASSUME TypeOK, Worklist, [Next]_vars PROVE Worklist'
  OBVIOUS
<1> USE DEF TypeOK, Worklist, Store!DownClosed
<1>1. ASSUME NEW id \in live, NEW S \in SUBSET Ids, Rewire(id, S) PROVE Worklist'
  BY <1>1 DEF Rewire
<1>2. ASSUME NEW R \in SUBSET live, BeginPrunable(R) PROVE Worklist'
  BY <1>2 DEF BeginPrunable, store
<1>3. ASSUME NEW R \in SUBSET live, NEW D \in SUBSET live, BeginDetached(R, D)
      PROVE Worklist'
  BY <1>3 DEF BeginDetached, store
<1>4. ASSUME NEW id \in Ids, Pop(id) PROVE Worklist'
  BY <1>4 DEF Pop, Children
<1>5. CASE EndDescend
  BY <1>5 DEF EndDescend
<1>6. ASSUME NEW id \in Ids, Visit(id) PROVE Worklist'
  BY <1>6 DEF Visit, Detachable
<1>7. CASE NextPass
  BY <1>7 DEF NextPass
<1>8. CASE Sweep
  BY <1>8 DEF Sweep
<1>9. CASE UNCHANGED vars
  BY <1>9 DEF vars
<1> QED
  BY <1>1, <1>2, <1>3, <1>4, <1>5, <1>6, <1>7, <1>8, <1>9 DEF Next, Collector

\* A candidate is deleted only when every closed set over the seed holds it, and
\* a pass that deleted nothing has settled every candidate it looked at.
LEMMA FixpointStep == TypeOK /\ Fixpoint /\ [Next]_vars => Fixpoint'
<1> SUFFICES ASSUME TypeOK, Fixpoint, [Next]_vars PROVE Fixpoint'
  OBVIOUS
<1> USE DEF TypeOK, Fixpoint, Store!DetachClosed, Store!ParentsIn, Inbound
<1>1. ASSUME NEW id \in live, NEW S \in SUBSET Ids, Rewire(id, S) PROVE Fixpoint'
  BY <1>1 DEF Rewire
<1>2. ASSUME NEW R \in SUBSET live, BeginPrunable(R) PROVE Fixpoint'
  BY <1>2 DEF BeginPrunable, store
<1>3. ASSUME NEW R \in SUBSET live, NEW D \in SUBSET live, BeginDetached(R, D)
      PROVE Fixpoint'
  BY <1>3 DEF BeginDetached, store
<1>4. ASSUME NEW id \in Ids, Pop(id) PROVE Fixpoint'
  BY <1>4 DEF Pop, Children
<1>5. CASE EndDescend
  BY <1>5 DEF EndDescend
<1>6. ASSUME NEW id \in Ids, Visit(id) PROVE Fixpoint'
  BY <1>6 DEF Visit, Detachable
<1>7. CASE NextPass
  BY <1>7 DEF NextPass
<1>8. CASE Sweep
  BY <1>8 DEF Sweep
<1>9. CASE UNCHANGED vars
  BY <1>9 DEF vars
<1> QED
  BY <1>1, <1>2, <1>3, <1>4, <1>5, <1>6, <1>7, <1>8, <1>9 DEF Next, Collector

\* An entity is deleted only when all its parents are.
LEMMA NoSurvivorStep ==
    TypeOK /\ Fixpoint /\ NoSurvivorRefersToDeleted /\ [Next]_vars
        => NoSurvivorRefersToDeleted'
<1> SUFFICES ASSUME TypeOK, Fixpoint, NoSurvivorRefersToDeleted, [Next]_vars
             PROVE NoSurvivorRefersToDeleted'
  OBVIOUS
<1> USE DEF TypeOK, NoSurvivorRefersToDeleted
<1>1. ASSUME NEW id \in live, NEW S \in SUBSET Ids, Rewire(id, S)
      PROVE NoSurvivorRefersToDeleted'
  BY <1>1 DEF Rewire, Fixpoint
<1>2. ASSUME NEW R \in SUBSET live, BeginPrunable(R)
      PROVE NoSurvivorRefersToDeleted'
  BY <1>2 DEF BeginPrunable, store
<1>3. ASSUME NEW R \in SUBSET live, NEW D \in SUBSET live, BeginDetached(R, D)
      PROVE NoSurvivorRefersToDeleted'
  BY <1>3 DEF BeginDetached, store
<1>4. ASSUME NEW id \in Ids, Pop(id) PROVE NoSurvivorRefersToDeleted'
  BY <1>4 DEF Pop, Children
<1>5. CASE EndDescend
  BY <1>5 DEF EndDescend
<1>6. ASSUME NEW id \in Ids, Visit(id) PROVE NoSurvivorRefersToDeleted'
  BY <1>6 DEF Visit, Detachable, Inbound
<1>7. CASE NextPass
  BY <1>7 DEF NextPass
<1>8. CASE Sweep
  BY <1>8 DEF Sweep
<1>9. CASE UNCHANGED vars
  BY <1>9 DEF vars
<1> QED
  BY <1>1, <1>2, <1>3, <1>4, <1>5, <1>6, <1>7, <1>8, <1>9 DEF Next, Collector

\* The inductive invariant.
LEMMA Inductive == Spec => []IInv
<1>1. Init => IInv
  BY DEF Init, IInv, TypeOK, Worklist, Fixpoint, NoSurvivorRefersToDeleted
<1>2. IInv /\ [Next]_vars => IInv'
  <2>1. TypeOK /\ [Next]_vars => TypeOK'
    BY TypeStep
  <2> QED
    BY <2>1, WorklistStep, FixpointStep, NoSurvivorStep DEF IInv
<1> QED
  BY <1>1, <1>2, PTL DEF Spec

\* At no step of a collection does a survivor refer to a deleted entity: the
\* debug_assert of propagate_detached holds for every graph and every order.
THEOREM SurvivorsClean == Spec => []NoSurvivorRefersToDeleted
<1>1. IInv => NoSurvivorRefersToDeleted
  BY DEF IInv
<1> QED
  BY <1>1, Inductive, PTL

\* No collection leaves a dangling reference behind.
THEOREM NoDangling == Spec => SweepLeavesNoDangling
<1> DEFINE Clean == \A p \in live' : refs'[p] \cap (live \ live') = {}
<1>1. ASSUME IInv, [Next]_vars PROVE Clean \/ UNCHANGED vars
  <2>1. CASE Sweep
    <3>1. live' = live \ delete /\ refs' = [id \in Ids |-> IF id \in delete THEN {} ELSE refs[id]]
      BY <2>1 DEF Sweep
    <3>2. \A p \in live \ delete : refs'[p] = refs[p]
      BY <1>1, <3>1 DEF IInv, TypeOK
    <3> QED
      BY <1>1, <3>1, <3>2 DEF IInv, TypeOK, NoSurvivorRefersToDeleted
  <2>2. CASE live' = live
    BY <2>2
  <2>3. ~Sweep => live' = live
    BY <1>1 DEF Next, vars, store, Collector, Rewire, BeginPrunable, BeginDetached,
                Pop, EndDescend, Visit, NextPass
  <2> QED
    BY <2>1, <2>2, <2>3
<1>2. IInv /\ [Next]_vars => [Clean]_vars
  BY <1>1 DEF vars
<1>3. Spec => [][Clean]_vars
  BY <1>2, Inductive, PTL DEF Spec
<1> QED
  BY <1>3 DEF SweepLeavesNoDangling

-----------------------------------------------------------------------------
\* Where the sweep takes place, the candidates are the descendants of the roots.
LEMMA CandidatesAreDescendants ==
    IInv /\ pc = "propagate"
        => descendants = Store!DescendantsOf(live, refs, roots)
<1> SUFFICES ASSUME IInv, pc = "propagate"
             PROVE descendants = Store!DescendantsOf(live, refs, roots)
  OBVIOUS
<1> USE DEF IInv, TypeOK, Worklist, Store!DownClosed, Store!DescendantsOf
<1>1. descendants \subseteq Store!DescendantsOf(live, refs, roots)
  OBVIOUS
<1>2. roots \cap live \subseteq descendants /\ Store!DownClosed(live, refs, descendants)
  OBVIOUS
<1> QED
  BY <1>1, <1>2

\* Where the loop ends, the deleted set is the least closed set over the seed.
LEMMA DeletedIsLeast ==
    IInv /\ pc = "propagate" /\ todo = {} /\ ~changed
        => delete = Store!Detached(live, refs, descendants, seed)
<1> SUFFICES ASSUME IInv, pc = "propagate", todo = {}, ~changed
             PROVE delete = Store!Detached(live, refs, descendants, seed)
  OBVIOUS
<1> USE DEF IInv, TypeOK, Fixpoint, Store!DetachClosed, Store!ParentsIn, Inbound,
            Store!Detached
<1>1. delete \subseteq Store!Detached(live, refs, descendants, seed)
  OBVIOUS
<1>2. seed \subseteq delete /\ Store!DetachClosed(live, refs, descendants, delete)
  OBVIOUS
<1> QED
  BY <1>1, <1>2

\* The collector implements the abstract store: whatever order the stack and the
\* hash sets have, a collection removes the seed and the detached descendants of
\* the roots, and nothing else.
THEOREM Refinement == Spec => ImplementsStore
<1>1. Init => Store!Init
  BY DEF Init, Store!Init
<1>2. IInv /\ [Next]_vars => [Store!Next]_(Store!vars)
  <2> SUFFICES ASSUME IInv, [Next]_vars PROVE [Store!Next]_(Store!vars)
    OBVIOUS
  <2> USE DEF IInv, TypeOK
  <2>1. ASSUME NEW id \in live, NEW S \in SUBSET Ids, Rewire(id, S)
        PROVE Store!Rewire(id, S)
    BY <2>1 DEF Rewire, Store!Rewire
  <2>2. ASSUME NEW R \in SUBSET live, BeginPrunable(R) PROVE Store!Ask(R, {})
    BY <2>2 DEF BeginPrunable, store, Store!Ask, Store!Unreferenced
  <2>3. ASSUME NEW R \in SUBSET live, NEW D \in SUBSET live, BeginDetached(R, D)
        PROVE Store!Ask(R, D)
    BY <2>3 DEF BeginDetached, store, Store!Ask, Store!Unreferenced
  <2>4. CASE Sweep
    <3>1. delete = Store!Detached(live, refs, Store!DescendantsOf(live, refs, roots), seed)
      BY <2>4, CandidatesAreDescendants, DeletedIsLeast DEF Sweep
    <3> QED
      BY <2>4, <3>1 DEF Sweep, Store!Collect, Store!Next
  <2>5. ASSUME NEW id \in Ids, Pop(id) \/ Visit(id) PROVE UNCHANGED Store!vars
    BY <2>5 DEF Pop, Visit, Store!vars
  <2>6. CASE EndDescend \/ NextPass
    BY <2>6 DEF EndDescend, NextPass, Store!vars
  <2>7. CASE UNCHANGED vars
    BY <2>7 DEF vars, Store!vars
  <2> QED
    BY <2>1, <2>2, <2>3, <2>4, <2>5, <2>6, <2>7 DEF Next, Collector, Store!Next
<1> QED
  BY <1>1, <1>2, Inductive, PTL DEF Spec, ImplementsStore, Store!Spec

-----------------------------------------------------------------------------
(* CAD models.                                                             *)


\* A node has the fields its operation reads.
IsNode(node) ==
    /\ "op" \in DOMAIN node
    /\ node.op \in {"union", "difference"} =>
          "children" \in DOMAIN node /\ node.children \in Seq(Nat)
    /\ node.op \in {"transform", "treatment"} => "child" \in DOMAIN node /\ node.child \in Nat

IsModel(model) ==
    /\ \E S : model.nodes \in Seq(S)
    /\ \A k \in DOMAIN model.nodes : IsNode(model.nodes[k])

-----------------------------------------------------------------------------
\* shifted moves the children of a node, all by the same offset, and nothing else.
LEMMA ShiftedChildren ==
    ASSUME NEW node, IsNode(node), NEW offset \in Nat
    PROVE  /\ IsNode(Cad!Shifted(node, offset))
           /\ Cad!Shifted(node, offset).op = node.op
           /\ DOMAIN Cad!Children(Cad!Shifted(node, offset)) = DOMAIN Cad!Children(node)
           /\ \A k \in DOMAIN Cad!Children(node) :
                 Cad!Children(Cad!Shifted(node, offset))[k] = Cad!Children(node)[k] + offset
<1> DEFINE new == Cad!Shifted(node, offset)
<1>1. CASE node.op \in {"union", "difference"}
  <2> DEFINE moved == [k \in DOMAIN node.children |-> node.children[k] + offset]
  <2>1. new = [node EXCEPT !.children = moved]
    BY <1>1 DEF Cad!Shifted
  <2>2. node.children \in Seq(Nat) /\ "children" \in DOMAIN node /\ "op" \in DOMAIN node
    BY <1>1 DEF IsNode
  <2>3. moved \in Seq(Nat)
    BY <2>2
  <2>4. DOMAIN new = DOMAIN node /\ new.op = node.op /\ new.children = moved
    BY <2>1, <2>2
  <2>5. Cad!Children(node) = node.children /\ Cad!Children(new) = moved
    BY <1>1, <2>4 DEF Cad!Children
  <2> QED
    BY <1>1, <2>2, <2>3, <2>4, <2>5 DEF IsNode
<1>2. CASE node.op \in {"transform", "treatment"}
  <2>1. new = [node EXCEPT !.child = node.child + offset]
    BY <1>2 DEF Cad!Shifted
  <2>2. node.child \in Nat /\ "child" \in DOMAIN node /\ "op" \in DOMAIN node
    BY <1>2 DEF IsNode
  <2>3. DOMAIN new = DOMAIN node /\ new.op = node.op /\ new.child = node.child + offset
    BY <2>1, <2>2
  <2>4. Cad!Children(node) = <<node.child>> /\ Cad!Children(new) = <<node.child + offset>>
    BY <1>2, <2>3 DEF Cad!Children
  <2> QED
    BY <1>2, <2>2, <2>3, <2>4 DEF IsNode
<1>3. CASE node.op \notin {"union", "difference", "transform", "treatment"}
  <2>1. new = node /\ Cad!Children(node) = <<>>
    BY <1>3 DEF Cad!Shifted, Cad!Children
  <2> QED
    BY <1>3, <2>1
<1> QED
  BY <1>1, <1>2, <1>3

\* add_node: a node that refers to nodes of a valid model can be added to it, and can be
\* its root.
THEOREM AddedIsValid ==
    ASSUME NEW model, IsModel(model), NEW root, Cad!IsValid(model, root), NEW proof,
           NEW node, IsNode(node), Cad!ToSet(Cad!Children(node)) \subseteq DOMAIN model.nodes,
           node.op \in {"union", "difference"} => Len(node.children) >= 2
    PROVE  /\ IsModel(Cad!Added(model, node, proof))
           /\ Cad!IsValid(Cad!Added(model, node, proof), root)
           /\ Cad!IsValid(Cad!Added(model, node, proof), Len(model.nodes) + 1)
<1> DEFINE n == Len(model.nodes)
           new == Cad!Added(model, node, proof)
<1>1. PICK S : model.nodes \in Seq(S)
  BY DEF IsModel
<1>2. model.nodes \in Seq(S \cup {node}) /\ n \in Nat /\ DOMAIN model.nodes = 1 .. n
  BY <1>1
<1>3. new.nodes = Append(model.nodes, node)
  BY DEF Cad!Added
<1>4. /\ new.nodes \in Seq(S \cup {node}) /\ DOMAIN new.nodes = 1 .. n + 1
      /\ new.nodes[n + 1] = node /\ \A k \in 1 .. n : new.nodes[k] = model.nodes[k]
  BY <1>2, <1>3
<1>5. DOMAIN new.prov = DOMAIN model.prov \cup {n + 1}
  BY DEF Cad!Added
<1>6. IsModel(new)
  BY <1>2, <1>4 DEF IsModel
<1>7. \A k \in DOMAIN new.nodes :
        /\ Cad!ToSet(Cad!Children(new.nodes[k])) \subseteq 1 .. k - 1
        /\ new.nodes[k].op \in {"union", "difference"} => Len(new.nodes[k].children) >= 2
  <2> SUFFICES ASSUME NEW k \in 1 .. n + 1
               PROVE  /\ Cad!ToSet(Cad!Children(new.nodes[k])) \subseteq 1 .. k - 1
                      /\ new.nodes[k].op \in {"union", "difference"}
                            => Len(new.nodes[k].children) >= 2
    BY <1>4
  <2>1. CASE k = n + 1
    BY <1>2, <1>4, <2>1
  <2>2. CASE k \in 1 .. n
    BY <1>2, <1>4, <2>2 DEF Cad!IsValid
  <2> QED
    BY <1>2, <2>1, <2>2
<1>8. DOMAIN new.prov \subseteq DOMAIN new.nodes /\ root \in DOMAIN new.nodes
  BY <1>2, <1>4, <1>5 DEF Cad!IsValid
<1> QED
  BY <1>2, <1>4, <1>6, <1>7, <1>8 DEF Cad!IsValid

\* append_model: two valid models are one valid model, with the root of the first where it
\* was and the root of the second moved behind the first model.
THEOREM AppendedIsValid ==
    ASSUME NEW model, IsModel(model), NEW root, Cad!IsValid(model, root),
           NEW other, IsModel(other), NEW top, Cad!IsValid(other, top)
    PROVE  /\ IsModel(Cad!Appended2(model, other))
           /\ Cad!IsValid(Cad!Appended2(model, other), root)
           /\ Cad!IsValid(Cad!Appended2(model, other), top + Len(model.nodes))
<1> DEFINE n == Len(model.nodes)
           m == Len(other.nodes)
           moved == [k \in DOMAIN other.nodes |-> Cad!Shifted(other.nodes[k], n)]
           new == Cad!Appended2(model, other)
<1>1. PICK S : model.nodes \in Seq(S)
  BY DEF IsModel
<1>2. PICK T : other.nodes \in Seq(T)
  BY DEF IsModel
<1>3. n \in Nat /\ m \in Nat /\ DOMAIN model.nodes = 1 .. n /\ DOMAIN other.nodes = 1 .. m
  BY <1>1, <1>2
<1>4. /\ root \in 1 .. n /\ DOMAIN model.prov \subseteq 1 .. n
      /\ top \in 1 .. m /\ DOMAIN other.prov \subseteq 1 .. m
  BY <1>3 DEF Cad!IsValid
<1> DEFINE U == S \cup {Cad!Shifted(x, n) : x \in T}
<1>5. model.nodes \in Seq(U) /\ moved \in Seq(U) /\ Len(moved) = m
  <2>1. model.nodes \in Seq(U)
    BY <1>1
  <2>2. \A k \in 1 .. m : moved[k] \in U
    BY <1>2, <1>3
  <2>3. DOMAIN moved = 1 .. m
    BY <1>3
  <2>4. moved \in [1 .. m -> U]
    BY <2>2, <2>3
  <2> HIDE DEF moved, U
  <2> QED
    BY <1>3, <2>1, <2>4
<1>6. new.nodes = model.nodes \o moved
  BY DEF Cad!Appended2
<1>7. /\ new.nodes \in Seq(U) /\ DOMAIN new.nodes = 1 .. n + m
      /\ \A k \in 1 .. n : new.nodes[k] = model.nodes[k]
      /\ \A k \in 1 .. m : new.nodes[k + n] = moved[k]
  <2> HIDE DEF moved, U, new, n, m
  <2> QED
    BY <1>3, <1>5, <1>6
<1>8. \A k \in 1 .. m : moved[k] = Cad!Shifted(other.nodes[k], n)
  BY <1>3
<1>9. DOMAIN new.prov = DOMAIN model.prov \cup {j + n : j \in DOMAIN other.prov}
  BY DEF Cad!Appended2
<1> HIDE DEF moved, U, new, n, m
<1>10. \A k \in 1 .. n + m :
        /\ IsNode(new.nodes[k])
        /\ Cad!ToSet(Cad!Children(new.nodes[k])) \subseteq 1 .. k - 1
        /\ new.nodes[k].op \in {"union", "difference"} => Len(new.nodes[k].children) >= 2
  <2> SUFFICES ASSUME NEW k \in 1 .. n + m
               PROVE  /\ IsNode(new.nodes[k])
                      /\ Cad!ToSet(Cad!Children(new.nodes[k])) \subseteq 1 .. k - 1
                      /\ new.nodes[k].op \in {"union", "difference"}
                            => Len(new.nodes[k].children) >= 2
    OBVIOUS
  <2>1. CASE k \in 1 .. n
    BY <1>3, <1>7, <2>1 DEF IsModel, Cad!IsValid
  <2>2. CASE k \notin 1 .. n
    <3> DEFINE j == k - n
               node == other.nodes[j]
    <3>1. j \in 1 .. m /\ k = j + n
      BY <1>3, <2>2
    <3>2. new.nodes[k] = Cad!Shifted(node, n)
      BY <1>7, <1>8, <3>1
    <3>3. /\ IsNode(node) /\ Cad!ToSet(Cad!Children(node)) \subseteq 1 .. j - 1
          /\ node.op \in {"union", "difference"} => Len(node.children) >= 2
      BY <1>3, <3>1 DEF IsModel, Cad!IsValid
    <3> HIDE DEF node, j
    <3>4. /\ IsNode(Cad!Shifted(node, n)) /\ Cad!Shifted(node, n).op = node.op
          /\ DOMAIN Cad!Children(Cad!Shifted(node, n)) = DOMAIN Cad!Children(node)
          /\ \A i \in DOMAIN Cad!Children(node) :
                Cad!Children(Cad!Shifted(node, n))[i] = Cad!Children(node)[i] + n
      BY <1>3, <3>3, ShiftedChildren
    <3>5. Cad!ToSet(Cad!Children(Cad!Shifted(node, n))) \subseteq 1 .. k - 1
      <4> SUFFICES ASSUME NEW i \in DOMAIN Cad!Children(node)
                   PROVE Cad!Children(node)[i] + n \in 1 .. k - 1
        BY <3>4 DEF Cad!ToSet
      <4>1. Cad!Children(node)[i] \in 1 .. j - 1
        BY <3>3 DEF Cad!ToSet
      <4> QED
        BY <1>3, <3>1, <4>1
    <3>6. node.op \in {"union", "difference"} => Len(Cad!Shifted(node, n).children) >= 2
      <4> SUFFICES ASSUME node.op \in {"union", "difference"}
                   PROVE Len(Cad!Shifted(node, n).children) >= 2
        OBVIOUS
      <4>1. Cad!Children(node) = node.children
            /\ Cad!Children(Cad!Shifted(node, n)) = Cad!Shifted(node, n).children
        BY <3>4 DEF Cad!Children
      <4>2. node.children \in Seq(Nat) /\ Cad!Shifted(node, n).children \in Seq(Nat)
        BY <3>3, <3>4 DEF IsNode
      <4>3. Len(Cad!Shifted(node, n).children) = Len(node.children)
        BY <3>4, <4>1, <4>2
      <4> QED
        BY <3>3, <4>3
    <3> QED
      BY <3>2, <3>3, <3>4, <3>5, <3>6
  <2> QED
    BY <2>1, <2>2
<1>11. IsModel(new)
  BY <1>7, <1>10 DEF IsModel
<1>12. DOMAIN new.prov \subseteq 1 .. n + m
  BY <1>3, <1>9, <1>4
<1>13. root \in 1 .. n + m /\ top + n \in 1 .. n + m
  BY <1>3, <1>4
<1> QED
  BY <1>7, <1>10, <1>11, <1>12, <1>13 DEF Cad!IsValid, new, n
=============================================================================
