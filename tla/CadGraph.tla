------------------------------- MODULE CadGraph -------------------------------
(***************************************************************************)
(* cad_ir.rs, CadModel: a model is a sequence of nodes that refer to       *)
(* earlier ones, and for each node the entities of the source it stands    *)
(* for.  What a node is beyond its operation and its children does not     *)
(* matter here.                                                            *)
(***************************************************************************)
EXTENDS Naturals, SequencesExt

EmptyModel == [nodes |-> <<>>, prov |-> <<>>]
Proof(of, proof) == [of |-> of, proof |-> proof]

\* CadNode::children.
Children(node) ==
    CASE node.op \in {"union", "difference"} -> node.children
      [] node.op \in {"transform", "treatment"} -> <<node.child>>
      [] OTHER -> <<>>

\* CadNode::shifted.
Shifted(node, offset) ==
    CASE node.op \in {"union", "difference"} ->
            [node EXCEPT !.children = [k \in DOMAIN @ |-> @[k] + offset]]
      [] node.op \in {"transform", "treatment"} -> [node EXCEPT !.child = @ + offset]
      [] OTHER -> node

\* add_node with set_provenance.
Added(model, node, proof) ==
    LET n == Len(model.nodes)
    IN  [nodes |-> Append(model.nodes, node),
         prov |-> [k \in DOMAIN model.prov \cup {n + 1} |->
                     IF k = n + 1 THEN proof ELSE model.prov[k]]]

\* append_model.
Appended2(model, other) ==
    LET n == Len(model.nodes)
    IN  [nodes |-> model.nodes \o [k \in DOMAIN other.nodes |-> Shifted(other.nodes[k], n)],
         prov |-> [k \in DOMAIN model.prov \cup {j + n : j \in DOMAIN other.prov} |->
                     IF k \in DOMAIN model.prov THEN model.prov[k] ELSE other.prov[k - n]]]

\* CadModel::validate, validate_acyclic, require_node.
IsValid(model, root) ==
    /\ root \in DOMAIN model.nodes
    /\ \A k \in DOMAIN model.nodes :
        LET node == model.nodes[k]
        IN  /\ ToSet(Children(node)) \subseteq 1 .. k - 1
            /\ node.op \in {"union", "difference"} => Len(node.children) >= 2
    /\ DOMAIN model.prov \subseteq DOMAIN model.nodes
===============================================================================
