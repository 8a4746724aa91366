---------------------------- MODULE MCWorkflow -----------------------------
(***************************************************************************)
(* A cluster of four nodes, one of them faulty or down.  The correct nodes *)
(* are interchangeable.                                                    *)
(***************************************************************************)
EXTENDS Workflow, TLC

\* One beacon node is behind.  That may keep sync messages from completing, so
\* that for them the nodes may also agree.
MCHeads(k) ==
    {h \in [Node -> Root] : \/ Cardinality({n \in Node : h[n] = "b"}) = 1
                            \/ k = "contribution" /\ \A n \in Node : h[n] = "a"}
Symmetry == Permutations(Node)
=============================================================================
