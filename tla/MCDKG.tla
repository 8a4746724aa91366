------------------------------- MODULE MCDKG --------------------------------
(***************************************************************************)
(* Three nodes, of which one may restart in the first step and one may     *)
(* fail in a later one, and two deposit amounts.  The nodes are            *)
(* interchangeable.                                                        *)
(***************************************************************************)
EXTENDS DKG, TLC

Symmetry == Permutations(Node)

\* Once a process has restarted, a ceremony is explored until a node fails.
\* Nothing is lost to the invariants: a failed node only takes no more steps, so
\* what its peers do and receive afterwards they may also do before.
Bound == (\A n \in Node : proc[n] = 1) \/ (\A n \in Node : ~ Failed(n))
=============================================================================
