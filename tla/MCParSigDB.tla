----------------------------- MODULE MCParSigDB -----------------------------
(* Instances of ParSigDB for TLC. *)
EXTENDS ParSigDB, TLC

CONSTANTS c1, c2, k1, k2, x, y, z

\* x and z differ but have the same root.
Roots == [v \in Data |-> IF v = y THEN "root2" ELSE "root1"]

Of(share, v) == [share |-> share, data |-> v]

\* Nodes 1 and 2 sign x for both validators, node 3 signs different data for
\* one of them; each may also send part of it, or change its mind.
TwoValidators ==
    {k1 :> Of(1, x) @@ k2 :> Of(1, x), k1 :> Of(1, x),
     k1 :> Of(2, x) @@ k2 :> Of(2, x), k1 :> Of(2, x), k2 :> Of(2, z),
     k1 :> Of(3, x) @@ k2 :> Of(3, y), k1 :> Of(3, x), k1 :> Of(3, y)}

\* Bound: the deadline of the duty is explored with the first validator only.
Bound ==
    \/ \A d \in Duty : phase[d] = 0
    \/ /\ \A d \in Duty : k2 \notin keysByDuty[d] /\ reported[d][k2] = {}
       /\ \A c \in Caller : call[c] # Idle => k2 \notin DOMAIN call[c].set
       /\ \A e \in exchanged \cup refused \cup lost : e[2] # k2

Symmetry == Permutations(Caller)
=============================================================================
