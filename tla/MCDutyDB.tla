------------------------------ MODULE MCDutyDB ------------------------------
(***************************************************************************)
(* Values of the constants for model checking DutyDB.                      *)
(***************************************************************************)
EXTENDS DutyDB, TLC

CONSTANTS p1, p2, A, B, r1, r2

Att(s) == [type |-> "attester", slot |-> s]
Pro(s) == [type |-> "proposer", slot |-> s]
Agg(s) == [type |-> "aggregator", slot |-> s]
Con(s) == [type |-> "contribution", slot |-> s]

Duties == {Att(1), Pro(1), Agg(1), Con(1)}

\* Attestations of two validators in different committees, fetched before and
\* after the head of the chain changed.  Two
\* aggregates of one root, clashing contributions, and a set with two
\* proposals.
AttData(c, v, x) == [slot |-> 1, comm |-> c, val |-> v, data |-> x]
MCInputs ==
    { <<Att(1), p1 :> AttData(1, 1, A) @@ p2 :> AttData(2, 2, A)>>,
      <<Att(1), p2 :> AttData(2, 2, B)>>,
      <<Agg(1), p1 :> [slot |-> 1, root |-> A, data |-> A]>>,
      <<Agg(1), p1 :> [slot |-> 1, root |-> A, data |-> B]>>,
      <<Pro(1), p1 :> [slot |-> 1, data |-> A]>>,
      <<Pro(1), p1 :> [slot |-> 1, data |-> B] @@ p2 :> [slot |-> 1, data |-> A]>>,
      <<Con(1), p1 :> [slot |-> 1, comm |-> 0, root |-> A, data |-> A]
                @@ p2 :> [slot |-> 1, comm |-> 0, root |-> A, data |-> B]>> }
MCAsked == { <<"att", 1, 0>>, <<"att", 1, 1>>, <<"pro", 1>>, <<"con", 1, 0, A>> }

\* Bounds: attesters with aggregators, and proposers with contributions, are
\* explored one after the other, since nothing relates their tables but the
\* deadliner.  In the first pair attestations expire, and storing an aggregate
\* deletes them; aggregates are stored for that only.  In the second proposals
\* expire, and while there are no calls contributions do too, so that one of the
\* two may find the channel full.
Touched ==
    scheduled \cup {output[i] : i \in DOMAIN output} \cup failed \cup dropped
      \cup {d \in Duty : \E r \in Reader : rd[r] # NoCall /\ rd[r].key[1] = TableOf(d.type)}
Bound ==
    /\ ~ shutdown /\ phase[Agg(1)] = 0
    /\ \/ /\ phase[Pro(1)] = 0 /\ phase[Con(1)] = 0 /\ Touched \subseteq {Att(1), Agg(1)}
          /\ Agg(1) \in scheduled => phase[Att(1)] > 0
       \/ /\ phase[Att(1)] = 0 /\ Touched \subseteq {Pro(1), Con(1)}
          /\ phase[Con(1)] > 0 => \A r \in Reader : rd[r] = NoCall

ReaderSymmetry == Permutations(Reader)
=============================================================================
