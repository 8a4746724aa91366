---------------------------- MODULE MCScheduler ----------------------------
(* Epochs of two slots, and two validators, the second of which is active  *)
(* from epoch 1.  Each attests in one slot of an epoch and proposes in one *)
(* of them in every other epoch; a reorganisation moves them to the other  *)
(* slot.  The clock stops in epoch 2, in which epoch 3 is resolved and     *)
(* epoch 0 trimmed.                                                       *)
EXTENDS Scheduler

MCValidator == {1, 2}
MCActivation == <<0, 1>>
MCAsked == {NewDuty("attester", 1), NewDuty("attester", 3)}

ActiveIn(epoch) == {v \in Validator : Activation[v] <= epoch}
SlotOf(c, epoch, v) == epoch * SlotsPerEpoch + ((v + c) % SlotsPerEpoch)

MCAttesterDuties(c, epoch) ==
    {[slot |-> IF epoch = 1 THEN 3 - c ELSE SlotOf(c, epoch, v), val |-> v] : v \in ActiveIn(epoch)}
MCProposerDuties(c, epoch) ==
    {[slot |-> SlotOf(c, epoch, v), val |-> v] : v \in {w \in ActiveIn(epoch) : (w + epoch) % 2 = 0}}
MCSyncCommittee(c, epoch) == ActiveIn(epoch) \cap {2}
=============================================================================
