---------------------------- MODULE MCDeadliner ----------------------------
(* Instances of Deadliner for TLC: duties of one or two slots. *)
EXTENDS Deadliner, DutyDeadline

Duties(types, slots) == [type : types, slot : slots]

FewDuties == Duties({"proposer", "randao"}, {0}) \cup Duties({"sync_message", "exit"}, {0})

LongLived == {d \in FewDuties : ~ Expires(d.type)}

Deadlines == [d \in FewDuties |-> IF Expires(d.type) THEN DutyDeadlineOf(d) ELSE 0]
=============================================================================
