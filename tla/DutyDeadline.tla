---------------------------- MODULE DutyDeadline ----------------------------
(***************************************************************************)
(* NewDutyDeadlineFunc of core/deadline.go: when the duties of a slot      *)
(* expire, in the time unit of SlotDuration and from the genesis time on.  *)
(***************************************************************************)
EXTENDS Integers

CONSTANT SlotDuration

ASSUME SlotDurationAssumption == SlotDuration \in Nat \ {0}

MarginFactor == 12

DutyType == {"proposer", "attester", "signature", "exit", "builder_registration",
             "randao", "prepare_aggregator", "aggregator", "sync_message",
             "prepare_sync_contribution", "sync_contribution", "info_sync"}

\* Exit and registration duties do not time out.
Expires(type) == type \notin {"exit", "builder_registration"}

DurationOf(type) ==
    CASE type \in {"proposer", "randao"} -> SlotDuration \div 3
      [] type = "sync_message" -> (2 * SlotDuration) \div 3
      [] type \in {"attester", "aggregator", "prepare_aggregator"} -> 2 * SlotDuration
      [] OTHER -> SlotDuration

SlotStart(slot) == SlotDuration * slot

DutyDeadlineOf(duty) ==
    SlotStart(duty.slot) + DurationOf(duty.type) + SlotDuration \div MarginFactor
=============================================================================
