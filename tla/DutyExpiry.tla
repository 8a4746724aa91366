----------------------------- MODULE DutyExpiry -----------------------------
(***************************************************************************)
(* What core.Deadliner promises to the component that owns it (interface   *)
(* Deadliner in core/deadline.go): Add accepts a duty until its deadline   *)
(* has passed, every accepted duty is output once its deadline is reached  *)
(* (or dropped if nobody reads the output), and nothing is output early.   *)
(* Module Deadliner implements it; the databases that trim their state     *)
(* with a deadliner are specified on top of this module.                   *)
(***************************************************************************)
EXTENDS Integers, Sequences

CONSTANTS
    Duty,         \* the duties of the instance
    NeverExpire,  \* those without a deadline (exits, builder registrations)
    OutputBuffer  \* capacity of deadlineChan, 10 in the code

ASSUME NeverExpireAssumption == NeverExpire \subseteq Duty
ASSUME OutputBufferAssumption == OutputBuffer \in Nat \ {0}

VARIABLES
    phase,      \* 0 before, 1 at and 2 after the deadline of a duty
    scheduled,  \* the duties that await their deadline
    output,     \* the contents of the channel C()
    stopped     \* the context of the deadliner was cancelled

expiryVars == <<phase, scheduled, output, stopped>>

ExpiryTypeOK ==
    /\ phase \in [Duty -> 0 .. 2]
    /\ scheduled \subseteq Duty
    /\ output \in Seq(Duty) /\ Len(output) <= OutputBuffer
    /\ stopped \in BOOLEAN

\* A deadliner may be created after the deadlines of some duties.
ExpiryInit ==
    /\ phase \in {f \in [Duty -> 0 .. 2] : \A d \in NeverExpire : f[d] = 0}
    /\ scheduled = {}
    /\ output = << >>
    /\ stopped = FALSE

\* Whether Add(d) returns true.
CanAdd(d) == ~ stopped /\ d \notin NeverExpire /\ phase[d] < 2

\* The effect of Add(d) on the deadliner.
Add(d) ==
    /\ scheduled' = IF CanAdd(d) THEN scheduled \cup {d} ELSE scheduled
    /\ UNCHANGED <<phase, output, stopped>>

TimePasses ==
    /\ phase' \in {f \in [Duty -> 0 .. 2] : \A d \in Duty :
                      f[d] >= phase[d] /\ (d \in NeverExpire => f[d] = 0)}
    /\ phase' # phase
    /\ UNCHANGED <<scheduled, output, stopped>>

\* The deadline of one duty comes nearer.  A step of TimePasses is some of
\* these, so that they lead to the same states.
DeadlineNears(d) ==
    /\ d \notin NeverExpire /\ phase[d] < 2
    /\ phase' = [phase EXCEPT ![d] = @ + 1]
    /\ UNCHANGED <<scheduled, output, stopped>>

\* An output that finds the channel full is dropped.
Expire(d) ==
    /\ ~ stopped /\ d \in scheduled /\ phase[d] > 0
    /\ scheduled' = scheduled \ {d}
    /\ output' = IF Len(output) < OutputBuffer THEN Append(output, d) ELSE output
    /\ UNCHANGED <<phase, stopped>>

\* The owner reads C().
Take ==
    /\ output # << >>
    /\ output' = Tail(output)
    /\ UNCHANGED <<phase, scheduled, stopped>>

StopExpiry ==
    /\ ~ stopped
    /\ stopped' = TRUE
    /\ UNCHANGED <<phase, scheduled, output>>

ExpiryNext ==
    \/ \E d \in Duty : Add(d) \/ Expire(d)
    \/ TimePasses
    \/ Take
    \/ StopExpiry

ExpirySpec == ExpiryInit /\ [][ExpiryNext]_expiryVars
=============================================================================
