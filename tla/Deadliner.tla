------------------------------ MODULE Deadliner ------------------------------
(***************************************************************************)
(* core/deadline.go: the goroutine of a deadliner, and the goroutines that *)
(* call Add.  One of them, the Consumer, also reads C(), and does so only  *)
(* while it is not inside Add: that is how AggSigDB and DutyDB use it.     *)
(*                                                                         *)
(* A timer made for the duration until t has a value to receive from the   *)
(* moment the clock reads t on, so the timer itself is not a variable:     *)
(* currTimer is ready exactly when currDeadline <= now.                    *)
(***************************************************************************)
EXTENDS Integers, Sequences

CONSTANTS
    Duty,
    NeverExpire,   \* the duties for which deadlineFunc returns false
    DeadlineFunc,  \* the deadlines of the others
    OutputBuffer,  \* capacity of deadlineChan
    Caller,        \* the goroutines that call Add
    Consumer,      \* the one that reads C()
    NoDuty,        \* the zero Duty
    MaxTime        \* bound: the clock stops here, after all deadlines

ASSUME DutyAssumption == NeverExpire \subseteq Duty /\ NoDuty \notin Duty
ASSUME DeadlineAssumption == DeadlineFunc \in [Duty -> 0 .. MaxTime - 1]
ASSUME BufferAssumption == OutputBuffer \in Nat \ {0} /\ MaxTime \in Nat
ASSUME CallerAssumption == Consumer \in Caller

VARIABLES
    now,           \* the clock
    pc,            \* of run: "select", "send" (the inner select) or "done"
    duties,
    currDuty,
    currDeadline,
    deadlineChan,
    call           \* the duty a goroutine is adding, or NoDuty

vars == <<now, pc, duties, currDuty, currDeadline, deadlineChan, call>>

FarFuture == MaxTime + 1   \* time.Date(9999, ...)

Init ==
    /\ now \in 0 .. MaxTime
    /\ pc = "select"
    /\ duties = {}
    /\ currDuty = NoDuty
    /\ currDeadline = FarFuture
    /\ deadlineChan = << >>
    /\ call = [c \in Caller |-> NoDuty]

\* A bug: the latest deadline is chosen, as the comment on getCurrDuty has it.
CurrDutiesLatest(ds) ==
    IF ds = {} THEN {NoDuty}
    ELSE {d \in ds : \A e \in ds : DeadlineFunc[d] >= DeadlineFunc[e]}

\* What getCurrDuty may return for the duties ds: they are iterated in random
\* order, and a deadline replaces the current one if it is before it (the comment
\* on the function says "latest"; its code takes the earliest).
CurrDuties(ds) ==
    IF ds = {} THEN {NoDuty}
    ELSE {d \in ds : \A e \in ds : DeadlineFunc[d] <= DeadlineFunc[e]}

DeadlineOf(d) == IF d = NoDuty THEN FarFuture ELSE DeadlineFunc[d]

\* setCurrState, with the duties it finds.
SetCurrState(ds) ==
    /\ currDuty' \in CurrDuties(ds)
    /\ currDeadline' = DeadlineOf(currDuty')

-----------------------------------------------------------------------------
\* Add sends its input, and waits for the answer.
CallAdd(c, d) ==
    /\ call[c] = NoDuty
    /\ call' = [call EXCEPT ![c] = d]
    /\ UNCHANGED <<now, pc, duties, currDuty, currDeadline, deadlineChan>>

\* A bug: an earlier deadline does not replace the current one.
ReceiveNoReset(c) ==
    /\ pc = "select" /\ call[c] # NoDuty
    /\ call' = [call EXCEPT ![c] = NoDuty]
    /\ IF call[c] \in NeverExpire \/ DeadlineFunc[call[c]] < now
         THEN UNCHANGED <<duties, currDuty, currDeadline>>
         ELSE /\ duties' = duties \cup {call[c]}
              /\ IF currDuty = NoDuty
                   THEN SetCurrState(duties \cup {call[c]})
                   ELSE UNCHANGED <<currDuty, currDeadline>>
    /\ UNCHANGED <<now, pc, deadlineChan>>

\* A bug: a duty is accepted after its deadline.
ReceiveExpired(c) ==
    /\ pc = "select" /\ call[c] # NoDuty
    /\ call' = [call EXCEPT ![c] = NoDuty]
    /\ IF call[c] \in NeverExpire
         THEN UNCHANGED <<duties, currDuty, currDeadline>>
         ELSE /\ duties' = duties \cup {call[c]}
              /\ IF DeadlineFunc[call[c]] < currDeadline
                   THEN SetCurrState(duties \cup {call[c]})
                   ELSE UNCHANGED <<currDuty, currDeadline>>
    /\ UNCHANGED <<now, pc, deadlineChan>>

\* run receives the input and answers: the goroutine in Add does nothing but
\* wait for the answer, so both are one step.
Receive(c) ==
    /\ pc = "select" /\ call[c] # NoDuty
    /\ call' = [call EXCEPT ![c] = NoDuty]
    /\ IF call[c] \in NeverExpire \/ DeadlineFunc[call[c]] < now
         THEN UNCHANGED <<duties, currDuty, currDeadline>>
         ELSE /\ duties' = duties \cup {call[c]}
              /\ IF DeadlineFunc[call[c]] < currDeadline
                   THEN SetCurrState(duties \cup {call[c]})
                   ELSE UNCHANGED <<currDuty, currDeadline>>
    /\ UNCHANGED <<now, pc, deadlineChan>>

\* case <-currTimer.Chan()
TimerFires ==
    /\ pc = "select" /\ currDeadline <= now
    /\ pc' = "send"
    /\ UNCHANGED <<now, duties, currDuty, currDeadline, deadlineChan, call>>

\* A bug: run waits for room in the output.
SendOrDropBlocking ==
    /\ pc = "send" /\ Len(deadlineChan) < OutputBuffer
    /\ deadlineChan' = Append(deadlineChan, currDuty)
    /\ pc' = "select"
    /\ duties' = duties \ {currDuty}
    /\ SetCurrState(duties \ {currDuty})
    /\ UNCHANGED <<now, call>>

\* The inner select; then the duty is deleted and the next one chosen.
SendOrDrop ==
    /\ pc = "send"
    /\ deadlineChan' = IF Len(deadlineChan) < OutputBuffer
                         THEN Append(deadlineChan, currDuty) ELSE deadlineChan
    /\ pc' = "select"
    /\ duties' = duties \ {currDuty}
    /\ SetCurrState(duties \ {currDuty})
    /\ UNCHANGED <<now, call>>

\* ctx.Done() in either select; the deferred function closes quit.
Stop ==
    /\ pc # "done"
    /\ pc' = "done"
    /\ UNCHANGED <<now, duties, currDuty, currDeadline, deadlineChan, call>>

\* case <-d.quit in Add
AddAborted(c) ==
    /\ pc = "done" /\ call[c] # NoDuty
    /\ call' = [call EXCEPT ![c] = NoDuty]
    /\ UNCHANGED <<now, pc, duties, currDuty, currDeadline, deadlineChan>>

ReadC ==
    /\ call[Consumer] = NoDuty /\ deadlineChan # << >>
    /\ deadlineChan' = Tail(deadlineChan)
    /\ UNCHANGED <<now, pc, duties, currDuty, currDeadline, call>>

Tick ==
    /\ now < MaxTime
    /\ now' = now + 1
    /\ UNCHANGED <<pc, duties, currDuty, currDeadline, deadlineChan, call>>

Next ==
    \/ \E c \in Caller : \/ \E d \in Duty : CallAdd(c, d)
                         \/ Receive(c)
                         \/ AddAborted(c)
    \/ TimerFires
    \/ SendOrDrop
    \/ Stop
    \/ ReadC
    \/ Tick

\* The clock advances and the goroutine of run is scheduled.  A waiting Add is
\* received in the end: senders queue in order, and select chooses at random
\* among its ready cases.  Nobody has to call Add or to read C().
Fairness ==
    /\ WF_vars(Tick) /\ WF_vars(TimerFires) /\ WF_vars(SendOrDrop)
    /\ \A c \in Caller : SF_vars(Receive(c)) /\ WF_vars(AddAborted(c))

Spec == Init /\ [][Next]_vars

FairSpec == Spec /\ Fairness

-----------------------------------------------------------------------------
(* Properties *)

\* The state of run and of the goroutines in Add.
TypeOK ==
    /\ now \in 0 .. MaxTime
    /\ pc \in {"select", "send", "done"}
    /\ duties \subseteq Duty \ NeverExpire
    /\ currDuty \in Duty \cup {NoDuty}
    /\ currDeadline \in 0 .. FarFuture
    /\ deadlineChan \in Seq(Duty) /\ Len(deadlineChan) <= OutputBuffer
    /\ call \in [Caller -> Duty \cup {NoDuty}]

\* However Adds and timers interleave, run waits for a pending duty whose deadline
\* is the earliest of all, if there is one: no duty waits behind a later one.  (The
\* comment on getCurrDuty, core/deadline.go:217, says that it "selects duty with
\* the latest deadline".  The code selects the earliest one.)
CurrIsEarliest ==
    /\ \A d \in duties : currDeadline <= DeadlineFunc[d]
    /\ IF duties = {}
         THEN currDuty = NoDuty /\ currDeadline = FarFuture
         ELSE currDuty \in duties /\ currDeadline = DeadlineFunc[currDuty]

\* The channel holds duties in the order of their deadlines, none before its
\* deadline, and no pending duty is due before one that was output: an Add
\* that arrives late is refused rather than output out of order.
OutputInOrder ==
    \A i \in 1 .. Len(deadlineChan) :
        /\ DeadlineFunc[deadlineChan[i]] <= now
        /\ \A j \in i .. Len(deadlineChan) :
              DeadlineFunc[deadlineChan[i]] <= DeadlineFunc[deadlineChan[j]]
        /\ \A d \in duties : DeadlineFunc[deadlineChan[i]] <= DeadlineFunc[d]

\* Add returns: the goroutine that reads C() may itself be inside Add while
\* the channel is full, and must not be waited for.
AddReturns ==
    \A c \in Caller : call[c] # NoDuty ~> call[c] = NoDuty

\* Every pending duty leaves the deadliner after its deadline, even if nobody
\* reads the channel, unless the deadliner is stopped.
PendingIsOutput ==
    \A d \in Duty : d \in duties ~> d \notin duties \/ pc = "done"

Expiry == INSTANCE DutyExpiry WITH
    phase <- [d \in Duty |-> IF d \in NeverExpire \/ now < DeadlineFunc[d] THEN 0
                             ELSE IF now = DeadlineFunc[d] THEN 1 ELSE 2],
    scheduled <- duties,
    output <- deadlineChan,
    stopped <- pc = "done"

\* run and Add do what the Deadliner interface promises: a duty is accepted
\* exactly until its deadline has passed, and is output once, and not early.
ImplementsExpiry == Expiry!ExpirySpec
=============================================================================
