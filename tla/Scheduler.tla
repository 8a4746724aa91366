----------------------------- MODULE Scheduler -----------------------------
(***************************************************************************)
(* The scheduler (core/scheduler): a goroutine that produces slots, one    *)
(* that resolves the duties of an epoch with the beacon node and triggers  *)
(* those of each slot, the handler of chain reorganisations, and a caller  *)
(* of GetDutyDefinition.  They share state under dutiesMutex, which each   *)
(* of them releases between any two of the steps below.                    *)
(*                                                                         *)
(* The beacon node is external: it answers each question from the version  *)
(* of the chain it has when it is asked, or with an error.                 *)
(***************************************************************************)
EXTENDS Integers, Sequences, FiniteSets

CONSTANTS
    Validator,
    SlotsPerEpoch,
    trimEpochOffset,       \* 3 in the code, 2 in the runs: the clock stops before 3 epochs
    FirstSlot,             \* the slot in which the node is started
    LastSlot,              \* bound: the slot at which the clock stops
    MaxLag,                \* bound: how many slots Run may be late by
    MaxFailures,           \* bound: how often a resolution fails
    LastChain,             \* bound: how often the chain is reorganised
    Activation,            \* the activation epoch of each validator
    AttesterDuties(_, _),  \* what the beacon node answers for a chain and
    ProposerDuties(_, _),  \*   an epoch: a set of [slot, val]
    SyncCommittee(_, _),   \*   a set of validators
    Asked,                 \* the duties that GetDutyDefinition is called for
    LastAsked              \* bound: the last version of the chain during which it is

VARIABLES
    now,             \* the current slot
    ticker,          \* the slot ticker: the slot it waits for, or offers
    run,             \* Run, scheduleSlot and resolveDuties
    resolvedEpoch,
    resolvingEpoch,
    duties,          \* the definitions: a set of [duty, val, def]
    dutiesByEpoch,   \* a set of <<epoch, duty>>
    pending,         \* the duties waiting for their offset in the slot
    handler,         \* HandleChainReorgEvent
    call,            \* GetDutyDefinition
    chain,           \* the version of the chain
    failures,        \* how many resolutions have failed
    completed,       \* history: the epochs whose resolution was completed
    stale            \* history: a reorg was handled, and nothing resolved since

schedVars == <<run, resolvedEpoch, resolvingEpoch, duties, dutiesByEpoch, pending>>
vars == <<now, ticker, schedVars, handler, call, chain, failures, completed, stale>>

MaxInt64 == 1000 \* stands for math.MaxInt64: greater than any epoch

Epoch(slot) == slot \div SlotsPerEpoch
LastInEpoch(slot) == Epoch(slot + 1) # Epoch(slot)
Slots == 0 .. LastSlot + SlotsPerEpoch
Epochs == 0 .. Epoch(LastSlot) + 1
Chains == 0 .. LastChain

\* The types of duty that are scheduled, in the order of core.AllDutyTypes.
DutyTypes == <<"proposer", "attester", "aggregator", "contribution">>
Duty == [type : {"proposer", "attester", "aggregator", "contribution"}, slot : Slots]
Definition == [duty : Duty, val : Validator, def : Chains]
NewDuty(type, slot) == [type |-> type, slot |-> slot]

DefSet(duty) == {d \in duties : d.duty = duty}

Init ==
    /\ now = FirstSlot
    /\ ticker = [pc |-> "wait", slot |-> FirstSlot]
    /\ run = [pc |-> "tick"]
    /\ resolvedEpoch = MaxInt64 /\ resolvingEpoch = MaxInt64
    /\ duties = {} /\ dutiesByEpoch = {}
    /\ pending = {}
    /\ handler = [pc |-> "idle"] /\ call = [pc |-> "idle"]
    /\ chain = 0 /\ failures = 0 /\ completed = {} /\ stale = FALSE

-----------------------------------------------------------------------------
(* The clock and newSlotTicker.                                            *)

SlotPasses ==
    /\ now < LastSlot /\ now < ticker.slot + MaxLag
    /\ now' = now + 1
    /\ UNCHANGED <<ticker, schedVars, handler, call, chain, failures, completed, stale>>

\* When the ticker's slot begins, or later when it was busy: it skips to the
\* current slot if the next one has begun already.
TickerWakes ==
    /\ run.pc # "stopped" /\ ticker.pc = "wait" /\ now >= ticker.slot
    /\ ticker' = [pc |-> "offer", slot |-> IF now > ticker.slot THEN now ELSE ticker.slot]
    /\ UNCHANGED <<now, schedVars, handler, call, chain, failures, completed, stale>>

-----------------------------------------------------------------------------
(* The state under the mutex.                                              *)

IsSet(duty, val) == \E d \in duties : d.duty = duty /\ d.val = val

setDutyDefinition(duty, epoch, val, def) ==
    IF IsSet(duty, val)
    THEN UNCHANGED <<duties, dutiesByEpoch>>
    ELSE /\ duties' = duties \cup {[duty |-> duty, val |-> val, def |-> def]}
         /\ dutiesByEpoch' = dutiesByEpoch \cup {<<epoch, duty>>}

trimDuties(epoch) ==
    /\ duties' = {d \in duties : <<epoch, d.duty>> \notin dutiesByEpoch}
    /\ dutiesByEpoch' = {p \in dutiesByEpoch : p[1] # epoch}

-----------------------------------------------------------------------------
(* Run: a slot is received, its epoch resolved if need be, its duties      *)
(* triggered and, in the last slot of an epoch, the next epoch resolved.   *)

runUnchanged == UNCHANGED <<now, handler, call, chain>>

Receive ==
    /\ run.pc = "tick" /\ ticker.pc = "offer"
    /\ ticker' = [pc |-> "wait", slot |-> ticker.slot + 1]
    /\ run' = [pc |-> "check", slot |-> ticker.slot]
    /\ UNCHANGED <<resolvedEpoch, resolvingEpoch, duties, dutiesByEpoch, pending,
                   failures, completed, stale>>
    /\ runUnchanged

\* Stop was called: Run returns and cancels the context of the ticker and of
\* the goroutines that wait for an offset.
Quit ==
    /\ run.pc = "tick"
    /\ run' = [pc |-> "stopped"] /\ pending' = {}
    /\ UNCHANGED <<ticker, resolvedEpoch, resolvingEpoch, duties, dutiesByEpoch,
                   failures, completed, stale>>
    /\ runUnchanged

\* resolveDuties begins, for the epoch of a slot.
Resolving(for) ==
    /\ run' = [pc |-> "validators", slot |-> run.slot, for |-> for]
    /\ resolvingEpoch' = Epoch(for)
    /\ stale' = FALSE

\* What follows resolveDuties, or its omission: the duties of the slot if it
\* was called for the slot itself, and else the next slot.
Trigger == [pc |-> "trigger", slot |-> run.slot, types |-> DutyTypes, started |-> {}]
AfterResolve == IF run.for = run.slot THEN Trigger ELSE [pc |-> "tick"]

CheckResolved ==
    /\ run.pc = "check"
    /\ IF resolvedEpoch # Epoch(run.slot)
       THEN Resolving(run.slot)
       ELSE run' = Trigger /\ UNCHANGED <<resolvingEpoch, stale>>
    /\ UNCHANGED <<ticker, resolvedEpoch, duties, dutiesByEpoch, pending, failures, completed>>
    /\ runUnchanged

\* The definitions still to set, and the next of them: in the order of their
\* slots, but the aggregator right after the attester it belongs to.
Todo == IF run.pc \in {"vals", "att", "pro", "sync"} THEN run.todo ELSE {}
First(todo) ==
    LET agg == {d \in todo : d.duty.type = "aggregator"}
        from == IF agg = {} THEN todo ELSE agg
    IN CHOOSE d \in from : \A e \in from : d.duty.slot <= e.duty.slot

\* resolveDuties may return an error: while it calls the beacon node, or at
\* the next element of the answer.
MayFail ==
    /\ run.pc \in {"validators", "vals", "att", "pro", "sync"}
    /\ \A d \in Todo : d.duty.type # "aggregator"

\* A bug: an error leaves resolvingEpoch as it is.
ResolveFailsResolving ==
    /\ MayFail
    /\ failures < MaxFailures /\ failures' = failures + 1
    /\ run' = AfterResolve
    /\ UNCHANGED <<ticker, resolvedEpoch, resolvingEpoch, duties, dutiesByEpoch, pending, completed, stale>>
    /\ runUnchanged

\* A call of the beacon node fails, or an element of its answer is invalid.
ResolveFails ==
    /\ MayFail
    /\ failures < MaxFailures /\ failures' = failures + 1
    /\ run' = AfterResolve
    /\ resolvingEpoch' = MaxInt64
    /\ UNCHANGED <<ticker, resolvedEpoch, duties, dutiesByEpoch, pending, completed, stale>>
    /\ runUnchanged

\* resolveActiveValidators: those that are active now, or will be from the
\* epoch that is resolved.
Active(epoch) ==
    {v \in Validator : Activation[v] <= Epoch(now) \/ Activation[v] = epoch}

ResolveValidators ==
    /\ run.pc = "validators"
    /\ LET vals == Active(Epoch(run.for)) IN
       IF vals = {}
       THEN /\ resolvedEpoch' = Epoch(run.for)
            /\ run' = [pc |-> "resolved", slot |-> run.slot, for |-> run.for]
       ELSE /\ run' = [pc |-> "vals", slot |-> run.slot, for |-> run.for, vals |-> vals,
                       todo |-> {}]
            /\ UNCHANGED resolvedEpoch
    /\ UNCHANGED <<ticker, resolvingEpoch, duties, dutiesByEpoch, pending,
                   failures, completed, stale>>
    /\ runUnchanged

\* A bug: the duties of the slot itself are skipped, too.
UpcomingOnly(answer) == {d \in answer : d.slot > run.for}

\* A bug: none are skipped.
AllUpcoming(answer) == answer

\* Duties for earlier slots in the initial epoch are skipped.
Upcoming(answer) == {d \in answer : d.slot >= run.for}

\* What the beacon node answers in each stage, as the definitions to set.
ToSet(stage) ==
    LET epoch == Epoch(run.for)
        From(type, answer) ==
           {[duty |-> NewDuty(type, d.slot), val |-> d.val, def |-> chain] :
               d \in {e \in Upcoming(answer) : e.val \in run.vals}}
    IN CASE stage = "att"  -> From("attester", AttesterDuties(chain, epoch))
         [] stage = "pro"  -> From("proposer", ProposerDuties(chain, epoch))
         [] stage = "sync" -> From("contribution",
               [slot : {s \in Slots : Epoch(s) = epoch}, val : SyncCommittee(chain, epoch)])

\* When a stage is done the next one begins.
NextStage == [vals |-> "att", att |-> "pro", pro |-> "sync"]

BeaconAnswers ==
    /\ run.pc \in DOMAIN NextStage /\ run.todo = {}
    /\ run' = [run EXCEPT !.pc = NextStage[run.pc], !.todo = ToSet(NextStage[run.pc])]
    /\ UNCHANGED <<ticker, resolvedEpoch, resolvingEpoch, duties, dutiesByEpoch, pending,
                   failures, completed, stale>>
    /\ runUnchanged

\* One definition is set.  A new attester definition is then also set for the
\* aggregator, one that is there already is not.
SetDefinition ==
    /\ Todo # {}
    /\ LET d == First(Todo) IN
       /\ setDutyDefinition(d.duty, Epoch(run.for), d.val, d.def)
       /\ run' = [run EXCEPT !.todo = (@ \ {d}) \cup
             IF d.duty.type = "attester" /\ ~IsSet(d.duty, d.val)
             THEN {[d EXCEPT !.duty.type = "aggregator"]} ELSE {}]
    /\ UNCHANGED <<ticker, resolvedEpoch, resolvingEpoch, pending,
                   failures, completed, stale>>
    /\ runUnchanged

SetResolved ==
    /\ run.pc = "sync" /\ run.todo = {}
    /\ resolvedEpoch' = Epoch(run.for)
    /\ completed' = completed \cup {Epoch(run.for)}
    /\ run' = [pc |-> "trim", slot |-> run.slot, for |-> run.for]
    /\ UNCHANGED <<ticker, resolvingEpoch, duties, dutiesByEpoch, pending, failures, stale>>
    /\ runUnchanged

\* The subtraction wraps around for the first epochs: no duty has such an epoch.
TrimOld ==
    /\ run.pc = "trim"
    /\ trimDuties(Epoch(run.for) - trimEpochOffset)
    /\ run' = [run EXCEPT !.pc = "resolved"]
    /\ UNCHANGED <<ticker, resolvedEpoch, resolvingEpoch, pending,
                   failures, completed, stale>>
    /\ runUnchanged

ResolveReturns ==
    /\ run.pc = "resolved"
    /\ resolvingEpoch' = MaxInt64
    /\ run' = AfterResolve
    /\ UNCHANGED <<ticker, resolvedEpoch, duties, dutiesByEpoch, pending,
                   failures, completed, stale>>
    /\ runUnchanged

\* One type of the loop over all types: a goroutine is started with the set.
TriggerType ==
    /\ run.pc = "trigger" /\ run.types # <<>>
    /\ LET duty == NewDuty(Head(run.types), run.slot) IN
       /\ pending' = pending \cup {d.duty : d \in DefSet(duty)}
       /\ run' = [run EXCEPT !.types = Tail(@), !.started = @ \cup DefSet(duty)]
    /\ UNCHANGED <<ticker, resolvedEpoch, resolvingEpoch, duties, dutiesByEpoch,
                   failures, completed, stale>>
    /\ runUnchanged

SlotScheduled ==
    /\ run.pc = "trigger" /\ run.types = <<>>
    /\ IF LastInEpoch(run.slot)
       THEN Resolving(run.slot + 1)
       ELSE run' = [pc |-> "tick"] /\ UNCHANGED <<resolvingEpoch, stale>>
    /\ UNCHANGED <<ticker, resolvedEpoch, duties, dutiesByEpoch, pending, failures, completed>>
    /\ runUnchanged

\* The offsets of a slot's duties are reached: the subscribers get them.  No
\* property depends on the order of the offsets.
Fire ==
    /\ pending # {}
    /\ LET first == CHOOSE d \in pending : \A e \in pending : d.slot <= e.slot IN
       pending' = {d \in pending : d.slot # first.slot}
    /\ UNCHANGED <<now, ticker, run, resolvedEpoch, resolvingEpoch, duties, dutiesByEpoch,
                   handler, call, chain, failures, completed, stale>>

-----------------------------------------------------------------------------
(* HandleChainReorgEvent, when the feature SSEReorgDuties is enabled.      *)

\* The chain is reorganised and the beacon node sends an event.
ChainReorg(epoch) ==
    /\ chain < LastChain /\ handler.pc = "idle" /\ epoch <= Epoch(now)
    /\ chain < LastAsked \/ call.pc = "idle"
    /\ chain' = chain + 1
    /\ handler' = [pc |-> "read", epoch |-> epoch]
    /\ UNCHANGED <<now, ticker, schedVars, call, failures, completed, stale>>

ReadResolved ==
    /\ handler.pc = "read"
    /\ handler' = IF handler.epoch < resolvedEpoch
                  THEN [pc |-> "trim", epoch |-> resolvedEpoch] ELSE [pc |-> "idle"]
    /\ UNCHANGED <<now, ticker, schedVars, call, chain, failures, completed, stale>>

TrimResolved ==
    /\ handler.pc = "trim"
    /\ trimDuties(handler.epoch)
    /\ handler' = [pc |-> "set"]
    /\ UNCHANGED <<now, ticker, run, resolvedEpoch, resolvingEpoch, pending,
                   call, chain, failures, completed, stale>>

Unresolve ==
    /\ handler.pc = "set"
    /\ resolvedEpoch' = MaxInt64
    /\ handler' = [pc |-> "idle"]
    /\ stale' = TRUE
    /\ UNCHANGED <<now, ticker, run, resolvingEpoch, duties, dutiesByEpoch, pending,
                   call, chain, failures, completed>>

-----------------------------------------------------------------------------
(* GetDutyDefinition.  Each read of the shared state takes the lock anew:  *)
(* isEpochResolved and isEpochTrimmed read resolvedEpoch twice each.       *)

callUnchanged == UNCHANGED <<now, ticker, schedVars, handler, chain, failures, completed, stale>>
Return(result) == [pc |-> "done", duty |-> call.duty, result |-> result]
CallEpoch == Epoch(call.duty.slot)

\* FetchSlotsConfig asks the beacon node, which may fail.  (A deprecated builder
\* duty is refused in the same way.)
GetDutyDefinition(duty) ==
    /\ call.pc = "idle" /\ chain <= LastAsked
    /\ call' \in {[pc |-> "wait", duty |-> duty],
                  [pc |-> "done", duty |-> duty, result |-> "error"]}
    /\ callUnchanged

\* While the epoch is being resolved the caller sleeps, and looks again.
WaitResolving ==
    /\ call.pc = "wait" /\ resolvingEpoch # CallEpoch
    /\ call' = [call EXCEPT !.pc = "resolved"]
    /\ callUnchanged

ContextCancelled ==
    /\ call.pc = "wait" /\ resolvingEpoch = CallEpoch
    /\ call' = Return("cancelled")
    /\ callUnchanged

\* A bug: a resolved epoch is not asked for.
IsEpochResolvedAny ==
    /\ call.pc = "resolved"
    /\ call' = [call EXCEPT !.pc = "trimmed"]
    /\ callUnchanged

IsEpochResolved ==
    /\ call.pc = "resolved"
    /\ call' = IF resolvedEpoch = MaxInt64
               THEN Return("unresolved") ELSE [call EXCEPT !.pc = "resolved2"]
    /\ callUnchanged

IsEpochResolved2 ==
    /\ call.pc = "resolved2"
    /\ call' = IF resolvedEpoch >= CallEpoch
               THEN [call EXCEPT !.pc = "trimmed"] ELSE Return("unresolved")
    /\ callUnchanged

IsEpochTrimmed ==
    /\ call.pc = "trimmed"
    /\ call' = [call EXCEPT !.pc = IF resolvedEpoch = MaxInt64 THEN "get" ELSE "trimmed2"]
    /\ callUnchanged

IsEpochTrimmed2 ==
    /\ call.pc = "trimmed2"
    /\ call' = IF resolvedEpoch >= CallEpoch + trimEpochOffset
               THEN Return("trimmed") ELSE [call EXCEPT !.pc = "get"]
    /\ callUnchanged

getDutyDefinitionSet ==
    /\ call.pc = "get"
    /\ call' = IF DefSet(call.duty) = {} THEN Return("notfound")
               ELSE [pc |-> "done", duty |-> call.duty, result |-> "found", set |-> DefSet(call.duty)]
    /\ callUnchanged

Returned ==
    /\ call.pc = "done"
    /\ call' = [pc |-> "idle"]
    /\ callUnchanged

-----------------------------------------------------------------------------
Run ==
    \/ Receive \/ CheckResolved \/ ResolveValidators \/ ResolveFails \/ BeaconAnswers
    \/ SetDefinition \/ SetResolved \/ TrimOld \/ ResolveReturns
    \/ TriggerType \/ SlotScheduled
Handle == ReadResolved \/ TrimResolved \/ Unresolve
\* Those steps of a caller that do not depend on its context.
Returning ==
    \/ WaitResolving \/ IsEpochResolved \/ IsEpochResolved2
    \/ IsEpochTrimmed \/ IsEpochTrimmed2 \/ getDutyDefinitionSet

Next ==
    \/ SlotPasses \/ TickerWakes \/ Run \/ Handle \/ Returning \/ ContextCancelled \/ Returned
    \/ Fire
    \/ Quit
    \/ \E epoch \in Epochs : ChainReorg(epoch)
    \/ \E duty \in Asked : GetDutyDefinition(duty)

\* The goroutine of Run is not stopped, and the beacon node answers or fails:
\* each of its calls has a timeout.  A caller that sleeps wakes up.
Fairness == WF_vars(Run) /\ WF_vars(Returning)
Spec == Init /\ [][Next]_vars /\ Fairness
-----------------------------------------------------------------------------
(* Properties.                                                             *)

\* The definitions that the chain has for a duty, before any reorg.
Expected(duty) ==
    LET epoch == Epoch(duty.slot)
        At(answer) == {d.val : d \in {e \in answer : e.slot = duty.slot}}
        vals == CASE duty.type \in {"attester", "aggregator"} -> At(AttesterDuties(0, epoch))
                  [] duty.type = "proposer" -> At(ProposerDuties(0, epoch))
                  [] duty.type = "contribution" -> SyncCommittee(0, epoch)
    IN {[duty |-> duty, val |-> v, def |-> 0] : v \in vals}

\* GetDutyDefinition never answers with part of the definitions of an epoch
\* that was resolved, however its reads of the shared state interleave with
\* resolveDuties, its failures, retries and trimming.  (An epoch whose
\* resolution only ever failed is taken to be resolved once a later one is.)
AnswerIsComplete ==
    chain = 0 /\ call.pc = "done" /\ call.result = "found" =>
            (Epoch(call.duty.slot) \in completed => call.set = Expected(call.duty))

\* When the duties of a slot have been triggered and its epoch is resolved,
\* each duty that the chain has for the slot was triggered with all of its
\* definitions, also in the slot in which the epoch was resolved at last.
SlotIsTriggered ==
    chain = 0 /\ run.pc = "trigger" /\ run.types = <<>> /\ resolvedEpoch = Epoch(run.slot) =>
        \A type \in {"proposer", "attester", "aggregator", "contribution"} :
            Expected(NewDuty(type, run.slot)) \subseteq run.started

\* No definition is added to a duty while a goroutine waits for its offset: it
\* shares the set with the scheduler's map, and clones it without the lock.
TriggeredIsFinal ==
    [][\A d \in duties' \ duties : d.duty \notin pending]_vars

\* A caller that waits for an epoch to be resolved is released, also when the
\* resolution fails.
CallReturns == call.pc = "wait" ~> call.pc = "done"

\* "Duties are to be resolved again in the next slot by scheduleSlot()": after
\* a reorg was handled, the next slot does not go by with definitions of the
\* chain before it.
ReorgIsResolvedAgain ==
    run.pc = "check" /\ stale /\ resolvedEpoch = Epoch(run.slot) =>
        \A d \in duties : d.duty.slot >= run.slot => d.def = chain
=============================================================================
