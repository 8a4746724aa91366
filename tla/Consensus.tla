----------------------------- MODULE Consensus -----------------------------
(***************************************************************************)
(* The consensus component of one node around the QBFT algorithm, for one  *)
(* duty (core/consensus/qbft): Propose and Participate, the life of an     *)
(* instance and its channels (utils.InstanceIO), the transport between     *)
(* them and the algorithm, the handler of messages from peers, and the     *)
(* deadliner that deletes the instance of an expired duty.                 *)
(*                                                                         *)
(* Each call looks the instance up by its duty, up to three times, and an  *)
(* instance that was deleted in between is created anew: the model gives   *)
(* every instance a number.  The algorithm itself (module QBFT) is here    *)
(* what it does with its channels: it takes the input, receives messages,  *)
(* broadcasts values it has seen, and decides one of them.                 *)
(***************************************************************************)
EXTENDS DutyExpiry, FiniteSets

CONSTANTS
    TheDuty,        \* the duty
    Proposer,       \* the calls of Propose
    Retry,          \* those of them that retry the others
    Participant,    \* the calls of Participate
    Own,            \* the value that is proposed here
    Messages,       \* the messages of peers: the sets of values they carry
    RecvBufferSize  \* 100 in the code

VARIABLES
    current,   \* instances[duty]: the number of its instance, 0 if there is none
    io,        \* the instances created so far
    call,      \* the calls, with the state of the algorithm that they run
    handler,   \* handle, for the message of a peer
    outputs,   \* the values given to the subscribers, in order
    lost       \* history: an instance was deleted between two lookups of a call

conVars == <<current, io, call, handler, outputs, lost>>
vars == <<expiryVars, conVars>>

Caller == Proposer \cup Participant
Value == UNION Messages \cup {Own}

NewInstanceIO ==
    [participated |-> FALSE, proposed |-> FALSE, running |-> FALSE, recv |-> <<>>,
     hash |-> FALSE, value |-> FALSE, err |-> <<>>, decidedAt |-> FALSE]

Init ==
    /\ ExpiryInit /\ phase = [d \in Duty |-> 0]
    /\ current = 0 /\ io = <<>>
    /\ call = [c \in Caller |-> [pc |-> "idle"]]
    /\ handler = [pc |-> "idle"]
    /\ outputs = <<>> /\ lost = FALSE

-----------------------------------------------------------------------------
(* The map of instances.                                                   *)

\* getInstanceIO and getRecvBuffer: the number of the duty's instance, and
\* what they leave when there is none.
Lookup == IF current = 0 THEN Len(io) + 1 ELSE current
Created == IF current = 0 THEN Append(io, NewInstanceIO) ELSE io

\* Where a call has looked the instance up, and runInstance has not yet.
BeforeRun == {"mark", "value", "hash", "start", "run"}

\* deleteInstanceIO, for a duty the deadliner outputs.
deleteInstanceIO ==
    /\ Take
    /\ current' = 0
    /\ lost' = (lost \/ \E c \in Caller : call[c].pc \in BeforeRun /\ call[c].inst = current)
    /\ UNCHANGED <<io, call, handler, outputs>>

-----------------------------------------------------------------------------
(* propose and Participate.                                                *)

Step(c, pc) == call' = [call EXCEPT ![c].pc = pc]
Done(c, err) == call' = [call EXCEPT ![c] = [pc |-> "done", err |-> err]]
Inst(c) == io[call[c].inst]
SetInst(c, inst) == io' = [io EXCEPT ![call[c].inst] = inst]
callUnchanged == UNCHANGED <<expiryVars, current, handler, outputs, lost>>

Begin(c) ==
    /\ call[c].pc = "idle"
    /\ c \in Retry => \A p \in Proposer \ Retry : call[p].pc = "done"
    /\ call' = [call EXCEPT ![c] = [pc |-> "mark", inst |-> Lookup]]
    /\ current' = Lookup /\ io' = Created
    /\ UNCHANGED <<expiryVars, handler, outputs, lost>>

MarkProposed(c) ==
    /\ c \in Proposer /\ call[c].pc = "mark"
    /\ IF Inst(c).proposed
       THEN Done(c, "already") /\ UNCHANGED io
       ELSE Step(c, "value") /\ SetInst(c, [Inst(c) EXCEPT !.proposed = TRUE])
    /\ callUnchanged

\* The value, then its hash, are sent without blocking: the channels have room
\* for the one proposal of the instance.
PutValue(c) ==
    /\ call[c].pc = "value"
    /\ IF Inst(c).value
       THEN Done(c, "full") /\ UNCHANGED io
       ELSE Step(c, "hash") /\ SetInst(c, [Inst(c) EXCEPT !.value = TRUE])
    /\ callUnchanged

PutHash(c) ==
    /\ call[c].pc = "hash"
    /\ IF Inst(c).hash
       THEN Done(c, "full") /\ UNCHANGED io
       ELSE Step(c, "start") /\ SetInst(c, [Inst(c) EXCEPT !.hash = TRUE])
    /\ callUnchanged

MarkParticipated(c) ==
    /\ c \in Participant /\ call[c].pc = "mark"
    /\ IF Inst(c).participated
       THEN Done(c, "already") /\ UNCHANGED io
       ELSE Step(c, "start") /\ SetInst(c, [Inst(c) EXCEPT !.participated = TRUE])
    /\ callUnchanged

\* A bug: the flag is not set.
MaybeStartAlways(c) ==
    /\ call[c].pc = "start"
    /\ Step(c, "run") /\ UNCHANGED io
    /\ callUnchanged

\* The first of the calls runs the instance; a proposal waits for the other.
MaybeStart(c) ==
    /\ call[c].pc = "start"
    /\ IF Inst(c).running
       THEN /\ IF c \in Proposer THEN Step(c, "wait") ELSE Done(c, "nil")
            /\ UNCHANGED io
       ELSE Step(c, "run") /\ SetInst(c, [Inst(c) EXCEPT !.running = TRUE])
    /\ callUnchanged

\* When propose returns it empties decidedAt, for a metric.
WaitErr(c) ==
    /\ call[c].pc = "wait" /\ Inst(c).err # <<>>
    /\ SetInst(c, [Inst(c) EXCEPT !.err = Tail(@), !.decidedAt = FALSE])
    /\ Done(c, Head(Inst(c).err))
    /\ callUnchanged

-----------------------------------------------------------------------------
(* runInstance.                                                            *)

\* The instance is looked up again, and the duty added to the deadliner.
RunLookup(c) ==
    /\ call[c].pc = "run"
    /\ call' = [call EXCEPT ![c] = [pc |-> "add", inst |-> call[c].inst, run |-> Lookup]]
    /\ current' = Lookup /\ io' = Created
    /\ UNCHANGED <<expiryVars, handler, outputs, lost>>

Ends(c, err) == call' = [call EXCEPT ![c] =
                   [pc |-> "end", inst |-> call[c].inst, run |-> call[c].run, err |-> err]]

\* A bug: the call for an expired duty returns before it sends its result.
RunAddSilent(c) ==
    /\ call[c].pc = "add"
    /\ Add(TheDuty)
    /\ IF CanAdd(TheDuty) THEN Step(c, "buffer") ELSE Done(c, "nil")
    /\ UNCHANGED <<current, io, handler, outputs, lost>>

RunAdd(c) ==
    /\ call[c].pc = "add"
    /\ Add(TheDuty)
    /\ IF CanAdd(TheDuty) THEN Step(c, "buffer") ELSE Ends(c, "nil")
    /\ UNCHANGED <<current, io, handler, outputs, lost>>

\* ProcessReceives is started with the buffer that getRecvBuffer returns.
RunBuffer(c) ==
    /\ call[c].pc = "buffer"
    /\ call' = [call EXCEPT ![c] =
          [pc |-> "algo", inst |-> call[c].inst, run |-> call[c].run, recv |-> Lookup,
           input |-> FALSE, values |-> {}, seen |-> {}]]
    /\ current' = Lookup /\ io' = Created
    /\ UNCHANGED <<expiryVars, handler, outputs, lost>>

\* qbft.Run: it goes on after a decision until its context ends.
Runs(c) == call[c].pc \in {"algo", "decided"}

\* The algorithm takes its input from the hash channel.
TakeInput(c) ==
    /\ Runs(c) /\ ~call[c].input /\ io[call[c].run].hash
    /\ call' = [call EXCEPT ![c].input = TRUE, ![c].seen = @ \cup {Own}]
    /\ io' = [io EXCEPT ![call[c].run].hash = FALSE]
    /\ callUnchanged

\* A bug: values are cached only after the algorithm has the message.
ReceiveUncached(c) ==
    /\ Runs(c) /\ io[call[c].recv].recv # <<>>
    /\ call' = [call EXCEPT ![c].seen = @ \cup Head(io[call[c].recv].recv)]
    /\ io' = [io EXCEPT ![call[c].recv].recv = Tail(@)]
    /\ callUnchanged

\* ProcessReceives caches the values of a message, and passes it on to the
\* algorithm.
ProcessReceive(c) ==
    /\ Runs(c) /\ io[call[c].recv].recv # <<>>
    /\ LET values == Head(io[call[c].recv].recv) IN
       call' = [call EXCEPT ![c].values = @ \cup values, ![c].seen = @ \cup values]
    /\ io' = [io EXCEPT ![call[c].recv].recv = Tail(@)]
    /\ callUnchanged

\* transport.Broadcast, of a message for a value that the algorithm has seen:
\* getValue takes a proposal from the value channel, and looks the value up.
\* If it is unknown the algorithm returns the error.
Broadcast(c, v) ==
    /\ Runs(c) /\ v \in call[c].seen
    /\ LET values == call[c].values \cup IF io[call[c].run].value THEN {Own} ELSE {} IN
       /\ call' = IF v \in values THEN [call EXCEPT ![c].values = values]
                  ELSE [call EXCEPT ![c] = [pc |-> "end", inst |-> @.inst, run |-> @.run, err |-> "unknown"]]
       /\ io' = [io EXCEPT ![call[c].run].value = FALSE]
    /\ callUnchanged

\* The algorithm decides a value: decideCallback sends the time and cancels
\* the context, then the subscribers are called with the value.  If the message
\* of the decision has no value of a known type nobody is told, and the algorithm
\* only answers its peers from then on.
Decide(c, v) ==
    /\ call[c].pc = "algo" /\ v \in call[c].seen
    /\ \/ /\ ~io[call[c].run].decidedAt
          /\ io' = [io EXCEPT ![call[c].run].decidedAt = TRUE]
          /\ outputs' = Append(outputs, v)
          /\ Ends(c, "nil")
       \/ Step(c, "decided") /\ UNCHANGED <<io, outputs>>
    /\ UNCHANGED <<expiryVars, current, handler, lost>>

\* The context of the call ends, or broadcasting fails.
RunFails(c) ==
    /\ Runs(c)
    /\ Ends(c, "timeout")
    /\ UNCHANGED <<io>> /\ callUnchanged

\* The result is sent on the error channel, and returned.
RunReturns(c) ==
    /\ call[c].pc = "end" /\ io[call[c].run].err = <<>>
    /\ LET sent == [io EXCEPT ![call[c].run].err = <<call[c].err>>] IN
       io' = IF c \in Proposer THEN [sent EXCEPT ![call[c].inst].decidedAt = FALSE] ELSE sent
    /\ Done(c, call[c].err)
    /\ callUnchanged

-----------------------------------------------------------------------------
(* handle: a message of a peer that passed verification and the gater.     *)

HandleAdd(m) ==
    /\ handler.pc = "idle"
    /\ Add(TheDuty)
    /\ handler' = IF CanAdd(TheDuty) THEN [pc |-> "buffer", msg |-> m] ELSE handler
    /\ UNCHANGED <<current, io, call, outputs, lost>>

HandleLookup ==
    /\ handler.pc = "buffer"
    /\ handler' = [pc |-> "send", msg |-> handler.msg, recv |-> Lookup]
    /\ current' = Lookup /\ io' = Created
    /\ UNCHANGED <<expiryVars, call, outputs, lost>>

\* The message is put in the buffer, or the handler gives up waiting for room.
HandleSend ==
    /\ handler.pc = "send"
    /\ \/ /\ Len(io[handler.recv].recv) < RecvBufferSize
          /\ io' = [io EXCEPT ![handler.recv].recv = Append(@, handler.msg)]
       \/ UNCHANGED io
    /\ handler' = [pc |-> "idle"]
    /\ UNCHANGED <<expiryVars, current, call, outputs, lost>>

-----------------------------------------------------------------------------
\* The deadliner outputs the duty.  An assumption that is stronger than the promise
\* of DutyExpiry: its timer fires at the deadline, and every clock that is read
\* after that is past it.  In the very instant of the deadline deadliner.run would
\* accept a duty again that it has already output, since deadline.Before(now) is
\* false, and a second run of the duty could share an instance with the first.
DeadlineReached ==
    /\ phase[TheDuty] = 2 /\ Expire(TheDuty)
    /\ UNCHANGED conVars

Clock == DeadlineNears(TheDuty) /\ UNCHANGED conVars

Running(c) ==
    \/ MarkProposed(c) \/ PutValue(c) \/ PutHash(c) \/ MarkParticipated(c) \/ MaybeStart(c)
    \/ WaitErr(c) \/ RunLookup(c) \/ RunAdd(c) \/ RunBuffer(c) \/ RunReturns(c)
Algorithm(c) ==
    \/ TakeInput(c) \/ ProcessReceive(c) \/ RunFails(c)
    \/ \E v \in Value : Broadcast(c, v) \/ Decide(c, v)

Next ==
    \/ \E c \in Caller : Begin(c) \/ Running(c) \/ Algorithm(c)
    \/ \E m \in Messages : HandleAdd(m)
    \/ HandleLookup \/ HandleSend
    \/ DeadlineReached \/ Clock \/ deleteInstanceIO

\* The goroutines of the calls run, and each instance ends: its context has a
\* deadline.
Fairness == \A c \in Caller : WF_vars(Running(c)) /\ WF_vars(RunFails(c))
Spec == Init /\ [][Next]_vars /\ Fairness

-----------------------------------------------------------------------------
(* Properties.                                                             *)

\* Whatever hash the algorithm broadcasts, the transport knows its value
\* (transport.getValue never returns "unknown value"): the value of a proposal
\* is in its channel before the hash is, and those of a message are cached
\* before the algorithm receives it.
ValuesAreKnown ==
    \A c \in Caller : call[c].pc \in {"end", "done"} => call[c].err # "unknown"

\* The subscribers receive one value for a duty (Consensus.Subscribe), however
\* Propose, Participate, messages of peers and the deletion of the instance
\* (deleteInstanceIO) interleave, and though a deleted instance is created anew.
\* It rests on the assumption of DeadlineReached, as ValuesAreKnown does.
DecidedOnce == Len(outputs) <= 1

\* A call of Propose or Participate returns, also one that waits for the result
\* of the other (propose, on ErrCh) - unless the deadliner deletes the instance
\* between its lookup by a call and the one by the runInstance of that call: the
\* result is then sent to another instance, and nobody answers the call that
\* waits.
CallsReturn ==
    \A c \in Caller : call[c].pc # "idle" ~> (call[c].pc = "done" \/ lost)
=============================================================================
