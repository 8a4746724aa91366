-------------------------------- MODULE QBFT --------------------------------
(***************************************************************************)
(* One consensus instance of core/qbft/qbft.go: the processes that execute *)
(* Run, and the messages they broadcast.                                   *)
(*                                                                         *)
(* The transport loses, delays, duplicates and reorders messages, and a    *)
(* process keeps only the last FIFOLimit messages of each peer.  All of    *)
(* that is one abstraction here: msgs holds every message ever broadcast,  *)
(* and a rule may fire on any part of msgs, which stands for what is in    *)
(* the receiver's buffer when the message that triggers the rule arrives.  *)
(* Processes follow the code.  One that stops (its context is cancelled or *)
(* it crashes), or that has not started, is one that takes no further      *)
(* step; a restarted one runs with the state Run begins with, because none *)
(* of it is persisted.                                                     *)
(***************************************************************************)
EXTENDS Integers, FiniteSets

CONSTANTS
    Nodes,       \* Definition.Nodes, the number of processes
    Values,      \* the values that may be proposed
    Inputs,      \* for each process, the input values it may be given
    Zero,        \* zeroVal[V](), the value that stands for "no value"
    DutySeed,    \* int64(duty.Slot) + int64(duty.Type) of this instance
    MaxRound,    \* bound: the timer of this round never fires
    MaxRestarts  \* bound: how many processes crash and run again

ASSUME NodesAssumption == Nodes \in Nat \ {0}
ASSUME ZeroAssumption == Zero \notin Values
ASSUME InputsAssumption == Inputs \in [0 .. Nodes - 1 -> SUBSET Values]
ASSUME SeedAssumption == DutySeed \in Nat
ASSUME MaxRestartsAssumption == MaxRestarts \in Nat

VARIABLES
    panicked,               \* a sanity check failed, which ends Run
    round,                  \* current round of each process
    inputValue,             \* Zero until the input value channel was read
    ppjCache,               \* {} is nil, {j} is the cached justification j
    preparedRound,          \* 0 until prepared
    preparedValue,
    preparedJustification,
    qCommit,                \* the COMMITs that decided, {} before that
    dedupRules,             \* rules already executed, with the message round
    msgs,                   \* every message broadcast so far
    decisions,              \* <<process, value>> of every call of Decide
    restarted               \* the processes that crashed and ran again

local == <<panicked, round, inputValue, ppjCache, preparedRound, preparedValue,
           preparedJustification, qCommit, dedupRules>>
vars == <<local, msgs, decisions, restarted>>

Proc == 0 .. Nodes - 1

AnyValue == Values \cup {Zero}

-----------------------------------------------------------------------------
(* Definition and Msg *)

Quorum == (2 * Nodes + 2) \div 3

Faulty == (Nodes - 1) \div 3

IsLeader(r, p) == p = (DutySeed + r) % Nodes

\* Messages of a justification carry no justification of their own.
Msg(type, source, r, value, pr, pv, just) ==
    [type |-> type, source |-> source, round |-> r, value |-> value,
     pr |-> pr, pv |-> pv, just |-> just]

Bare(m) == [m EXCEPT !.just = {}]

Sources(S) == {m.source : m \in S}

HasQuorum(S) == Cardinality(Sources(S)) >= Quorum

UniqSource(S) == \A m, n \in S : m.source = n.source => m = n

FilterByRoundAndValue(S, type, r, value) ==
    {m \in S : m.type = type /\ m.round = r /\ m.value = value}

FilterRoundChange(S, r) == {m \in S : m.type = "ROUND_CHANGE" /\ m.round = r}

NullPrepared(m) == m.pr = 0 /\ m.pv = Zero

-----------------------------------------------------------------------------
(* Justification of received messages *)

\* getSingleJustifiedPrPv: the PREPAREs of S that are a quorum for (pr, pv).
SingleJustifiedPrPv(S, pr, pv) ==
    LET prepares == {m \in S : m.type = "PREPARE"}
    IN  /\ UniqSource(prepares)
        /\ \A m \in prepares : m.round = pr /\ m.value = pv
        /\ HasQuorum(prepares)

IsJustifiedRoundChange(m) ==
    IF m.just = {}
    THEN NullPrepared(m)
    ELSE /\ HasQuorum(m.just)
         /\ UniqSource(m.just)
         /\ \A j \in m.just : /\ j.type = "PREPARE"
                              /\ j.round = m.pr
                              /\ j.value = m.pv

IsJustifiedDecided(m) ==
    HasQuorum(FilterByRoundAndValue(m.just, "COMMIT", m.round, m.value))

\* containsJustifiedQrc with J1: every ROUND-CHANGE is null prepared.
ContainsNullQrc(just, r) ==
    LET qrc == FilterRoundChange(just, r)
    IN  HasQuorum(qrc) /\ \A rc \in qrc : NullPrepared(rc)

\* containsJustifiedQrc with J2: the quorum of PREPAREs in the justification
\* is for the highest prepared round and value of the ROUND-CHANGEs.
ContainsPreparedQrc(just, r, pv) ==
    LET qrc == FilterRoundChange(just, r)
    IN  /\ HasQuorum(qrc)
        /\ ~ \A rc \in qrc : NullPrepared(rc)
        /\ \E p \in just :
             /\ p.type = "PREPARE"
             /\ SingleJustifiedPrPv(just, p.round, pv)
             /\ \A rc \in qrc : rc.pr <= p.round
             /\ \E rc \in qrc : rc.pr = p.round /\ rc.pv = pv

IsJustifiedPrePrepare(m) ==
    /\ IsLeader(m.round, m.source)
    /\ \/ m.round = 1
       \/ ContainsNullQrc(m.just, m.round)
       \/ \E pv \in {Zero, m.value} : ContainsPreparedQrc(m.just, m.round, pv)

IsJustified(m) ==
    CASE m.type = "PRE_PREPARE"  -> IsJustifiedPrePrepare(m)
      [] m.type = "ROUND_CHANGE" -> IsJustifiedRoundChange(m)
      [] m.type = "DECIDED"      -> IsJustifiedDecided(m)
      [] OTHER                   -> TRUE

-----------------------------------------------------------------------------
(* What the buffer of a process may hold, out of the messages sent *)

\* Sets of quorum PREPAREs of one round and value (getPrepareQuorums), and of
\* quorum COMMITs.
QuorumsFor(type, r, v) ==
    {Q \in SUBSET FilterByRoundAndValue(msgs, type, r, v) : HasQuorum(Q)}

\* A bug: counts the ROUND-CHANGEs without filtering them.
NullQrcsUnfiltered(rcs) == {Q \in SUBSET rcs : HasQuorum(Q)}

\* J1 of getJustifiedQrc (quorumNullPrepared).
NullQrcs(rcs) ==
    {Q \in SUBSET {rc \in rcs : NullPrepared(rc)} : HasQuorum(Q)}

\* J2 of getJustifiedQrc, reached only when the buffer has no null quorum.
PreparedQrcs(rcs, pr, pv) ==
    {Q \in SUBSET {rc \in rcs : rc.pr <= pr} :
        /\ HasQuorum(Q) /\ UniqSource(Q)
        /\ ~ HasQuorum({rc \in Q : NullPrepared(rc)})
        /\ \E rc \in Q : rc.pr = pr /\ rc.pv = pv}

LaterRoundChanges(r) ==
    {m \in msgs : m.type = "ROUND_CHANGE" /\ IsJustified(m) /\ m.round > r}

\* A bug: keeps the nested justifications.
ReceivedRoundChangesNested(r) ==
    {m \in FilterRoundChange(msgs, r) : IsJustified(m)}

ReceivedRoundChanges(r) ==
    {Bare(m) : m \in {n \in FilterRoundChange(msgs, r) : IsJustified(n)}}

-----------------------------------------------------------------------------
(* Helpers of Run *)

Active(p) == ~ panicked[p] /\ qCommit[p] = {}

Broadcast(m) == msgs' = msgs \cup {m}

BroadcastMsg(p, type, r, value, just) ==
    Broadcast(Msg(type, p, r, value, 0, Zero, just))

\* A bug: leaves out the prepared state.
BroadcastRoundChangeUnprepared(p, r) ==
    Broadcast(Msg("ROUND_CHANGE", p, r, Zero, 0, Zero, {}))

BroadcastRoundChange(p, r) ==
    Broadcast(Msg("ROUND_CHANGE", p, r, Zero, preparedRound[p],
                  preparedValue[p], preparedJustification[p]))

\* A bug: the rules are not deduplicated.
IsDuplicatedRuleNever(p, rule, r) == FALSE

IsDuplicatedRule(p, rule, r) == <<rule, r>> \in dedupRules[p]

\* changeRound, after executed keys were added to dedupRules: it forgets them,
\* the key of the rule that changes the round included.
ChangeRound(p, newRound, executed) ==
    /\ round' = [round EXCEPT ![p] = newRound]
    /\ dedupRules' = [dedupRules EXCEPT
          ![p] = IF newRound = round[p] THEN @ \cup executed ELSE {}]
    /\ ppjCache' = [ppjCache EXCEPT
          ![p] = IF newRound = round[p] THEN @ ELSE {}]

\* A bug: no check for a missing input value.
BroadcastOwnPrePrepareUnchecked(p, just) ==
    /\ BroadcastMsg(p, "PRE_PREPARE", round[p], inputValue[p], just)
    /\ UNCHANGED <<panicked, ppjCache>>

\* broadcastOwnPrePrepare: panics if a justification is cached already, caches
\* this one if there is no input value, and else proposes the input value.
BroadcastOwnPrePrepare(p, just) ==
    IF ppjCache[p] # {}
    THEN /\ panicked' = [panicked EXCEPT ![p] = TRUE]
         /\ UNCHANGED <<ppjCache, msgs>>
    ELSE /\ \/ /\ inputValue[p] = Zero
               /\ ppjCache' = [ppjCache EXCEPT ![p] = {just}]
               /\ UNCHANGED msgs
            \/ /\ inputValue[p] # Zero
               /\ BroadcastMsg(p, "PRE_PREPARE", round[p], inputValue[p], just)
               /\ UNCHANGED ppjCache
         /\ UNCHANGED panicked

-----------------------------------------------------------------------------
(* Events of Run *)

\* Algorithm 1:11: the input value channel is read only in the event loop, so
\* the leader of round 1 begins by caching the empty justification.
InitialCache(p) == IF IsLeader(1, p) THEN {{}} ELSE {}

Init ==
    /\ panicked = [p \in Proc |-> FALSE]
    /\ round = [p \in Proc |-> 1]
    /\ inputValue = [p \in Proc |-> Zero]
    /\ ppjCache = [p \in Proc |-> InitialCache(p)]
    /\ preparedRound = [p \in Proc |-> 0]
    /\ preparedValue = [p \in Proc |-> Zero]
    /\ preparedJustification = [p \in Proc |-> {}]
    /\ qCommit = [p \in Proc |-> {}]
    /\ dedupRules = [p \in Proc |-> {}]
    /\ msgs = {}
    /\ decisions = {}
    /\ restarted = {}

\* An input value arrives: it is proposed at once if a justification waits.
ReceiveInput(p, v) ==
    /\ ~ panicked[p]
    /\ inputValue[p] = Zero
    /\ inputValue' = [inputValue EXCEPT ![p] = v]
    /\ \/ /\ ppjCache[p] = {}
          /\ UNCHANGED msgs
       \/ \E just \in ppjCache[p] :
             BroadcastMsg(p, "PRE_PREPARE", round[p], v, just)
    /\ UNCHANGED <<panicked, round, ppjCache, preparedRound, preparedValue,
                   preparedJustification, qCommit, dedupRules, decisions,
                   restarted>>

\* Algorithm 2:1, for the current round or a later one.
UponJustifiedPrePrepare(p, m) ==
    /\ Active(p)
    /\ m.type = "PRE_PREPARE" /\ IsJustified(m)
    /\ m.round >= round[p]
    /\ ~ IsDuplicatedRule(p, "PRE_PREPARE", m.round)
    /\ ChangeRound(p, m.round, {<<"PRE_PREPARE", m.round>>})
    /\ BroadcastMsg(p, "PREPARE", m.round, m.value, {})
    /\ UNCHANGED <<panicked, inputValue, preparedRound, preparedValue,
                   preparedJustification, qCommit, decisions, restarted>>

\* Algorithm 2:4, for the current round.
UponQuorumPrepares(p, v, prepares) ==
    /\ Active(p)
    /\ ~ IsDuplicatedRule(p, "QUORUM_PREPARES", round[p])
    /\ dedupRules' = [dedupRules EXCEPT
                        ![p] = @ \cup {<<"QUORUM_PREPARES", round[p]>>}]
    /\ preparedRound' = [preparedRound EXCEPT ![p] = round[p]]
    /\ preparedValue' = [preparedValue EXCEPT ![p] = v]
    /\ preparedJustification' = [preparedJustification EXCEPT ![p] = prepares]
    /\ BroadcastMsg(p, "COMMIT", round[p], v, {})
    /\ UNCHANGED <<panicked, round, inputValue, ppjCache, qCommit, decisions,
                   restarted>>

\* Algorithm 2:8: Decide on COMMITs of round r, the current one for COMMITs
\* received one by one and any round for those of a DECIDED.
Decide(p, rule, r, v, commits) ==
    /\ ChangeRound(p, r, {<<rule, r>>})
    /\ qCommit' = [qCommit EXCEPT ![p] = commits]
    /\ decisions' = decisions \cup {<<p, v>>}
    /\ UNCHANGED <<panicked, inputValue, preparedRound, preparedValue,
                   preparedJustification, msgs, restarted>>

UponQuorumCommits(p, v, commits) ==
    /\ Active(p)
    /\ Decide(p, "QUORUM_COMMITS", round[p], v, commits)

UponJustifiedDecided(p, m) ==
    /\ Active(p)
    /\ m.type = "DECIDED" /\ IsJustified(m)
    /\ Decide(p, "DECIDED", m.round, m.value, m.just)

\* Algorithm 3:17: a decided process answers a ROUND-CHANGE of another one.
ReplyDecided(p) ==
    /\ ~ panicked[p] /\ qCommit[p] # {}
    /\ {m \in msgs : m.type = "ROUND_CHANGE" /\ m.source # p} # {}
    /\ \E v \in {c.value : c \in qCommit[p]} :
         BroadcastMsg(p, "DECIDED", round[p], v, qCommit[p])
    /\ UNCHANGED <<local, decisions, restarted>>

\* nextMinRound: the smallest round of the ROUND-CHANGEs.
IsNextMinRound(frc, r) == \A m \in frc : r <= m.round

\* Algorithm 3:5.  getFPlus1RoundChanges stops at the first F+1 sources, so
\* any F+1 later ROUND-CHANGEs of different processes may be the ones used.
UponFPlus1RoundChanges(p, frc) ==
    /\ Active(p)
    /\ Cardinality(frc) = Faulty + 1 /\ UniqSource(frc)
    /\ \E min \in frc :
         /\ IsNextMinRound(frc, min.round)
         /\ ChangeRound(p, min.round, {})
         /\ BroadcastRoundChange(p, min.round)
    /\ UNCHANGED <<panicked, inputValue, preparedRound, preparedValue,
                   preparedJustification, qCommit, decisions, restarted>>

\* Algorithm 3:11, for the leader of the current round: propose the prepared
\* value of the justification if it has one, and else the own input value.
UponQuorumRoundChanges(p) ==
    /\ Active(p)
    /\ IsLeader(round[p], p)
    /\ ~ IsDuplicatedRule(p, "QUORUM_ROUND_CHANGES", round[p])
    /\ dedupRules' = [dedupRules EXCEPT
                        ![p] = @ \cup {<<"QUORUM_ROUND_CHANGES", round[p]>>}]
    /\ LET rcs == ReceivedRoundChanges(round[p])
       IN  \/ \E qrc \in NullQrcs(rcs) : BroadcastOwnPrePrepare(p, qrc)
           \/ \E rc \in rcs :
              \E qrc \in PreparedQrcs(rcs, rc.pr, rc.pv) :
              \E prepares \in QuorumsFor("PREPARE", rc.pr, rc.pv) :
                 /\ BroadcastMsg(p, "PRE_PREPARE", round[p], rc.pv,
                                 qrc \cup prepares)
                 /\ UNCHANGED <<panicked, ppjCache>>
    /\ UNCHANGED <<round, inputValue, preparedRound, preparedValue,
                   preparedJustification, qCommit, decisions, restarted>>

\* Algorithm 3:1
Timeout(p) ==
    /\ Active(p)
    /\ round[p] < MaxRound
    /\ ChangeRound(p, round[p] + 1, {})
    /\ BroadcastRoundChange(p, round[p] + 1)
    /\ UNCHANGED <<panicked, inputValue, preparedRound, preparedValue,
                   preparedJustification, qCommit, decisions, restarted>>

\* The node crashes and runs the instance again with none of its state.
Restart(p) ==
    /\ p \notin restarted /\ Cardinality(restarted) < MaxRestarts
    /\ restarted' = restarted \cup {p}
    /\ panicked' = [panicked EXCEPT ![p] = FALSE]
    /\ round' = [round EXCEPT ![p] = 1]
    /\ inputValue' = [inputValue EXCEPT ![p] = Zero]
    /\ ppjCache' = [ppjCache EXCEPT ![p] = InitialCache(p)]
    /\ preparedRound' = [preparedRound EXCEPT ![p] = 0]
    /\ preparedValue' = [preparedValue EXCEPT ![p] = Zero]
    /\ preparedJustification' = [preparedJustification EXCEPT ![p] = {}]
    /\ qCommit' = [qCommit EXCEPT ![p] = {}]
    /\ dedupRules' = [dedupRules EXCEPT ![p] = {}]
    /\ UNCHANGED <<msgs, decisions>>

Next ==
    \E p \in Proc :
        \/ \E v \in Inputs[p] : ReceiveInput(p, v)
        \/ \E m \in msgs : UponJustifiedPrePrepare(p, m)
        \/ \E v \in AnyValue : \E S \in QuorumsFor("PREPARE", round[p], v) :
               UponQuorumPrepares(p, v, S)
        \/ \E v \in AnyValue : \E S \in QuorumsFor("COMMIT", round[p], v) :
               UponQuorumCommits(p, v, S)
        \/ \E m \in msgs : UponJustifiedDecided(p, m)
        \/ ReplyDecided(p)
        \/ \E S \in SUBSET LaterRoundChanges(round[p]) :
               UponFPlus1RoundChanges(p, S)
        \/ UponQuorumRoundChanges(p)
        \/ Timeout(p)

Spec == Init /\ [][Next]_vars

\* The instance when nodes may crash and run it again.
CrashNext == Next \/ \E p \in Proc : Restart(p)

CrashSpec == Init /\ [][CrashNext]_vars

-----------------------------------------------------------------------------
(* Properties *)

MsgTypes == {"PRE_PREPARE", "PREPARE", "COMMIT", "ROUND_CHANGE", "DECIDED"}

BareMsgs ==
    [type : MsgTypes, source : Proc, round : Nat, value : AnyValue,
     pr : Nat, pv : AnyValue, just : {{}}]

Msgs ==
    {m \in [type : MsgTypes, source : Proc, round : Nat, value : AnyValue,
            pr : Nat, pv : AnyValue, just : SUBSET BareMsgs] :
        m.type \in {"PREPARE", "COMMIT"} => m.just = {}}

Rules == {"PRE_PREPARE", "QUORUM_PREPARES", "QUORUM_COMMITS", "DECIDED",
          "QUORUM_ROUND_CHANGES"}

\* The state of Run and the messages on the wire have the types of the code;
\* a justification never holds a message that has a justification (the panic
\* "nested justifications" of flatten).
TypeOK ==
    /\ panicked \in [Proc -> BOOLEAN]
    /\ round \in [Proc -> Nat]
    /\ inputValue \in [Proc -> AnyValue]
    /\ ppjCache \in [Proc -> SUBSET (SUBSET BareMsgs)]
    /\ preparedRound \in [Proc -> Nat]
    /\ preparedValue \in [Proc -> AnyValue]
    /\ preparedJustification \in [Proc -> SUBSET BareMsgs]
    /\ qCommit \in [Proc -> SUBSET BareMsgs]
    /\ dedupRules \in [Proc -> SUBSET (Rules \X Nat)]
    /\ msgs \subseteq Msgs
    /\ decisions \subseteq Proc \X AnyValue
    /\ restarted \subseteq Proc

\* No two calls of Decide, of any two processes in any two rounds, deliver
\* different values.
Agreement == \A d, e \in decisions : d[2] = e[2]

\* A decided value is the input value of some process: the value survives the
\* round changes only by being prepared, never by being made up.
Validity ==
    \A d \in decisions : d[2] # Zero /\ \E p \in Proc : inputValue[p] = d[2]

\* Everything that Run broadcasts passes the isJustified of every receiver:
\* what getJustifiedQrc and the prepared state put together at the sender is
\* what containsJustifiedQrc and isJustifiedRoundChange accept.
SentAreJustified == \A m \in msgs : IsJustified(m)

\* The sanity check of broadcastOwnPrePrepare never fires: no process leaves
\* Run because a justification is already cached.
NoSanityPanic == \A p \in Proc : ~ panicked[p]

\* Once a quorum has sent COMMITs for a value, whether or not any process has
\* seen them all, no leader proposes another value in a later round.
CommittedValueIsLocked ==
    \A c \in {m \in msgs : m.type = "COMMIT"} :
        HasQuorum(FilterByRoundAndValue(msgs, "COMMIT", c.round, c.value)) =>
            \A m \in msgs : m.type = "PRE_PREPARE" /\ m.round > c.round
                            => m.value = c.value

\* A process that never crashed sends PREPARE for at most one value in a round:
\* dedupRules keeps it from executing the PRE-PREPARE rule again in the round.
OnePreparePerRound ==
    \A m, n \in msgs :
        /\ m.type = "PREPARE" /\ n.type = "PREPARE"
        /\ m.round = n.round /\ m.source = n.source
        /\ m.source \notin restarted
        => m.value = n.value

-----------------------------------------------------------------------------
(***************************************************************************)
(* The inductive invariant behind Agreement, when no process loses its     *)
(* state.  A proposal is safe at a round if no other value can ever get a  *)
(* quorum of COMMITs in an earlier round: some quorum has either committed *)
(* that very value there or has moved on without committing.               *)
(***************************************************************************)
Sent(type, p, r, v) ==
    \E m \in msgs : /\ m.type = type /\ m.source = p
                    /\ m.round = r /\ m.value = v

Proposed(r, v) == \E p \in Proc : Sent("PRE_PREPARE", p, r, v)

Quorums == {Q \in SUBSET Proc : Cardinality(Q) >= Quorum}

Chosen(r, v) == \E Q \in Quorums : \A q \in Q : Sent("COMMIT", q, r, v)

WontCommit(q, r) ==
    /\ \A v \in AnyValue : ~ Sent("COMMIT", q, r, v)
    /\ Active(q) => round[q] > r

SafeAt(r, v) ==
    \A c \in 1 .. r - 1 : \E Q \in Quorums : \A q \in Q :
        Sent("COMMIT", q, c, v) \/ WontCommit(q, c)

\* A PRE-PREPARE is the leader's, is safe, and is the only one of its round:
\* its sender has left the round, or dedupRules and ppjCache keep it from
\* proposing in that round again.
ProposalInv(m) ==
    LET p == m.source
    IN  /\ IsLeader(m.round, p) /\ m.round >= 1
        /\ SafeAt(m.round, m.value)
        /\ m.value # Zero /\ \E q \in Proc : inputValue[q] = m.value
        /\ m.round = round[p] /\ ppjCache[p] # {} => inputValue[p] # Zero
        /\ Active(p) => /\ m.round <= round[p]
                        /\ \/ m.round # round[p] \/ m.round = 1
                           \/ <<"QUORUM_ROUND_CHANGES", m.round>> \in dedupRules[p]

OneProposal ==
    \A m, n \in msgs :
        m.type = "PRE_PREPARE" /\ n.type = "PRE_PREPARE" /\ m.round = n.round
        => m.value = n.value

\* A ROUND-CHANGE tells the last COMMIT that its sender has sent, or will ever
\* send, before the round it asks for.
RoundChangeInv(m) ==
    /\ m.round >= 2 /\ m.pr < m.round
    /\ Active(m.source) => m.round <= round[m.source]
    /\ \A c \in msgs : c.type = "COMMIT" /\ c.source = m.source
                       => c.round <= m.pr \/ c.round >= m.round

MsgInv ==
    \A m \in msgs :
        /\ m.type = "PRE_PREPARE" => ProposalInv(m)
        /\ m.type = "PREPARE" => Proposed(m.round, m.value)
        /\ m.type = "COMMIT" => /\ Proposed(m.round, m.value)
                               /\ m.round <= preparedRound[m.source]
        /\ m.type = "ROUND_CHANGE" => RoundChangeInv(m)
        /\ m.type = "DECIDED" => m.just \subseteq msgs

\* A cached justification belongs to the current round, and lets the leader
\* propose any value there.
CacheInv(p) ==
    ppjCache[p] # {} =>
        /\ IsLeader(round[p], p)
        /\ round[p] # 1 =>
             /\ \A just \in ppjCache[p] :
                  HasQuorum(just) /\ \A rc \in just : /\ NullPrepared(rc)
                                                     /\ \E m \in msgs :
                      m.type = "ROUND_CHANGE" /\ m.round = round[p] /\ Bare(m) = rc
             /\ Active(p) =>
                  <<"QUORUM_ROUND_CHANGES", round[p]>> \in dedupRules[p]

ProcInv(p) ==
    /\ round[p] >= 1
    /\ Active(p) => preparedRound[p] <= round[p]
    /\ qCommit[p] \subseteq msgs
    /\ CacheInv(p)

\* TypeOK, and what the messages and the processes say of each other.
IInv ==
    /\ TypeOK
    /\ restarted = {}
    /\ OneProposal
    /\ MsgInv
    /\ \A p \in Proc : ProcInv(p)
    /\ \A d \in decisions : \E c \in msgs : /\ c.type = "COMMIT" /\ c.value = d[2]
                                         /\ Chosen(c.round, d[2])

-----------------------------------------------------------------------------
(***************************************************************************)
(* The inductive invariant behind SentAreJustified: what a process keeps to *)
(* justify a later message with is what the receivers will ask for.        *)
(***************************************************************************)
AreCommits(S, r, v) ==
    HasQuorum(S) /\ \A c \in S : c.type = "COMMIT" /\ c.round = r /\ c.value = v

\* getPrepareQuorums keys PREPAREs by their source, so that two of one source
\* must not differ.
JustifiedInv(m) ==
    /\ IsJustified(m)
    /\ m.type = "PREPARE" => NullPrepared(m)
    /\ m.type = "DECIDED" => AreCommits(m.just, m.round, m.value)

PreparedInv(p) ==
    \/ /\ preparedJustification[p] = {}
       /\ preparedRound[p] = 0 /\ preparedValue[p] = Zero
    \/ /\ preparedJustification[p] # {}
       /\ HasQuorum(preparedJustification[p]) /\ UniqSource(preparedJustification[p])
       /\ \A m \in preparedJustification[p] :
             m.type = "PREPARE" /\ m.round = preparedRound[p] /\ m.value = preparedValue[p]

DecidedInv(p) ==
    qCommit[p] # {} => \E v \in AnyValue : AreCommits(qCommit[p], round[p], v)

JInv ==
    /\ \A m \in msgs : JustifiedInv(m)
    /\ \A p \in Proc : PreparedInv(p) /\ DecidedInv(p) /\ ~ panicked[p]
=============================================================================
