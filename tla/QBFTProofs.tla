----------------------------- MODULE QBFTProofs -----------------------------
(***************************************************************************)
(* The inductive invariant of QBFT, for every number of nodes, every set   *)
(* of values and every number of rounds, when no process loses its state,  *)
(* and what follows from it: agreement, validity, single votes, locked     *)
(* values and justified messages.                                          *)
(***************************************************************************)
EXTENDS QBFT, FiniteSetTheorems, TLAPS

\* Most leaves are first-order: Zenon is tried before the SMT solver.
USE ZenonT(4), SMTT(20)

-----------------------------------------------------------------------------
(* Quorums *)

\* The processes are a finite set of Nodes elements.
LEMMA ProcFinite == IsFiniteSet(Proc) /\ Cardinality(Proc) = Nodes
BY NodesAssumption, FS_Interval DEF Proc

\* Definition.Quorum is positive, and two quorums of it exceed Nodes.
LEMMA QuorumSize == Quorum \in Nat /\ Quorum >= 1 /\ 2 * Quorum > Nodes
BY NodesAssumption DEF Quorum

\* Any two quorums have a process in common.
LEMMA QuorumIntersection ==
    ASSUME NEW Q \in Quorums, NEW R \in Quorums
    PROVE  \E q \in Q : q \in R
<1> SUFFICES ASSUME Q \cap R = {} PROVE FALSE
    OBVIOUS
<1>1. Q \subseteq Proc /\ R \subseteq Proc
    BY DEF Quorums
<1>2. IsFiniteSet(Q) /\ IsFiniteSet(R) /\ IsFiniteSet(Q \cup R)
    BY <1>1, ProcFinite, FS_Subset
<1>3. Cardinality(Q \cup R) <= Nodes /\ Cardinality(Q \cup R) \in Nat
    BY <1>1, <1>2, ProcFinite, FS_Subset, FS_CardinalityType
<1>4. Cardinality(Q \cup R) = Cardinality(Q) + Cardinality(R)
    <2>1. Cardinality(Q \cup R)
            = Cardinality(Q) + Cardinality(R) - Cardinality(Q \cap R)
        BY <1>2, FS_Union
    <2>2. Cardinality(Q \cap R) = 0
        BY FS_EmptySet
    <2> QED
        BY <1>2, <2>1, <2>2, FS_CardinalityType
<1>5. Cardinality(Q) >= Quorum /\ Cardinality(R) >= Quorum
    BY DEF Quorums
<1> QED
    BY <1>2, <1>3, <1>4, <1>5, QuorumSize, NodesAssumption, FS_CardinalityType

\* A quorum is not empty.
LEMMA QuorumNonEmpty ==
    ASSUME NEW Q \in Quorums
    PROVE  \E q \in Proc : q \in Q
BY QuorumIntersection DEF Quorums

\* The senders of a set of messages that the code counts as a quorum.
LEMMA SourcesQuorum ==
    ASSUME NEW S \in SUBSET Msgs, HasQuorum(S)
    PROVE  Sources(S) \in Quorums
<1>1. Sources(S) \subseteq Proc
    BY DEF Sources, Msgs
<1> QED
    BY <1>1 DEF HasQuorum, Quorums

-----------------------------------------------------------------------------
(* Type correctness *)

\* The messages that Run builds are messages, and justifications are made of
\* messages without one.
LEMMA MsgType ==
    ASSUME NEW type \in MsgTypes, NEW p \in Proc, NEW r \in Nat,
           NEW v \in AnyValue, NEW pr \in Nat, NEW pv \in AnyValue,
           NEW just \in SUBSET BareMsgs,
           type \in {"PREPARE", "COMMIT"} => just = {}
    PROVE  Msg(type, p, r, v, pr, pv, just) \in Msgs
BY DEF Msg, Msgs

\* Dropping the justification of a message keeps its other fields.
LEMMA BareType ==
    ASSUME NEW m \in Msgs
    PROVE  /\ Bare(m) \in BareMsgs
           /\ Bare(m).type = m.type /\ Bare(m).source = m.source
           /\ Bare(m).round = m.round /\ Bare(m).value = m.value
           /\ Bare(m).pr = m.pr /\ Bare(m).pv = m.pv
BY DEF Bare, Msgs, BareMsgs

\* PREPAREs and COMMITs carry no justification, so a quorum of them may be
\* put into one.
LEMMA VoteType ==
    ASSUME TypeOK, NEW type \in {"PREPARE", "COMMIT"}, NEW r, NEW v,
           NEW Q \in QuorumsFor(type, r, v)
    PROVE  Q \subseteq BareMsgs /\ Q \subseteq msgs
<1>1. \A m \in Msgs : m.just = {} => m \in BareMsgs
    BY DEF Msgs, BareMsgs
<1> QED
    BY <1>1 DEF TypeOK, QuorumsFor, FilterByRoundAndValue, Msgs

\* The ROUND-CHANGEs that classify collects have no justification left.
LEMMA RoundChangesType ==
    ASSUME TypeOK, NEW r
    PROVE  ReceivedRoundChanges(r) \subseteq BareMsgs
BY BareType DEF TypeOK, ReceivedRoundChanges, FilterRoundChange

\* Every step of Run keeps the types of its state and of its messages.
LEMMA TypeStep ==
    ASSUME TypeOK, [Next]_vars
    PROVE  TypeOK'
<1> USE DEF TypeOK
<1>1. CASE UNCHANGED vars
    BY <1>1 DEF vars, local
<1>2. ASSUME NEW p \in Proc, NEW v \in Inputs[p], ReceiveInput(p, v)
      PROVE  TypeOK'
    <2>1. v \in AnyValue
        BY <1>2, InputsAssumption DEF AnyValue, Proc
    <2>2. msgs' \subseteq Msgs
        <3>1. ASSUME NEW just \in ppjCache[p]
              PROVE  Msg("PRE_PREPARE", p, round[p], v, 0, Zero, just) \in Msgs
            BY <2>1, MsgType, Zenon DEF MsgTypes, AnyValue
        <3> QED
            BY <1>2, <3>1 DEF ReceiveInput, BroadcastMsg, Broadcast
    <2> QED
        BY <1>2, <2>1, <2>2 DEF ReceiveInput
<1>3. ASSUME NEW p \in Proc, NEW m \in msgs, UponJustifiedPrePrepare(p, m)
      PROVE  TypeOK'
    <2>1. m.round \in Nat /\ m.value \in AnyValue
        BY DEF Msgs
    <2>2. Msg("PREPARE", p, m.round, m.value, 0, Zero, {}) \in Msgs
        BY <2>1, MsgType, Zenon DEF MsgTypes, AnyValue
    <2>3. dedupRules' \in [Proc -> SUBSET (Rules \X Nat)]
        BY <1>3, <2>1 DEF UponJustifiedPrePrepare, ChangeRound, Rules
    <2> QED
        BY <1>3, <2>1, <2>2, <2>3
        DEF UponJustifiedPrePrepare, ChangeRound, BroadcastMsg, Broadcast
<1>4. ASSUME NEW p \in Proc, NEW v \in AnyValue,
             NEW S \in QuorumsFor("PREPARE", round[p], v),
             UponQuorumPrepares(p, v, S)
      PROVE  TypeOK'
    <2>1. S \subseteq BareMsgs
        BY VoteType
    <2>2. Msg("COMMIT", p, round[p], v, 0, Zero, {}) \in Msgs
        BY MsgType, Zenon DEF MsgTypes, AnyValue
    <2> QED
        BY <1>4, <2>1, <2>2 DEF UponQuorumPrepares, BroadcastMsg, Broadcast, Rules
<1>5. ASSUME NEW p \in Proc, NEW v \in AnyValue,
             NEW S \in QuorumsFor("COMMIT", round[p], v),
             UponQuorumCommits(p, v, S)
      PROVE  TypeOK'
    <2>1. S \subseteq BareMsgs
        BY VoteType
    <2> QED
        BY <1>5, <2>1 DEF UponQuorumCommits, Decide, ChangeRound, Rules
<1>6. ASSUME NEW p \in Proc, NEW m \in msgs, UponJustifiedDecided(p, m)
      PROVE  TypeOK'
    <2>1. m.round \in Nat /\ m.value \in AnyValue /\ m.just \subseteq BareMsgs
        BY DEF Msgs
    <2> QED
        BY <1>6, <2>1 DEF UponJustifiedDecided, Decide, ChangeRound, Rules
<1>7. ASSUME NEW p \in Proc, ReplyDecided(p)
      PROVE  TypeOK'
    <2>1. ASSUME NEW v \in {c.value : c \in qCommit[p]}
          PROVE  Msg("DECIDED", p, round[p], v, 0, Zero, qCommit[p]) \in Msgs
        <3>1. v \in AnyValue
            BY DEF BareMsgs
        <3> QED
            BY <3>1, MsgType, Zenon DEF MsgTypes, AnyValue
    <2> QED
        BY <1>7, <2>1 DEF ReplyDecided, BroadcastMsg, Broadcast, local
<1>8. ASSUME NEW p \in Proc, NEW S \in SUBSET LaterRoundChanges(round[p]),
             UponFPlus1RoundChanges(p, S)
      PROVE  TypeOK'
    <2>1. PICK min \in S : ChangeRound(p, min.round, {})
                           /\ BroadcastRoundChange(p, min.round)
        BY <1>8 DEF UponFPlus1RoundChanges
    <2>2. min.round \in Nat
        BY DEF LaterRoundChanges, Msgs
    <2>3. Msg("ROUND_CHANGE", p, min.round, Zero, preparedRound[p],
              preparedValue[p], preparedJustification[p]) \in Msgs
        BY <2>2, MsgType, Zenon DEF MsgTypes, AnyValue
    <2> QED
        BY <1>8, <2>1, <2>2, <2>3
        DEF UponFPlus1RoundChanges, ChangeRound, BroadcastRoundChange, Broadcast
<1>9. ASSUME NEW p \in Proc, UponQuorumRoundChanges(p)
      PROVE  TypeOK'
    <2> DEFINE rcs == ReceivedRoundChanges(round[p])
    <2>1. rcs \subseteq BareMsgs
        BY RoundChangesType
    <2>2. CASE \E qrc \in NullQrcs(rcs) : BroadcastOwnPrePrepare(p, qrc)
        <3>1. PICK qrc \in NullQrcs(rcs) : BroadcastOwnPrePrepare(p, qrc)
            BY <2>2
        <3>2. qrc \in SUBSET BareMsgs
            BY <2>1 DEF NullQrcs
        <3>3. Msg("PRE_PREPARE", p, round[p], inputValue[p], 0, Zero, qrc) \in Msgs
            BY <3>2, MsgType, Zenon DEF MsgTypes, AnyValue
        <3>4. dedupRules' \in [Proc -> SUBSET (Rules \X Nat)]
            BY <1>9 DEF UponQuorumRoundChanges, Rules
        <3>5. /\ panicked' \in [Proc -> BOOLEAN]
              /\ msgs' \subseteq Msgs
              /\ ppjCache' \in [Proc -> SUBSET (SUBSET BareMsgs)]
            <4>1. CASE ppjCache[p] # {}
                BY <3>1, <4>1, Zenon DEF BroadcastOwnPrePrepare
            <4>2. CASE ppjCache[p] = {}
                <5>1. panicked' = panicked
                    BY <3>1, <4>2 DEF BroadcastOwnPrePrepare
                <5>2. \/ ppjCache' = [ppjCache EXCEPT ![p] = {qrc}]
                      \/ ppjCache' = ppjCache
                    BY <3>1, <4>2 DEF BroadcastOwnPrePrepare
                <5>3. msgs' \subseteq Msgs
                    BY <3>1, <3>3, <4>2
                    DEF BroadcastOwnPrePrepare, BroadcastMsg, Broadcast
                <5> QED
                    BY <3>2, <5>1, <5>2, <5>3
            <4> QED
                BY <4>1, <4>2
        <3> QED
            BY <1>9, <3>4, <3>5 DEF UponQuorumRoundChanges
    <2>3. CASE \E rc \in rcs : \E qrc \in PreparedQrcs(rcs, rc.pr, rc.pv) :
               \E prepares \in QuorumsFor("PREPARE", rc.pr, rc.pv) :
                 /\ BroadcastMsg(p, "PRE_PREPARE", round[p], rc.pv, qrc \cup prepares)
                 /\ UNCHANGED <<panicked, ppjCache>>
        <3>1. PICK rc \in rcs : \E qrc \in PreparedQrcs(rcs, rc.pr, rc.pv) :
               \E prepares \in QuorumsFor("PREPARE", rc.pr, rc.pv) :
                 /\ BroadcastMsg(p, "PRE_PREPARE", round[p], rc.pv, qrc \cup prepares)
                 /\ UNCHANGED <<panicked, ppjCache>>
            BY <2>3, Zenon
        <3>2. PICK qrc \in PreparedQrcs(rcs, rc.pr, rc.pv) :
               \E prepares \in QuorumsFor("PREPARE", rc.pr, rc.pv) :
                 /\ BroadcastMsg(p, "PRE_PREPARE", round[p], rc.pv, qrc \cup prepares)
                 /\ UNCHANGED <<panicked, ppjCache>>
            BY <3>1, Zenon
        <3>3. PICK prepares \in QuorumsFor("PREPARE", rc.pr, rc.pv) :
                 /\ BroadcastMsg(p, "PRE_PREPARE", round[p], rc.pv, qrc \cup prepares)
                 /\ UNCHANGED <<panicked, ppjCache>>
            BY <3>2, Zenon
        <3>4. qrc \cup prepares \in SUBSET BareMsgs
            BY <2>1, VoteType DEF PreparedQrcs
        <3>5. rc.pv \in AnyValue
            BY <2>1 DEF BareMsgs
        <3>6. Msg("PRE_PREPARE", p, round[p], rc.pv, 0, Zero, qrc \cup prepares) \in Msgs
            BY <3>4, <3>5, MsgType, Zenon DEF MsgTypes, AnyValue
        <3>7. dedupRules' \in [Proc -> SUBSET (Rules \X Nat)]
            BY <1>9 DEF UponQuorumRoundChanges, Rules
        <3>8. msgs' \subseteq Msgs
            BY <3>3, <3>6 DEF BroadcastMsg, Broadcast
        <3> QED
            BY <1>9, <3>3, <3>7, <3>8 DEF UponQuorumRoundChanges
    <2> QED
        BY <1>9, <2>2, <2>3, Zenon DEF UponQuorumRoundChanges
<1>10. ASSUME NEW p \in Proc, Timeout(p)
       PROVE  TypeOK'
    <2>0. round[p] + 1 \in Nat
        OBVIOUS
    <2>1. Msg("ROUND_CHANGE", p, round[p] + 1, Zero, preparedRound[p],
              preparedValue[p], preparedJustification[p]) \in Msgs
        BY <2>0, MsgType, Zenon DEF MsgTypes, AnyValue
    <2> QED
        BY <1>10, <2>1 DEF Timeout, ChangeRound, BroadcastRoundChange, Broadcast
<1> HIDE DEF TypeOK
<1> QED
    BY <1>1, <1>2, <1>3, <1>4, <1>5, <1>6, <1>7, <1>8, <1>9, <1>10 DEF Next

-----------------------------------------------------------------------------
(* What no step takes back, when no process restarts *)

\* A quorum of votes in the buffer: some process sent one of them, and the
\* senders are a quorum of processes.
LEMMA VoteQuorum ==
    ASSUME TypeOK, NEW type \in {"PREPARE", "COMMIT"}, NEW r, NEW v,
           NEW Q \in QuorumsFor(type, r, v)
    PROVE  /\ Sources(Q) \in Quorums
           /\ \A q \in Sources(Q) : Sent(type, q, r, v)
           /\ \E m \in msgs : m.type = type /\ m.round = r /\ m.value = v
<1>1. Q \subseteq msgs /\ HasQuorum(Q)
      /\ \A m \in Q : m.type = type /\ m.round = r /\ m.value = v
    BY DEF QuorumsFor, FilterByRoundAndValue
<1>2. Sources(Q) \in Quorums
    BY <1>1, SourcesQuorum DEF TypeOK
<1>3. \A q \in Sources(Q) : Sent(type, q, r, v)
    BY <1>1 DEF Sources, Sent
<1> QED
    BY <1>2, <1>3, QuorumNonEmpty DEF Sent

\* The part of the invariant that is about one proposal or one round change.
LEMMA ProposalOf ==
    ASSUME IInv, NEW m \in msgs, m.type = "PRE_PREPARE"
    PROVE  ProposalInv(m)
BY DEF IInv, MsgInv

\* What a ROUND-CHANGE that was sent tells of its sender.
LEMMA RoundChangeOf ==
    ASSUME IInv, NEW m \in msgs, m.type = "ROUND_CHANGE"
    PROVE  RoundChangeInv(m)
BY DEF IInv, MsgInv

\* The cached or received ROUND-CHANGEs are messages that were sent.
LEMMA ReceivedAreSent ==
    ASSUME TypeOK, NEW r, NEW rc \in ReceivedRoundChanges(r)
    PROVE  \E m \in msgs : m.type = "ROUND_CHANGE" /\ m.round = r /\ Bare(m) = rc
BY DEF ReceivedRoundChanges, FilterRoundChange

\* A quorum of ROUND-CHANGEs holds one of round two or later.
LEMMA QrcRound ==
    ASSUME IInv, NEW r, NEW Q \in SUBSET ReceivedRoundChanges(r), HasQuorum(Q)
    PROVE  r >= 2
<1>1. Q \subseteq BareMsgs
    BY RoundChangesType DEF IInv
<1>2. Q \subseteq Msgs
    BY <1>1 DEF BareMsgs, Msgs
<1>3. PICK q \in Proc : q \in Sources(Q)
    BY <1>2, SourcesQuorum, QuorumNonEmpty
<1>4. PICK rc \in Q : TRUE
    BY <1>3 DEF Sources
<1>5. PICK m \in msgs : m.type = "ROUND_CHANGE" /\ m.round = r /\ Bare(m) = rc
    BY <1>4, ReceivedAreSent DEF IInv
<1> QED
    BY <1>5, RoundChangeOf DEF RoundChangeInv

\* The leader's QUORUM_ROUND_CHANGES rule fires before any proposal of its.
LEMMA FirstProposal ==
    ASSUME IInv, NEW p \in Proc, Active(p), NEW Q \in SUBSET ReceivedRoundChanges(round[p]),
           HasQuorum(Q), ~ IsDuplicatedRule(p, "QUORUM_ROUND_CHANGES", round[p])
    PROVE  \A m \in msgs : m.type = "PRE_PREPARE" /\ m.source = p => m.round # round[p]
<1>1. round[p] >= 2
    BY QrcRound
<1> QED
    BY <1>1, ProposalOf DEF ProposalInv, IsDuplicatedRule

\* The justification of a DECIDED holds a quorum of COMMITs that were sent.
LEMMA DecidedQuorum ==
    ASSUME IInv, NEW m \in msgs, m.type = "DECIDED", IsJustified(m)
    PROVE  /\ FilterByRoundAndValue(m.just, "COMMIT", m.round, m.value)
                 \in QuorumsFor("COMMIT", m.round, m.value)
           /\ m.just # {}
           /\ m.just \subseteq msgs
<1>1. m.just \subseteq msgs
    BY DEF IInv, MsgInv
<1>2. HasQuorum(FilterByRoundAndValue(m.just, "COMMIT", m.round, m.value))
    BY DEF IsJustified, IsJustifiedDecided
<1>3. FilterByRoundAndValue(m.just, "COMMIT", m.round, m.value)
         \in QuorumsFor("COMMIT", m.round, m.value)
    BY <1>1, <1>2 DEF QuorumsFor, FilterByRoundAndValue
<1>4. m.just # {}
    <2> DEFINE Q == FilterByRoundAndValue(m.just, "COMMIT", m.round, m.value)
    <2>1. PICK q \in Proc : q \in Sources(Q)
        BY <1>3, VoteQuorum, QuorumNonEmpty DEF IInv
    <2> QED
        BY <2>1 DEF Sources, FilterByRoundAndValue
<1> QED
    BY <1>1, <1>3, <1>4

NewMsgsOK ==
    /\ msgs \subseteq msgs'
    /\ \A m \in msgs' \ msgs :
         m.type = "COMMIT" => Active(m.source) /\ m.round = round[m.source]

ProcStep(q) ==
    /\ Active(q)' => Active(q) /\ round[q] <= round'[q]
    /\ Active(q)' /\ round'[q] = round[q] => dedupRules[q] \subseteq dedupRules'[q]
    /\ preparedRound[q] <= preparedRound'[q]
    /\ inputValue[q] # Zero => inputValue'[q] = inputValue[q]
    /\ ppjCache'[q] # {} /\ inputValue'[q] = Zero =>
         /\ round'[q] = round[q] /\ inputValue[q] = Zero
         /\ \/ ppjCache[q] # {}
            \/ \A m \in msgs : m.type = "PRE_PREPARE" /\ m.source = q
                                => m.round # round[q]

Untouched(q) ==
    /\ panicked'[q] = panicked[q] /\ round'[q] = round[q]
    /\ inputValue'[q] = inputValue[q] /\ ppjCache'[q] = ppjCache[q]
    /\ preparedRound'[q] = preparedRound[q] /\ qCommit'[q] = qCommit[q]
    /\ dedupRules'[q] = dedupRules[q]

Step == NewMsgsOK /\ \A q \in Proc : ProcStep(q)

\* A step of one process takes nothing back if its own part does not.
LEMMA OneProcSteps ==
    ASSUME TypeOK, NEW p \in Proc, NewMsgsOK, ProcStep(p),
           \A q \in Proc \ {p} : Untouched(q)
    PROVE  Step
<1>1. \A q \in Proc \ {p} : ProcStep(q)
    BY DEF Untouched, ProcStep, TypeOK, Active
<1> QED
    BY <1>1 DEF Step

\* A step forgets no message, takes no running process back,
\* and a new COMMIT is of its sender's current round.
LEMMA StepFacts ==
    ASSUME IInv, Next
    PROVE  Step
<1> USE DEF Active
<1>t. TypeOK /\ restarted = {}
    BY DEF IInv
<1>2. ASSUME NEW p \in Proc, NEW v \in Inputs[p], ReceiveInput(p, v)
      PROVE  Step
    <2>1. v # Zero
        BY <1>2, InputsAssumption, ZeroAssumption DEF Proc
    <2>2. NewMsgsOK
        BY <1>2 DEF ReceiveInput, BroadcastMsg, Broadcast, Msg, NewMsgsOK
    <2>3. ProcStep(p) /\ \A q \in Proc \ {p} : Untouched(q)
        BY <1>t, <1>2, <2>1 DEF ReceiveInput, ProcStep, Untouched, TypeOK
    <2> QED
        BY <1>t, <2>2, <2>3, OneProcSteps
<1>3. ASSUME NEW p \in Proc, NEW m \in msgs, UponJustifiedPrePrepare(p, m)
      PROVE  Step
    <2>1. NewMsgsOK
        BY <1>3 DEF UponJustifiedPrePrepare, BroadcastMsg, Broadcast, Msg, NewMsgsOK
    <2>2. m.round \in Nat
        BY <1>t DEF TypeOK, Msgs
    <2>3. ProcStep(p) /\ \A q \in Proc \ {p} : Untouched(q)
        BY <1>t, <1>3, <2>2
        DEF UponJustifiedPrePrepare, ChangeRound, ProcStep, Untouched, TypeOK
    <2> QED
        BY <1>t, <2>1, <2>3, OneProcSteps
<1>4. ASSUME NEW p \in Proc, NEW v \in AnyValue,
             NEW S \in QuorumsFor("PREPARE", round[p], v),
             UponQuorumPrepares(p, v, S)
      PROVE  Step
    <2>1. preparedRound[p] <= round[p]
        BY <1>4 DEF UponQuorumPrepares, IInv, ProcInv
    <2>2. NewMsgsOK
        BY <1>4 DEF UponQuorumPrepares, BroadcastMsg, Broadcast, Msg, NewMsgsOK
    <2>3. ProcStep(p) /\ \A q \in Proc \ {p} : Untouched(q)
        BY <1>t, <1>4, <2>1 DEF UponQuorumPrepares, ProcStep, Untouched, TypeOK
    <2> QED
        BY <1>t, <2>2, <2>3, OneProcSteps
<1>5. ASSUME NEW p \in Proc, NEW r \in Nat, NEW v, NEW S, NEW rule,
             Active(p), S # {}, Decide(p, rule, r, v, S)
      PROVE  Step
    <2>1. NewMsgsOK
        BY <1>5 DEF Decide, NewMsgsOK
    <2>2. ProcStep(p) /\ \A q \in Proc \ {p} : Untouched(q)
        BY <1>t, <1>5 DEF Decide, ChangeRound, ProcStep, Untouched, TypeOK
    <2> QED
        BY <1>t, <2>1, <2>2, OneProcSteps
<1>6. ASSUME NEW p \in Proc, NEW v \in AnyValue,
             NEW S \in QuorumsFor("COMMIT", round[p], v),
             UponQuorumCommits(p, v, S)
      PROVE  Step
    <2>1. S # {}
        <3>1. "COMMIT" \in {"PREPARE", "COMMIT"}
            OBVIOUS
        <3>2. Sources(S) \in Quorums
            BY <1>t, <3>1, VoteQuorum
        <3>3. PICK q \in Proc : q \in Sources(S)
            BY <3>2, QuorumNonEmpty
        <3> QED
            BY <3>3 DEF Sources
    <2>2. round[p] \in Nat
        BY <1>t DEF TypeOK
    <2> QED
        BY <1>5, <1>6, <2>1, <2>2 DEF UponQuorumCommits
<1>7. ASSUME NEW p \in Proc, NEW m \in msgs, UponJustifiedDecided(p, m)
      PROVE  Step
    <2>1. m.just # {}
        BY <1>7, DecidedQuorum DEF UponJustifiedDecided
    <2>2. m.round \in Nat
        BY <1>t DEF TypeOK, Msgs
    <2> QED
        BY <1>5, <1>7, <2>1, <2>2 DEF UponJustifiedDecided
<1>8. ASSUME NEW p \in Proc, ReplyDecided(p)
      PROVE  Step
    <2>1. NewMsgsOK
        BY <1>8 DEF ReplyDecided, BroadcastMsg, Broadcast, Msg, NewMsgsOK
    <2>2. ProcStep(p) /\ \A q \in Proc \ {p} : Untouched(q)
        BY <1>t, <1>8 DEF ReplyDecided, local, ProcStep, Untouched, TypeOK
    <2> QED
        BY <1>t, <2>1, <2>2, OneProcSteps
<1>9. ASSUME NEW p \in Proc, NEW r \in Nat, r > round[p], Active(p),
             ChangeRound(p, r, {}), BroadcastRoundChange(p, r),
             UNCHANGED <<panicked, inputValue, preparedRound, preparedValue,
                         preparedJustification, qCommit>>
      PROVE  Step
    <2>1. NewMsgsOK
        BY <1>9 DEF BroadcastRoundChange, Broadcast, Msg, NewMsgsOK
    <2>2. ProcStep(p) /\ \A q \in Proc \ {p} : Untouched(q)
        BY <1>t, <1>9 DEF ChangeRound, ProcStep, Untouched, TypeOK
    <2> QED
        BY <1>t, <2>1, <2>2, OneProcSteps
<1>10. ASSUME NEW p \in Proc, NEW S \in SUBSET LaterRoundChanges(round[p]),
              UponFPlus1RoundChanges(p, S)
       PROVE  Step
    <2>1. PICK min \in S : ChangeRound(p, min.round, {})
                           /\ BroadcastRoundChange(p, min.round)
        BY <1>10 DEF UponFPlus1RoundChanges
    <2>2. min.round \in Nat /\ min.round > round[p]
        BY <1>t DEF LaterRoundChanges, Msgs, TypeOK
    <2> QED
        BY <1>9, <1>10, <2>1, <2>2 DEF UponFPlus1RoundChanges
<1>11. ASSUME NEW p \in Proc, Timeout(p)
       PROVE  Step
    <2>1. round[p] + 1 \in Nat /\ round[p] + 1 > round[p]
        BY <1>t DEF TypeOK
    <2> QED
        BY <1>9, <1>11, <2>1 DEF Timeout
<1>12. ASSUME NEW p \in Proc, UponQuorumRoundChanges(p)
       PROVE  Step
    <2> DEFINE rcs == ReceivedRoundChanges(round[p])
    <2>1. ASSUME NEW qrc \in NullQrcs(rcs), BroadcastOwnPrePrepare(p, qrc)
          PROVE  Step
        <3>1. \A m \in msgs : m.type = "PRE_PREPARE" /\ m.source = p => m.round # round[p]
            BY <1>12, FirstProposal DEF NullQrcs, UponQuorumRoundChanges
        <3>2. NewMsgsOK
            BY <2>1 DEF BroadcastOwnPrePrepare, BroadcastMsg, Broadcast, Msg, NewMsgsOK
        <3>3. /\ \A q \in Proc : Active(q)' => Active(q)
              /\ \A q \in Proc \ {p} : /\ ppjCache'[q] = ppjCache[q]
                                       /\ panicked'[q] = panicked[q]
            BY <1>t, <1>12, <2>1
            DEF BroadcastOwnPrePrepare, UponQuorumRoundChanges, TypeOK
        <3>4. ProcStep(p)
            BY <1>t, <1>12, <3>1, <3>3 DEF UponQuorumRoundChanges, ProcStep, TypeOK
        <3>5. \A q \in Proc \ {p} : Untouched(q)
            BY <1>t, <1>12, <3>3 DEF UponQuorumRoundChanges, Untouched, TypeOK
        <3> QED
            BY <1>t, <3>2, <3>4, <3>5, OneProcSteps
    <2>2. ASSUME NEW rc \in rcs, NEW just, UNCHANGED <<panicked, ppjCache>>,
                 BroadcastMsg(p, "PRE_PREPARE", round[p], rc.pv, just)
          PROVE  Step
        <3>1. NewMsgsOK
            BY <2>2 DEF BroadcastMsg, Broadcast, Msg, NewMsgsOK
        <3>2. ProcStep(p) /\ \A q \in Proc \ {p} : Untouched(q)
            BY <1>t, <1>12, <2>2
            DEF UponQuorumRoundChanges, ProcStep, Untouched, TypeOK
        <3> QED
            BY <1>t, <3>1, <3>2, OneProcSteps
    <2> QED
        BY <1>12, <2>1, <2>2, Zenon DEF UponQuorumRoundChanges
<1> QED
    BY <1>2, <1>3, <1>4, <1>6, <1>7, <1>8, <1>10, <1>11, <1>12 DEF Next

\* A value stays proposed, committed and safe: later COMMITs are of later rounds.
LEMMA SentStable ==
    ASSUME Step, NEW type, NEW p, NEW r, NEW v, Sent(type, p, r, v)
    PROVE  Sent(type, p, r, v)'
BY DEF Step, NewMsgsOK, Sent

\* A PRE-PREPARE is never taken back.
LEMMA ProposedStable ==
    ASSUME Step, NEW r, NEW v, Proposed(r, v)
    PROVE  Proposed(r, v)'
BY DEF Step, NewMsgsOK, Sent, Proposed

\* A quorum of COMMITs is never taken back.
LEMMA ChosenStable ==
    ASSUME Step, NEW r, NEW v, Chosen(r, v)
    PROVE  Chosen(r, v)'
BY DEF Step, NewMsgsOK, Sent, Chosen

\* A process that has left a round without a COMMIT never sends one there.
LEMMA WontCommitStable ==
    ASSUME TypeOK, TypeOK', Step, NEW q \in Proc, NEW r \in Nat, WontCommit(q, r)
    PROVE  WontCommit(q, r)'
<1>1. Active(q)' => round'[q] > r
    BY DEF Step, ProcStep, WontCommit, TypeOK
<1>2. ASSUME NEW v \in AnyValue, Sent("COMMIT", q, r, v)'
      PROVE  FALSE
    <2>1. PICK m \in msgs' : m.type = "COMMIT" /\ m.source = q /\ m.round = r /\ m.value = v
        BY <1>2 DEF Sent
    <2>2. m \notin msgs
        BY <2>1 DEF WontCommit, Sent
    <2>3. Active(q) /\ r = round[q]
        BY <2>1, <2>2 DEF Step, NewMsgsOK
    <2> QED
        BY <2>3 DEF WontCommit, TypeOK
<1> QED
    BY <1>1, <1>2 DEF WontCommit

\* A safe proposal stays safe, whatever is sent later.
LEMMA SafeStable ==
    ASSUME TypeOK, TypeOK', Step, NEW r \in Nat, NEW v, SafeAt(r, v)
    PROVE  SafeAt(r, v)'
<1> SUFFICES ASSUME NEW c \in 1 .. r - 1
             PROVE  \E Q \in Quorums : \A q \in Q : (Sent("COMMIT", q, c, v) \/ WontCommit(q, c))'
    BY DEF SafeAt
<1>1. PICK Q \in Quorums : \A q \in Q : Sent("COMMIT", q, c, v) \/ WontCommit(q, c)
    BY DEF SafeAt
<1>2. c \in Nat
    OBVIOUS
<1>3. ASSUME NEW q \in Q
      PROVE  Sent("COMMIT", q, c, v)' \/ WontCommit(q, c)'
    <2>1. q \in Proc
        BY DEF Quorums
    <2> QED
        BY <1>1, <1>2, <2>1, SentStable, WontCommitStable
<1> QED
    BY <1>3

-----------------------------------------------------------------------------
(* What the leader of a round may propose *)

\* A ROUND-CHANGE for round r whose prepared round is at most k: its sender
\* has committed nothing strictly between k and r, and never will.
LEMMA RoundChangeSkips ==
    ASSUME IInv, NEW m \in msgs, m.type = "ROUND_CHANGE",
           NEW c \in Nat, m.pr < c, c < m.round
    PROVE  m.source \in Proc /\ WontCommit(m.source, c)
<1>1. m \in Msgs
    BY DEF IInv, TypeOK
<1>2. m.source \in Proc /\ m.pr \in Nat /\ m.round \in Nat
    BY <1>1 DEF Msgs
<1>3. RoundChangeInv(m)
    BY DEF IInv, MsgInv
<1>4. Active(m.source) => round[m.source] > c
    BY <1>2, <1>3 DEF RoundChangeInv, IInv, TypeOK
<1>5. \A v \in AnyValue : ~ Sent("COMMIT", m.source, c, v)
    BY <1>2, <1>3 DEF RoundChangeInv, Sent
<1> QED
    BY <1>2, <1>4, <1>5 DEF WontCommit

SentRoundChanges(S, r) ==
    \A rc \in S : \E m \in msgs :
        m.type = "ROUND_CHANGE" /\ m.round = r /\ Bare(m) = rc

\* The senders of a quorum of ROUND-CHANGEs for r, each with a prepared round
\* below c, are a quorum that will not commit in round c.
LEMMA QuorumSkips ==
    ASSUME IInv, NEW r \in Nat, NEW S \in SUBSET BareMsgs, HasQuorum(S),
           SentRoundChanges(S, r), NEW c \in Nat, c < r,
           \A rc \in S : rc.pr < c
    PROVE  /\ Sources(S) \in Quorums
           /\ \A q \in Sources(S) : WontCommit(q, c)
<1>1. S \subseteq Msgs
    BY DEF BareMsgs, Msgs
<1>2. Sources(S) \in Quorums
    BY <1>1, SourcesQuorum
<1>3. ASSUME NEW q \in Sources(S)
      PROVE  WontCommit(q, c)
    <2>1. PICK rc \in S : rc.source = q
        BY <1>3 DEF Sources
    <2>2. PICK m \in msgs : m.type = "ROUND_CHANGE" /\ m.round = r /\ Bare(m) = rc
        BY DEF SentRoundChanges
    <2>3. m.source = q /\ m.pr < c
        BY <2>1, <2>2, BareType DEF IInv, TypeOK
    <2> QED
        BY <2>2, <2>3, RoundChangeSkips
<1> QED
    BY <1>2, <1>3

\* J1: after a quorum of null prepared ROUND-CHANGEs any value is safe.
LEMMA NullQuorumSafe ==
    ASSUME IInv, NEW r \in Nat, NEW S \in SUBSET BareMsgs, HasQuorum(S),
           SentRoundChanges(S, r), \A rc \in S : NullPrepared(rc), NEW v
    PROVE  SafeAt(r, v)
<1> SUFFICES ASSUME NEW c \in 1 .. r - 1
             PROVE  \E Q \in Quorums : \A q \in Q : WontCommit(q, c)
    BY DEF SafeAt
<1>1. \A rc \in S : rc.pr < c
    BY DEF NullPrepared
<1> QED
    BY <1>1, QuorumSkips

\* The value of a quorum of PREPAREs was proposed in their round, is safe there
\* and is the only value that can be committed in that round.
LEMMA PreparedWasProposed ==
    ASSUME IInv, NEW k \in Nat, NEW v, NEW m \in msgs,
           m.type \in {"PREPARE", "COMMIT"}, m.round = k, m.value = v
    PROVE  \E n \in msgs : /\ n.type = "PRE_PREPARE" /\ n.round = k /\ n.value = v
                           /\ ProposalInv(n)
<1>1. Proposed(k, v)
    BY DEF IInv, MsgInv
<1> QED
    BY <1>1 DEF Proposed, Sent, IInv, MsgInv

\* J2: the value of a prepared quorum is safe, given the quorum of PREPAREs for
\* the highest prepared round among the ROUND-CHANGEs.
LEMMA PreparedQuorumSafe ==
    ASSUME IInv, NEW r \in Nat, NEW S \in SUBSET BareMsgs, HasQuorum(S),
           SentRoundChanges(S, r), NEW k \in Nat, k < r, \A rc \in S : rc.pr <= k,
           NEW v, NEW m \in msgs, m.type = "PREPARE", m.round = k, m.value = v
    PROVE  SafeAt(r, v)
<1>1. PICK n \in msgs : /\ n.type = "PRE_PREPARE" /\ n.round = k /\ n.value = v
                        /\ ProposalInv(n)
    BY PreparedWasProposed
<1>2. \A rc \in S : rc.pr \in Nat
    BY DEF BareMsgs
<1> SUFFICES ASSUME NEW c \in 1 .. r - 1
             PROVE  \E Q \in Quorums : \A q \in Q :
                        Sent("COMMIT", q, c, v) \/ WontCommit(q, c)
    BY DEF SafeAt
<1>3. CASE c < k
    BY <1>1, <1>3 DEF ProposalInv, SafeAt
<1>4. CASE c > k
    BY <1>2, <1>4, QuorumSkips
<1>5. CASE c = k
    <2>1. S \subseteq Msgs
        BY DEF BareMsgs, Msgs
    <2>2. Sources(S) \in Quorums
        BY <2>1, SourcesQuorum
    <2>3. ASSUME NEW q \in Sources(S), ~ Sent("COMMIT", q, c, v)
          PROVE  WontCommit(q, c)
        <3>1. PICK rc \in S : rc.source = q
            BY <2>3 DEF Sources
        <3>2. PICK x \in msgs : x.type = "ROUND_CHANGE" /\ x.round = r /\ Bare(x) = rc
            BY DEF SentRoundChanges
        <3>3. x.source = q
            BY <3>1, <3>2, BareType DEF IInv, TypeOK
        <3>4. q \in Proc /\ (Active(q) => r <= round[q])
            <4>1. q \in Proc
                BY <3>2, <3>3 DEF IInv, TypeOK, Msgs
            <4> QED
                BY <3>2, <3>3, <4>1, RoundChangeOf DEF RoundChangeInv
        <3>5. Active(q) => round[q] > c
            BY <3>4 DEF IInv, TypeOK
        <3>6. ASSUME NEW w \in AnyValue, Sent("COMMIT", q, c, w)
              PROVE  FALSE
            <4>1. PICK y \in msgs : y.type = "COMMIT" /\ y.source = q /\ y.round = c
                                    /\ y.value = w
                BY <3>6 DEF Sent
            <4>2. PICK z \in msgs : z.type = "PRE_PREPARE" /\ z.round = k /\ z.value = w
                BY <1>5, <4>1, PreparedWasProposed
            <4>3. w = v
                BY <1>1, <4>2 DEF IInv, OneProposal
            <4> QED
                BY <2>3, <3>6, <4>3
        <3> QED
            BY <3>5, <3>6 DEF WontCommit
    <2> QED
        BY <2>2, <2>3
<1> QED
    BY <1>3, <1>4, <1>5

-----------------------------------------------------------------------------
(* The messages *)

MsgClauses(m) ==
    /\ m.type = "PRE_PREPARE" => ProposalInv(m)
    /\ m.type = "PREPARE" => Proposed(m.round, m.value)
    /\ m.type = "COMMIT" => /\ Proposed(m.round, m.value)
                           /\ m.round <= preparedRound[m.source]
    /\ m.type = "ROUND_CHANGE" => RoundChangeInv(m)
    /\ m.type = "DECIDED" => m.just \subseteq msgs

\* The types of what a process holds, before and after a step.
LEMMA ProcTypes ==
    ASSUME TypeOK, TypeOK', NEW p \in Proc
    PROVE  /\ round[p] \in Nat /\ preparedRound[p] \in Nat /\ inputValue[p] \in AnyValue
           /\ round'[p] \in Nat /\ preparedRound'[p] \in Nat
BY DEF TypeOK

\* A message that was sent before the step keeps its part of the invariant.
LEMMA OldMsgs ==
    ASSUME IInv, TypeOK', Step, NEW m \in msgs
    PROVE  MsgClauses(m)'
<1>0. TypeOK /\ MsgClauses(m) /\ m \in Msgs
    BY DEF IInv, MsgInv, MsgClauses, TypeOK
<1>t. m.source \in Proc /\ m.round \in Nat /\ m.pr \in Nat /\ m.value \in AnyValue
    BY <1>0 DEF Msgs
<1>u. PICK p \in Proc : p = m.source
    BY <1>t
<1>v. /\ round[p] \in Nat /\ preparedRound[p] \in Nat
      /\ round'[p] \in Nat /\ preparedRound'[p] \in Nat
    BY <1>0, ProcTypes
<1>s. ProcStep(p)
    BY DEF Step
<1>r. Active(p)' => Active(p) /\ round[p] <= round'[p]
    BY <1>s DEF ProcStep
<1>1. ASSUME m.type = "PRE_PREPARE"
      PROVE  ProposalInv(m)'
    <2>1. ProposalInv(m)
        BY <1>0, <1>1 DEF MsgClauses
    <2>2. SafeAt(m.round, m.value)'
        BY <1>0, <1>t, <2>1, SafeStable DEF ProposalInv
    <2>3. \E q \in Proc : inputValue'[q] = m.value
        BY <2>1 DEF ProposalInv, Step, ProcStep
    <2>4. m.round = round'[m.source] /\ ppjCache'[m.source] # {}
            => inputValue'[m.source] # Zero
        BY <1>1, <1>t, <2>1 DEF ProposalInv, Step, ProcStep
    <2>5. Active(m.source)' =>
            /\ m.round <= round'[m.source]
            /\ \/ m.round # round'[m.source] \/ m.round = 1
               \/ <<"QUORUM_ROUND_CHANGES", m.round>> \in dedupRules'[m.source]
        <3>1. Active(p) => /\ m.round <= round[p]
                           /\ \/ m.round # round[p] \/ m.round = 1
                              \/ <<"QUORUM_ROUND_CHANGES", m.round>> \in dedupRules[p]
            BY <1>u, <2>1 DEF ProposalInv
        <3>2. Active(p)' /\ round'[p] = round[p] => dedupRules[p] \subseteq dedupRules'[p]
            BY <1>s DEF ProcStep
        <3>3. Active(p)' => /\ m.round <= round'[p]
                            /\ \/ m.round # round'[p] \/ m.round = 1
                               \/ <<"QUORUM_ROUND_CHANGES", m.round>> \in dedupRules'[p]
            BY <1>t, <1>v, <1>r, <3>1, <3>2
        <3> QED
            BY <1>u, <3>3
    <2> QED
        BY <2>1, <2>2, <2>3, <2>4, <2>5 DEF ProposalInv
<1>2. m.type \in {"PREPARE", "COMMIT"} => Proposed(m.round, m.value)'
    BY <1>0, ProposedStable DEF MsgClauses
<1>3. m.type = "COMMIT" => m.round <= preparedRound'[m.source]
    <2>1. m.type = "COMMIT" => m.round <= preparedRound[p]
        BY <1>0, <1>u DEF MsgClauses
    <2>2. preparedRound[p] <= preparedRound'[p]
        BY <1>s DEF ProcStep
    <2> QED
        BY <1>t, <1>u, <1>v, <2>1, <2>2
<1>4. ASSUME m.type = "ROUND_CHANGE"
      PROVE  RoundChangeInv(m)'
    <2>1. RoundChangeInv(m)
        BY <1>0, <1>4 DEF MsgClauses
    <2>2. Active(m.source)' => m.round <= round'[m.source]
        <3>1. Active(p) => m.round <= round[p]
            BY <1>u, <2>1 DEF RoundChangeInv
        <3>2. Active(p)' => m.round <= round'[p]
            BY <1>t, <1>v, <1>r, <3>1
        <3> QED
            BY <1>u, <3>2
    <2>3. ASSUME NEW c \in msgs', c.type = "COMMIT", c.source = m.source
          PROVE  c.round <= m.pr \/ c.round >= m.round
        <3>1. CASE c \in msgs
            BY <2>1, <2>3, <3>1 DEF RoundChangeInv
        <3>2. CASE c \notin msgs
            BY <2>1, <2>3, <3>2 DEF RoundChangeInv, Step, NewMsgsOK
        <3> QED
            BY <3>1, <3>2
    <2> QED
        BY <2>1, <2>2, <2>3 DEF RoundChangeInv
<1>5. m.type = "DECIDED" => m.just \subseteq msgs'
    BY <1>0 DEF MsgClauses, Step, NewMsgsOK
<1> QED
    BY <1>1, <1>2, <1>3, <1>4, <1>5 DEF MsgClauses

NewMsgInv ==
    /\ \A m \in msgs' \ msgs : MsgClauses(m)'
    /\ OneProposal'

\* A proposal of the leader of its current round, where it has made none yet.
LEMMA NewProposal ==
    ASSUME IInv, TypeOK', Step, NEW p \in Proc, NEW v \in AnyValue, NEW just,
           msgs' = msgs \cup {Msg("PRE_PREPARE", p, round[p], v, 0, Zero, just)},
           IsLeader(round[p], p), SafeAt(round[p], v), v # Zero,
           \E q \in Proc : inputValue'[q] = v,
           round'[p] = round[p],
           inputValue'[p] # Zero \/ ppjCache'[p] = {},
           Active(p)' => \/ round[p] = 1
                         \/ <<"QUORUM_ROUND_CHANGES", round[p]>> \in dedupRules'[p],
           \A m \in msgs : m.type = "PRE_PREPARE" /\ m.source = p => m.round # round[p]
    PROVE  NewMsgInv
<1> DEFINE x == Msg("PRE_PREPARE", p, round[p], v, 0, Zero, just)
<1>x. x.type = "PRE_PREPARE" /\ x.source = p /\ x.round = round[p] /\ x.value = v
    BY DEF Msg
<1>t. TypeOK /\ round[p] \in Nat /\ round[p] >= 1
    BY DEF IInv, TypeOK, ProcInv
<1>2. ASSUME NEW m \in msgs' \ msgs
      PROVE  MsgClauses(m)'
    <2>1. m = x
        BY <1>2
    <2>2. m.type = "PRE_PREPARE" /\ m.source = p /\ m.round = round[p] /\ m.value = v
        BY <1>x, <2>1
    <2>3. SafeAt(m.round, m.value)'
        <3>1. PICK r \in Nat : r = round[p]
            BY <1>t
        <3>2. SafeAt(r, v)'
            BY <1>t, <3>1, SafeStable
        <3> QED
            BY <2>2, <3>1, <3>2 DEF SafeAt
    <2>4. ProposalInv(m)'
        <3>1. IsLeader(m.round, m.source)' /\ m.round >= 1
            BY <1>t, <2>2 DEF IsLeader
        <3> QED
            BY <1>t, <2>2, <2>3, <3>1 DEF ProposalInv
    <2> QED
        BY <2>2, <2>4 DEF MsgClauses
<1>3. ASSUME NEW m \in msgs, m.type = "PRE_PREPARE"
      PROVE  m.round # round[p]
    <2>1. ProposalInv(m)
        BY <1>3, ProposalOf
    <2>2. IsLeader(m.round, m.source)
        BY <2>1 DEF ProposalInv
    <2> QED
        BY <1>3, <2>2 DEF IsLeader
<1>4. OneProposal'
    <2> SUFFICES ASSUME NEW m \in msgs', NEW n \in msgs', m.round = n.round,
                        m.type = "PRE_PREPARE", n.type = "PRE_PREPARE"
                 PROVE  m.value = n.value
        BY DEF OneProposal
    <2>1. (m \in msgs \/ m = x) /\ (n \in msgs \/ n = x)
        OBVIOUS
    <2>2. CASE m \in msgs /\ n \in msgs
        BY <2>2 DEF IInv, OneProposal
    <2> HIDE DEF x
    <2> QED
        BY <1>x, <1>3, <2>1, <2>2
<1> QED
    BY <1>2, <1>4 DEF NewMsgInv

\* Any other message leaves the proposals alone.
LEMMA NewOther ==
    ASSUME IInv, NEW x, msgs' = msgs \/ msgs' = msgs \cup {x},
           x.type # "PRE_PREPARE", MsgClauses(x)'
    PROVE  NewMsgInv
BY DEF IInv, NewMsgInv, OneProposal

\* The QUORUM_ROUND_CHANGES rule proposes a safe value, and only once.
LEMMA QrcNewMsgs ==
    ASSUME IInv, TypeOK', Step, NEW p \in Proc, UponQuorumRoundChanges(p)
    PROVE  NewMsgInv
<1>y. TypeOK
    BY DEF IInv
<1>n. ASSUME msgs' = msgs PROVE NewMsgInv
    BY <1>n DEF IInv, NewMsgInv, OneProposal
<1> DEFINE rcs == ReceivedRoundChanges(round[p])
<1>t. rcs \subseteq BareMsgs /\ round[p] \in Nat
    BY <1>y, RoundChangesType DEF TypeOK
<1>1. Active(p) /\ IsLeader(round[p], p)
      /\ ~ IsDuplicatedRule(p, "QUORUM_ROUND_CHANGES", round[p])
    BY Zenon DEF UponQuorumRoundChanges
<1>2. round'[p] = round[p]
      /\ <<"QUORUM_ROUND_CHANGES", round[p]>> \in dedupRules'[p]
      /\ inputValue' = inputValue
    BY <1>y DEF UponQuorumRoundChanges, TypeOK
<1>3. ASSUME NEW qrc \in SUBSET rcs, HasQuorum(qrc)
      PROVE  /\ SentRoundChanges(qrc, round[p])
             /\ \A m \in msgs : m.type = "PRE_PREPARE" /\ m.source = p
                                => m.round # round[p]
    BY <1>y, <1>1, <1>3, FirstProposal, ReceivedAreSent DEF SentRoundChanges
<1>4. ASSUME NEW qrc \in NullQrcs(rcs), BroadcastOwnPrePrepare(p, qrc)
      PROVE  NewMsgInv
    <2>1. CASE msgs' = msgs
        BY <1>n, <2>1
    <2>2. CASE msgs' # msgs
        <3>1. /\ ppjCache[p] = {} /\ ppjCache' = ppjCache /\ inputValue[p] # Zero
              /\ msgs' = msgs \cup {Msg("PRE_PREPARE", p, round[p], inputValue[p],
                                          0, Zero, qrc)}
            BY <1>4, <2>2 DEF BroadcastOwnPrePrepare, BroadcastMsg, Broadcast
        <3>2. qrc \in SUBSET rcs /\ HasQuorum(qrc) /\ \A rc \in qrc : NullPrepared(rc)
            BY DEF NullQrcs
        <3>3. SafeAt(round[p], inputValue[p])
            BY <1>t, <1>3, <3>2, NullQuorumSafe
        <3>4. inputValue[p] \in AnyValue
            BY <1>y DEF TypeOK
        <3> QED
            BY <1>1, <1>2, <1>3, <3>1, <3>2, <3>3, <3>4, NewProposal
    <2> QED
        BY <2>1, <2>2
<1>5. ASSUME NEW rc \in rcs, NEW qrc \in PreparedQrcs(rcs, rc.pr, rc.pv),
             NEW prepares \in QuorumsFor("PREPARE", rc.pr, rc.pv),
             BroadcastMsg(p, "PRE_PREPARE", round[p], rc.pv, qrc \cup prepares),
             UNCHANGED <<panicked, ppjCache>>
      PROVE  NewMsgInv
    <2>t. rc.pr \in Nat /\ rc.pv \in AnyValue
        BY <1>t DEF BareMsgs
    <2>1. /\ qrc \in SUBSET rcs /\ HasQuorum(qrc)
          /\ \A x \in qrc : x.pr <= rc.pr
        BY DEF PreparedQrcs
    <2>2. PICK m \in msgs : m.type = "PREPARE" /\ m.round = rc.pr /\ m.value = rc.pv
        BY <1>y, VoteQuorum
    <2>3. PICK n \in msgs : /\ n.type = "PRE_PREPARE" /\ n.value = rc.pv
                            /\ ProposalInv(n)
        BY <2>t, <2>2, PreparedWasProposed
    <2>4. rc.pr < round[p]
        <3>1. PICK x \in msgs : x.type = "ROUND_CHANGE" /\ x.round = round[p]
                                /\ Bare(x) = rc
            BY <1>y, ReceivedAreSent
        <3>2. x.pr = rc.pr
            BY <1>y, <3>1, BareType DEF TypeOK
        <3> QED
            BY <3>1, <3>2, RoundChangeOf DEF RoundChangeInv
    <2>5. SafeAt(round[p], rc.pv)
        BY <1>t, <1>3, <2>t, <2>1, <2>2, <2>4, PreparedQuorumSafe
    <2>6. rc.pv # Zero /\ \E q \in Proc : inputValue'[q] = rc.pv
        BY <1>2, <2>3 DEF ProposalInv
    <2>7. inputValue'[p] # Zero \/ ppjCache'[p] = {}
        <3>1. CASE ppjCache[p] = {}
            BY <1>5, <3>1
        <3>2. CASE ppjCache[p] # {}
            <4>1. round[p] >= 2
                BY <2>1, QrcRound
            <4>2. CacheInv(p)
                BY DEF IInv, ProcInv
            <4>3. Active(p) /\ <<"QUORUM_ROUND_CHANGES", round[p]>> \notin dedupRules[p]
                BY <1>1 DEF IsDuplicatedRule
            <4> QED
                BY <3>2, <4>1, <4>2, <4>3 DEF CacheInv
        <3> QED
            BY <3>1, <3>2
    <2>8. msgs' = msgs \cup {Msg("PRE_PREPARE", p, round[p], rc.pv, 0, Zero,
                                  qrc \cup prepares)}
        BY <1>5 DEF BroadcastMsg, Broadcast
    <2> QED
        BY <1>1, <1>2, <1>3, <2>t, <2>1, <2>5, <2>6, <2>7, <2>8, NewProposal, Zenon
<1> QED
    BY <1>4, <1>5, Zenon DEF UponQuorumRoundChanges

\* What each action broadcasts satisfies the invariant.
LEMMA NewMsgsKeep ==
    ASSUME IInv, TypeOK', Next, Step
    PROVE  NewMsgInv
<1>t. TypeOK /\ restarted = {}
    BY DEF IInv
<1>n. ASSUME msgs' = msgs PROVE NewMsgInv
    BY <1>n DEF IInv, NewMsgInv, OneProposal
<1>2. ASSUME NEW p \in Proc, NEW v \in Inputs[p], ReceiveInput(p, v)
      PROVE  NewMsgInv
    <2>1. v # Zero /\ v \in AnyValue
        BY <1>2, InputsAssumption, ZeroAssumption DEF Proc, AnyValue
    <2>2. ASSUME NEW just \in ppjCache[p],
                 msgs' = msgs \cup {Msg("PRE_PREPARE", p, round[p], v, 0, Zero, just)}
          PROVE  NewMsgInv
        <3>1. CacheInv(p) /\ ppjCache[p] # {} /\ round[p] \in Nat /\ just \in SUBSET BareMsgs
            BY <2>2 DEF IInv, ProcInv, TypeOK
        <3>2. SafeAt(round[p], v)
            <4>1. CASE round[p] = 1
                BY <4>1 DEF SafeAt
            <4>2. CASE round[p] # 1
                <5>1. HasQuorum(just) /\ \A rc \in just : NullPrepared(rc)
                    BY <3>1, <4>2 DEF CacheInv
                <5>2. SentRoundChanges(just, round[p])
                    BY <3>1, <4>2 DEF CacheInv, SentRoundChanges
                <5> QED
                    BY <3>1, <5>1, <5>2, NullQuorumSafe
            <4> QED
                BY <4>1, <4>2
        <3>3. \A m \in msgs : m.type = "PRE_PREPARE" /\ m.source = p => m.round # round[p]
            <4>1. inputValue[p] = Zero
                BY <1>2 DEF ReceiveInput
            <4>2. ASSUME NEW m \in msgs, m.type = "PRE_PREPARE", m.source = p,
                         m.round = round[p]
                  PROVE  FALSE
                <5>1. ProposalInv(m)
                    BY <4>2, ProposalOf
                <5> QED
                    BY <3>1, <4>1, <4>2, <5>1 DEF ProposalInv
            <4> QED
                BY <4>2
        <3>4. IsLeader(round[p], p) /\ round'[p] = round[p] /\ inputValue'[p] = v
            BY <1>t, <1>2, <3>1 DEF ReceiveInput, CacheInv, TypeOK
        <3>5. Active(p)' => \/ round[p] = 1
                            \/ <<"QUORUM_ROUND_CHANGES", round[p]>> \in dedupRules'[p]
            BY <1>2, <3>1 DEF ReceiveInput, CacheInv, Active
        <3> QED
            BY <2>1, <2>2, <3>2, <3>3, <3>4, <3>5, NewProposal, Zenon
    <2> QED
        BY <1>2, <1>n, <2>2 DEF ReceiveInput, BroadcastMsg, Broadcast
<1>3. ASSUME NEW p \in Proc, NEW m \in msgs, UponJustifiedPrePrepare(p, m)
      PROVE  NewMsgInv
    <2> DEFINE x == Msg("PREPARE", p, m.round, m.value, 0, Zero, {})
    <2>1. Proposed(m.round, m.value)
        BY <1>t, <1>3 DEF UponJustifiedPrePrepare, Proposed, Sent, TypeOK, Msgs
    <2>2. Proposed(m.round, m.value)'
        BY <2>1, ProposedStable
    <2>3. x.type = "PREPARE" /\ x.round = m.round /\ x.value = m.value
        BY DEF Msg
    <2>4. MsgClauses(x)'
        BY <2>2, <2>3 DEF MsgClauses
    <2>5. msgs' = msgs \cup {x}
        BY <1>3 DEF UponJustifiedPrePrepare, BroadcastMsg, Broadcast
    <2> QED
        BY <2>3, <2>4, <2>5, NewOther
<1>4. ASSUME NEW p \in Proc, NEW v \in AnyValue,
             NEW S \in QuorumsFor("PREPARE", round[p], v),
             UponQuorumPrepares(p, v, S)
      PROVE  NewMsgInv
    <2> DEFINE x == Msg("COMMIT", p, round[p], v, 0, Zero, {})
    <2>1. PICK m \in msgs : m.type = "PREPARE" /\ m.round = round[p] /\ m.value = v
        BY <1>t, VoteQuorum
    <2>2. Proposed(m.round, m.value)'
        BY <2>1, ProposedStable DEF IInv, MsgInv
    <2>3. x.type = "COMMIT" /\ x.source = p /\ x.round = m.round /\ x.value = m.value
        BY <2>1 DEF Msg
    <2>4. preparedRound'[p] = round[p] /\ round[p] \in Nat
        BY <1>t, <1>4 DEF UponQuorumPrepares, TypeOK
    <2>5. ASSUME NEW y, y = x PROVE MsgClauses(y)'
        <3>1. y.type = "COMMIT" /\ y.source = p /\ y.round = m.round /\ y.value = m.value
            BY <2>3, <2>5
        <3>2. Proposed(y.round, y.value)'
            BY <2>2, <3>1 DEF Proposed
        <3>3. y.round <= preparedRound'[y.source]
            BY <2>1, <2>4, <3>1
        <3> QED
            BY <3>1, <3>2, <3>3 DEF MsgClauses
    <2>6. msgs' = msgs \cup {x}
        BY <1>4 DEF UponQuorumPrepares, BroadcastMsg, Broadcast
    <2>7. PICK y : y = x
        OBVIOUS
    <2> QED
        BY <2>3, <2>5, <2>6, <2>7, NewOther
<1>5. ASSUME NEW p \in Proc, NEW v \in AnyValue,
             NEW S \in QuorumsFor("COMMIT", round[p], v),
             UponQuorumCommits(p, v, S)
      PROVE  NewMsgInv
    BY <1>n, <1>5 DEF UponQuorumCommits, Decide
<1>6. ASSUME NEW p \in Proc, NEW m \in msgs, UponJustifiedDecided(p, m)
      PROVE  NewMsgInv
    BY <1>n, <1>6 DEF UponJustifiedDecided, Decide
<1>7. ASSUME NEW p \in Proc, ReplyDecided(p)
      PROVE  NewMsgInv
    <2>1. PICK x : /\ msgs' = msgs \cup {x}
                   /\ x.type = "DECIDED" /\ x.just = qCommit[p]
        <3>1. PICK v \in {c.value : c \in qCommit[p]} :
                 msgs' = msgs \cup {Msg("DECIDED", p, round[p], v, 0, Zero, qCommit[p])}
            BY <1>7 DEF ReplyDecided, BroadcastMsg, Broadcast
        <3> DEFINE y == Msg("DECIDED", p, round[p], v, 0, Zero, qCommit[p])
        <3>2. y.type = "DECIDED" /\ y.just = qCommit[p]
            BY DEF Msg
        <3>3. msgs' = msgs \cup {y}
            BY <3>1
        <3> HIDE DEF y
        <3> QED
            BY <3>2, <3>3
    <2>2. qCommit[p] \subseteq msgs'
        BY DEF IInv, ProcInv, Step, NewMsgsOK
    <2>3. MsgClauses(x)'
        BY <2>1, <2>2 DEF MsgClauses
    <2> QED
        BY <2>1, <2>3, NewOther
<1>8. ASSUME NEW p \in Proc, NEW r \in Nat, r > round[p], Active(p),
             ChangeRound(p, r, {}), BroadcastRoundChange(p, r)
      PROVE  NewMsgInv
    <2>1. PICK x : /\ msgs' = msgs \cup {x}
                   /\ x.type = "ROUND_CHANGE" /\ x.source = p /\ x.round = r
                   /\ x.pr = preparedRound[p]
        <3>1. msgs' = msgs \cup {Msg("ROUND_CHANGE", p, r, Zero, preparedRound[p],
                                      preparedValue[p], preparedJustification[p])}
            BY <1>8 DEF BroadcastRoundChange, Broadcast
        <3> DEFINE y == Msg("ROUND_CHANGE", p, r, Zero, preparedRound[p],
                            preparedValue[p], preparedJustification[p])
        <3>2. y.type = "ROUND_CHANGE" /\ y.source = p /\ y.round = r
              /\ y.pr = preparedRound[p]
            BY DEF Msg
        <3>3. msgs' = msgs \cup {y}
            BY <3>1
        <3> HIDE DEF y
        <3> QED
            BY <3>2, <3>3
    <2>2. round'[p] = r /\ round[p] \in Nat /\ preparedRound[p] \in Nat
        BY <1>t, <1>8 DEF ChangeRound, TypeOK
    <2>3. round[p] >= 1 /\ preparedRound[p] <= round[p]
        BY <1>8 DEF IInv, ProcInv
    <2>4. x.round >= 2 /\ x.pr < x.round
        BY <1>8, <2>1, <2>2, <2>3
    <2>5. ASSUME NEW c \in msgs', c.type = "COMMIT", c.source = p
          PROVE  c.round <= x.pr
        BY <2>1, <2>5 DEF IInv, MsgInv
    <2>6. RoundChangeInv(x)'
        BY <1>8, <2>1, <2>2, <2>4, <2>5 DEF RoundChangeInv
    <2>7. MsgClauses(x)'
        BY <2>1, <2>6 DEF MsgClauses
    <2> QED
        BY <2>1, <2>7, NewOther
<1>9. ASSUME NEW p \in Proc, NEW S \in SUBSET LaterRoundChanges(round[p]),
             UponFPlus1RoundChanges(p, S)
      PROVE  NewMsgInv
    <2>1. PICK min \in S : ChangeRound(p, min.round, {})
                           /\ BroadcastRoundChange(p, min.round)
        BY <1>9 DEF UponFPlus1RoundChanges
    <2>2. min.round \in Nat /\ min.round > round[p]
        BY <1>t DEF LaterRoundChanges, Msgs, TypeOK
    <2> QED
        BY <1>8, <1>9, <2>1, <2>2 DEF UponFPlus1RoundChanges
<1>10. ASSUME NEW p \in Proc, Timeout(p)
       PROVE  NewMsgInv
    <2>1. PICK r \in Nat : r = round[p] + 1
        BY <1>t DEF TypeOK
    <2>2. r > round[p]
        BY <1>t, <2>1 DEF TypeOK
    <2> QED
        BY <1>8, <1>10, <2>1, <2>2 DEF Timeout
<1>11. ASSUME NEW p \in Proc, UponQuorumRoundChanges(p)
       PROVE  NewMsgInv
    BY <1>11, QrcNewMsgs
<1> QED
    BY <1>2, <1>3, <1>4, <1>5, <1>6, <1>7, <1>9, <1>10, <1>11 DEF Next

-----------------------------------------------------------------------------
(* The processes and the decisions *)

\* What is left of the invariant of a process that a step does not touch, or
\* that it moves to another round.
LEMMA UntouchedKeeps ==
    ASSUME IInv, Step, NEW q \in Proc, Untouched(q)
    PROVE  ProcInv(q)'
<1>1. ProcInv(q) /\ msgs \subseteq msgs'
    BY DEF IInv, Step, NewMsgsOK
<1>2. CacheInv(q)'
    BY <1>1 DEF ProcInv, CacheInv, Untouched, Active
<1> QED
    BY <1>1, <1>2 DEF ProcInv, Untouched, Active

\* Changing the round clears the cache, so that what is cached is always of
\* the current round.
LEMMA ChangeRoundKeeps ==
    ASSUME IInv, Step, TypeOK', NEW p \in Proc, NEW r \in Nat, r >= 1, NEW executed,
           ChangeRound(p, r, executed), panicked' = panicked,
           preparedRound' = preparedRound,
           qCommit'[p] \subseteq msgs',
           r >= round[p] \/ qCommit'[p] # {}, qCommit[p] = {}
    PROVE  ProcInv(p)'
<1>1. ProcInv(p) /\ msgs \subseteq msgs' /\ TypeOK
    BY DEF IInv, Step, NewMsgsOK
<1>2. round'[p] = r
    BY <1>1 DEF ChangeRound, TypeOK
<1>3. CacheInv(p)'
    <2>1. CASE r = round[p]
        <3>1. ppjCache'[p] = ppjCache[p] /\ dedupRules[p] \subseteq dedupRules'[p]
            BY <1>1, <2>1 DEF ChangeRound, TypeOK
        <3> QED
            BY <1>1, <1>2, <2>1, <3>1 DEF ProcInv, CacheInv, Active
    <2>2. CASE r # round[p]
        <3>1. ppjCache'[p] = {}
            BY <1>1, <2>2 DEF ChangeRound, TypeOK
        <3> QED
            BY <3>1 DEF CacheInv
    <2> QED
        BY <2>1, <2>2
<1>4. Active(p)' => preparedRound'[p] <= round'[p]
    BY <1>1, <1>2 DEF ProcInv, Active, TypeOK
<1> QED
    BY <1>2, <1>3, <1>4 DEF ProcInv

\* A quorum of COMMITs that were sent makes its value chosen.
LEMMA QuorumChooses ==
    ASSUME TypeOK, NEW r, NEW v, NEW Q \in QuorumsFor("COMMIT", r, v)
    PROVE  \E c \in msgs : /\ c.type = "COMMIT" /\ c.round = r /\ c.value = v
                           /\ Chosen(r, v)
BY VoteQuorum DEF Chosen

DecisionsInv ==
    \A d \in decisions : \E c \in msgs : /\ c.type = "COMMIT" /\ c.value = d[2]
                                         /\ Chosen(c.round, d[2])

\* A decision on a quorum of COMMITs is for a chosen value.
LEMMA DecisionsKeep ==
    ASSUME IInv, Step, NEW p, NEW r, NEW v, NEW Q \in QuorumsFor("COMMIT", r, v),
           decisions' \subseteq decisions \cup {<<p, v>>}
    PROVE  DecisionsInv'
<1> SUFFICES ASSUME NEW d \in decisions'
             PROVE  \E c \in msgs' : /\ c.type = "COMMIT" /\ c.value = d[2]
                                     /\ Chosen(c.round, d[2])'
    BY DEF DecisionsInv
<1>1. msgs \subseteq msgs' /\ TypeOK
    BY DEF IInv, Step, NewMsgsOK
<1>2. CASE d \in decisions
    <2>1. PICK c \in msgs : c.type = "COMMIT" /\ c.value = d[2] /\ Chosen(c.round, d[2])
        BY <1>2 DEF IInv
    <2>2. Chosen(c.round, d[2])'
        BY <2>1, ChosenStable
    <2> QED
        BY <1>1, <2>1, <2>2
<1>3. CASE d = <<p, v>>
    <2>1. PICK c \in msgs : /\ c.type = "COMMIT" /\ c.round = r /\ c.value = v
                            /\ Chosen(r, v)
        BY <1>1, QuorumChooses
    <2>2. d[2] = v
        BY <1>3
    <2>3. Chosen(c.round, d[2])'
        BY <2>1, <2>2, ChosenStable
    <2> QED
        BY <1>1, <2>1, <2>2, <2>3
<1> QED
    BY <1>2, <1>3

\* Steps that decide nothing keep the decisions backed by COMMITs.
LEMMA NoDecision ==
    ASSUME IInv, Step, decisions' = decisions
    PROVE  DecisionsInv'
<1> SUFFICES ASSUME NEW d \in decisions
             PROVE  \E c \in msgs' : /\ c.type = "COMMIT" /\ c.value = d[2]
                                     /\ Chosen(c.round, d[2])'
    BY DEF DecisionsInv
<1>1. PICK c \in msgs : c.type = "COMMIT" /\ c.value = d[2] /\ Chosen(c.round, d[2])
    BY DEF IInv
<1>2. Chosen(c.round, d[2])'
    BY <1>1, ChosenStable
<1> QED
    BY <1>1, <1>2 DEF Step, NewMsgsOK

ProcsInv == \A q \in Proc : ProcInv(q)

\* The QUORUM_ROUND_CHANGES rule caches a quorum of null prepared ROUND-CHANGEs
\* of the current round, or leaves the cache alone.
LEMMA QrcKeeps ==
    ASSUME IInv, Step, TypeOK', NEW p \in Proc, UponQuorumRoundChanges(p)
    PROVE  /\ ProcInv(p)'
           /\ \A q \in Proc \ {p} : Untouched(q)
           /\ decisions' = decisions /\ restarted' = restarted
<1>t. TypeOK /\ ProcInv(p) /\ msgs \subseteq msgs'
    BY DEF IInv, Step, NewMsgsOK
<1> DEFINE rcs == ReceivedRoundChanges(round[p])
<1>1. /\ IsLeader(round[p], p) /\ Active(p)
      /\ dedupRules' = [dedupRules EXCEPT
                          ![p] = @ \cup {<<"QUORUM_ROUND_CHANGES", round[p]>>}]
      /\ UNCHANGED <<round, inputValue, preparedRound, qCommit, decisions, restarted>>
    BY Zenon DEF UponQuorumRoundChanges
<1>2. /\ dedupRules[p] \subseteq dedupRules'[p]
      /\ <<"QUORUM_ROUND_CHANGES", round[p]>> \in dedupRules'[p]
      /\ \A q \in Proc \ {p} : dedupRules'[q] = dedupRules[q]
    BY <1>t, <1>1 DEF TypeOK
<1>3. /\ \/ ppjCache'[p] = ppjCache[p]
         \/ \E qrc \in NullQrcs(rcs) : ppjCache'[p] = {qrc}
      /\ \A q \in Proc \ {p} : panicked'[q] = panicked[q] /\ ppjCache'[q] = ppjCache[q]
    <2>1. CASE \E qrc \in NullQrcs(rcs) : BroadcastOwnPrePrepare(p, qrc)
        <3>1. PICK qrc \in NullQrcs(rcs) : BroadcastOwnPrePrepare(p, qrc)
            BY <2>1
        <3>2. \/ ppjCache' = ppjCache
              \/ ppjCache' = [ppjCache EXCEPT ![p] = {qrc}]
            BY <3>1 DEF BroadcastOwnPrePrepare
        <3>3. \/ panicked' = panicked
              \/ panicked' = [panicked EXCEPT ![p] = TRUE]
            BY <3>1 DEF BroadcastOwnPrePrepare
        <3> QED
            BY <1>t, <3>2, <3>3 DEF TypeOK
    <2>2. CASE UNCHANGED <<panicked, ppjCache>>
        BY <2>2
    <2> QED
        BY <2>1, <2>2, Zenon DEF UponQuorumRoundChanges
<1>4. CacheInv(p)'
    <2>1. CASE ppjCache'[p] = ppjCache[p]
        BY <1>t, <1>1, <1>2, <2>1 DEF ProcInv, CacheInv
    <2>2. ASSUME NEW qrc \in NullQrcs(rcs), ppjCache'[p] = {qrc}
          PROVE  CacheInv(p)'
        <3>1. HasQuorum(qrc) /\ \A rc \in qrc : NullPrepared(rc) /\ rc \in rcs
            BY DEF NullQrcs
        <3>2. \A rc \in qrc : \E m \in msgs' :
                m.type = "ROUND_CHANGE" /\ m.round = round[p] /\ Bare(m) = rc
            BY <1>t, <3>1, ReceivedAreSent
        <3> QED
            BY <1>1, <1>2, <2>2, <3>1, <3>2 DEF CacheInv
    <2> QED
        BY <1>3, <2>1, <2>2
<1>5. ProcInv(p)'
    BY <1>t, <1>1, <1>4 DEF ProcInv
<1>6. \A q \in Proc \ {p} : Untouched(q)
    BY <1>1, <1>2, <1>3 DEF Untouched
<1> QED
    BY <1>1, <1>5, <1>6

\* A step of p that leaves the other processes alone keeps the invariant of all.
LEMMA OneProcKeeps ==
    ASSUME IInv, Step, NEW p \in Proc, ProcInv(p)', \A q \in Proc \ {p} : Untouched(q)
    PROVE  ProcsInv'
BY UntouchedKeeps DEF ProcsInv

\* Every action keeps the invariant of the processes and of the decisions.
LEMMA ProcsKeep ==
    ASSUME IInv, TypeOK', Next, Step
    PROVE  ProcsInv' /\ DecisionsInv' /\ restarted' = {}
<1>t. TypeOK /\ restarted = {} /\ msgs \subseteq msgs'
    BY DEF IInv, Step, NewMsgsOK
<1> DEFINE Goal == ProcsInv' /\ DecisionsInv' /\ restarted' = {}
<1>2. ASSUME NEW p \in Proc, NEW v \in Inputs[p], ReceiveInput(p, v)
      PROVE  Goal
    <2>1. \A q \in Proc \ {p} : Untouched(q)
        BY <1>t, <1>2 DEF ReceiveInput, Untouched, TypeOK
    <2>2. ProcInv(p)
        BY DEF IInv
    <2>3. ProcInv(p)'
        BY <1>t, <1>2, <2>2 DEF ReceiveInput, ProcInv, CacheInv, Active
    <2> QED
        BY <1>t, <1>2, <2>1, <2>3, OneProcKeeps, NoDecision DEF ReceiveInput
<1>3. ASSUME NEW p \in Proc, NEW m \in msgs, UponJustifiedPrePrepare(p, m)
      PROVE  Goal
    <2>1. \A q \in Proc \ {p} : Untouched(q)
        BY <1>t, <1>3 DEF UponJustifiedPrePrepare, ChangeRound, Untouched, TypeOK
    <2>2. m.round \in Nat /\ m.round >= 1
        <3>1. ProposalInv(m)
            BY <1>3, ProposalOf DEF UponJustifiedPrePrepare
        <3> QED
            BY <1>t, <3>1 DEF ProposalInv, TypeOK, Msgs
    <2>3. qCommit'[p] = {} /\ qCommit[p] = {}
        BY <1>3 DEF UponJustifiedPrePrepare, Active
    <2>4. ProcInv(p)'
        BY <1>3, <2>2, <2>3, ChangeRoundKeeps DEF UponJustifiedPrePrepare
    <2> QED
        BY <1>t, <1>3, <2>1, <2>4, OneProcKeeps, NoDecision DEF UponJustifiedPrePrepare
<1>4. ASSUME NEW p \in Proc, NEW v \in AnyValue,
             NEW S \in QuorumsFor("PREPARE", round[p], v),
             UponQuorumPrepares(p, v, S)
      PROVE  Goal
    <2>1. \A q \in Proc \ {p} : Untouched(q)
        BY <1>t, <1>4 DEF UponQuorumPrepares, Untouched, TypeOK
    <2>2. ProcInv(p)
        BY DEF IInv
    <2>3. /\ round'[p] = round[p] /\ preparedRound'[p] = round[p]
          /\ ppjCache'[p] = ppjCache[p] /\ dedupRules[p] \subseteq dedupRules'[p]
          /\ qCommit'[p] = qCommit[p] /\ (Active(p)' => Active(p))
          /\ round[p] \in Nat
        BY <1>t, <1>4 DEF UponQuorumPrepares, TypeOK, Active
    <2>4. CacheInv(p)'
        BY <1>t, <2>2, <2>3 DEF ProcInv, CacheInv
    <2>5. ProcInv(p)'
        BY <1>t, <2>2, <2>3, <2>4 DEF ProcInv
    <2> QED
        BY <1>t, <1>4, <2>1, <2>5, OneProcKeeps, NoDecision DEF UponQuorumPrepares
<1>5. ASSUME NEW p \in Proc, NEW r \in Nat, NEW v, NEW S, NEW rule, Active(p),
             S \subseteq msgs, S # {}, Decide(p, rule, r, v, S),
             NEW Q \in QuorumsFor("COMMIT", r, v)
      PROVE  Goal
    <2>1. \A q \in Proc \ {p} : Untouched(q)
        BY <1>t, <1>5 DEF Decide, ChangeRound, Untouched, TypeOK
    <2>2. r >= 1
        <3>1. PICK m \in msgs : m.type = "COMMIT" /\ m.round = r /\ m.value = v
            BY <1>t, <1>5, VoteQuorum
        <3>2. PICK n \in msgs : n.round = r /\ ProposalInv(n)
            BY <3>1, PreparedWasProposed
        <3> QED
            BY <3>2 DEF ProposalInv
    <2>3. qCommit'[p] = S /\ qCommit[p] = {}
        BY <1>t, <1>5 DEF Decide, Active, TypeOK
    <2>4. ProcInv(p)'
        BY <1>t, <1>5, <2>2, <2>3, ChangeRoundKeeps DEF Decide
    <2>5. DecisionsInv'
        BY <1>5, DecisionsKeep, Zenon DEF Decide
    <2> QED
        BY <1>t, <1>5, <2>1, <2>4, <2>5, OneProcKeeps DEF Decide
<1>6. ASSUME NEW p \in Proc, NEW v \in AnyValue,
             NEW S \in QuorumsFor("COMMIT", round[p], v),
             UponQuorumCommits(p, v, S)
      PROVE  Goal
    <2>1. S # {}
        BY <1>t, VoteQuorum, QuorumNonEmpty DEF Sources
    <2>2. S \subseteq msgs /\ round[p] \in Nat
        BY <1>t, VoteType DEF TypeOK
    <2> QED
        BY <1>5, <1>6, <2>1, <2>2 DEF UponQuorumCommits
<1>7. ASSUME NEW p \in Proc, NEW m \in msgs, UponJustifiedDecided(p, m)
      PROVE  Goal
    <2>1. m.round \in Nat
        BY <1>t DEF TypeOK, Msgs
    <2> QED
        BY <1>5, <1>7, <2>1, DecidedQuorum DEF UponJustifiedDecided
<1>8. ASSUME NEW p \in Proc, ReplyDecided(p)
      PROVE  Goal
    <2>1. \A q \in Proc : Untouched(q)
        BY <1>8 DEF ReplyDecided, local, Untouched
    <2> QED
        BY <1>t, <1>8, <2>1, UntouchedKeeps, NoDecision DEF ReplyDecided, ProcsInv
<1>9. ASSUME NEW p \in Proc, NEW r \in Nat, r > round[p], Active(p),
             ChangeRound(p, r, {}),
             UNCHANGED <<panicked, inputValue, preparedRound, preparedValue,
                         preparedJustification, qCommit, decisions, restarted>>
      PROVE  Goal
    <2>1. \A q \in Proc \ {p} : Untouched(q)
        BY <1>t, <1>9 DEF ChangeRound, Untouched, TypeOK
    <2>2. qCommit'[p] = {} /\ qCommit[p] = {} /\ r >= 1 /\ r >= round[p]
        BY <1>t, <1>9 DEF Active, TypeOK
    <2>3. ProcInv(p)'
        BY <1>9, <2>2, ChangeRoundKeeps
    <2> QED
        BY <1>t, <1>9, <2>1, <2>3, OneProcKeeps, NoDecision
<1>10. ASSUME NEW p \in Proc, NEW S \in SUBSET LaterRoundChanges(round[p]),
              UponFPlus1RoundChanges(p, S)
       PROVE  Goal
    <2>1. PICK min \in S : ChangeRound(p, min.round, {})
        BY <1>10 DEF UponFPlus1RoundChanges
    <2>2. min.round \in Nat /\ min.round > round[p]
        BY <1>t DEF LaterRoundChanges, Msgs, TypeOK
    <2> QED
        BY <1>9, <1>10, <2>1, <2>2 DEF UponFPlus1RoundChanges
<1>11. ASSUME NEW p \in Proc, Timeout(p)
       PROVE  Goal
    <2>1. PICK r \in Nat : r = round[p] + 1
        BY <1>t DEF TypeOK
    <2>2. r > round[p]
        BY <1>t, <2>1 DEF TypeOK
    <2> QED
        BY <1>9, <1>11, <2>1, <2>2 DEF Timeout
<1>12. ASSUME NEW p \in Proc, UponQuorumRoundChanges(p)
       PROVE  Goal
    BY <1>t, <1>12, QrcKeeps, OneProcKeeps, NoDecision
<1> QED
    BY <1>2, <1>3, <1>4, <1>6, <1>7, <1>8, <1>10, <1>11, <1>12 DEF Next

\* Every step of Run, and every stuttering step, keeps the invariant.
LEMMA IInvStep ==
    ASSUME IInv, [Next]_vars
    PROVE  IInv'
<1>1. CASE UNCHANGED vars
    <2>1. \A q \in Proc : Untouched(q)
        BY <1>1 DEF vars, local, Untouched
    <2>2. NewMsgsOK /\ TypeOK /\ TypeOK'
        BY <1>1 DEF vars, local, NewMsgsOK, IInv, TypeOK
    <2>3. \A q \in Proc : ProcStep(q)
        BY <2>1, <2>2 DEF Untouched, ProcStep, TypeOK, Active
    <2>4. Step
        BY <2>2, <2>3 DEF Step
    <2>5. MsgInv'
        BY <1>1, <2>2, <2>4, OldMsgs DEF MsgInv, MsgClauses, vars
    <2>6. ProcsInv' /\ DecisionsInv'
        BY <1>1, <2>1, <2>4, UntouchedKeeps, NoDecision DEF vars, ProcsInv
    <2>7. OneProposal' /\ restarted' = {}
        BY <1>1 DEF IInv, OneProposal, vars
    <2> QED
        BY <2>2, <2>5, <2>6, <2>7 DEF IInv, ProcsInv, DecisionsInv
<1>2. CASE Next
    <2>1. TypeOK'
        BY TypeStep DEF IInv
    <2>2. Step
        BY <1>2, StepFacts
    <2>3. NewMsgInv
        BY <1>2, <2>1, <2>2, NewMsgsKeep
    <2>4. ProcsInv' /\ DecisionsInv' /\ restarted' = {}
        BY <1>2, <2>1, <2>2, ProcsKeep
    <2>5. \A m \in msgs' : MsgClauses(m)'
        BY <2>1, <2>2, <2>3, OldMsgs DEF NewMsgInv
    <2>6. MsgInv'
        BY <2>5 DEF MsgInv, MsgClauses
    <2> QED
        BY <2>1, <2>3, <2>4, <2>6 DEF IInv, NewMsgInv, ProcsInv, DecisionsInv
<1> QED
    BY <1>1, <1>2

\* The state that Run begins with satisfies the invariant.
LEMMA InitIInv == Init => IInv
<1> SUFFICES ASSUME Init PROVE IInv
    OBVIOUS
<1>1. TypeOK
    BY NodesAssumption DEF Init, TypeOK, AnyValue, InitialCache, Proc
<1>2. \A p \in Proc : ProcInv(p)
    BY DEF Init, ProcInv, CacheInv, InitialCache, Active
<1> QED
    BY <1>1, <1>2 DEF Init, IInv, OneProposal, MsgInv

\* The invariant holds in every reachable state.
THEOREM Invariance ==
    Spec => []IInv
BY InitIInv, IInvStep, PTL DEF Spec

-----------------------------------------------------------------------------
(* The theorems *)

\* The type invariant holds in every reachable state.
THEOREM TypeCorrect == Spec => []TypeOK
<1>1. Init => TypeOK
    BY NodesAssumption DEF Init, TypeOK, AnyValue, InitialCache, Proc
<1> QED
    BY <1>1, TypeStep, PTL DEF Spec

-----------------------------------------------------------------------------
(* What follows from the invariant *)

\* Two values that each have a quorum of COMMITs are the same: COMMITs of one
\* round are for its one proposal, and a proposal of a later round is safe.
LEMMA ChosenUnique ==
    ASSUME IInv, NEW c \in msgs, NEW d \in msgs, c.type = "COMMIT", d.type = "COMMIT",
           Chosen(c.round, c.value), Chosen(d.round, d.value), c.round <= d.round
    PROVE  c.value = d.value
<1>t. /\ c.round \in Nat /\ d.round \in Nat
      /\ c.value \in AnyValue /\ d.value \in AnyValue
    BY DEF IInv, TypeOK, Msgs
<1>1. PICK m \in msgs : /\ m.type = "PRE_PREPARE" /\ m.round = c.round
                        /\ m.value = c.value /\ ProposalInv(m)
    BY <1>t, PreparedWasProposed
<1>2. PICK n \in msgs : /\ n.type = "PRE_PREPARE" /\ n.round = d.round
                        /\ n.value = d.value /\ ProposalInv(n)
    BY <1>t, PreparedWasProposed
<1>3. CASE c.round = d.round
    BY <1>1, <1>2, <1>3 DEF IInv, OneProposal
<1>4. CASE c.round < d.round
    <2>1. c.round \in 1 .. d.round - 1
        BY <1>t, <1>1, <1>4 DEF ProposalInv
    <2>2. PICK Q \in Quorums : \A q \in Q : \/ Sent("COMMIT", q, c.round, d.value)
                                           \/ WontCommit(q, c.round)
        BY <1>2, <2>1 DEF ProposalInv, SafeAt
    <2>3. PICK R \in Quorums : \A q \in R : Sent("COMMIT", q, c.round, c.value)
        BY DEF Chosen
    <2>4. PICK q \in Q : q \in R
        BY QuorumIntersection
    <2>5. Sent("COMMIT", q, c.round, d.value)
        BY <1>t, <2>2, <2>3, <2>4 DEF WontCommit
    <2>6. PICK x \in msgs : x.type = "COMMIT" /\ x.round = c.round /\ x.value = d.value
        BY <2>5 DEF Sent
    <2>7. PICK y \in msgs : y.type = "PRE_PREPARE" /\ y.round = c.round /\ y.value = d.value
        BY <1>t, <2>6, PreparedWasProposed
    <2> QED
        BY <1>1, <2>7 DEF IInv, OneProposal
<1> QED
    BY <1>t, <1>3, <1>4

\* No two processes decide different values, in whatever rounds they decide,
\* if no process loses its state.
THEOREM AgreementHolds ==
    Spec => []Agreement
<1>1. IInv => Agreement
    <2> SUFFICES ASSUME IInv, NEW d \in decisions, NEW e \in decisions
                 PROVE  d[2] = e[2]
        BY DEF Agreement
    <2>1. PICK x \in msgs : x.type = "COMMIT" /\ x.value = d[2] /\ Chosen(x.round, d[2])
        BY DEF IInv
    <2>2. PICK y \in msgs : y.type = "COMMIT" /\ y.value = e[2] /\ Chosen(y.round, e[2])
        BY DEF IInv
    <2>3. x.round \in Nat /\ y.round \in Nat
        BY DEF IInv, TypeOK, Msgs
    <2>4. x.round <= y.round \/ y.round <= x.round
        BY <2>3
    <2> QED
        BY <2>1, <2>2, <2>4, ChosenUnique
<1> QED
    BY <1>1, Invariance, PTL

\* A decided value is one that some process was given as its input.
THEOREM ValidityHolds ==
    Spec => []Validity
<1>1. IInv => Validity
    <2> SUFFICES ASSUME IInv, NEW d \in decisions
                 PROVE  d[2] # Zero /\ \E p \in Proc : inputValue[p] = d[2]
        BY DEF Validity
    <2>1. PICK x \in msgs : x.type = "COMMIT" /\ x.value = d[2]
        BY DEF IInv
    <2>2. x.round \in Nat
        BY DEF IInv, TypeOK, Msgs
    <2>3. PICK n \in msgs : n.value = d[2] /\ ProposalInv(n)
        BY <2>1, <2>2, PreparedWasProposed
    <2> QED
        BY <2>3 DEF ProposalInv
<1> QED
    BY <1>1, Invariance, PTL

\* A process sends PREPARE for one value in a round: that of its one proposal.
THEOREM OnePrepareHolds ==
    Spec => []OnePreparePerRound
<1>1. IInv => OnePreparePerRound
    <2> SUFFICES ASSUME IInv, NEW m \in msgs, NEW n \in msgs,
                        m.type = "PREPARE", n.type = "PREPARE", m.round = n.round
                 PROVE  m.value = n.value
        BY DEF OnePreparePerRound
    <2>1. m.round \in Nat
        BY DEF IInv, TypeOK, Msgs
    <2>2. PICK x \in msgs : x.type = "PRE_PREPARE" /\ x.round = m.round /\ x.value = m.value
        BY <2>1, PreparedWasProposed
    <2>3. PICK y \in msgs : y.type = "PRE_PREPARE" /\ y.round = m.round /\ y.value = n.value
        BY <2>1, PreparedWasProposed
    <2> QED
        BY <2>2, <2>3 DEF IInv, OneProposal
<1> QED
    BY <1>1, Invariance, PTL

-----------------------------------------------------------------------------
(* Once a quorum has committed *)

\* COMMITs of a quorum, delivered or not, bind every later leader: a proposal
\* of a later round is safe, so that a process of the quorum committed its
\* value too, and one round has one proposal.
THEOREM CommittedValueIsLockedHolds ==
    Spec => []CommittedValueIsLocked
<1>1. IInv => CommittedValueIsLocked
    <2> SUFFICES ASSUME IInv, NEW c \in msgs, c.type = "COMMIT",
                        HasQuorum(FilterByRoundAndValue(msgs, "COMMIT", c.round, c.value)),
                        NEW m \in msgs, m.type = "PRE_PREPARE", m.round > c.round
                 PROVE  m.value = c.value
        BY DEF CommittedValueIsLocked
    <2>t. /\ c.round \in Nat /\ m.round \in Nat /\ TypeOK
          /\ c.value \in AnyValue /\ m.value \in AnyValue
        BY DEF IInv, TypeOK, Msgs
    <2> DEFINE R == FilterByRoundAndValue(msgs, "COMMIT", c.round, c.value)
    <2>1. R \in QuorumsFor("COMMIT", c.round, c.value)
        BY DEF QuorumsFor
    <2>2. Sources(R) \in Quorums /\ \A q \in Sources(R) : Sent("COMMIT", q, c.round, c.value)
        BY <2>1, <2>t, VoteQuorum
    <2>3. PICK x \in msgs : /\ x.type = "PRE_PREPARE" /\ x.round = c.round
                            /\ x.value = c.value /\ ProposalInv(x)
        BY <2>t, PreparedWasProposed
    <2>4. c.round \in 1 .. m.round - 1
        BY <2>t, <2>3 DEF ProposalInv
    <2>5. PICK Q \in Quorums : \A q \in Q : \/ Sent("COMMIT", q, c.round, m.value)
                                           \/ WontCommit(q, c.round)
        BY <2>4, ProposalOf DEF ProposalInv, SafeAt
    <2>6. PICK q \in Q : q \in Sources(R)
        BY <2>2, QuorumIntersection
    <2>7. Sent("COMMIT", q, c.round, m.value)
        BY <2>t, <2>2, <2>5, <2>6 DEF WontCommit
    <2>8. PICK y \in msgs : y.type = "COMMIT" /\ y.round = c.round /\ y.value = m.value
        BY <2>7 DEF Sent
    <2>9. PICK z \in msgs : z.type = "PRE_PREPARE" /\ z.round = c.round /\ z.value = m.value
        BY <2>t, <2>8, PreparedWasProposed
    <2> QED
        BY <2>3, <2>9 DEF IInv, OneProposal
<1> QED
    BY <1>1, Invariance, PTL

-----------------------------------------------------------------------------
(* What is sent is justified *)

\* Two PREPAREs of one process for one round and value are one message, so
\* that a quorum of them has different sources.
LEMMA PreparesUniq ==
    ASSUME TypeOK, JInv, NEW r, NEW v, NEW Q \in QuorumsFor("PREPARE", r, v)
    PROVE  UniqSource(Q) /\ HasQuorum(Q) /\ Q # {}
<1>1. Q \subseteq BareMsgs /\ Q \subseteq msgs
    BY VoteType
<1>2. \A m \in Q : /\ m.type = "PREPARE" /\ m.round = r /\ m.value = v
                   /\ m.pr = 0 /\ m.pv = Zero /\ m.just = {}
    BY <1>1 DEF JInv, JustifiedInv, NullPrepared, QuorumsFor, FilterByRoundAndValue, BareMsgs
<1>3. ASSUME NEW m \in Q, NEW n \in Q, m.source = n.source
      PROVE  m = n
    BY <1>1, <1>2, <1>3 DEF BareMsgs
<1>4. Sources(Q) \in Quorums
    BY VoteQuorum
<1>5. Q # {}
    BY <1>4, QuorumNonEmpty DEF Sources
<1> QED
    BY <1>3, <1>5 DEF UniqSource, QuorumsFor

\* A quorum of null prepared ROUND-CHANGEs of the round lets its leader propose.
LEMMA NullQrcJustifies ==
    ASSUME NEW r, NEW just, NEW p, NEW v, HasQuorum(just), IsLeader(r, p),
           \A rc \in just : NullPrepared(rc) /\ rc.type = "ROUND_CHANGE" /\ rc.round = r
    PROVE  JustifiedInv(Msg("PRE_PREPARE", p, r, v, 0, Zero, just))
<1>1. FilterRoundChange(just, r) = just
    BY DEF FilterRoundChange
<1>2. ContainsNullQrc(just, r)
    BY <1>1 DEF ContainsNullQrc
<1> QED
    BY <1>2 DEF JustifiedInv, IsJustified, IsJustifiedPrePrepare, Msg

\* The ROUND-CHANGEs that classify collects are of the round it looks at.
LEMMA ReceivedShape ==
    ASSUME TypeOK, NEW r, NEW rc \in ReceivedRoundChanges(r)
    PROVE  rc.type = "ROUND_CHANGE" /\ rc.round = r /\ rc \in BareMsgs
<1>1. PICK m \in msgs : m.type = "ROUND_CHANGE" /\ m.round = r /\ Bare(m) = rc
    BY ReceivedAreSent
<1> QED
    BY <1>1, BareType, RoundChangesType DEF TypeOK

\* What getJustifiedQrc returns with a prepared value is what
\* containsJustifiedQrc accepts for that value.
LEMMA PreparedQrcJustifies ==
    ASSUME TypeOK, JInv, NEW p \in Proc, NEW r \in Nat, IsLeader(r, p),
           NEW rc \in ReceivedRoundChanges(r),
           NEW qrc \in PreparedQrcs(ReceivedRoundChanges(r), rc.pr, rc.pv),
           NEW prepares \in QuorumsFor("PREPARE", rc.pr, rc.pv)
    PROVE  JustifiedInv(Msg("PRE_PREPARE", p, r, rc.pv, 0, Zero, qrc \cup prepares))
<1> DEFINE just == qrc \cup prepares
<1>1. /\ HasQuorum(qrc) /\ ~ HasQuorum({c \in qrc : NullPrepared(c)})
      /\ \A c \in qrc : c.pr <= rc.pr /\ c \in ReceivedRoundChanges(r)
      /\ \E c \in qrc : c.pr = rc.pr /\ c.pv = rc.pv
    BY DEF PreparedQrcs
<1>2. \A c \in qrc : c.type = "ROUND_CHANGE" /\ c.round = r
    BY <1>1, ReceivedShape
<1>3. \A m \in prepares : m.type = "PREPARE" /\ m.round = rc.pr /\ m.value = rc.pv
    BY DEF QuorumsFor, FilterByRoundAndValue
<1>4. FilterRoundChange(just, r) = qrc
    BY <1>2, <1>3 DEF FilterRoundChange
<1>5. {m \in just : m.type = "PREPARE"} = prepares
    BY <1>2, <1>3
<1>6. ~ \A c \in qrc : NullPrepared(c)
    <2>1. ASSUME \A c \in qrc : NullPrepared(c)
          PROVE  {c \in qrc : NullPrepared(c)} = qrc
        BY <2>1
    <2> QED
        BY <1>1, <2>1
<1>7. UniqSource(prepares) /\ HasQuorum(prepares) /\ prepares # {}
    BY PreparesUniq
<1>8. SingleJustifiedPrPv(just, rc.pr, rc.pv)
    BY <1>3, <1>5, <1>7, Zenon DEF SingleJustifiedPrPv
<1>9. \E x \in just : x.type = "PREPARE" /\ x.round = rc.pr
    BY <1>3, <1>7
<1>10. ContainsPreparedQrc(just, r, rc.pv)
    BY <1>1, <1>4, <1>6, <1>8, <1>9 DEF ContainsPreparedQrc
<1> DEFINE m == Msg("PRE_PREPARE", p, r, rc.pv, 0, Zero, just)
<1>11. m.type = "PRE_PREPARE" /\ m.round = r /\ m.source = p /\ m.value = rc.pv /\ m.just = just
    BY DEF Msg
<1> HIDE DEF just, m
<1>12. IsJustifiedPrePrepare(m)
    BY <1>10, <1>11 DEF IsJustifiedPrePrepare
<1>13. JustifiedInv(m)
    BY <1>11, <1>12 DEF JustifiedInv, IsJustified
<1> QED
    BY <1>13 DEF m, just

\* A justified message may join those that were sent.
LEMMA JoinJustified ==
    ASSUME JInv, NEW x, msgs' = msgs \/ msgs' = msgs \cup {x}, JustifiedInv(x)
    PROVE  \A m \in msgs' : JustifiedInv(m)
BY DEF JInv

ProcJInv(p) == PreparedInv(p) /\ DecidedInv(p) /\ ~ panicked[p]

\* A process keeps its part of the invariant while its prepared state stays,
\* and its round too once it has decided.
LEMMA QuietJInv ==
    ASSUME JInv, NEW q \in Proc, ~ panicked'[q], preparedRound'[q] = preparedRound[q],
           preparedValue'[q] = preparedValue[q],
           preparedJustification'[q] = preparedJustification[q],
           qCommit'[q] = qCommit[q], qCommit[q] # {} => round'[q] = round[q]
    PROVE  ProcJInv(q)'
BY DEF JInv, ProcJInv, PreparedInv, DecidedInv

\* A ROUND-CHANGE carries the prepared state, and with it the quorum of
\* PREPAREs that receivers ask for.
LEMMA RoundChangeJustified ==
    ASSUME JInv, NEW p \in Proc, NEW r
    PROVE  JustifiedInv(Msg("ROUND_CHANGE", p, r, Zero, preparedRound[p],
                            preparedValue[p], preparedJustification[p]))
<1> DEFINE m == Msg("ROUND_CHANGE", p, r, Zero, preparedRound[p],
                    preparedValue[p], preparedJustification[p])
<1>1. /\ m.type = "ROUND_CHANGE" /\ m.pr = preparedRound[p] /\ m.pv = preparedValue[p]
      /\ m.just = preparedJustification[p]
    BY DEF Msg
<1>2. PreparedInv(p)
    BY DEF JInv
<1> HIDE DEF m
<1>3. IsJustifiedRoundChange(m)
    BY <1>1, <1>2 DEF IsJustifiedRoundChange, PreparedInv, NullPrepared
<1> QED
    BY <1>1, <1>3 DEF JustifiedInv, IsJustified, m

\* Every step of Run sends a justified message or none, and keeps what later
\* messages are justified with; none of them panics.
LEMMA JInvStep ==
    ASSUME IInv, JInv, Next
    PROVE  JInv'
<1>t. TypeOK /\ \A q \in Proc : ProcInv(q) /\ ~ panicked[q]
    BY DEF IInv, JInv
<1> SUFFICES (\A m \in msgs' : JustifiedInv(m)) /\ (\A q \in Proc : ProcJInv(q)')
    BY DEF JInv, ProcJInv
<1> DEFINE Goal == (\A m \in msgs' : JustifiedInv(m)) /\ (\A q \in Proc : ProcJInv(q)')
<1>n. ASSUME msgs' = msgs PROVE \A m \in msgs' : JustifiedInv(m)
    BY <1>n DEF JInv
<1>1. ASSUME NEW p \in Proc, NEW v \in Inputs[p], ReceiveInput(p, v)
      PROVE  Goal
    <2>1. \A q \in Proc : ProcJInv(q)'
        BY <1>t, <1>1, QuietJInv DEF ReceiveInput
    <2>2. ASSUME NEW just \in ppjCache[p],
                 BroadcastMsg(p, "PRE_PREPARE", round[p], v, just)
          PROVE  \A m \in msgs' : JustifiedInv(m)
        <3>1. CacheInv(p) /\ IsLeader(round[p], p)
            BY <1>t DEF ProcInv, CacheInv
        <3>2. CASE round[p] = 1
            <4>1. JustifiedInv(Msg("PRE_PREPARE", p, round[p], v, 0, Zero, just))
                BY <3>1, <3>2 DEF JustifiedInv, IsJustified, IsJustifiedPrePrepare, Msg
            <4> QED
                BY <2>2, <4>1, JoinJustified, Zenon DEF BroadcastMsg, Broadcast
        <3>3. CASE round[p] # 1
            <4>1. /\ HasQuorum(just)
                  /\ \A rc \in just : NullPrepared(rc) /\ \E m \in msgs :
                       m.type = "ROUND_CHANGE" /\ m.round = round[p] /\ Bare(m) = rc
                BY <3>1, <3>3 DEF CacheInv
            <4>2. \A rc \in just : rc.type = "ROUND_CHANGE" /\ rc.round = round[p]
                BY <1>t, <4>1, BareType DEF TypeOK
            <4>3. JustifiedInv(Msg("PRE_PREPARE", p, round[p], v, 0, Zero, just))
                BY <3>1, <4>1, <4>2, NullQrcJustifies
            <4> QED
                BY <2>2, <4>3, JoinJustified, Zenon DEF BroadcastMsg, Broadcast
        <3> QED
            BY <3>2, <3>3
    <2> QED
        BY <1>n, <1>1, <2>1, <2>2 DEF ReceiveInput
<1>2. ASSUME NEW p \in Proc, NEW m \in msgs, UponJustifiedPrePrepare(p, m)
      PROVE  Goal
    <2>1. \A q \in Proc : ProcJInv(q)'
        BY <1>t, <1>2, QuietJInv DEF UponJustifiedPrePrepare, ChangeRound, Active, TypeOK
    <2>2. JustifiedInv(Msg("PREPARE", p, m.round, m.value, 0, Zero, {}))
        BY DEF JustifiedInv, IsJustified, NullPrepared, Msg
    <2>3. \A n \in msgs' : JustifiedInv(n)
        BY <1>2, <2>2, JoinJustified, Zenon DEF UponJustifiedPrePrepare, BroadcastMsg, Broadcast
    <2> QED
        BY <2>1, <2>3
<1>3. ASSUME NEW p \in Proc, NEW v \in AnyValue,
             NEW S \in QuorumsFor("PREPARE", round[p], v),
             UponQuorumPrepares(p, v, S)
      PROVE  Goal
    <2>1. \A q \in Proc \ {p} : ProcJInv(q)'
        BY <1>t, <1>3, QuietJInv DEF UponQuorumPrepares, TypeOK
    <2>2. UniqSource(S) /\ HasQuorum(S) /\ S # {}
        BY <1>t, PreparesUniq
    <2>3. \A m \in S : m.type = "PREPARE" /\ m.round = round[p] /\ m.value = v
        BY DEF QuorumsFor, FilterByRoundAndValue
    <2>4. /\ preparedRound'[p] = round[p] /\ preparedValue'[p] = v
          /\ preparedJustification'[p] = S
          /\ qCommit' = qCommit /\ round' = round /\ panicked' = panicked
        BY <1>t, <1>3 DEF UponQuorumPrepares, TypeOK
    <2>5. PreparedInv(p)'
        BY <2>2, <2>3, <2>4 DEF PreparedInv
    <2>6. ProcJInv(p)'
        BY <1>t, <2>4, <2>5 DEF JInv, ProcJInv, DecidedInv
    <2>7. JustifiedInv(Msg("COMMIT", p, round[p], v, 0, Zero, {}))
        BY DEF JustifiedInv, IsJustified, Msg
    <2>8. \A m \in msgs' : JustifiedInv(m)
        BY <1>3, <2>7, JoinJustified, Zenon DEF UponQuorumPrepares, BroadcastMsg, Broadcast
    <2> QED
        BY <2>1, <2>6, <2>8
<1>4. ASSUME NEW p \in Proc, NEW rule, NEW r, NEW v \in AnyValue, NEW S,
             Active(p), Decide(p, rule, r, v, S), AreCommits(S, r, v)
      PROVE  Goal
    <2>1. \A q \in Proc \ {p} : ProcJInv(q)'
        BY <1>t, <1>4, QuietJInv DEF Decide, ChangeRound, TypeOK
    <2>2. /\ qCommit'[p] = S /\ round'[p] = r /\ panicked' = panicked /\ msgs' = msgs
          /\ UNCHANGED <<preparedRound, preparedValue, preparedJustification>>
        BY <1>t, <1>4 DEF Decide, ChangeRound, TypeOK
    <2>3. DecidedInv(p)'
        BY <1>4, <2>2 DEF DecidedInv
    <2>4. ProcJInv(p)'
        BY <1>t, <2>2, <2>3 DEF JInv, ProcJInv, PreparedInv
    <2> QED
        BY <1>n, <2>1, <2>2, <2>4
<1>5. ASSUME NEW p \in Proc, NEW v \in AnyValue,
             NEW S \in QuorumsFor("COMMIT", round[p], v),
             UponQuorumCommits(p, v, S)
      PROVE  Goal
    <2>1. AreCommits(S, round[p], v)
        BY DEF AreCommits, QuorumsFor, FilterByRoundAndValue
    <2> QED
        BY <1>4, <1>5, <2>1 DEF UponQuorumCommits
<1>6. ASSUME NEW p \in Proc, NEW m \in msgs, UponJustifiedDecided(p, m)
      PROVE  Goal
    <2>1. AreCommits(m.just, m.round, m.value) /\ m.value \in AnyValue
        BY <1>t, <1>6 DEF JInv, JustifiedInv, UponJustifiedDecided, TypeOK, Msgs
    <2> QED
        BY <1>4, <1>6, <2>1 DEF UponJustifiedDecided
<1>7. ASSUME NEW p \in Proc, ReplyDecided(p)
      PROVE  Goal
    <2>1. \A q \in Proc : ProcJInv(q)'
        BY <1>t, <1>7, QuietJInv DEF ReplyDecided, local
    <2>2. PICK v \in {c.value : c \in qCommit[p]} :
                BroadcastMsg(p, "DECIDED", round[p], v, qCommit[p])
        BY <1>7 DEF ReplyDecided
    <2>3. PICK w \in AnyValue : AreCommits(qCommit[p], round[p], w)
        BY <1>7 DEF ReplyDecided, JInv, DecidedInv
    <2>4. v = w
        BY <2>3 DEF AreCommits
    <2>5. FilterByRoundAndValue(qCommit[p], "COMMIT", round[p], v) = qCommit[p]
        BY <2>3, <2>4 DEF AreCommits, FilterByRoundAndValue
    <2>6. HasQuorum(FilterByRoundAndValue(qCommit[p], "COMMIT", round[p], v))
        BY <2>3, <2>5 DEF AreCommits
    <2>7. JustifiedInv(Msg("DECIDED", p, round[p], v, 0, Zero, qCommit[p]))
        BY <2>3, <2>4, <2>6 DEF JustifiedInv, IsJustified, IsJustifiedDecided, Msg
    <2>8. \A m \in msgs' : JustifiedInv(m)
        BY <2>2, <2>7, JoinJustified, Zenon DEF BroadcastMsg, Broadcast
    <2> QED
        BY <2>1, <2>8
<1>8. ASSUME NEW p \in Proc, NEW r, Active(p), ChangeRound(p, r, {}),
             BroadcastRoundChange(p, r),
             UNCHANGED <<panicked, inputValue, preparedRound, preparedValue,
                         preparedJustification, qCommit, decisions, restarted>>
      PROVE  Goal
    <2>1. \A q \in Proc : ProcJInv(q)'
        BY <1>t, <1>8, QuietJInv DEF ChangeRound, Active, TypeOK
    <2>2. \A m \in msgs' : JustifiedInv(m)
        BY <1>8, RoundChangeJustified, JoinJustified, Zenon DEF BroadcastRoundChange, Broadcast
    <2> QED
        BY <2>1, <2>2
<1>9. ASSUME NEW p \in Proc, NEW S \in SUBSET LaterRoundChanges(round[p]),
             UponFPlus1RoundChanges(p, S)
      PROVE  Goal
    <2>1. PICK min \in S : ChangeRound(p, min.round, {}) /\ BroadcastRoundChange(p, min.round)
        BY <1>9 DEF UponFPlus1RoundChanges
    <2> QED
        BY <1>8, <1>9, <2>1 DEF UponFPlus1RoundChanges
<1>10. ASSUME NEW p \in Proc, Timeout(p)
       PROVE  Goal
    BY <1>8, <1>10 DEF Timeout
<1>11. ASSUME NEW p \in Proc, UponQuorumRoundChanges(p)
       PROVE  Goal
    <2> DEFINE rcs == ReceivedRoundChanges(round[p])
    <2>0. /\ Active(p) /\ IsLeader(round[p], p) /\ round[p] \in Nat
          /\ ~ IsDuplicatedRule(p, "QUORUM_ROUND_CHANGES", round[p])
          /\ UNCHANGED <<round, preparedRound, preparedValue, preparedJustification, qCommit>>
        BY <1>t, <1>11, Zenon DEF UponQuorumRoundChanges, TypeOK
    <2>1. ASSUME panicked' = panicked PROVE \A q \in Proc : ProcJInv(q)'
        BY <1>t, <2>0, <2>1, QuietJInv
    <2>2. ASSUME NEW qrc \in NullQrcs(rcs), BroadcastOwnPrePrepare(p, qrc)
          PROVE  Goal
        <3>1. HasQuorum(qrc) /\ \A rc \in qrc : NullPrepared(rc) /\ rc \in rcs
            BY DEF NullQrcs
        <3>2. round[p] >= 2
            BY <3>1, QrcRound
        <3>3. ppjCache[p] = {}
            BY <1>t, <2>0, <3>2 DEF ProcInv, CacheInv, IsDuplicatedRule
        <3>4. JustifiedInv(Msg("PRE_PREPARE", p, round[p], inputValue[p], 0, Zero, qrc))
            BY <1>t, <2>0, <3>1, ReceivedShape, NullQrcJustifies
        <3>5. panicked' = panicked /\
              \/ msgs' = msgs
              \/ msgs' = msgs \cup {Msg("PRE_PREPARE", p, round[p], inputValue[p], 0, Zero, qrc)}
            BY <2>2, <3>3, Zenon DEF BroadcastOwnPrePrepare, BroadcastMsg, Broadcast
        <3>6. \A m \in msgs' : JustifiedInv(m)
            BY <3>4, <3>5, JoinJustified, Zenon
        <3> QED
            BY <2>1, <3>5, <3>6
    <2>3. ASSUME NEW rc \in rcs, NEW qrc \in PreparedQrcs(rcs, rc.pr, rc.pv),
                 NEW prepares \in QuorumsFor("PREPARE", rc.pr, rc.pv),
                 BroadcastMsg(p, "PRE_PREPARE", round[p], rc.pv, qrc \cup prepares),
                 UNCHANGED <<panicked, ppjCache>>
          PROVE  Goal
        <3>1. JustifiedInv(Msg("PRE_PREPARE", p, round[p], rc.pv, 0, Zero, qrc \cup prepares))
            BY <1>t, <2>0, PreparedQrcJustifies
        <3>2. \A m \in msgs' : JustifiedInv(m)
            BY <2>3, <3>1, JoinJustified, Zenon DEF BroadcastMsg, Broadcast
        <3> QED
            BY <2>1, <2>3, <3>2
    <2> QED
        BY <1>11, <2>2, <2>3, Zenon DEF UponQuorumRoundChanges
<1> QED
    BY <1>1, <1>2, <1>3, <1>5, <1>6, <1>7, <1>9, <1>10, <1>11 DEF Next

\* What is kept for justifications stays justified in every reachable state.
THEOREM JustifiedInvariance ==
    Spec => []JInv
<1>1. Init => JInv
    BY DEF Init, JInv, PreparedInv, DecidedInv
<1>2. IInv /\ JInv /\ [Next]_vars => JInv'
    <2>1. ASSUME IInv, JInv, UNCHANGED vars PROVE JInv'
        BY <2>1 DEF JInv, vars, local, PreparedInv, DecidedInv
    <2> QED
        BY <2>1, JInvStep
<1> QED
    BY <1>1, <1>2, Invariance, PTL DEF Spec

\* Everything that Run broadcasts passes the isJustified of its receivers, in
\* every round and for every number of nodes.
THEOREM SentAreJustifiedHolds ==
    Spec => []SentAreJustified
<1>1. JInv => SentAreJustified
    BY DEF JInv, JustifiedInv, SentAreJustified
<1> QED
    BY <1>1, JustifiedInvariance, PTL

\* The sanity check of broadcastOwnPrePrepare never fires: a cached
\* justification of the current round means that its rule was executed.
THEOREM NoSanityPanicHolds ==
    Spec => []NoSanityPanic
<1>1. JInv => NoSanityPanic
    BY DEF JInv, NoSanityPanic
<1> QED
    BY <1>1, JustifiedInvariance, PTL
=============================================================================
