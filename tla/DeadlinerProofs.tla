--------------------------- MODULE DeadlinerProofs ---------------------------
(***************************************************************************)
(* Proofs about Deadliner, for all duties, deadlines, callers and buffer   *)
(* sizes: its invariants, and that it implements DutyExpiry.               *)
(***************************************************************************)
EXTENDS Deadliner, TLAPS

\* Most leaves are first-order: Zenon is tried before the SMT solver.
USE ZenonT(4), SMTT(20)

\* The current duty is one that getCurrDuty may return for the pending ones.
CurrIsChosen ==
    /\ currDuty \in CurrDuties(duties)
    /\ currDeadline = DeadlineOf(currDuty)

\* While run is in the inner select, it holds a pending duty that is due.
SendIsDue == pc = "send" => currDuty \in duties /\ currDeadline <= now

\* The inductive invariant: OutputInOrder needs the current duty to be the
\* earliest one, and due when it is sent.
IInv == TypeOK /\ CurrIsChosen /\ SendIsDue /\ OutputInOrder

\* What getCurrDuty returns is one of the duties, or the zero duty if there
\* are none.
LEMMA CurrDutiesType ==
    ASSUME NEW ds \in SUBSET Duty, NEW d \in CurrDuties(ds)
    PROVE  /\ d \in Duty \cup {NoDuty}
           /\ d = NoDuty <=> ds = {}
           /\ d # NoDuty => d \in ds
           /\ DeadlineOf(d) \in 0 .. FarFuture
    BY DutyAssumption, DeadlineAssumption, BufferAssumption
       DEF CurrDuties, DeadlineOf, FarFuture

\* A deadliner starts in a state that satisfies the invariant.
LEMMA InitIInv == Init => IInv
    BY DutyAssumption, BufferAssumption
       DEF Init, IInv, TypeOK, CurrIsChosen, SendIsDue, OutputInOrder,
           CurrDuties, DeadlineOf, FarFuture

\* Receiving an Add preserves the invariant: an accepted duty is not due
\* before the present, hence not before anything in the channel.
LEMMA ReceiveKeeps ==
    ASSUME IInv, NEW c \in Caller, Receive(c)
    PROVE  IInv'
<1> DEFINE d == call[c]
           ds == duties \cup {d}
<1> USE DEF IInv
<1>1. d \in Duty /\ DeadlineFunc[d] \in 0 .. MaxTime - 1
    BY DutyAssumption, DeadlineAssumption DEF Receive, TypeOK
<1>2. CASE d \in NeverExpire \/ DeadlineFunc[d] < now
    <2>1. UNCHANGED <<now, pc, duties, currDuty, currDeadline, deadlineChan>>
        BY <1>2 DEF Receive
    <2>2. TypeOK'
        BY <2>1 DEF Receive, TypeOK
    <2> QED
        BY <2>1, <2>2 DEF CurrIsChosen, SendIsDue, OutputInOrder
<1>3. CASE ~ (d \in NeverExpire \/ DeadlineFunc[d] < now)
    <2>1. /\ duties' = ds /\ ds \in SUBSET Duty
          /\ UNCHANGED <<now, pc, deadlineChan>> /\ pc = "select"
        BY <1>1, <1>3 DEF Receive, TypeOK
    <2>2. CurrIsChosen'
        <3>1. CASE DeadlineFunc[d] < currDeadline
            BY <1>3, <2>1, <3>1 DEF Receive, SetCurrState, CurrIsChosen
        <3>2. CASE ~ (DeadlineFunc[d] < currDeadline)
            <4>1. currDuty' = currDuty /\ currDeadline' = currDeadline
                BY <1>3, <3>2 DEF Receive
            <4>2. currDuty # NoDuty /\ currDuty \in duties
                BY <1>1, <3>2, CurrDutiesType, BufferAssumption
                   DEF CurrIsChosen, DeadlineOf, FarFuture, TypeOK
            <4>3. \A e \in ds : DeadlineFunc[currDuty] <= DeadlineFunc[e]
                BY <1>1, <3>2, <4>2, DeadlineAssumption
                   DEF CurrIsChosen, CurrDuties, DeadlineOf, TypeOK
            <4> QED
                BY <2>1, <4>1, <4>2, <4>3 DEF CurrIsChosen, CurrDuties
        <3> QED
            BY <3>1, <3>2
    <2>3. currDuty' \in Duty \cup {NoDuty} /\ currDeadline' \in 0 .. FarFuture
        BY <2>1, <2>2, CurrDutiesType DEF CurrIsChosen
    <2>4. TypeOK'
        BY <1>1, <1>3, <2>1, <2>3 DEF Receive, TypeOK
    <2>5. OutputInOrder'
        BY <1>1, <1>3, <2>1, DeadlineAssumption DEF OutputInOrder, TypeOK
    <2> QED
        BY <2>1, <2>2, <2>4, <2>5 DEF SendIsDue
<1> QED
    BY <1>2, <1>3

\* Sending the current duty preserves the invariant: it is the earliest of the
\* pending ones.
LEMMA SendKeeps ==
    ASSUME IInv, SendOrDrop
    PROVE  IInv'
<1> DEFINE ds == duties \ {currDuty}
<1> USE DEF IInv
<1>1. /\ currDuty \in duties /\ duties \in SUBSET Duty /\ currDuty \in Duty
      /\ DeadlineFunc[currDuty] <= now
    BY DutyAssumption DEF SendOrDrop, SendIsDue, TypeOK, CurrIsChosen, DeadlineOf
<1>2. CurrIsChosen'
    BY DEF SendOrDrop, SetCurrState, CurrIsChosen
<1>3. currDuty' \in Duty \cup {NoDuty} /\ currDeadline' \in 0 .. FarFuture
    BY <1>1, <1>2, CurrDutiesType DEF SendOrDrop, CurrIsChosen
<1>4. \A e \in duties : DeadlineFunc[currDuty] <= DeadlineFunc[e]
    BY <1>1 DEF CurrIsChosen, CurrDuties
<1>5. CASE Len(deadlineChan) < OutputBuffer
    <2>1. deadlineChan' = Append(deadlineChan, currDuty)
        BY <1>5 DEF SendOrDrop
    <2>2. TypeOK'
        BY <1>1, <1>3, <1>5, <2>1, BufferAssumption DEF SendOrDrop, TypeOK
    <2>3. ASSUME NEW i \in 1 .. Len(deadlineChan')
          PROVE  \/ i \in 1 .. Len(deadlineChan) /\ deadlineChan'[i] = deadlineChan[i]
                 \/ i = Len(deadlineChan) + 1 /\ deadlineChan'[i] = currDuty
        BY <2>1, <1>1 DEF TypeOK
    <2>4. ASSUME NEW i \in 1 .. Len(deadlineChan)
          PROVE  /\ deadlineChan[i] \in Duty
                 /\ DeadlineFunc[deadlineChan[i]] <= DeadlineFunc[currDuty]
        BY <1>1 DEF OutputInOrder, TypeOK
    <2>5. now' = now /\ duties' = ds
        BY DEF SendOrDrop
    <2>6. OutputInOrder'
        <3> SUFFICES ASSUME NEW i \in 1 .. Len(deadlineChan')
                     PROVE  /\ DeadlineFunc[deadlineChan'[i]] <= now
                            /\ \A j \in i .. Len(deadlineChan') :
                                 DeadlineFunc[deadlineChan'[i]] <= DeadlineFunc[deadlineChan'[j]]
                            /\ \A d \in ds :
                                 DeadlineFunc[deadlineChan'[i]] <= DeadlineFunc[d]
            BY <2>5 DEF OutputInOrder
        <3>1. CASE i = Len(deadlineChan) + 1
            <4>1. deadlineChan'[i] = currDuty /\ Len(deadlineChan') = i
                BY <2>1, <1>1, <3>1 DEF TypeOK
            <4>2. DeadlineFunc[currDuty] \in Int
                BY <1>1, DeadlineAssumption
            <4>3. \A j \in i .. Len(deadlineChan') : j = i
                BY <4>1
            <4> QED
                BY <1>1, <1>4, <4>1, <4>2, <4>3
        <3>2. CASE i \in 1 .. Len(deadlineChan)
            <4>1. deadlineChan'[i] = deadlineChan[i]
                BY <2>1, <1>1, <3>2 DEF TypeOK
            <4>2. ASSUME NEW j \in i .. Len(deadlineChan')
                  PROVE  DeadlineFunc[deadlineChan[i]] <= DeadlineFunc[deadlineChan'[j]]
                <5>1. j \in 1 .. Len(deadlineChan')
                    OBVIOUS
                <5>2. CASE j \in 1 .. Len(deadlineChan) /\ deadlineChan'[j] = deadlineChan[j]
                    BY <3>2, <5>2 DEF OutputInOrder
                <5>3. CASE deadlineChan'[j] = currDuty
                    BY <2>4, <3>2, <5>3
                <5> QED
                    BY <2>3, <5>1, <5>2, <5>3
            <4>3. /\ DeadlineFunc[deadlineChan[i]] <= now
                  /\ \A d \in ds : DeadlineFunc[deadlineChan[i]] <= DeadlineFunc[d]
                BY <3>2 DEF OutputInOrder
            <4> QED
                BY <4>1, <4>2, <4>3
        <3> QED
            BY <2>3, <3>1, <3>2
    <2> QED
        BY <1>2, <2>2, <2>6 DEF SendIsDue, SendOrDrop
<1>6. CASE ~ (Len(deadlineChan) < OutputBuffer)
    <2>1. deadlineChan' = deadlineChan
        BY <1>6 DEF SendOrDrop
    <2>2. TypeOK'
        BY <1>1, <1>3, <2>1 DEF SendOrDrop, TypeOK
    <2>3. OutputInOrder'
        BY <2>1 DEF SendOrDrop, OutputInOrder
    <2> QED
        BY <1>2, <2>2, <2>3 DEF SendIsDue, SendOrDrop
<1> QED
    BY <1>5, <1>6


\* Reading the channel preserves the invariant.
LEMMA ReadKeeps ==
    ASSUME IInv, ReadC
    PROVE  IInv'
<1> USE DEF IInv
<1>1. /\ deadlineChan' \in Seq(Duty)
      /\ Len(deadlineChan') = Len(deadlineChan) - 1
      /\ \A i \in 1 .. Len(deadlineChan') : deadlineChan'[i] = deadlineChan[i + 1]
    BY DEF ReadC, TypeOK
<1>2. TypeOK'
    BY <1>1, BufferAssumption DEF ReadC, TypeOK
<1>3. OutputInOrder'
    BY <1>1 DEF ReadC, OutputInOrder, TypeOK
<1> QED
    BY <1>2, <1>3 DEF ReadC, CurrIsChosen, SendIsDue

\* Every step of the deadliner, its callers and the clock preserves the
\* invariant.
LEMMA IInvStep == IInv /\ [Next]_vars => IInv'
<1> SUFFICES ASSUME IInv, [Next]_vars
             PROVE  IInv'
    OBVIOUS
<1>1. ASSUME NEW c \in Caller, NEW d \in Duty, CallAdd(c, d)
      PROVE  IInv'
    BY <1>1 DEF IInv, CallAdd, TypeOK, CurrIsChosen, SendIsDue, OutputInOrder
<1>2. ASSUME NEW c \in Caller, AddAborted(c)
      PROVE  IInv'
    BY <1>2 DEF IInv, AddAborted, TypeOK, CurrIsChosen, SendIsDue, OutputInOrder
<1>3. CASE TimerFires
    <2>1. currDuty \in duties
        BY <1>3, CurrDutiesType, BufferAssumption
           DEF IInv, TimerFires, TypeOK, CurrIsChosen, DeadlineOf, FarFuture
    <2> QED
        BY <1>3, <2>1 DEF IInv, TimerFires, TypeOK, CurrIsChosen, SendIsDue, OutputInOrder
<1>4. CASE Stop
    BY <1>4 DEF IInv, Stop, TypeOK, CurrIsChosen, SendIsDue, OutputInOrder
<1>5. CASE Tick
    <2>1. TypeOK' /\ now' = now + 1 /\ now \in Int
        BY <1>5, BufferAssumption DEF IInv, Tick, TypeOK
    <2>2. OutputInOrder'
        <3>1. \A i \in 1 .. Len(deadlineChan) : DeadlineFunc[deadlineChan[i]] \in Int
            BY DeadlineAssumption DEF IInv, TypeOK
        <3> QED
            BY <1>5, <2>1, <3>1 DEF IInv, Tick, OutputInOrder
    <2> QED
        BY <1>5, <2>1, <2>2 DEF IInv, Tick, TypeOK, CurrIsChosen, SendIsDue
<1>6. CASE UNCHANGED vars
    BY <1>6 DEF vars, IInv, TypeOK, CurrIsChosen, SendIsDue, OutputInOrder
<1> QED
    BY <1>1, <1>2, <1>3, <1>4, <1>5, <1>6, ReceiveKeeps, SendKeeps, ReadKeeps DEF Next

\* For all duties, deadlines, callers and buffer sizes, the invariant holds in
\* every reachable state of the deadliner.
THEOREM Invariance == Spec => []IInv
    BY InitIInv, IInvStep, PTL DEF Spec

\* The goroutine of the deadliner always waits for the earliest deadline.
THEOREM CurrIsEarliestHolds == Spec => []CurrIsEarliest
<1>1. ASSUME IInv PROVE CurrIsEarliest
    <2>1. /\ duties \in SUBSET Duty
          /\ currDuty \in CurrDuties(duties) /\ currDeadline = DeadlineOf(currDuty)
        BY <1>1 DEF IInv, TypeOK, CurrIsChosen
    <2>2. CASE duties = {}
        BY <2>1, <2>2 DEF CurrDuties, DeadlineOf, CurrIsEarliest
    <2>3. CASE duties # {}
        <3>1. currDuty \in duties /\ \A e \in duties : DeadlineFunc[currDuty] <= DeadlineFunc[e]
            BY <2>1, <2>3 DEF CurrDuties
        <3>2. currDeadline = DeadlineFunc[currDuty]
            BY <2>1, <3>1, DutyAssumption DEF DeadlineOf
        <3> QED
            BY <2>3, <3>1, <3>2 DEF CurrIsEarliest
    <2> QED
        BY <2>2, <2>3
<1> QED
    BY <1>1, Invariance, PTL

\* Duties are output in the order of their deadlines, and none early.
THEOREM OutputInOrderHolds == Spec => []OutputInOrder
<1>1. IInv => OutputInOrder
    BY DEF IInv
<1> QED
    BY <1>1, Invariance, PTL

-----------------------------------------------------------------------------
(* The refinement *)

Phase == [d \in Duty |-> IF d \in NeverExpire \/ now < DeadlineFunc[d] THEN 0
                         ELSE IF now = DeadlineFunc[d] THEN 1 ELSE 2]

\* Every step of the deadliner is a step of its interface's promise, or leaves
\* what the promise speaks of unchanged.
LEMMA ExpiryStep == IInv /\ [Next]_vars => [Expiry!ExpiryNext]_(Expiry!expiryVars)
<1> SUFFICES ASSUME IInv, [Next]_vars
             PROVE  [Expiry!ExpiryNext]_(Expiry!expiryVars)
    OBVIOUS
<1> USE DEF Expiry!expiryVars, Expiry!ExpiryNext
<1>1. ASSUME NEW c \in Caller, NEW d \in Duty, CallAdd(c, d)
      PROVE  UNCHANGED Expiry!expiryVars
    BY <1>1 DEF CallAdd
<1>2. ASSUME NEW c \in Caller, AddAborted(c)
      PROVE  UNCHANGED Expiry!expiryVars
    BY <1>2 DEF AddAborted
<1>3. ASSUME NEW c \in Caller, Receive(c)
      PROVE  Expiry!Add(call[c])
    <2>1. call[c] \in Duty /\ DeadlineFunc[call[c]] \in Int /\ now \in Int
        BY <1>3, DutyAssumption, DeadlineAssumption DEF Receive, IInv, TypeOK
    <2>2. Expiry!CanAdd(call[c]) <=> ~ (call[c] \in NeverExpire \/ DeadlineFunc[call[c]] < now)
        BY <1>3, <2>1 DEF Expiry!CanAdd, Receive
    <2> QED
        BY <1>3, <2>2 DEF Expiry!Add, Receive
<1>4. CASE TimerFires
    BY <1>4 DEF TimerFires
<1>5. CASE SendOrDrop
    <2>1. currDuty \in duties /\ DeadlineFunc[currDuty] <= now /\ currDuty \in Duty
        BY <1>5, DutyAssumption DEF SendOrDrop, IInv, SendIsDue, TypeOK, CurrIsChosen, DeadlineOf
    <2>2. currDuty \notin NeverExpire
        BY <2>1 DEF IInv, TypeOK
    <2>3. Phase[currDuty] > 0
        BY <2>1, <2>2, DeadlineAssumption DEF Phase, IInv, TypeOK
    <2>4. Expiry!Expire(currDuty)
        BY <1>5, <2>1, <2>3 DEF Expiry!Expire, SendOrDrop, Phase
    <2> QED
        BY <2>1, <2>4
<1>6. CASE Stop
    BY <1>6 DEF Stop, Expiry!StopExpiry
<1>7. CASE ReadC
    BY <1>7 DEF ReadC, Expiry!Take
<1>8. CASE Tick
    <2>1. /\ Phase' \in [Duty -> 0 .. 2]
          /\ \A d \in Duty : Phase'[d] >= Phase[d] /\ (d \in NeverExpire => Phase'[d] = 0)
        BY <1>8, DeadlineAssumption DEF Phase, Tick, IInv, TypeOK
    <2>2. CASE Phase' = Phase
        BY <1>8, <2>2 DEF Phase, Tick
    <2>3. CASE Phase' # Phase
        <3>1. Expiry!TimePasses
            BY <1>8, <2>1, <2>3 DEF Expiry!TimePasses, Phase, Tick
        <3> QED
            BY <3>1
    <2> QED
        BY <2>2, <2>3
<1>9. CASE UNCHANGED vars
    BY <1>9 DEF vars
<1> QED
    <2>1. ASSUME NEW c \in Caller, Receive(c)
          PROVE  Expiry!ExpiryNext
        <3>1. call[c] \in Duty
            BY <2>1 DEF Receive, IInv, TypeOK
        <3> QED
            BY <1>3, <2>1, <3>1
    <2> QED
        BY <1>1, <1>2, <2>1, <1>4, <1>5, <1>6, <1>7, <1>8, <1>9 DEF Next

\* The deadliner implements what the Deadliner interface promises.
THEOREM Refinement == Spec => ImplementsExpiry
<1>1. ASSUME Init
      PROVE  Expiry!ExpiryInit
    <2>1. /\ Phase \in [Duty -> 0 .. 2]
          /\ \A d \in NeverExpire : Phase[d] = 0
        <3>1. \A d \in Duty : Phase[d] \in 0 .. 2
            BY <1>1, InitIInv, DeadlineAssumption DEF Phase, IInv, TypeOK
        <3>2. \A d \in NeverExpire : Phase[d] = 0
            BY DutyAssumption DEF Phase
        <3> QED
            BY <3>1, <3>2 DEF Phase
    <2>2. (pc = "done") = FALSE /\ duties = {} /\ deadlineChan = << >>
        BY <1>1 DEF Init
    <2> QED
        BY <2>1, <2>2 DEF Expiry!ExpiryInit, Phase
<1> QED
    BY <1>1, Invariance, ExpiryStep, PTL DEF ImplementsExpiry, Expiry!ExpirySpec, Spec
=============================================================================
