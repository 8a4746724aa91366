--------------------------- MODULE ParSigDBProofs ---------------------------
(***************************************************************************)
(* Proofs about ParSigDB for all numbers of duties, validators, shares,    *)
(* concurrent calls and for every threshold.                               *)
(***************************************************************************)
EXTENDS ParSigDB, FiniteSetTheorems, TLAPS

\* Most leaves are first-order: Zenon is tried before the SMT solver.
USE ZenonT(4), SMTT(20)

\* The keys a call has still to store are keys of its set.
TodoOK == \A c \in Caller : call[c] # Idle => call[c].todo \subseteq DOMAIN call[c].set

\* What a call will report can be aggregated.
OutputOK ==
    \A c \in Caller : call[c] # Idle =>
        \A pk \in PubKey : call[c].output[pk] # {} =>
            Aggregatable(call[c].duty, call[c].output[pk])

EntriesFinite == \A d \in Duty, pk \in PubKey : IsFiniteSet(entries[d][pk])

\* The inductive invariant.
IInv ==
    /\ TypeOK /\ TodoOK /\ OutputOK /\ EntriesFinite
    /\ OneSigPerShare /\ ReportedCanBeAggregated /\ ThresholdIsReported

\* A goroutine is idle or has a well-formed call.
LEMMA CallType ==
    ASSUME TypeOK, NEW c \in Caller
    PROVE  /\ call[c] = Idle \/ call[c] \in Calls
           /\ call[c].pc = "store" \/ call[c].pc = "exchange" => call[c] \in Calls
           /\ call[c] \in Calls => call[c] # Idle /\ call[c].pc \in {"store", "exchange"}
    BY DEF TypeOK, Calls, Idle

\* The deadliner's steps keep its part of the state well-formed.
LEMMA ExpiryTypes ==
    ASSUME ExpiryTypeOK,
           \/ \E d \in Duty : Add(d) \/ Expire(d)
           \/ TimePasses \/ Take \/ UNCHANGED expiryVars
    PROVE  ExpiryTypeOK'
<1>1. ASSUME NEW d \in Duty, Add(d) PROVE ExpiryTypeOK'
    BY <1>1 DEF Add, ExpiryTypeOK
<1>2. ASSUME NEW d \in Duty, Expire(d) PROVE ExpiryTypeOK'
    BY <1>2, OutputBufferAssumption DEF Expire, ExpiryTypeOK
<1>3. CASE TimePasses
    BY <1>3 DEF TimePasses, ExpiryTypeOK
<1>4. CASE Take
    BY <1>4, OutputBufferAssumption DEF Take, ExpiryTypeOK
<1>5. CASE UNCHANGED expiryVars
    BY <1>5 DEF expiryVars, ExpiryTypeOK
<1> QED
    BY <1>1, <1>2, <1>3, <1>4, <1>5

\* A set that getThresholdMatching returns can be aggregated, if no share is
\* stored twice.
LEMMA MatchingAggregatable ==
    ASSUME NEW d \in Duty, NEW sigs \in SUBSET Sig, NEW set \in ThresholdMatching(d, sigs),
           \A s, t \in sigs : s.share = t.share => s = t
    PROVE  set \in SUBSET sigs /\ Aggregatable(d, set)
    BY DEF ThresholdMatching, SameRoot, Aggregatable

\* The threshold is met when a signature brings a group to that size.
LEMMA GroupGrows ==
    ASSUME NEW old \in SUBSET Sig, IsFiniteSet(old), NEW sig \in Sig, sig \notin old
    PROVE  /\ IsFiniteSet(old \cup {sig})
           /\ IsFiniteSet(SameRoot(old, sig))
           /\ SameRoot(old \cup {sig}, sig) = SameRoot(old, sig) \cup {sig}
           /\ Cardinality(SameRoot(old \cup {sig}, sig)) = Cardinality(SameRoot(old, sig)) + 1
           /\ Cardinality(SameRoot(old, sig)) \in Nat
<1>1. IsFiniteSet(old \cup {sig})
    BY FS_AddElement
<1>2. SameRoot(old, sig) \in SUBSET old
    BY DEF SameRoot
<1>3. IsFiniteSet(SameRoot(old, sig))
    BY <1>2, FS_Subset
<1>4. SameRoot(old \cup {sig}, sig) = SameRoot(old, sig) \cup {sig}
    BY DEF SameRoot
<1>5. sig \notin SameRoot(old, sig)
    BY <1>2
<1> QED
    BY <1>1, <1>3, <1>4, <1>5, FS_AddElement, FS_CardinalityType


\* When a goroutine's call moves on to v, the calls stay well-formed.
LEMMA CallKeeps ==
    ASSUME IInv, NEW c \in Caller, NEW v \in {Idle} \cup Calls,
           call' = [call EXCEPT ![c] = v],
           v # Idle => /\ v.todo \subseteq DOMAIN v.set
                       /\ \A pk \in PubKey : v.output[pk] # {} =>
                             Aggregatable(v.duty, v.output[pk])
    PROVE  /\ call' \in [Caller -> {Idle} \cup Calls]
           /\ TodoOK' /\ OutputOK'
<1>1. call \in [Caller -> {Idle} \cup Calls] /\ TodoOK /\ OutputOK
    BY DEF IInv, TypeOK
<1>2. \A b \in Caller : call'[b] = IF b = c THEN v ELSE call[b]
    BY <1>1
<1> QED
    BY <1>1, <1>2 DEF TodoOK, OutputOK, Aggregatable

\* What a call was about to report is still so after its step, or has been
\* reported, or the call has returned an error.
LEMMA InFlightKeeps ==
    ASSUME IInv, NEW c \in Caller, NEW v,
           call' = [call EXCEPT ![c] = v],
           lost \subseteq lost',
           \A pk \in PubKey : call[c].pc = "store" /\ call[c].output[pk] # {} =>
               \/ v.pc = "store" /\ v.duty = call[c].duty /\ v.output[pk] # {}
               \/ reported'[call[c].duty][pk] # {}
               \/ <<call[c].duty, pk>> \in lost',
           NEW d \in Duty, NEW pk \in PubKey, InFlight(d, pk)
    PROVE  InFlight(d, pk)' \/ reported'[d][pk] # {} \/ <<d, pk>> \in lost'
<1>1. PICK b \in Caller : call[b].pc = "store" /\ call[b].duty = d /\ call[b].output[pk] # {}
    BY DEF InFlight
<1>2. call \in [Caller -> {Idle} \cup Calls]
    BY DEF IInv, TypeOK
<1>3. CASE b # c
    <2>1. call'[b] = call[b]
        BY <1>2, <1>3
    <2> QED
        BY <1>1, <2>1 DEF InFlight
<1>4. CASE b = c
    <2>1. call'[b] = v
        BY <1>2, <1>4
    <2> QED
        BY <1>1, <1>4, <2>1 DEF InFlight
<1> QED
    BY <1>3, <1>4

\* A step that leaves the stored signatures alone keeps thresholds reported.
LEMMA ReportKeeps ==
    ASSUME IInv, entries' = entries, lost \subseteq lost',
           \A d \in Duty, pk \in PubKey :
               /\ reported[d][pk] # {} => reported'[d][pk] # {}
               /\ InFlight(d, pk) => InFlight(d, pk)' \/ reported'[d][pk] # {} \/ <<d, pk>> \in lost'
    PROVE  ThresholdIsReported'
<1> SUFFICES ASSUME NEW d \in Duty \ SigDuty, NEW pk \in PubKey,
                    \E t \in entries[d][pk] : Cardinality(SameRoot(entries[d][pk], t)) >= Threshold
             PROVE  reported'[d][pk] # {} \/ InFlight(d, pk)' \/ <<d, pk>> \in lost'
    BY DEF ThresholdIsReported
<1>1. reported[d][pk] # {} \/ InFlight(d, pk) \/ <<d, pk>> \in lost
    BY DEF IInv, ThresholdIsReported
<1> QED
    BY <1>1

\* The calls of StoreExternal and StoreInternal preserve the invariant.
LEMMA BeginKeeps ==
    ASSUME IInv, NEW c \in Caller, NEW d \in Duty, NEW set \in SignedSets,
           StoreExternal(c, d, set) \/ StoreInternal(c, d, set)
    PROVE  IInv'
<1>1. PICK i \in BOOLEAN : call' = [call EXCEPT ![c] = Storing(d, set, i)]
    BY DEF StoreExternal, StoreInternal
<1> DEFINE v == Storing(d, set, i)
<1>2. DOMAIN set \in SUBSET PubKey
    BY SignedSetsAssumption
<1>3. v \in Calls /\ v.todo = DOMAIN v.set /\ \A pk \in PubKey : v.output[pk] = {}
    BY <1>2 DEF Storing, Calls
<1>4. call[c] = Idle /\ Add(d) /\ UNCHANGED <<dbVars, histVars>>
    BY DEF StoreExternal, StoreInternal
<1> call[c].pc # "store"
    BY <1>4, CallType DEF IInv
<1>5. call' \in [Caller -> {Idle} \cup Calls] /\ TodoOK' /\ OutputOK'
    BY <1>1, <1>3, CallKeeps
<1>6. ExpiryTypeOK'
    BY <1>4, ExpiryTypes DEF IInv, TypeOK
<1>7. TypeOK'
    BY <1>4, <1>5, <1>6 DEF IInv, TypeOK, dbVars, histVars
<1>8. ThresholdIsReported'
    <2>1. UNCHANGED <<entries, reported, lost>>
        BY <1>4 DEF dbVars, histVars
    <2>2. \A e \in Duty, pk \in PubKey :
             InFlight(e, pk) => InFlight(e, pk)' \/ reported'[e][pk] # {} \/ <<e, pk>> \in lost'
        BY <1>1, <1>4, <2>1, InFlightKeeps
    <2> QED
        BY <2>1, <2>2, ReportKeeps
<1>9. EntriesFinite' /\ OneSigPerShare' /\ ReportedCanBeAggregated'
    BY <1>4 DEF IInv, dbVars, histVars, EntriesFinite, OneSigPerShare, ReportedCanBeAggregated, Aggregatable
<1> QED
    BY <1>5, <1>7, <1>8, <1>9 DEF IInv


\* Calling the threshold subscribers preserves the invariant.
LEMMA NotifyKeeps ==
    ASSUME IInv, NEW c \in Caller, NotifyThreshold(c)
    PROVE  IInv'
<1> DEFINE d == call[c].duty
           out == call[c].output
           pks == Pending(c)
<1>1. call[c] \in Calls /\ call[c] # Idle /\ d \in Duty /\ out \in [PubKey -> SUBSET Sig]
    BY CallType DEF IInv, NotifyThreshold, Calls
<1>2. PICK v \in {Idle, AfterStore(c)} : call' = [call EXCEPT ![c] = v]
    BY DEF NotifyThreshold, Fail
<1>3. v \in {Idle} \cup Calls /\ (v # Idle => v.todo = call[c].todo /\ v.set = call[c].set
                                             /\ v.duty = d /\ v.output = out)
    BY <1>1, <1>2 DEF AfterStore, Calls
<1>4. call' \in [Caller -> {Idle} \cup Calls] /\ TodoOK' /\ OutputOK'
    BY <1>1, <1>2, <1>3, CallKeeps DEF IInv, TodoOK, OutputOK
<1>5. /\ UNCHANGED <<expiryVars, dbVars, exchanged>>
      /\ lost' = lost
    BY DEF NotifyThreshold, Fail
<1>6. ASSUME NEW e \in Duty, NEW pk \in PubKey
      PROVE  reported'[e][pk] = IF e = d /\ pk \in pks THEN reported[e][pk] \cup {out[pk]}
                                                       ELSE reported[e][pk]
    BY <1>1 DEF NotifyThreshold, IInv, TypeOK
<1>7. reported' \in [Duty -> [PubKey -> SUBSET SUBSET Sig]] /\ again' \subseteq Duty \X PubKey
    BY <1>1 DEF NotifyThreshold, Pending, IInv, TypeOK
<1>8. TypeOK'
    <2>1. ExpiryTypeOK'
        BY <1>5, ExpiryTypes DEF IInv, TypeOK
    <2> QED
        BY <1>1, <1>4, <1>5, <1>7, <2>1 DEF IInv, TypeOK, dbVars
<1>9. ReportedCanBeAggregated'
    <2> SUFFICES ASSUME NEW e \in Duty, NEW pk \in PubKey, NEW sigs \in reported'[e][pk]
                 PROVE  Aggregatable(e, sigs)
        BY DEF ReportedCanBeAggregated, Aggregatable
    <2>1. CASE sigs \in reported[e][pk]
        BY <2>1 DEF IInv, ReportedCanBeAggregated
    <2>2. CASE e = d /\ pk \in pks /\ sigs = out[pk]
        BY <1>1, <2>2 DEF IInv, OutputOK, Pending
    <2>3. sigs \in reported[e][pk] \/ (e = d /\ pk \in pks /\ sigs = out[pk])
        <3>1. CASE e = d /\ pk \in pks
            <4>1. reported'[e][pk] = reported[e][pk] \cup {out[pk]}
                BY <1>6, <3>1
            <4> QED
                BY <3>1, <4>1
        <3>2. CASE ~ (e = d /\ pk \in pks)
            BY <1>6, <3>2
        <3> QED
            BY <3>1, <3>2
    <2> QED
        BY <2>1, <2>2, <2>3
<1>10. ThresholdIsReported'
    <2>1. entries' = entries
        BY <1>5 DEF dbVars
    <2>2. \A e \in Duty, pk \in PubKey : reported[e][pk] # {} => reported'[e][pk] # {}
        <3> SUFFICES ASSUME NEW e \in Duty, NEW pk \in PubKey, reported[e][pk] # {}
                     PROVE  reported'[e][pk] # {}
            OBVIOUS
        <3>1. reported[e][pk] \subseteq reported'[e][pk]
            BY <1>6
        <3> QED
            BY <3>1
    <2>3. ASSUME NEW pk \in PubKey, call[c].output[pk] # {}
          PROVE  reported'[d][pk] # {}
        <3>1. reported'[d][pk] = reported[d][pk] \cup {out[pk]}
            BY <1>1, <1>6, <2>3 DEF Pending
        <3> QED
            BY <3>1
    <2>4. \A e \in Duty, pk \in PubKey :
             InFlight(e, pk) => InFlight(e, pk)' \/ reported'[e][pk] # {} \/ <<e, pk>> \in lost'
        BY <1>2, <1>5, <2>3, InFlightKeeps
    <2> QED
        BY <1>5, <2>1, <2>2, <2>4, ReportKeeps
<1>11. EntriesFinite' /\ OneSigPerShare'
    BY <1>5 DEF IInv, dbVars, EntriesFinite, OneSigPerShare
<1> QED
    BY <1>4, <1>8, <1>9, <1>10, <1>11 DEF IInv

\* The exchange with the peers preserves the invariant.
LEMMA ExchangeKeeps ==
    ASSUME IInv, NEW c \in Caller, Exchange(c)
    PROVE  IInv'
<1>1. call[c].pc # "store" /\ call' = [call EXCEPT ![c] = Idle]
    BY DEF Exchange, Fail
<1>2. UNCHANGED <<expiryVars, dbVars, reported, again, lost>>
    BY DEF Exchange, Fail
<1>3. call' \in [Caller -> {Idle} \cup Calls] /\ TodoOK' /\ OutputOK'
    BY <1>1, CallKeeps
<1>4. TypeOK'
    <2>1. ExpiryTypeOK'
        BY <1>2, ExpiryTypes DEF IInv, TypeOK
    <2> QED
        BY <1>2, <1>3, <2>1 DEF IInv, TypeOK, dbVars
<1>5. ThresholdIsReported'
    <2>1. \A e \in Duty, pk \in PubKey :
             InFlight(e, pk) => InFlight(e, pk)' \/ reported'[e][pk] # {} \/ <<e, pk>> \in lost'
        BY <1>1, <1>2, InFlightKeeps
    <2> QED
        BY <1>2, <2>1, ReportKeeps DEF dbVars
<1>6. EntriesFinite' /\ OneSigPerShare' /\ ReportedCanBeAggregated'
    BY <1>2 DEF IInv, dbVars, EntriesFinite, OneSigPerShare, ReportedCanBeAggregated, Aggregatable
<1> QED
    BY <1>3, <1>4, <1>5, <1>6 DEF IInv

\* Trim preserves the invariant: everything stored for a duty is in its index.
LEMMA TrimKeeps ==
    ASSUME IInv, Trim
    PROVE  IInv'
<1> DEFINE d == Head(output)
<1>1. d \in Duty /\ ExpiryTypeOK'
    BY ExpiryTypes DEF Trim, Take, IInv, TypeOK, ExpiryTypeOK
<1>2. UNCHANGED <<call, histVars>>
    BY DEF Trim
<1>3. ASSUME NEW e \in Duty, NEW pk \in PubKey
      PROVE  /\ entries'[e][pk] = IF e = d THEN {} ELSE entries[e][pk]
             /\ e # d => keysByDuty'[e] = keysByDuty[e]
    <2>1. /\ entries \in [Duty -> [PubKey -> SUBSET Sig]]
          /\ keysByDuty \in [Duty -> SUBSET PubKey]
          /\ d \in Duty
        BY <1>1 DEF IInv, TypeOK
    <2>2. /\ entries' = [entries EXCEPT ![d] =
                [q \in PubKey |-> IF q \in keysByDuty[d] THEN {} ELSE entries[d][q]]]
          /\ keysByDuty' = [keysByDuty EXCEPT ![d] = {}]
        BY <2>1 DEF Trim
    <2>3. pk \notin keysByDuty[d] => entries[d][pk] = {}
        BY <2>1 DEF IInv, OneSigPerShare
    <2> HIDE DEF d
    <2>4. CASE e = d
        <3>1. entries'[d][pk] = IF pk \in keysByDuty[d] THEN {} ELSE entries[d][pk]
            BY <2>1, <2>2
        <3> QED
            BY <2>3, <2>4, <3>1
    <2>5. CASE e # d
        BY <2>1, <2>2, <2>5
    <2> QED
        BY <2>4, <2>5
<1>4. TypeOK'
    <2>1. /\ entries' \in [Duty -> [PubKey -> SUBSET Sig]]
          /\ keysByDuty' \in [Duty -> SUBSET PubKey]
          /\ trimmed' \subseteq Duty
        BY <1>1 DEF Trim, IInv, TypeOK
    <2> QED
        BY <1>1, <1>2, <2>1 DEF IInv, TypeOK, histVars
<1>5. TodoOK' /\ OutputOK' /\ ReportedCanBeAggregated'
    BY <1>2 DEF IInv, TodoOK, OutputOK, ReportedCanBeAggregated, Aggregatable, histVars
<1>6. EntriesFinite'
    BY <1>3, FS_EmptySet DEF IInv, EntriesFinite
<1>7. OneSigPerShare'
    BY <1>3 DEF IInv, OneSigPerShare
<1>8. ThresholdIsReported'
    <2> SUFFICES ASSUME NEW e \in Duty \ SigDuty, NEW pk \in PubKey,
                        \E t \in entries'[e][pk] :
                           Cardinality(SameRoot(entries'[e][pk], t)) >= Threshold
                 PROVE  reported'[e][pk] # {} \/ InFlight(e, pk)' \/ <<e, pk>> \in lost'
        BY DEF ThresholdIsReported
    <2>1. entries'[e][pk] = entries[e][pk]
        BY <1>3
    <2>2. reported[e][pk] # {} \/ InFlight(e, pk) \/ <<e, pk>> \in lost
        BY <2>1 DEF IInv, ThresholdIsReported
    <2> QED
        BY <1>2, <2>2 DEF InFlight, histVars
<1> QED
    BY <1>4, <1>5, <1>6, <1>7, <1>8 DEF IInv

\* A new signature joins the group of its root, and leaves the others alone.
LEMMA RootGroups ==
    ASSUME NEW old, NEW sig, NEW t \in old \cup {sig}
    PROVE  /\ MessageRoot[t.data] # MessageRoot[sig.data] =>
                t \in old /\ SameRoot(old \cup {sig}, t) = SameRoot(old, t)
           /\ MessageRoot[t.data] = MessageRoot[sig.data] =>
                SameRoot(old \cup {sig}, t) = SameRoot(old \cup {sig}, sig)
BY DEF SameRoot

\* A signature of a share that is not stored yet is added.
Adds(d, pk, sig) ==
    /\ SameShare(entries[d][pk], sig) = {}
    /\ entries' = [entries EXCEPT ![d][pk] = @ \cup {sig}]
    /\ keysByDuty' = [keysByDuty EXCEPT ![d] = @ \cup {pk}]

\* Then the stored signatures are these.
Added(d, pk, sig) ==
    /\ entries' \in [Duty -> [PubKey -> SUBSET Sig]] /\ keysByDuty' \in [Duty -> SUBSET PubKey]
    /\ EntriesFinite' /\ OneSigPerShare'
    /\ entries'[d][pk] = entries[d][pk] \cup {sig}
    /\ \A e \in Duty, p \in PubKey :
          ~ (e = d /\ p = pk) => entries'[e][p] = entries[e][p]

\* Adding a signature keeps one per share.
LEMMA AddedKeeps ==
    ASSUME IInv, NEW d \in Duty, NEW pk \in PubKey, NEW sig \in Sig, Adds(d, pk, sig)
    PROVE  Added(d, pk, sig)
<1>0. /\ SameShare(entries[d][pk], sig) = {}
      /\ entries' = [entries EXCEPT ![d][pk] = @ \cup {sig}]
      /\ keysByDuty' = [keysByDuty EXCEPT ![d] = @ \cup {pk}]
    BY DEF Adds
<1>1. PICK old : old = entries[d][pk]
    OBVIOUS
<1>2. old \in SUBSET Sig /\ IsFiniteSet(old) /\ \A s, t \in old : s.share = t.share => s = t
    BY <1>1 DEF IInv, TypeOK, EntriesFinite, OneSigPerShare
<1>3. PICK sigs : sigs = old \cup {sig}
    OBVIOUS
<1>4. sigs \in SUBSET Sig /\ sig \notin old /\ \A s, t \in sigs : s.share = t.share => s = t
    BY <1>0, <1>1, <1>2, <1>3 DEF SameShare
<1>5. entries \in [Duty -> [PubKey -> SUBSET Sig]] /\ keysByDuty \in [Duty -> SUBSET PubKey]
    BY DEF IInv, TypeOK
<1>6. entries' = [entries EXCEPT ![d] = [entries[d] EXCEPT ![pk] = sigs]]
    BY <1>0, <1>1, <1>3, <1>5
<1>7. entries' \in [Duty -> [PubKey -> SUBSET Sig]]
    <2>1. [entries[d] EXCEPT ![pk] = sigs] \in [PubKey -> SUBSET Sig]
        BY <1>4, <1>5
    <2> QED
        BY <1>5, <1>6, <2>1
<1>8. keysByDuty' \in [Duty -> SUBSET PubKey]
    BY <1>0, <1>5
<1>9. ASSUME NEW e \in Duty, NEW p \in PubKey
      PROVE  /\ entries'[e][p] = IF e = d /\ p = pk THEN sigs ELSE entries[e][p]
             /\ keysByDuty[e] \subseteq keysByDuty'[e]
             /\ e = d => pk \in keysByDuty'[e]
    <2>1. entries'[e][p] = IF e = d /\ p = pk THEN sigs ELSE entries[e][p]
        BY <1>5, <1>6
    <2>2. keysByDuty'[e] = IF e = d THEN keysByDuty[d] \cup {pk} ELSE keysByDuty[e]
        BY <1>0, <1>5
    <2>3. keysByDuty[e] \subseteq keysByDuty'[e] /\ (e = d => pk \in keysByDuty'[e])
        <3>1. CASE e = d
            <4>1. keysByDuty'[e] = keysByDuty[e] \cup {pk}
                BY <2>2, <3>1
            <4> QED
                BY <4>1
        <3>2. CASE e # d
            BY <2>2, <3>2
        <3> QED
            BY <3>1, <3>2
    <2> QED
        BY <2>1, <2>3
<1>10. EntriesFinite'
    <2>1. IsFiniteSet(sigs)
        BY <1>2, <1>3, <1>4, GroupGrows
    <2> SUFFICES ASSUME NEW e \in Duty, NEW p \in PubKey PROVE IsFiniteSet(entries'[e][p])
        BY DEF EntriesFinite
    <2>2. CASE e = d /\ p = pk
        BY <1>9, <2>1, <2>2
    <2>3. CASE ~ (e = d /\ p = pk)
        BY <1>9, <2>3 DEF IInv, EntriesFinite
    <2> QED
        BY <2>2, <2>3
<1>11. OneSigPerShare'
    <2> SUFFICES ASSUME NEW e \in Duty, NEW p \in PubKey
                 PROVE  /\ \A s, t \in entries'[e][p] : s.share = t.share => s = t
                        /\ entries'[e][p] # {} => p \in keysByDuty'[e]
        BY DEF OneSigPerShare
    <2>1. CASE e = d /\ p = pk
        BY <1>4, <1>9, <2>1
    <2>2. CASE ~ (e = d /\ p = pk)
        BY <1>9, <2>2 DEF IInv, OneSigPerShare
    <2> QED
        BY <2>1, <2>2
<1> QED
    BY <1>1, <1>3, <1>7, <1>8, <1>9, <1>10, <1>11 DEF Added

\* Storing one signature preserves the invariant.  The call that brings a
\* group to the threshold will report it; one that exceeds it need not.
LEMMA StoreOneKeeps ==
    ASSUME IInv, NEW c \in Caller, NEW pk \in PubKey, StoreOne(c, pk)
    PROVE  IInv'
<1> DEFINE d == call[c].duty
           sig == call[c].set[pk]
           old == entries[d][pk]
           sigs == old \cup {sig}
           match == ThresholdMatching(d, sigs)
           rest == [call[c] EXCEPT !.todo = @ \ {pk}]
<1>1. /\ call[c] \in Calls /\ call[c] # Idle /\ d \in Duty /\ call[c].pc = "store"
      /\ call[c].output \in [PubKey -> SUBSET Sig] /\ pk \in call[c].todo
      /\ call[c].set \in SignedSets
    BY CallType DEF IInv, StoreOne, Calls
<1>2. sig \in Sig
    <2>1. pk \in DOMAIN call[c].set
        BY <1>1 DEF IInv, TodoOK
    <2> QED
        BY <1>1, <2>1, SignedSetsAssumption DEF Sig
<1>3. /\ UNCHANGED <<expiryVars, trimmed, reported, again, exchanged>>
      /\ ExpiryTypeOK'
    BY ExpiryTypes DEF StoreOne, IInv, TypeOK
<1>4. old \in SUBSET Sig /\ IsFiniteSet(old) /\ \A s, t \in old : s.share = t.share => s = t
    BY <1>1 DEF IInv, TypeOK, EntriesFinite, OneSigPerShare
<1>5. /\ rest \in Calls /\ rest.todo \subseteq DOMAIN rest.set
      /\ rest.pc = "store" /\ rest.duty = d /\ rest.output = call[c].output
      /\ rest # Idle
    BY <1>1 DEF IInv, TodoOK, Calls, Idle
<1>6. \A p \in PubKey : call[c].output[p] # {} => Aggregatable(d, call[c].output[p])
    BY <1>1 DEF IInv, OutputOK
<1> HIDE DEF match
<1>7. CASE /\ call' = [call EXCEPT ![c] = Idle]
           /\ lost' = lost \cup {<<d, p>> : p \in Pending(c)}
           /\ UNCHANGED <<entries, keysByDuty>>
    <2>1. call' \in [Caller -> {Idle} \cup Calls] /\ TodoOK' /\ OutputOK'
        BY <1>7, CallKeeps
    <2>2. TypeOK'
        <3>1. lost' \subseteq Duty \X PubKey
            BY <1>1, <1>7 DEF IInv, TypeOK, Pending
        <3> QED
            BY <1>3, <1>7, <2>1, <3>1 DEF IInv, TypeOK
    <2>3. \A e \in Duty, p \in PubKey :
             InFlight(e, p) => InFlight(e, p)' \/ reported'[e][p] # {} \/ <<e, p>> \in lost'
        <3>1. \A q \in PubKey : call[c].output[q] # {} => <<d, q>> \in lost'
            BY <1>7 DEF Pending
        <3> QED
            BY <1>7, <3>1, InFlightKeeps
    <2>4. ThresholdIsReported'
        BY <1>3, <1>7, <2>3, ReportKeeps
    <2>5. EntriesFinite' /\ OneSigPerShare' /\ ReportedCanBeAggregated'
        BY <1>3, <1>7 DEF IInv, EntriesFinite, OneSigPerShare, ReportedCanBeAggregated, Aggregatable
    <2> QED
        BY <2>1, <2>2, <2>4, <2>5 DEF IInv
<1>8. CASE call' = [call EXCEPT ![c] = rest] /\ UNCHANGED <<entries, keysByDuty, lost>>
    <2>1. call' \in [Caller -> {Idle} \cup Calls] /\ TodoOK' /\ OutputOK'
        BY <1>5, <1>6, <1>8, CallKeeps
    <2>2. TypeOK'
        BY <1>1, <1>3, <1>8, <2>1 DEF IInv, TypeOK
    <2>3. \A e \in Duty, p \in PubKey :
             InFlight(e, p) => InFlight(e, p)' \/ reported'[e][p] # {} \/ <<e, p>> \in lost'
        <3>1. \A q \in PubKey : call[c].pc = "store" /\ call[c].output[q] # {} =>
                 \/ rest.pc = "store" /\ rest.duty = call[c].duty /\ rest.output[q] # {}
                 \/ reported'[call[c].duty][q] # {}
                 \/ <<call[c].duty, q>> \in lost'
            BY <1>5
        <3>2. lost \subseteq lost' /\ call' = [call EXCEPT ![c] = rest]
            BY <1>8
        <3> HIDE DEF rest
        <3> QED
            BY <3>1, <3>2, InFlightKeeps
    <2>4. ThresholdIsReported'
        BY <1>3, <1>8, <2>3, ReportKeeps
    <2>5. EntriesFinite' /\ OneSigPerShare' /\ ReportedCanBeAggregated'
        BY <1>3, <1>8 DEF IInv, EntriesFinite, OneSigPerShare, ReportedCanBeAggregated, Aggregatable
    <2> QED
        BY <2>1, <2>2, <2>4, <2>5 DEF IInv
<1>9. CASE /\ SameShare(old, sig) = {}
           /\ entries' = [entries EXCEPT ![d][pk] = @ \cup {sig}]
           /\ keysByDuty' = [keysByDuty EXCEPT ![d] = @ \cup {pk}]
           /\ \/ match = {} /\ call' = [call EXCEPT ![c] = rest]
              \/ \E set \in match : call' = [call EXCEPT ![c] = [rest EXCEPT !.output[pk] = set]]
           /\ lost' = lost
    <2>1. sig \notin old /\ \A s, t \in sigs : s.share = t.share => s = t
        BY <1>4, <1>9 DEF SameShare
    <2>2. sigs \in SUBSET Sig
        BY <1>2, <1>4
    <2> DEFINE Moves(v) ==
             /\ call' = [call EXCEPT ![c] = v]
             /\ v # Idle /\ v.todo = rest.todo /\ v.set = rest.set /\ v.pc = "store" /\ v.duty = d
             /\ \/ match = {} /\ v.output = rest.output
                \/ \E set \in match : v.output = [rest.output EXCEPT ![pk] = set]
    <2>3. \E v \in Calls : Moves(v)
        <3>1. CASE match = {} /\ call' = [call EXCEPT ![c] = rest]
            BY <1>5, <3>1
        <3>2. ASSUME NEW set \in match, call' = [call EXCEPT ![c] = [rest EXCEPT !.output[pk] = set]]
              PROVE  \E v \in Calls : Moves(v)
            <4> DEFINE w == [rest EXCEPT !.output[pk] = set]
            <4>1. set \in SUBSET Sig
                BY <1>1, <2>1, <2>2, MatchingAggregatable DEF match
            <4>2. w \in Calls /\ w.todo = rest.todo /\ w.set = rest.set /\ w.pc = rest.pc
                  /\ w.duty = rest.duty /\ w.output = [rest.output EXCEPT ![pk] = set]
                BY <1>5, <4>1 DEF Calls
            <4>3. w # Idle
                BY <4>2 DEF Calls, Idle
            <4>4. Moves(w)
                BY <1>5, <3>2, <4>2, <4>3
            <4> QED
                BY <4>2, <4>4
        <3>3. \/ match = {} /\ call' = [call EXCEPT ![c] = rest]
              \/ \E set \in match : call' = [call EXCEPT ![c] = [rest EXCEPT !.output[pk] = set]]
            BY <1>9
        <3> HIDE DEF match, rest, Moves
        <3> QED
            BY <3>1, <3>2, <3>3, Zenon
    <2>14. PICK v \in Calls : Moves(v)
        BY <2>3
    <2> USE DEF match
    <2>4. \A set \in match : set # {}
        <3> SUFFICES ASSUME {} \in match PROVE FALSE
            OBVIOUS
        <3>1. Cardinality({}) = Threshold
            BY DEF ThresholdMatching
        <3> QED
            BY <3>1, FS_EmptySet, ThresholdAssumption
    <2>5. \A p \in PubKey : v.output[p] # {} => Aggregatable(d, v.output[p])
        <3>1. \A set \in match : Aggregatable(d, set)
            BY <1>1, <2>1, <2>2, MatchingAggregatable
        <3> QED
            BY <1>1, <1>5, <1>6, <2>14, <3>1
    <2>6. call' \in [Caller -> {Idle} \cup Calls] /\ TodoOK' /\ OutputOK'
        BY <1>5, <2>14, <2>5, CallKeeps
    <2>7. /\ entries' \in [Duty -> [PubKey -> SUBSET Sig]] /\ keysByDuty' \in [Duty -> SUBSET PubKey]
          /\ EntriesFinite' /\ OneSigPerShare' /\ entries'[d][pk] = sigs
          /\ \A e \in Duty, p \in PubKey :
                ~ (e = d /\ p = pk) => entries'[e][p] = entries[e][p]
        <3>1. PICK x \in Duty, g \in Sig : x = d /\ g = sig
            BY <1>1, <1>2
        <3>2. Adds(x, pk, g)
            BY <1>9, <3>1 DEF Adds
        <3>3. Added(x, pk, g)
            BY <3>2, AddedKeeps
        <3> QED
            BY <3>1, <3>3 DEF Added
    <2>8. TypeOK'
        BY <1>3, <1>9, <2>6, <2>7 DEF IInv, TypeOK
    <2>11. ASSUME NEW e \in Duty, NEW p \in PubKey
           PROVE  InFlight(e, p) => InFlight(e, p)' \/ reported'[e][p] # {} \/ <<e, p>> \in lost'
        <3>1. \A q \in PubKey : call[c].output[q] # {} => v.output[q] # {}
            BY <1>1, <1>5, <2>14, <2>4
        <3>2. \A q \in PubKey : call[c].pc = "store" /\ call[c].output[q] # {} =>
                 \/ v.pc = "store" /\ v.duty = call[c].duty /\ v.output[q] # {}
                 \/ reported'[call[c].duty][q] # {}
                 \/ <<call[c].duty, q>> \in lost'
            BY <2>14, <3>1
        <3>3. lost \subseteq lost' /\ call' = [call EXCEPT ![c] = v]
            BY <1>9, <2>14
        <3> QED
            BY <3>2, <3>3, InFlightKeeps
    <2>12. ThresholdIsReported'
        <3> SUFFICES ASSUME NEW e \in Duty \ SigDuty, NEW p \in PubKey, NEW t \in entries'[e][p],
                            Cardinality(SameRoot(entries'[e][p], t)) >= Threshold
                     PROVE  reported'[e][p] # {} \/ InFlight(e, p)' \/ <<e, p>> \in lost'
            BY DEF ThresholdIsReported
        <3> HIDE DEF d, sig, old, match, rest
        <3>1. ASSUME NEW u \in entries[e][p], Cardinality(SameRoot(entries[e][p], u)) >= Threshold
              PROVE  reported'[e][p] # {} \/ InFlight(e, p)' \/ <<e, p>> \in lost'
            <4>1. reported[e][p] # {} \/ InFlight(e, p) \/ <<e, p>> \in lost
                BY <3>1 DEF IInv, ThresholdIsReported
            <4> QED
                BY <1>3, <1>9, <2>11, <4>1
        <3>2. CASE ~ (e = d /\ p = pk)
            BY <2>7, <3>1, <3>2
        <3>3. CASE e = d /\ p = pk /\ MessageRoot[t.data] # MessageRoot[sig.data]
            <4>1. t \in old /\ SameRoot(sigs, t) = SameRoot(old, t)
                <5>1. t \in sigs
                    BY <2>7, <3>3
                <5> QED
                    BY <3>3, <5>1, RootGroups
            <4> QED
                BY <2>7, <3>1, <3>3, <4>1 DEF old
        <3>4. CASE e = d /\ p = pk /\ MessageRoot[t.data] = MessageRoot[sig.data]
            <4> DEFINE n == Cardinality(SameRoot(old, sig))
            <4>1. SameRoot(sigs, t) = SameRoot(sigs, sig)
                <5>1. t \in sigs
                    BY <2>7, <3>4
                <5> QED
                    BY <3>4, <5>1, RootGroups
            <4>2. n \in Nat /\ Cardinality(SameRoot(sigs, sig)) = n + 1
                  /\ IsFiniteSet(SameRoot(old, sig))
                BY <1>2, <1>4, <2>1, GroupGrows
            <4>3. n + 1 >= Threshold
                <5>1. entries'[e][p] = sigs
                    BY <2>7, <3>4
                <5> QED
                    BY <4>1, <4>2, <5>1
            <4>4. CASE n + 1 = Threshold
                <5>1. SameRoot(sigs, sig) \in match
                    BY <3>4, <4>2, <4>4 DEF ThresholdMatching, match
                <5>2. v.output[pk] # {}
                    BY <1>1, <1>5, <2>14, <2>4, <5>1
                <5>3. call'[c] = v
                    BY <2>14 DEF IInv, TypeOK
                <5> QED
                    BY <2>14, <3>4, <5>2, <5>3 DEF InFlight
            <4>5. CASE n >= Threshold
                <5>1. SameRoot(old, sig) # {}
                    <6> SUFFICES ASSUME SameRoot(old, sig) = {} PROVE FALSE
                        OBVIOUS
                    <6>1. n = 0
                        BY FS_EmptySet
                    <6> QED
                        BY <4>5, <6>1, ThresholdAssumption
                <5>2. PICK u \in old : MessageRoot[u.data] = MessageRoot[sig.data]
                    BY <5>1 DEF SameRoot
                <5>3. SameRoot(old, u) = SameRoot(old, sig)
                    BY <5>2 DEF SameRoot
                <5> QED
                    BY <3>1, <3>4, <4>5, <5>2, <5>3 DEF old
            <4> QED
                BY <4>2, <4>3, <4>4, <4>5, ThresholdAssumption
        <3> QED
            BY <3>2, <3>3, <3>4
    <2>13. ReportedCanBeAggregated'
        BY <1>3 DEF IInv, ReportedCanBeAggregated, Aggregatable
    <2> QED
        BY <2>6, <2>7, <2>8, <2>12, <2>13 DEF IInv
<1>10. CASE /\ SameShare(old, sig) = {}
            /\ entries' = [entries EXCEPT ![d][pk] = @ \cup {sig}]
            /\ keysByDuty' = [keysByDuty EXCEPT ![d] = @ \cup {pk}]
            /\ call' = [call EXCEPT ![c] = Idle]
            /\ lost' = lost \cup {<<d, p>> : p \in Pending(c) \cup {pk}}
    <2>1. call' \in [Caller -> {Idle} \cup Calls] /\ TodoOK' /\ OutputOK'
        BY <1>10, CallKeeps
    <2>2. /\ entries' \in [Duty -> [PubKey -> SUBSET Sig]] /\ keysByDuty' \in [Duty -> SUBSET PubKey]
          /\ EntriesFinite' /\ OneSigPerShare'
          /\ \A e \in Duty, p \in PubKey :
                ~ (e = d /\ p = pk) => entries'[e][p] = entries[e][p]
        <3>1. PICK x \in Duty, g \in Sig : x = d /\ g = sig
            BY <1>1, <1>2
        <3>2. Adds(x, pk, g)
            BY <1>10, <3>1 DEF Adds
        <3>3. Added(x, pk, g)
            BY <3>2, AddedKeeps
        <3> QED
            BY <3>1, <3>3 DEF Added
    <2>3. TypeOK'
        <3>1. lost' \subseteq Duty \X PubKey
            BY <1>1, <1>10 DEF IInv, TypeOK, Pending
        <3> QED
            BY <1>3, <2>1, <2>2, <3>1 DEF IInv, TypeOK
    <2>4. lost \subseteq lost' /\ \A q \in PubKey : call[c].output[q] # {} => <<d, q>> \in lost'
        BY <1>10 DEF Pending
    <2>5. \A e \in Duty, p \in PubKey :
             InFlight(e, p) => InFlight(e, p)' \/ reported'[e][p] # {} \/ <<e, p>> \in lost'
        BY <1>10, <2>4, InFlightKeeps
    <2>6. ThresholdIsReported'
        <3> SUFFICES ASSUME NEW e \in Duty \ SigDuty, NEW p \in PubKey,
                            \E t \in entries'[e][p] :
                               Cardinality(SameRoot(entries'[e][p], t)) >= Threshold
                     PROVE  reported'[e][p] # {} \/ InFlight(e, p)' \/ <<e, p>> \in lost'
            BY DEF ThresholdIsReported
        <3>1. CASE e = d /\ p = pk
            BY <1>10, <3>1
        <3>2. CASE ~ (e = d /\ p = pk)
            <4>1. entries'[e][p] = entries[e][p]
                BY <2>2, <3>2
            <4>2. reported[e][p] # {} \/ InFlight(e, p) \/ <<e, p>> \in lost
                BY <4>1 DEF IInv, ThresholdIsReported
            <4> QED
                BY <1>3, <2>4, <2>5, <4>2
        <3> QED
            BY <3>1, <3>2
    <2>7. ReportedCanBeAggregated'
        BY <1>3 DEF IInv, ReportedCanBeAggregated, Aggregatable
    <2> QED
        BY <2>1, <2>2, <2>3, <2>6, <2>7 DEF IInv
<1> QED
    BY <1>7, <1>8, <1>9, <1>10 DEF StoreOne, Fail, match


\* The invariant holds initially.
LEMMA InitIInv == Init => IInv
<1> SUFFICES ASSUME Init PROVE IInv
    OBVIOUS
<1>1. ExpiryTypeOK
    <2>1. phase \in [Duty -> 0 .. 2] /\ scheduled \subseteq Duty /\ stopped \in BOOLEAN
        BY DEF Init, ExpiryInit
    <2>2. output = << >>
        BY DEF Init, ExpiryInit
    <2>3. output \in Seq(Duty) /\ Len(output) <= OutputBuffer
        BY <2>2, OutputBufferAssumption
    <2> QED
        BY <2>1, <2>3 DEF ExpiryTypeOK
<1>2. TypeOK
    BY <1>1 DEF Init, TypeOK
<1>3. TodoOK /\ OutputOK
    BY DEF Init, TodoOK, OutputOK
<1>4. EntriesFinite
    BY FS_EmptySet DEF Init, EntriesFinite
<1>5. OneSigPerShare /\ ReportedCanBeAggregated /\ ThresholdIsReported
    BY DEF Init, OneSigPerShare, ReportedCanBeAggregated, ThresholdIsReported
<1> QED
    BY <1>2, <1>3, <1>4, <1>5 DEF IInv

\* Steps that leave the database and its calls alone preserve the invariant.
LEMMA ClockKeeps ==
    ASSUME IInv, ExpiryTypeOK', UNCHANGED <<dbVars, call, histVars>>
    PROVE  IInv'
<1> USE DEF dbVars, histVars
<1>1. TypeOK' /\ TodoOK' /\ EntriesFinite' /\ OneSigPerShare'
    BY DEF IInv, TypeOK, TodoOK, EntriesFinite, OneSigPerShare
<1>2. OutputOK' /\ ReportedCanBeAggregated'
    BY DEF IInv, OutputOK, ReportedCanBeAggregated, Aggregatable
<1>3. ThresholdIsReported'
    BY DEF IInv, ThresholdIsReported, InFlight
<1> QED
    BY <1>1, <1>2, <1>3 DEF IInv

\* Every step preserves the invariant.
LEMMA IInvStep == IInv /\ [Next]_vars => IInv'
<1> SUFFICES ASSUME IInv, [Next]_vars PROVE IInv'
    OBVIOUS
<1> ExpiryTypeOK
    BY DEF IInv, TypeOK
<1>1. ASSUME NEW c \in Caller, NEW d \in Duty, NEW set \in SignedSets,
             StoreExternal(c, d, set) \/ StoreInternal(c, d, set)
      PROVE  IInv'
    BY <1>1, BeginKeeps
<1>2. ASSUME NEW c \in Caller, NEW pk \in PubKey, StoreOne(c, pk) PROVE IInv'
    BY <1>2, StoreOneKeeps
<1>3. ASSUME NEW c \in Caller, NotifyThreshold(c) PROVE IInv'
    BY <1>3, NotifyKeeps
<1>4. ASSUME NEW c \in Caller, Exchange(c) PROVE IInv'
    BY <1>4, ExchangeKeeps
<1>5. CASE Trim
    BY <1>5, TrimKeeps
<1>6. CASE DeadlineReached
    BY <1>6, ExpiryTypes, ClockKeeps DEF DeadlineReached
<1>7. CASE Clock
    BY <1>7, ExpiryTypes, ClockKeeps DEF Clock
<1>8. CASE UNCHANGED vars
    BY <1>8, ExpiryTypes, ClockKeeps DEF vars
<1> QED
    BY <1>1, <1>2, <1>3, <1>4, <1>5, <1>6, <1>7, <1>8 DEF Next

\* The invariant holds in every reachable state.
THEOREM Invariance == Spec => []IInv
<1> QED
    BY InitIInv, IInvStep, PTL DEF Spec

\* However the calls interleave, a key holds one signature per share, and the
\* index that Trim uses covers every stored signature.
THEOREM OneSigPerShareHolds == Spec => []OneSigPerShare
<1>1. IInv => OneSigPerShare
    BY DEF IInv
<1> QED
    BY <1>1, Invariance, PTL

\* threshSubs only get sets of signatures that sigagg can aggregate.
THEOREM ReportedCanBeAggregatedHolds == Spec => []ReportedCanBeAggregated
<1>1. IInv => ReportedCanBeAggregated
    BY DEF IInv
<1> QED
    BY <1>1, Invariance, PTL

\* A threshold that is reached is reported, or a call returned an error.
THEOREM ThresholdIsReportedHolds == Spec => []ThresholdIsReported
<1>1. IInv => ThresholdIsReported
    BY DEF IInv
<1> QED
    BY <1>1, Invariance, PTL
-----------------------------------------------------------------------------
(* The own signatures are exchanged, and a threshold is reported once *)

\* A call of StoreExternal has no signature of this node.
ExternalCalls ==
    \A c \in Caller : call[c] # Idle /\ ~ call[c].internal =>
        \A pk \in DOMAIN call[c].set : call[c].set[pk].share # OwnShare

\* The call r of StoreInternal will exchange the signature s.
Holds(r, d, pk, s) ==
    r # Idle /\ r.internal /\ r.duty = d /\ pk \in DOMAIN r.set /\ r.set[pk] = s

\* The signature is with the peers, or its call returned an error.
Settled(d, pk, s) == <<d, pk, s>> \in exchanged \cup refused

\* An own signature that is stored is with the peers, or in the hands of the
\* call that stored it, or that call has returned an error.
OwnInv ==
    /\ ExternalCalls
    /\ \A d \in Duty, pk \in PubKey : \A s \in entries[d][pk] :
          s.share = OwnShare =>
             \/ Settled(d, pk, s)
             \/ \E c \in Caller : Holds(call[c], d, pk, s)

\* The call r will call threshSubs for the key.
Reports(r, d, pk) == r.pc = "store" /\ r.duty = d /\ r.output[pk] # {}

SameRoots(d, pk) == \A s, t \in entries[d][pk] : MessageRoot[s.data] = MessageRoot[t.data]

\* One call at most reports the key, it does so once, and not before the
\* threshold is stored.
OnceAt(d, pk) ==
    /\ <<d, pk>> \notin again
    /\ reported[d][pk] # {} => Cardinality(entries[d][pk]) >= Threshold
    /\ \A c \in Caller : Reports(call[c], d, pk) =>
          /\ reported[d][pk] = {}
          /\ Cardinality(entries[d][pk]) >= Threshold
          /\ \A b \in Caller : Reports(call[b], d, pk) => b = c

OnceInv == \A d \in Duty \ trimmed, pk \in PubKey : SameRoots(d, pk) => OnceAt(d, pk)

\* The call c returns an error, to the validator client if it is one of StoreInternal.
Refuses(c) ==
    call[c].internal =>
        \A pk \in DOMAIN call[c].set : <<call[c].duty, pk, call[c].set[pk]>> \in refused'

\* What the failure of a call does.
LEMMA FailRefuses ==
    ASSUME NEW c \in Caller, NEW pks, Fail(c, pks)
    PROVE  call' = [call EXCEPT ![c] = Idle] /\ refused \subseteq refused' /\ Refuses(c)
<1>1. CASE call[c].internal
    <2>1. refused' = refused \cup
             {<<call[c].duty, pk, call[c].set[pk]>> : pk \in DOMAIN call[c].set}
        BY <1>1 DEF Fail
    <2> QED
        BY <2>1 DEF Fail, Refuses
<1>2. CASE ~ call[c].internal
    BY <1>2 DEF Fail, Refuses
<1> QED
    BY <1>1, <1>2

\* How the call c moves on to v when it stores its signature of pk.
StoreMove(c, pk, v) ==
    LET d == call[c].duty
        sig == call[c].set[pk]
        sigs == entries[d][pk] \cup {sig}
    IN
    /\ call' = [call EXCEPT ![c] = v] /\ refused \subseteq refused'
    /\ v # Idle => v.internal = call[c].internal /\ v.duty = d /\ v.set = call[c].set
    /\ v = Idle => Refuses(c)
    /\ \/ entries' = entries /\ (v # Idle => v.output = call[c].output)
       \/ /\ SameShare(entries[d][pk], sig) = {}
          /\ entries' = [entries EXCEPT ![d][pk] = sigs]
          /\ v # Idle => \/ v.output = call[c].output
                         \/ /\ ThresholdMatching(d, sigs) # {}
                            /\ \A q \in PubKey \ {pk} : v.output[q] = call[c].output[q]

\* The outcomes of storing one signature.
LEMMA StoreMoves ==
    ASSUME IInv, NEW c \in Caller, NEW pk \in PubKey, StoreOne(c, pk)
    PROVE  /\ call[c] \in Calls /\ call[c].pc = "store" /\ call[c].duty \in Duty
           /\ pk \in DOMAIN call[c].set /\ call[c].set[pk] \in Sig
           /\ \E v : StoreMove(c, pk, v)
<1> DEFINE d == call[c].duty
           sig == call[c].set[pk]
           sigs == entries[d][pk] \cup {sig}
           rest == [call[c] EXCEPT !.todo = @ \ {pk}]
<1>1. /\ call[c] \in Calls /\ call[c] # Idle /\ d \in Duty /\ call[c].pc = "store"
      /\ call[c].output \in [PubKey -> SUBSET Sig] /\ pk \in call[c].todo
      /\ call[c].set \in SignedSets
    BY CallType DEF IInv, StoreOne, Calls
<1>2. pk \in DOMAIN call[c].set
    BY <1>1 DEF IInv, TodoOK
<1>3. sig \in Sig
    BY <1>1, <1>2, SignedSetsAssumption DEF Sig
<1>4. /\ rest \in Calls /\ rest # Idle /\ rest.internal = call[c].internal
      /\ rest.duty = d /\ rest.set = call[c].set /\ rest.output = call[c].output
    BY <1>1 DEF Calls, Idle
<1>5. ASSUME NEW pks, Fail(c, pks),
             \/ entries' = entries
             \/ /\ SameShare(entries[d][pk], sig) = {}
                /\ entries' = [entries EXCEPT ![d][pk] = sigs]
      PROVE  \E v : StoreMove(c, pk, v)
    <2>1. call' = [call EXCEPT ![c] = Idle] /\ refused \subseteq refused' /\ Refuses(c)
        BY <1>5, FailRefuses
    <2>2. StoreMove(c, pk, Idle)
        BY <1>5, <2>1 DEF StoreMove
    <2> QED
        BY <2>2
<1>6. CASE call' = [call EXCEPT ![c] = rest] /\ refused' = refused /\ entries' = entries
    <2>1. StoreMove(c, pk, rest)
        BY <1>4, <1>6 DEF StoreMove
    <2> QED
        BY <1>1, <1>2, <1>3, <2>1
<1>7. CASE /\ SameShare(entries[d][pk], sig) = {} /\ refused' = refused
           /\ entries' = [entries EXCEPT ![d][pk] = sigs]
           /\ call' = [call EXCEPT ![c] = rest]
    <2>1. StoreMove(c, pk, rest)
        BY <1>4, <1>7 DEF StoreMove
    <2> QED
        BY <1>1, <1>2, <1>3, <2>1
<1>8. ASSUME NEW set \in ThresholdMatching(d, sigs),
             SameShare(entries[d][pk], sig) = {}, refused' = refused,
             entries' = [entries EXCEPT ![d][pk] = sigs],
             call' = [call EXCEPT ![c] = [rest EXCEPT !.output[pk] = set]]
      PROVE  \E v : StoreMove(c, pk, v)
    <2> DEFINE w == [rest EXCEPT !.output[pk] = set]
    <2>1. /\ w.internal = rest.internal /\ w.duty = rest.duty /\ w.set = rest.set
          /\ w.pc = rest.pc
          /\ \A q \in PubKey \ {pk} : w.output[q] = rest.output[q]
        BY <1>1, <1>4 DEF Calls
    <2>2. w # Idle
        BY <1>4, <2>1 DEF Calls, Idle
    <2>3. StoreMove(c, pk, w)
        <3> HIDE DEF w
        <3> QED
            BY <1>4, <1>8, <2>1, <2>2 DEF StoreMove, w
    <2> QED
        BY <2>3
<1>9. \/ \E pks : Fail(c, pks) /\ entries' = entries
      \/ call' = [call EXCEPT ![c] = rest] /\ refused' = refused /\ entries' = entries
      \/ /\ SameShare(entries[d][pk], sig) = {}
         /\ entries' = [entries EXCEPT ![d][pk] = sigs]
         /\ \/ \E pks : Fail(c, pks)
            \/ call' = [call EXCEPT ![c] = rest] /\ refused' = refused
            \/ \E set \in ThresholdMatching(d, sigs) :
                  /\ call' = [call EXCEPT ![c] = [rest EXCEPT !.output[pk] = set]]
                  /\ refused' = refused
    BY <1>1 DEF StoreOne, IInv, TypeOK
<1> HIDE DEF rest, sigs, sig, d
<1> QED
    BY <1>1, <1>2, <1>3, <1>5, <1>6, <1>7, <1>8, <1>9 DEF d, sig

\* When a goroutine's call moves on to v, the own signatures stay accounted
\* for, if those that the call held are, and if v holds what it has stored.
LEMMA OwnKeeps ==
    ASSUME IInv, OwnInv, NEW c \in Caller, NEW v,
           call' = [call EXCEPT ![c] = v],
           \A d, pk, s : Settled(d, pk, s) => Settled(d, pk, s)',
           v # Idle /\ ~ v.internal => \A pk \in DOMAIN v.set : v.set[pk].share # OwnShare,
           \A d \in Duty, pk \in PubKey, s \in Sig : Holds(call[c], d, pk, s) =>
               Holds(v, d, pk, s) \/ Settled(d, pk, s)',
           \A d \in Duty, pk \in PubKey : \A s \in entries'[d][pk] :
               /\ s \in Sig
               /\ \/ s \in entries[d][pk] \/ s.share # OwnShare
                  \/ Holds(v, d, pk, s) \/ Settled(d, pk, s)'
    PROVE  OwnInv'
<1>1. \A b \in Caller : call'[b] = IF b = c THEN v ELSE call[b]
    BY DEF IInv, TypeOK
<1>2. ExternalCalls'
    BY <1>1 DEF OwnInv, ExternalCalls
<1>3. ASSUME NEW d \in Duty, NEW pk \in PubKey, NEW s \in entries'[d][pk], s.share = OwnShare
      PROVE  \/ Settled(d, pk, s)'
             \/ \E b \in Caller : Holds(call'[b], d, pk, s)
    <2>1. CASE Holds(v, d, pk, s)
        BY <1>1, <2>1
    <2>2. CASE s \in entries[d][pk]
        <3>1. CASE \E b \in Caller : Holds(call[b], d, pk, s)
            <4>1. PICK b \in Caller : Holds(call[b], d, pk, s)
                BY <3>1
            <4>2. CASE b = c
                BY <1>1, <1>3, <2>1, <4>1, <4>2
            <4>3. CASE b # c
                BY <1>1, <4>1, <4>3
            <4> QED
                BY <4>2, <4>3
        <3> QED
            BY <1>3, <2>2, <3>1 DEF OwnInv
    <2> QED
        BY <1>3, <2>1, <2>2
<1> QED
    BY <1>2, <1>3 DEF OwnInv, Holds

\* Storing one signature: an own one is stored by a call of StoreInternal.
LEMMA StoreOneKeepsOwn ==
    ASSUME IInv, OwnInv, NEW c \in Caller, NEW pk \in PubKey, StoreOne(c, pk)
    PROVE  OwnInv'
<1>1. /\ call[c] \in Calls /\ call[c] # Idle /\ call[c].duty \in Duty
      /\ pk \in DOMAIN call[c].set /\ call[c].set[pk] \in Sig
    BY StoreMoves, CallType DEF IInv
<1>2. PICK v : StoreMove(c, pk, v)
    BY StoreMoves
<1>3. /\ call' = [call EXCEPT ![c] = v] /\ exchanged' = exchanged /\ refused \subseteq refused'
      /\ v = Idle => Refuses(c)
      /\ v # Idle => v.internal = call[c].internal /\ v.duty = call[c].duty /\ v.set = call[c].set
    BY <1>2 DEF StoreMove, StoreOne
<1>4. v # Idle /\ ~ v.internal => \A q \in DOMAIN v.set : v.set[q].share # OwnShare
    BY <1>1, <1>3 DEF OwnInv, ExternalCalls
<1>5. \A d \in Duty, q \in PubKey, s \in Sig : Holds(call[c], d, q, s) =>
         Holds(v, d, q, s) \/ Settled(d, q, s)'
    BY <1>3 DEF Holds, Refuses, Settled
<1>6. ASSUME NEW d \in Duty, NEW q \in PubKey, NEW s \in entries'[d][q]
      PROVE  /\ s \in Sig
             /\ \/ s \in entries[d][q] \/ s.share # OwnShare
                \/ Holds(v, d, q, s) \/ Settled(d, q, s)'
    <2>1. entries \in [Duty -> [PubKey -> SUBSET Sig]]
        BY DEF IInv, TypeOK
    <2>2. CASE s \in entries[d][q]
        BY <2>1, <2>2
    <2>3. CASE s \notin entries[d][q]
        <3>1. entries' = [entries EXCEPT ![call[c].duty][pk] =
                             entries[call[c].duty][pk] \cup {call[c].set[pk]}]
            BY <1>2, <2>3 DEF StoreMove
        <3>2. d = call[c].duty /\ q = pk /\ s = call[c].set[pk]
            BY <1>1, <2>1, <2>3, <3>1
        <3>3. CASE ~ call[c].internal
            BY <1>1, <3>2, <3>3 DEF OwnInv, ExternalCalls
        <3>4. CASE call[c].internal /\ v # Idle
            BY <1>1, <1>3, <3>2, <3>4 DEF Holds
        <3>5. CASE call[c].internal /\ v = Idle
            BY <1>1, <1>3, <3>2, <3>5 DEF Refuses, Settled
        <3> QED
            BY <1>1, <3>2, <3>3, <3>4, <3>5
    <2> QED
        BY <2>2, <2>3
<1>7. \A d, q, s : Settled(d, q, s) => Settled(d, q, s)'
    BY <1>3 DEF Settled
<1> QED
    BY <1>3, <1>4, <1>5, <1>6, <1>7, OwnKeeps

\* The other steps of a call.
LEMMA CallKeepsOwn ==
    ASSUME IInv, OwnInv, NEW c \in Caller,
           \/ \E d \in Duty, set \in SignedSets :
                 StoreExternal(c, d, set) \/ StoreInternal(c, d, set)
           \/ NotifyThreshold(c)
           \/ Exchange(c)
    PROVE  OwnInv'
<1>1. entries' = entries /\ \A d \in Duty, pk \in PubKey : entries[d][pk] \in SUBSET Sig
    <2>1. UNCHANGED dbVars
        BY DEF StoreExternal, StoreInternal, NotifyThreshold, Exchange
    <2> QED
        BY <2>1 DEF dbVars, IInv, TypeOK
<1>5. ASSUME Fail(c, {}), exchanged' = exchanged PROVE OwnInv'
    <2>1. call' = [call EXCEPT ![c] = Idle] /\ refused \subseteq refused' /\ Refuses(c)
        BY <1>5, FailRefuses
    <2>2. \A d, pk, s : Settled(d, pk, s) => Settled(d, pk, s)'
        BY <1>5, <2>1 DEF Settled
    <2>3. \A d \in Duty, pk \in PubKey, s \in Sig :
             Holds(call[c], d, pk, s) => Settled(d, pk, s)'
        BY <2>1 DEF Holds, Refuses, Settled
    <2> QED
        BY <1>1, <2>1, <2>2, <2>3, OwnKeeps
<1>2. ASSUME NEW d \in Duty, NEW set \in SignedSets,
             StoreExternal(c, d, set) \/ StoreInternal(c, d, set)
      PROVE  OwnInv'
    <2>1. /\ call[c] = Idle /\ exchanged' = exchanged /\ refused' = refused
        BY <1>2 DEF StoreExternal, StoreInternal, histVars
    <2>2. PICK i \in BOOLEAN :
             /\ call' = [call EXCEPT ![c] = Storing(d, set, i)]
             /\ ~ i => \A pk \in DOMAIN set : set[pk].share # OwnShare
        BY <1>2 DEF StoreExternal, StoreInternal
    <2>3. Storing(d, set, i).internal = i /\ Storing(d, set, i).set = set
        BY DEF Storing
    <2>4. \A e \in Duty, pk \in PubKey, s \in Sig : ~ Holds(call[c], e, pk, s)
        BY <2>1 DEF Holds
    <2>5. \A e, q, s : Settled(e, q, s) => Settled(e, q, s)'
        BY <2>1 DEF Settled
    <2> QED
        BY <1>1, <2>1, <2>2, <2>3, <2>4, <2>5, OwnKeeps
<1>3. CASE NotifyThreshold(c)
    <2>1. call[c] \in Calls /\ exchanged' = exchanged
        BY <1>3, CallType DEF IInv, NotifyThreshold
    <2>2. CASE Fail(c, {})
        BY <1>1, <1>5, <2>1, <2>2
    <2>3. CASE call' = [call EXCEPT ![c] = AfterStore(c)] /\ refused' = refused
        <3>0. \A e, q, s : Settled(e, q, s) => Settled(e, q, s)'
            BY <2>1, <2>3 DEF Settled
        <3>1. CASE ~ call[c].internal
            <4>1. AfterStore(c) = Idle /\ \A d \in Duty, pk \in PubKey, s \in Sig :
                                             ~ Holds(call[c], d, pk, s)
                BY <3>1 DEF AfterStore, Holds
            <4> QED
                BY <1>1, <2>1, <2>3, <3>0, <4>1, OwnKeeps
        <3>2. CASE call[c].internal
            <4> DEFINE v == AfterStore(c)
            <4>1. /\ v \in Calls /\ v.internal /\ v.duty = call[c].duty /\ v.set = call[c].set
                BY <2>1, <3>2 DEF AfterStore, Calls
            <4>2. v # Idle
                BY <4>1 DEF Calls, Idle
            <4> HIDE DEF v
            <4>3. \A d \in Duty, pk \in PubKey, s \in Sig :
                     Holds(call[c], d, pk, s) => Holds(v, d, pk, s)
                BY <4>1, <4>2 DEF Holds
            <4>4. call' = [call EXCEPT ![c] = v]
                BY <2>3 DEF v
            <4> QED
                BY <1>1, <2>1, <2>3, <3>0, <4>1, <4>3, <4>4, OwnKeeps
        <3> QED
            BY <3>1, <3>2
    <2> QED
        BY <1>3, <2>2, <2>3 DEF NotifyThreshold
<1>4. CASE Exchange(c)
    <2>1. CASE Fail(c, {}) /\ exchanged' = exchanged
        BY <1>1, <1>5, <2>1
    <2>2. CASE /\ call' = [call EXCEPT ![c] = Idle] /\ refused' = refused
               /\ exchanged' = exchanged \cup
                     {<<call[c].duty, pk, call[c].set[pk]>> : pk \in DOMAIN call[c].set}
        <3>1. \A d \in Duty, pk \in PubKey, s \in Sig :
                 Holds(call[c], d, pk, s) => Settled(d, pk, s)'
            BY <2>2 DEF Holds, Settled
        <3>2. \A d, pk, s : Settled(d, pk, s) => Settled(d, pk, s)'
            BY <2>2 DEF Settled
        <3> QED
            BY <1>1, <2>2, <3>1, <3>2, OwnKeeps
    <2> QED
        BY <1>4, <2>1, <2>2 DEF Exchange
<1> QED
    BY <1>2, <1>3, <1>4

\* What Trim does to the stored signatures.
LEMMA TrimDrops ==
    ASSUME IInv, Trim
    PROVE  /\ Head(output) \in Duty /\ trimmed' = trimmed \cup {Head(output)}
           /\ UNCHANGED <<call, histVars>>
           /\ \A e \in Duty, pk \in PubKey :
                 /\ entries'[e][pk] \subseteq entries[e][pk]
                 /\ e # Head(output) => entries'[e][pk] = entries[e][pk]
<1>1. Head(output) \in Duty
    BY DEF Trim, Take, IInv, TypeOK, ExpiryTypeOK
<1>2. entries \in [Duty -> [PubKey -> SUBSET Sig]]
    BY DEF IInv, TypeOK
<1>3. entries' = [entries EXCEPT ![Head(output)] =
         [pk \in PubKey |-> IF pk \in keysByDuty[Head(output)] THEN {} ELSE entries[Head(output)][pk]]]
    BY <1>1, <1>2 DEF Trim
<1>4. trimmed' = trimmed \cup {Head(output)} /\ UNCHANGED <<call, histVars>>
    BY DEF Trim
<1>5. ASSUME NEW e \in Duty, NEW pk \in PubKey
      PROVE  /\ entries'[e][pk] \subseteq entries[e][pk]
             /\ e # Head(output) => entries'[e][pk] = entries[e][pk]
    BY <1>1, <1>2, <1>3
<1> QED
    BY <1>1, <1>4, <1>5

\* Every step keeps the own signatures accounted for.
LEMMA OwnStep == IInv /\ OwnInv /\ [Next]_vars => OwnInv'
<1> SUFFICES ASSUME IInv, OwnInv, [Next]_vars PROVE OwnInv'
    OBVIOUS
<1>1. CASE /\ UNCHANGED <<call, exchanged, refused>>
           /\ \A e \in Duty, pk \in PubKey : entries'[e][pk] \subseteq entries[e][pk]
    BY <1>1 DEF OwnInv, ExternalCalls, Holds, Settled
<1>2. CASE Trim
    BY <1>1, <1>2, TrimDrops DEF histVars
<1>3. CASE DeadlineReached \/ Clock \/ UNCHANGED vars
    BY <1>1, <1>3 DEF DeadlineReached, Clock, vars, dbVars, histVars
<1>4. CASE \E c \in Caller, pk \in PubKey : StoreOne(c, pk)
    BY <1>4, StoreOneKeepsOwn
<1>5. CASE \E c \in Caller : \/ \E d \in Duty, set \in SignedSets :
                                   StoreExternal(c, d, set) \/ StoreInternal(c, d, set)
                             \/ NotifyThreshold(c)
                             \/ Exchange(c)
    BY <1>5, CallKeepsOwn
<1> QED
    BY <1>2, <1>3, <1>4, <1>5 DEF Next

\* A signature that the validator client submits and that is stored is sent to
\* the peers, or a call of StoreInternal returned an error for it, or its call is
\* still on its way to internalSubs.
THEOREM OwnSigIsExchangedHolds == Spec => []OwnSigIsExchanged
<1>1. Init => OwnInv
    BY DEF Init, OwnInv, ExternalCalls
<1>2. OwnInv => OwnSigIsExchanged
    BY DEF OwnInv, OwnSigIsExchanged, Holds, Settled
<1> QED
    BY <1>1, <1>2, Invariance, OwnStep, PTL DEF Spec

\* A step of a call that stores nothing and reports nothing new.
LEMMA OnceKeeps ==
    ASSUME IInv, OnceInv, NEW c \in Caller, NEW v,
           call' = [call EXCEPT ![c] = v],
           UNCHANGED <<entries, trimmed, reported, again>>,
           \A d \in Duty, pk \in PubKey : Reports(v, d, pk) => Reports(call[c], d, pk)
    PROVE  OnceInv'
<1>1. \A b \in Caller : call'[b] = IF b = c THEN v ELSE call[b]
    BY DEF IInv, TypeOK
<1> SUFFICES ASSUME NEW d \in Duty \ trimmed, NEW pk \in PubKey, SameRoots(d, pk)
             PROVE  OnceAt(d, pk)'
    BY DEF OnceInv, SameRoots
<1>2. OnceAt(d, pk)
    BY DEF OnceInv
<1>3. \A b \in Caller : Reports(call'[b], d, pk) => Reports(call[b], d, pk)
    BY <1>1
<1> QED
    BY <1>2, <1>3 DEF OnceAt, Reports

\* With one message root, getThresholdMatching returns a set when the number of
\* signatures is the threshold, and not again when there are more.
LEMMA MatchingExact ==
    ASSUME NEW d, NEW sigs, ThresholdMatching(d, sigs) # {},
           \A s, t \in sigs : MessageRoot[s.data] = MessageRoot[t.data]
    PROVE  Cardinality(sigs) = Threshold
<1>1. \A t \in sigs : SameRoot(sigs, t) = sigs
    BY DEF SameRoot
<1> QED
    BY <1>1 DEF ThresholdMatching

\* Storing one signature: a call gets something to report for the key when the
\* threshold is reached, and before that no call has.
LEMMA StoreOneKeepsOnce ==
    ASSUME IInv, OnceInv, NEW c \in Caller, NEW pk \in PubKey, StoreOne(c, pk)
    PROVE  OnceInv'
<1>1. PICK d \in Duty : d = call[c].duty
    BY StoreMoves
<1>2. PICK sig \in Sig : sig = call[c].set[pk]
    BY StoreMoves
<1>3. PICK old : old = entries[d][pk]
    OBVIOUS
<1>4. /\ call[c].pc = "store" /\ UNCHANGED <<trimmed, reported, again>>
    BY StoreMoves DEF StoreOne
<1>5. PICK v : StoreMove(c, pk, v)
    BY StoreMoves
<1>6. call' = [call EXCEPT ![c] = v] /\ (v # Idle => v.duty = d)
    BY <1>1, <1>5 DEF StoreMove
<1>7. v = Idle \/ v.output = call[c].output =>
         \A e \in Duty, q \in PubKey : Reports(v, e, q) => Reports(call[c], e, q)
    BY <1>1, <1>4, <1>6 DEF Reports, Idle
<1>8. CASE entries' = entries /\ (v # Idle => v.output = call[c].output)
    BY <1>4, <1>6, <1>7, <1>8, OnceKeeps
<1>9. CASE /\ SameShare(old, sig) = {}
           /\ entries' = [entries EXCEPT ![d][pk] = old \cup {sig}]
           /\ v # Idle => \/ v.output = call[c].output
                          \/ /\ ThresholdMatching(d, old \cup {sig}) # {}
                             /\ \A q \in PubKey \ {pk} : v.output[q] = call[c].output[q]
    <2>1. \A b \in Caller : call'[b] = IF b = c THEN v ELSE call[b]
        BY <1>6 DEF IInv, TypeOK
    <2>2. entries \in [Duty -> [PubKey -> SUBSET Sig]] /\ IsFiniteSet(old) /\ sig \notin old
        BY <1>3, <1>9 DEF IInv, TypeOK, EntriesFinite, SameShare
    <2>3. /\ entries'[d][pk] = old \cup {sig}
          /\ \A e \in Duty, q \in PubKey : ~ (e = d /\ q = pk) => entries'[e][q] = entries[e][q]
        BY <1>9, <2>2
    <2>4. /\ Cardinality(old) \in Nat /\ Cardinality(old \cup {sig}) = Cardinality(old) + 1
        BY <2>2, FS_AddElement, FS_CardinalityType
    <2>5. ASSUME NEW e \in Duty \ trimmed, NEW q \in PubKey, SameRoots(e, q)', ~ (e = d /\ q = pk)
          PROVE  OnceAt(e, q)'
        <3>1. entries'[e][q] = entries[e][q]
            BY <2>3, <2>5
        <3>2. OnceAt(e, q)
            BY <2>5, <3>1 DEF OnceInv, SameRoots
        <3>3. Reports(v, e, q) => Reports(call[c], e, q)
            <4>1. CASE v = Idle \/ v.output = call[c].output
                BY <1>7, <2>5, <4>1
            <4>2. CASE v # Idle /\ \A b \in PubKey \ {pk} : v.output[b] = call[c].output[b]
                BY <1>1, <1>4, <1>6, <2>5, <4>2 DEF Reports
            <4> QED
                BY <1>9, <4>1, <4>2
        <3>4. \A b \in Caller : Reports(call'[b], e, q) => Reports(call[b], e, q)
            BY <2>1, <3>3
        <3> QED
            BY <1>4, <3>1, <3>2, <3>4 DEF OnceAt, Reports
    <2>6. ASSUME d \notin trimmed, SameRoots(d, pk)'
          PROVE  OnceAt(d, pk)'
        <3>1. \A s, t \in old \cup {sig} : MessageRoot[s.data] = MessageRoot[t.data]
            BY <2>3, <2>6 DEF SameRoots
        <3>2. OnceAt(d, pk)
            BY <1>3, <2>6, <3>1 DEF OnceInv, SameRoots
        <3>3. CASE v = Idle \/ v.output = call[c].output
            <4>1. Reports(v, d, pk) => Reports(call[c], d, pk)
                BY <1>7, <3>3
            <4>2. \A b \in Caller : Reports(call'[b], d, pk) => Reports(call[b], d, pk)
                BY <2>1, <4>1
            <4>3. Cardinality(entries[d][pk]) >= Threshold => Cardinality(entries'[d][pk]) >= Threshold
                BY <1>3, <2>3, <2>4, ThresholdAssumption
            <4> QED
                BY <1>4, <3>2, <4>2, <4>3 DEF OnceAt, Reports
        <3>4. CASE ThresholdMatching(d, old \cup {sig}) # {}
            <4>1. Cardinality(old \cup {sig}) = Threshold
                BY <3>1, <3>4, MatchingExact
            <4>2. /\ Cardinality(entries'[d][pk]) >= Threshold
                  /\ ~ (Cardinality(entries[d][pk]) >= Threshold)
                BY <1>3, <2>3, <2>4, <4>1, ThresholdAssumption
            <4>3. /\ <<d, pk>> \notin again /\ reported[d][pk] = {}
                  /\ \A b \in Caller : ~ Reports(call[b], d, pk)
                BY <3>2, <4>2 DEF OnceAt
            <4>4. \A b \in Caller : Reports(call'[b], d, pk) => b = c
                BY <2>1, <4>3
            <4> QED
                BY <1>4, <4>2, <4>3, <4>4 DEF OnceAt, Reports
        <3> QED
            BY <1>9, <3>3, <3>4
    <2> QED
        BY <1>4, <2>5, <2>6 DEF OnceInv
<1> QED
    BY <1>1, <1>2, <1>3, <1>5, <1>8, <1>9 DEF StoreMove

\* Calling the threshold subscribers: the call is the only one that had
\* something to report for the key, and from now on has nothing.
LEMMA NotifyKeepsOnce ==
    ASSUME IInv, OnceInv, NEW c \in Caller, NotifyThreshold(c)
    PROVE  OnceInv'
<1>1. PICK d \in Duty : d = call[c].duty
    BY CallType DEF IInv, NotifyThreshold, Calls
<1>2. PICK v : call' = [call EXCEPT ![c] = v] /\ v \in {Idle, AfterStore(c)}
    BY DEF NotifyThreshold, Fail
<1>3. v.pc # "store"
    <2>1. call[c] \in Calls
        BY CallType DEF IInv, NotifyThreshold
    <2> QED
        BY <1>2, <2>1 DEF AfterStore, Idle, Calls
<1>4. call[c].pc = "store" /\ UNCHANGED <<entries, trimmed>>
    BY DEF NotifyThreshold, dbVars
<1>5. \A b \in Caller : call'[b] = IF b = c THEN v ELSE call[b]
    BY <1>2 DEF IInv, TypeOK
<1> SUFFICES ASSUME NEW e \in Duty \ trimmed, NEW pk \in PubKey, SameRoots(e, pk)
             PROVE  OnceAt(e, pk)'
    BY <1>4 DEF OnceInv, SameRoots
<1>6. OnceAt(e, pk)
    BY DEF OnceInv
<1>7. \A b \in Caller : Reports(call'[b], e, pk) => b # c /\ Reports(call[b], e, pk)
    BY <1>3, <1>5 DEF Reports
<1>8. CASE Reports(call[c], e, pk)
    <2>1. /\ reported[e][pk] = {} /\ Cardinality(entries[e][pk]) >= Threshold
          /\ \A b \in Caller : ~ Reports(call'[b], e, pk)
        BY <1>6, <1>7, <1>8 DEF OnceAt
    <2>2. <<e, pk>> \notin again'
        BY <1>6, <2>1 DEF OnceAt, NotifyThreshold
    <2> QED
        BY <1>4, <2>1, <2>2 DEF OnceAt, Reports
<1>9. CASE ~ Reports(call[c], e, pk)
    <2>1. reported'[e][pk] = reported[e][pk]
        BY <1>1, <1>4, <1>9 DEF NotifyThreshold, Pending, Reports, IInv, TypeOK
    <2>2. <<e, pk>> \notin again'
        BY <1>4, <1>6, <1>9 DEF OnceAt, NotifyThreshold, Pending, Reports
    <2> QED
        BY <1>4, <1>6, <1>7, <2>1, <2>2 DEF OnceAt, Reports
<1> QED
    BY <1>8, <1>9

\* Every step keeps the reports of an untrimmed duty single.
LEMMA OnceStep == IInv /\ OnceInv /\ [Next]_vars => OnceInv'
<1> SUFFICES ASSUME IInv, OnceInv, [Next]_vars PROVE OnceInv'
    OBVIOUS
<1>1. CASE Trim
    <2> SUFFICES ASSUME NEW e \in Duty \ trimmed', NEW pk \in PubKey, SameRoots(e, pk)'
                 PROVE  OnceAt(e, pk)'
        BY DEF OnceInv
    <2>1. /\ e \notin trimmed /\ entries'[e][pk] = entries[e][pk]
          /\ UNCHANGED <<call, reported, again>>
        BY <1>1, TrimDrops DEF histVars
    <2>2. OnceAt(e, pk)
        BY <2>1 DEF OnceInv, SameRoots
    <2> QED
        BY <2>1, <2>2 DEF OnceAt, Reports
<1>2. CASE DeadlineReached \/ Clock \/ UNCHANGED vars
    <2>1. UNCHANGED <<dbVars, call, histVars>>
        BY <1>2 DEF DeadlineReached, Clock, vars
    <2> QED
        BY <2>1 DEF OnceInv, OnceAt, SameRoots, Reports, dbVars, histVars
<1>3. ASSUME NEW c \in Caller, NEW d \in Duty, NEW set \in SignedSets,
             StoreExternal(c, d, set) \/ StoreInternal(c, d, set)
      PROVE  OnceInv'
    <2>1. UNCHANGED <<entries, trimmed, reported, again>>
        BY <1>3 DEF StoreExternal, StoreInternal, dbVars, histVars
    <2>2. PICK i \in BOOLEAN : call' = [call EXCEPT ![c] = Storing(d, set, i)]
        BY <1>3 DEF StoreExternal, StoreInternal
    <2>3. \A e \in Duty, pk \in PubKey : ~ Reports(Storing(d, set, i), e, pk)
        BY DEF Storing, Reports
    <2> QED
        BY <2>1, <2>2, <2>3, OnceKeeps
<1>4. ASSUME NEW c \in Caller, Exchange(c) PROVE OnceInv'
    <2>1. UNCHANGED <<entries, trimmed, reported, again>> /\ call' = [call EXCEPT ![c] = Idle]
        BY <1>4 DEF Exchange, Fail, dbVars
    <2>2. \A e \in Duty, pk \in PubKey : ~ Reports(Idle, e, pk)
        BY DEF Idle, Reports
    <2> QED
        BY <2>1, <2>2, OnceKeeps
<1>5. ASSUME NEW c \in Caller, NEW pk \in PubKey, StoreOne(c, pk) PROVE OnceInv'
    BY <1>5, StoreOneKeepsOnce
<1>6. ASSUME NEW c \in Caller, NotifyThreshold(c) PROVE OnceInv'
    BY <1>6, NotifyKeepsOnce
<1> QED
    BY <1>1, <1>2, <1>3, <1>4, <1>5, <1>6 DEF Next

\* threshSubs are called once for a key as long as the duty is not trimmed and
\* all its signatures have one message root, however the calls interleave.
THEOREM ReportedOnceIfSameHolds == Spec => []ReportedOnceIfSame
<1>1. Init => OnceInv
    BY DEF Init, OnceInv, OnceAt, Reports, Idle
<1>2. OnceInv => ReportedOnceIfSame
    BY DEF OnceInv, OnceAt, SameRoots, ReportedOnceIfSame
<1> QED
    BY <1>1, <1>2, Invariance, OnceStep, PTL DEF Spec

=============================================================================
