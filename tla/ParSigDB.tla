------------------------------ MODULE ParSigDB ------------------------------
(***************************************************************************)
(* core/parsigdb/memory.go: the partial signatures of one node.            *)
(*                                                                         *)
(* Several goroutines execute StoreExternal (one per message of a peer)    *)
(* and StoreInternal (one per request of the validator client).  The lock  *)
(* is taken for each signature of a set on its own, so the calls           *)
(* interleave between the signatures of a set, with Trim, and with the     *)
(* expiry of duties.  The order of the signatures of a key does not        *)
(* matter: a key holds a set of them.                                      *)
(***************************************************************************)
EXTENDS DutyExpiry, FiniteSets

CONSTANTS
    PubKey,
    Share,        \* the share indices of the cluster
    OwnShare,     \* the one of this node
    Data,         \* what may be signed
    MessageRoot,  \* the root of each element of Data
    SigDuty,      \* the duties of type DutySignature
    Threshold,
    SignedSets,   \* the sets that the nodes of the cluster may send
    Caller        \* the goroutines that store

ASSUME ShareAssumption == OwnShare \in Share
\* A ParSignedDataSet holds signatures of one node by public key.
ASSUME SignedSetsAssumption ==
    \A set \in SignedSets :
        /\ DOMAIN set \in SUBSET PubKey \ {{}}
        /\ \E s \in Share : \A pk \in DOMAIN set : set[pk] \in [share : {s}, data : Data]
ASSUME SigDutyAssumption == SigDuty \subseteq Duty
ASSUME ThresholdAssumption == Threshold \in Nat \ {0}

VARIABLES
    entries,     \* entries[duty][pubkey], the stored signatures
    keysByDuty,  \* keysByDuty[duty], the public keys to trim
    call,        \* what each goroutine is doing
    reported,    \* reported[duty][pubkey], what threshSubs were called with
    again,       \* <<duty, pubkey>> for which they were called more than once
    exchanged,   \* <<duty, pubkey, sig>> that internalSubs were called with
    lost,        \* <<duty, pubkey>> whose threshold a failing call had reached
    refused,     \* <<duty, pubkey, sig>> for which StoreInternal returned an error
    trimmed      \* the duties that Trim was called for

dbVars == <<entries, keysByDuty, trimmed>>
histVars == <<reported, again, exchanged, lost, refused>>
vars == <<expiryVars, dbVars, call, histVars>>

Sig == [share : Share, data : Data]

Idle == [pc |-> "idle"]

\* A call with the set it was given: the keys it has still to store, and for
\* each key the signatures with which it reached the threshold, if any.
Storing(duty, set, internal) ==
    [pc |-> "store", duty |-> duty, set |-> set, internal |-> internal,
     todo |-> DOMAIN set, output |-> [pk \in PubKey |-> {}]]

Calls == [pc : {"store", "exchange"}, duty : Duty, set : SignedSets, internal : BOOLEAN,
          todo : SUBSET PubKey, output : [PubKey -> SUBSET Sig]]

Init ==
    /\ ExpiryInit
    /\ entries = [d \in Duty |-> [pk \in PubKey |-> {}]]
    /\ keysByDuty = [d \in Duty |-> {}]
    /\ call = [c \in Caller |-> Idle]
    /\ reported = [d \in Duty |-> [pk \in PubKey |-> {}]]
    /\ again = {} /\ exchanged = {} /\ lost = {} /\ refused = {} /\ trimmed = {}

-----------------------------------------------------------------------------
\* The signatures with the message root of t.
SameRoot(sigs, t) == {s \in sigs : MessageRoot[s.data] = MessageRoot[t.data]}

\* A bug: the roots are not compared.
MatchingAnyRoot(duty, sigs) ==
    IF Cardinality(sigs) = Threshold THEN {sigs} ELSE {}

\* A bug: signatures with other roots are counted too.
MatchingExactTotal(duty, sigs) ==
    {set \in {SameRoot(sigs, t) : t \in sigs} :
       Cardinality(set) = Threshold /\ Cardinality(sigs) = Threshold}

\* A bug: a set is returned again for every further signature.
MatchingAtLeast(duty, sigs) ==
    {set \in {SameRoot(sigs, t) : t \in sigs} : Cardinality(set) >= Threshold}

\* The sets of signatures that getThresholdMatching may return.
ThresholdMatching(duty, sigs) ==
    IF duty \in SigDuty
      THEN IF Cardinality(sigs) = Threshold THEN {sigs} ELSE {}
      ELSE {set \in {SameRoot(sigs, t) : t \in sigs} : Cardinality(set) = Threshold}

\* A bug: only an identical signature counts as a duplicate.
SameData(sigs, sig) == {s \in sigs : s = sig}

\* The stored signature of the same share, if there is one.
SameShare(sigs, sig) == {s \in sigs : s.share = sig.share}

\* StoreExternal and StoreInternal begin by adding the duty to the deadliner,
\* whose answer they ignore.
StoreExternal(c, duty, set) ==
    /\ call[c] = Idle /\ \A pk \in DOMAIN set : set[pk].share # OwnShare
    /\ call' = [call EXCEPT ![c] = Storing(duty, set, FALSE)]
    /\ Add(duty)
    /\ UNCHANGED <<dbVars, histVars>>

StoreInternal(c, duty, set) ==
    /\ call[c] = Idle /\ \A pk \in DOMAIN set : set[pk].share = OwnShare
    /\ call' = [call EXCEPT ![c] = Storing(duty, set, TRUE)]
    /\ Add(duty)
    /\ UNCHANGED <<dbVars, histVars>>

\* The call returns an error, to a peer's message or to the validator client, and
\* does not report the thresholds it has reached for pks.
Fail(c, pks) ==
    /\ call' = [call EXCEPT ![c] = Idle]
    /\ lost' = lost \cup {<<call[c].duty, pk>> : pk \in pks}
    /\ refused' = IF call[c].internal
                  THEN refused \cup
                       {<<call[c].duty, pk, call[c].set[pk]>> : pk \in DOMAIN call[c].set}
                  ELSE refused

\* The keys for which a call will call threshSubs.
Pending(c) == {pk \in PubKey : call[c].output[pk] # {}}

\* store and getThresholdMatching for one key of the set.
StoreOne(c, pk) ==
    LET duty  == call[c].duty
        sig   == call[c].set[pk]
        old   == entries[duty][pk]
        match == ThresholdMatching(duty, old \cup {sig})
        rest  == [call[c] EXCEPT !.todo = @ \ {pk}]
    IN
    /\ call[c].pc = "store" /\ pk \in call[c].todo
    /\ \/ \* mismatching partial signed data
          /\ SameShare(old, sig) \notin {{}, {sig}}
          /\ Fail(c, Pending(c))
          /\ UNCHANGED <<entries, keysByDuty>>
       \/ \* duplicate
          /\ SameShare(old, sig) = {sig}
          /\ call' = [call EXCEPT ![c] = rest]
          /\ UNCHANGED <<entries, keysByDuty, lost, refused>>
       \/ /\ SameShare(old, sig) = {}
          /\ entries' = [entries EXCEPT ![duty][pk] = @ \cup {sig}]
          /\ keysByDuty' = [keysByDuty EXCEPT ![duty] = @ \cup {pk}]
          /\ \/ \* the message root of a signature is an error
                /\ duty \notin SigDuty /\ Cardinality(old \cup {sig}) >= Threshold
                /\ Fail(c, Pending(c) \cup {pk})
             \/ /\ \/ match = {} /\ call' = [call EXCEPT ![c] = rest]
                   \/ \E sigs \in match :
                        call' = [call EXCEPT ![c] = [rest EXCEPT !.output[pk] = sigs]]
                /\ UNCHANGED <<lost, refused>>
    /\ UNCHANGED <<expiryVars, trimmed, reported, again, exchanged>>

\* A bug: own signatures are sent only when a threshold is reached.
AfterStoreIfThreshold(c) ==
    IF call[c].internal /\ \E pk \in PubKey : call[c].output[pk] # {}
      THEN [call[c] EXCEPT !.pc = "exchange"] ELSE Idle

\* What StoreInternal does once StoreExternal has returned nil.
AfterStore(c) ==
    IF call[c].internal THEN [call[c] EXCEPT !.pc = "exchange"] ELSE Idle

\* All signatures are stored: threshSubs are called with a non-empty output.
\* They may return an error.
NotifyThreshold(c) ==
    LET duty == call[c].duty
        out  == call[c].output
        pks  == Pending(c)
    IN
    /\ call[c].pc = "store" /\ call[c].todo = {}
    /\ reported' = [reported EXCEPT ![duty] =
          [pk \in PubKey |-> IF pk \in pks THEN @[pk] \cup {out[pk]} ELSE @[pk]]]
    /\ again' = again \cup {<<duty, pk>> : pk \in {p \in pks : reported[duty][p] # {}}}
    /\ \/ call' = [call EXCEPT ![c] = AfterStore(c)] /\ UNCHANGED <<lost, refused>>
       \/ pks # {} /\ Fail(c, {})
    /\ UNCHANGED <<expiryVars, dbVars, exchanged>>

\* StoreInternal calls internalSubs, which exchange the set with the peers.  They
\* may return an error.
Exchange(c) ==
    /\ call[c].pc = "exchange"
    /\ \/ /\ call' = [call EXCEPT ![c] = Idle]
          /\ exchanged' = exchanged \cup
                {<<call[c].duty, pk, call[c].set[pk]>> : pk \in DOMAIN call[c].set}
          /\ UNCHANGED <<lost, refused>>
       \/ Fail(c, {}) /\ UNCHANGED exchanged
    /\ UNCHANGED <<expiryVars, dbVars, reported, again>>

\* Trim receives a duty from the deadliner.
Trim ==
    LET duty == Head(output) IN
    /\ Take
    /\ entries' = [entries EXCEPT ![duty] =
          [pk \in PubKey |-> IF pk \in keysByDuty[duty] THEN {} ELSE @[pk]]]
    /\ keysByDuty' = [keysByDuty EXCEPT ![duty] = {}]
    /\ trimmed' = trimmed \cup {duty}
    /\ UNCHANGED <<call, histVars>>

\* The deadliner's own steps, and the clock.
DeadlineReached ==
    /\ \E d \in Duty : Expire(d)
    /\ UNCHANGED <<dbVars, call, histVars>>

Clock ==
    /\ TimePasses
    /\ UNCHANGED <<dbVars, call, histVars>>

Next ==
    \/ \E c \in Caller, d \in Duty, set \in SignedSets :
          StoreExternal(c, d, set) \/ StoreInternal(c, d, set)
    \/ \E c \in Caller : \/ \E pk \in PubKey : StoreOne(c, pk)
                         \/ NotifyThreshold(c)
                         \/ Exchange(c)
    \/ Trim
    \/ DeadlineReached
    \/ Clock

Spec == Init /\ [][Next]_vars

-----------------------------------------------------------------------------
(* Properties *)

\* The state of the database and of its calls.
TypeOK ==
    /\ ExpiryTypeOK
    /\ entries \in [Duty -> [PubKey -> SUBSET Sig]]
    /\ keysByDuty \in [Duty -> SUBSET PubKey]
    /\ call \in [Caller -> {Idle} \cup Calls]
    /\ reported \in [Duty -> [PubKey -> SUBSET SUBSET Sig]]
    /\ trimmed \subseteq Duty /\ lost \subseteq Duty \X PubKey /\ again \subseteq Duty \X PubKey

\* A share counts once for a key, however the calls of a peer's messages and
\* of the validator client interleave, and everything stored can be trimmed.
OneSigPerShare ==
    \A d \in Duty, pk \in PubKey :
        /\ \A s, t \in entries[d][pk] : s.share = t.share => s = t
        /\ entries[d][pk] # {} => pk \in keysByDuty[d]

\* Whether the signatures sigs can be aggregated into one for the duty.
Aggregatable(d, sigs) ==
    /\ Cardinality(sigs) = Threshold
    /\ \A s, t \in sigs : s.share = t.share => s = t
    /\ d \notin SigDuty => \A s, t \in sigs : MessageRoot[s.data] = MessageRoot[t.data]

\* What the threshold subscribers get can be aggregated: threshold signatures
\* of different shares with one message root.
ReportedCanBeAggregated ==
    \A d \in Duty, pk \in PubKey : \A sigs \in reported[d][pk] : Aggregatable(d, sigs)

\* A call that holds a set of signatures for which it will call threshSubs.
InFlight(d, pk) ==
    \E c \in Caller : /\ call[c].pc = "store" /\ call[c].duty = d
                      /\ call[c].output[pk] # {}

\* Once threshold matching signatures are stored, the threshold subscribers
\* have been called for the key, or will be by a call in flight, unless the call
\* that reached the threshold returned an error before it called them.
ThresholdIsReported ==
    \A d \in Duty \ SigDuty, pk \in PubKey :
        (\E t \in entries[d][pk] : Cardinality(SameRoot(entries[d][pk], t)) >= Threshold)
        => \/ reported[d][pk] # {}
           \/ InFlight(d, pk)
           \/ <<d, pk>> \in lost

\* As long as all nodes sign the same data and the duty is not trimmed, the
\* threshold subscribers are called once for a key.
ReportedOnceIfSame ==
    \A d \in Duty, pk \in PubKey :
        <<d, pk>> \in again =>
            \/ d \in trimmed
            \/ \E s, t \in entries[d][pk] : MessageRoot[s.data] # MessageRoot[t.data]

\* A signature of the own validator client that is stored was sent to the peers
\* (internalSubs), or the call of StoreInternal that has it is on its way there, or
\* one returned an error for it to the validator client, which may submit it again.
OwnSigIsExchanged ==
    \A d \in Duty, pk \in PubKey : \A s \in entries[d][pk] :
        s.share = OwnShare =>
            \/ <<d, pk, s>> \in exchanged \cup refused
            \/ \E c \in Caller : /\ call[c] # Idle /\ call[c].internal
                                 /\ call[c].duty = d /\ pk \in DOMAIN call[c].set
                                 /\ call[c].set[pk] = s
=============================================================================
