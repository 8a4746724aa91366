---------------------------- MODULE AggSigProofs ----------------------------
(***************************************************************************)
(* Both implementations of core.AggSigDB keep the promise of the interface *)
(* (module AggSigStore), for any number of duties, validators, callers and *)
(* sets to store.                                                          *)
(***************************************************************************)
EXTENDS AggSigImpl, TLAPS

\* Most leaves are first-order: Zenon is tried before the SMT solver.
USE ZenonT(4), SMTT(20)

-----------------------------------------------------------------------------
(* The inductive invariant *)

Awaits == [pc : {"await", "done"}, duty : Duty, pubKey : PubKey, got : Value \cup {NoValue}]
Stores == [pc : {"store", "response", "done"}, duty : Duty, set : StoreSets,
           todo : SUBSET PubKey, err : BOOLEAN]

\* All data is in the index by which it is deleted.
DataOK ==
    /\ data \in [Duty -> [PubKey -> Value \cup {NoValue}]]
    /\ keysByDuty \in [Duty -> SUBSET PubKey]
    /\ \A d \in Duty, pk \in PubKey : data[d][pk] # NoValue => pk \in keysByDuty[d]

\* What Run is told to delete, or is about to delete, is due.
DueOK ==
    /\ ExpiryTypeOK
    /\ \A i \in 1 .. Len(output) : phase[output[i]] > 0
    /\ deleting # NoDuty => deleting \in Duty /\ phase[deleting] > 0

WritersOK ==
    /\ wr \in [Writer -> {NoCall} \cup Stores]
    /\ \A w \in Writer : wr[w] # NoCall => wr[w].todo \subseteq DOMAIN wr[w].set

\* A query that Run has not received, or that is blocked, has no answer yet.
ReadersOK ==
    /\ v2 \in BOOLEAN
    /\ rd \in [Reader -> {NoCall} \cup Awaits]
    /\ blockedQueries \subseteq received /\ received \subseteq Reader
    /\ v2 => received = {}
    /\ \A r \in received : rd[r] # NoCall
    /\ \A r \in Reader : /\ rd[r] \in Awaits
                         /\ rd[r].pc = "await"
                         /\ r \in blockedQueries \/ (~ v2 /\ r \notin received)
                         => rd[r].got = NoValue

IInv == DataOK /\ DueOK /\ WritersOK /\ ReadersOK

-----------------------------------------------------------------------------
(* What the steps do to each part of the state *)

\* The deadliner only outputs duties that are due.
LEMMA ExpiryKeeps ==
    ASSUME DueOK, deleting' \in {deleting, NoDuty},
           \/ \E d \in Duty : Add(d) \/ Expire(d)
           \/ TimePasses \/ Take \/ UNCHANGED expiryVars
    PROVE  DueOK'
<1> USE DEF DueOK, ExpiryTypeOK
<1>1. ASSUME NEW d \in Duty, Add(d) PROVE DueOK'
    BY <1>1 DEF Add
<1>2. ASSUME NEW d \in Duty, Expire(d) PROVE DueOK'
    <2>1. UNCHANGED <<phase, stopped>> /\ scheduled' \subseteq Duty
        BY <1>2 DEF Expire
    <2>2. CASE output' = output
        BY <2>1, <2>2
    <2>3. CASE Len(output) < OutputBuffer /\ output' = Append(output, d)
        <3>1. output' \in Seq(Duty) /\ Len(output') = Len(output) + 1
            BY <2>3
        <3>2. \A i \in 1 .. Len(output') : output'[i] = IF i = Len(output) + 1 THEN d ELSE output[i]
            BY <2>3
        <3>3. \A i \in 1 .. Len(output') : phase[output'[i]] > 0
            BY <1>2, <3>1, <3>2 DEF Expire
        <3>4. Len(output') <= OutputBuffer
            BY <2>3, <3>1, OutputBufferAssumption
        <3> QED
            BY <2>1, <3>1, <3>3, <3>4
    <2> QED
        BY <1>2, <2>2, <2>3 DEF Expire
<1>3. CASE TimePasses
    <2>1. phase' \in [Duty -> 0 .. 2] /\ \A d \in Duty : phase'[d] >= phase[d]
        BY <1>3 DEF TimePasses
    <2>2. UNCHANGED <<scheduled, output, stopped>>
        BY <1>3 DEF TimePasses
    <2>3. \A i \in 1 .. Len(output) : phase'[output[i]] > 0
        BY <2>1
    <2> QED
        BY <2>1, <2>2, <2>3
<1>4. CASE Take
    <2>1. output' = Tail(output) /\ output # << >> /\ UNCHANGED <<phase, scheduled, stopped>>
        BY <1>4 DEF Take
    <2>2. output' \in Seq(Duty) /\ Len(output') = Len(output) - 1
        BY <2>1
    <2>3. \A i \in 1 .. Len(output') : output'[i] = output[i + 1]
        BY <2>1
    <2>4. Len(output') <= OutputBuffer /\ \A i \in 1 .. Len(output') : phase[output'[i]] > 0
        BY <2>2, <2>3, OutputBufferAssumption
    <2> QED
        BY <2>1, <2>2, <2>4
<1>5. CASE UNCHANGED expiryVars
    BY <1>5 DEF expiryVars
<1> QED
    BY <1>1, <1>2, <1>3, <1>4, <1>5

\* Storing data for keys that have none is what the promise calls Put.
LEMMA DataPut ==
    ASSUME DataOK, NEW d \in Duty, NEW new, DOMAIN new \in SUBSET PubKey,
           \A pk \in DOMAIN new : new[pk] \in Value, Put(d, new)
    PROVE  /\ DataOK'
           /\ \E all \in [PubKey -> Value \cup {NoValue}] :
                 data' = [data EXCEPT ![d] =
                            [pk \in PubKey |-> IF @[pk] = NoValue THEN all[pk] ELSE @[pk]]]
<1> DEFINE all == [pk \in PubKey |-> IF pk \in DOMAIN new THEN new[pk] ELSE NoValue]
           row == [pk \in PubKey |-> IF data[d][pk] = NoValue THEN all[pk] ELSE data[d][pk]]
           keys == keysByDuty[d] \cup {pk \in DOMAIN new : data[d][pk] = NoValue}
<1>1. all \in [PubKey -> Value \cup {NoValue}]
    OBVIOUS
<1>2. row = [pk \in PubKey |-> IF data[d][pk] = NoValue /\ pk \in DOMAIN new
                               THEN new[pk] ELSE data[d][pk]]
    OBVIOUS
<1>3. data' = [data EXCEPT ![d] = row] /\ keysByDuty' = [keysByDuty EXCEPT ![d] = keys]
    BY <1>2 DEF Put, DataOK
<1>4. row \in [PubKey -> Value \cup {NoValue}] /\ keys \in SUBSET PubKey
    BY <1>1 DEF DataOK
<1>5. \A pk \in PubKey : row[pk] # NoValue => pk \in keys
    BY DEF DataOK
<1>6. DataOK'
    <2> HIDE DEF row, keys
    <2> QED
        BY <1>3, <1>4, <1>5 DEF DataOK
<1>7. data' = [data EXCEPT ![d] =
                 [pk \in PubKey |-> IF @[pk] = NoValue THEN all[pk] ELSE @[pk]]]
    BY <1>3 DEF DataOK
<1> HIDE DEF all
<1> QED
    BY <1>1, <1>6, <1>7

\* Deleting the keys in a duty's index deletes all its data.
LEMMA DataDelete ==
    ASSUME DataOK, NEW d \in Duty, DeleteDuty(d)
    PROVE  DataOK' /\ data' = [data EXCEPT ![d] = [pk \in PubKey |-> NoValue]]
<1> DEFINE row == [pk \in PubKey |-> IF pk \in keysByDuty[d] THEN NoValue ELSE data[d][pk]]
<1>1. data' = [data EXCEPT ![d] = row] /\ keysByDuty' = [keysByDuty EXCEPT ![d] = {}]
    BY DEF DeleteDuty, DataOK
<1>2. row = [pk \in PubKey |-> NoValue]
    BY DEF DataOK
<1>3. data' = [data EXCEPT ![d] = [pk \in PubKey |-> NoValue]]
    BY <1>1, <1>2
<1>4. DataOK'
    BY <1>1, <1>3 DEF DataOK
<1> QED
    BY <1>3, <1>4

\* A call of Store moves on to x.
LEMMA WriterKeeps ==
    ASSUME WritersOK, NEW w \in Writer, NEW x \in Stores, x.todo \subseteq DOMAIN x.set,
           wr' = [wr EXCEPT ![w] = x]
    PROVE  WritersOK'
    BY DEF WritersOK
-----------------------------------------------------------------------------
(* The steps of the implementations *)

\* Store is called, gets a response, or returns an error.
LEMMA WriterSteps ==
    ASSUME IInv, NEW w \in Writer,
           \/ V1!CallStore(w) \/ V1!StoreAborted(w) \/ V1!StoreResponse(w)
           \/ V2!CallStore(w) \/ V2!StoreAborted(w)
    PROVE  WritersOK' /\ UNCHANGED <<expiryVars, dataVars, rd>>
<1>1. UNCHANGED <<expiryVars, dataVars, rd>>
    BY DEF V1!CallStore, V1!StoreAborted, V1!StoreResponse, V2!CallStore, V2!StoreAborted,
           V1!expiryVars, V1!dataVars, V2!expiryVars, V2!dataVars, expiryVars, dataVars
<1>2. CASE V1!CallStore(w) \/ V2!CallStore(w)
    <2>1. PICK d \in Duty, set \in StoreSets :
             wr' = [wr EXCEPT ![w] = [pc |-> "store", duty |-> d, set |-> set,
                                      todo |-> DOMAIN set, err |-> FALSE]]
        BY <1>2 DEF V1!CallStore, V2!CallStore
    <2>2. DOMAIN set \in SUBSET PubKey
        BY StoreSetsAssumption
    <2> QED
        BY <1>1, <2>1, <2>2, WriterKeeps DEF IInv, Stores
<1>3. CASE V1!StoreAborted(w) \/ V2!StoreAborted(w) \/ V1!StoreResponse(w)
    <2>1. wr[w] \in Stores /\ wr[w].todo \subseteq DOMAIN wr[w].set /\ wr \in [Writer -> {NoCall} \cup Stores]
        BY <1>3 DEF IInv, WritersOK, Stores, NoCall,
                    V1!StoreAborted, V2!StoreAborted, V1!StoreResponse
    <2>2. PICK p \in {"store", "done"}, e \in BOOLEAN :
             wr' = [wr EXCEPT ![w] = [wr[w] EXCEPT !.pc = p, !.err = e]]
        <3>1. CASE V1!StoreResponse(w)
            <4>1. PICK p \in {"store", "done"} : wr' = [wr EXCEPT ![w].pc = p]
                BY <3>1 DEF V1!StoreResponse
            <4>2. [wr[w] EXCEPT !.pc = p, !.err = wr[w].err] = [wr[w] EXCEPT !.pc = p]
                BY <2>1 DEF Stores
            <4>3. wr' = [wr EXCEPT ![w] = [wr[w] EXCEPT !.pc = p, !.err = wr[w].err]]
                BY <2>1, <4>1, <4>2
            <4> QED
                BY <2>1, <4>3 DEF Stores
        <3>2. CASE V1!StoreAborted(w) \/ V2!StoreAborted(w)
            <4>1. wr' = [wr EXCEPT ![w].pc = "done", ![w].err = TRUE]
                BY <3>2 DEF V1!StoreAborted, V2!StoreAborted
            <4>2. wr' = [wr EXCEPT ![w] = [wr[w] EXCEPT !.pc = "done", !.err = TRUE]]
                BY <2>1, <4>1
            <4> QED
                BY <4>2
        <3> QED
            BY <1>3, <3>1, <3>2
    <2> DEFINE x == [wr[w] EXCEPT !.pc = p, !.err = e]
    <2>3. x \in Stores /\ x.todo = wr[w].todo /\ x.set = wr[w].set
        BY <2>1 DEF Stores
    <2> HIDE DEF x
    <2> QED
        BY <1>1, <2>1, <2>2, <2>3, WriterKeeps DEF IInv, x
<1> QED
    BY <1>1, <1>2, <1>3

\* Await is called, and returns data or an error.
LEMMA ReaderSteps ==
    ASSUME IInv, NEW r \in Reader, UNCHANGED <<v2, received, blockedQueries>>,
           \/ V1!CallAwait(r) \/ V1!AwaitReturns(r) \/ V1!AwaitAborted(r)
           \/ V2!CallAwait(r) \/ V2!AwaitReturns(r) \/ V2!AwaitAborted(r)
    PROVE  /\ ReadersOK' /\ UNCHANGED <<expiryVars, dataVars, wr>>
           /\ Store!Await(r) \/ Store!Return(r)
<1>1. UNCHANGED <<expiryVars, dataVars, wr>>
    BY DEF V1!CallAwait, V1!AwaitReturns, V1!AwaitAborted, V2!CallAwait, V2!AwaitReturns,
           V2!AwaitAborted, V1!expiryVars, V1!dataVars, V2!expiryVars, V2!dataVars,
           expiryVars, dataVars
<1>2. data' = data /\ phase' = phase
    BY <1>1 DEF expiryVars, dataVars
<1>3. rd \in [Reader -> {NoCall} \cup Awaits]
    BY DEF IInv, ReadersOK
<1>4. CASE V1!CallAwait(r) \/ V2!CallAwait(r)
    <2>1. rd[r] = NoCall
        BY <1>4 DEF V1!CallAwait, V2!CallAwait, V1!NoCall, V2!NoCall, NoCall
    <2>2. PICK d \in Duty, pk \in PubKey : rd' = [rd EXCEPT ![r] = Store!Awaiting(d, pk)]
        BY <1>4 DEF V1!CallAwait, V2!CallAwait, Store!Awaiting
    <2>3. Store!Awaiting(d, pk) \in Awaits /\ Store!Awaiting(d, pk).got = NoValue
        BY DEF Store!Awaiting, Awaits
    <2>4. ReadersOK'
        <3>1. r \notin received
            BY <2>1 DEF IInv, ReadersOK
        <3>2. Store!Awaiting(d, pk) # NoCall
            BY DEF Store!Awaiting, NoCall
        <3> QED
            BY <1>3, <2>2, <2>3, <3>1, <3>2 DEF IInv, ReadersOK
    <2>5. Store!Await(r)
        BY <1>2, <2>1, <2>2 DEF Store!Await, Store!NoCall, NoCall
    <2> QED
        BY <1>1, <2>4, <2>5
<1>5. CASE V1!AwaitReturns(r) \/ V1!AwaitAborted(r) \/ V2!AwaitReturns(r) \/ V2!AwaitAborted(r)
    <2>1. rd[r].pc = "await" /\ rd[r] \in Awaits
        BY <1>3, <1>5 DEF V1!AwaitReturns, V1!AwaitAborted, V2!AwaitReturns, V2!AwaitAborted,
                          NoCall
    <2>2. PICK g \in {rd[r].got, NoValue} : rd' = [rd EXCEPT ![r].pc = "done", ![r].got = g]
        <3>1. CASE V1!AwaitReturns(r) \/ V2!AwaitReturns(r)
            <4>1. rd' = [rd EXCEPT ![r].pc = "done"]
                BY <3>1 DEF V1!AwaitReturns, V2!AwaitReturns
            <4>2. [rd[r] EXCEPT !.pc = "done", !.got = rd[r].got] = [rd[r] EXCEPT !.pc = "done"]
                BY <2>1 DEF Awaits
            <4>3. rd' = [rd EXCEPT ![r].pc = "done", ![r].got = rd[r].got]
                BY <1>3, <4>1, <4>2
            <4> QED
                BY <4>3
        <3>2. CASE V1!AwaitAborted(r) \/ V2!AwaitAborted(r)
            BY <3>2 DEF V1!AwaitAborted, V2!AwaitAborted
        <3> QED
            BY <1>5, <3>1, <3>2
    <2>3. ReadersOK'
        <3> DEFINE x == [rd[r] EXCEPT !.pc = "done", !.got = g]
        <3>1. x \in Awaits /\ x.pc = "done"
            BY <2>1 DEF Awaits
        <3>2. rd' = [rd EXCEPT ![r] = x] /\ x # NoCall
            BY <1>3, <2>2, <3>1 DEF NoCall
        <3> HIDE DEF x
        <3> QED
            BY <1>3, <3>1, <3>2 DEF IInv, ReadersOK
    <2>4. Store!Return(r)
        BY <1>2, <2>1, <2>2 DEF Store!Return
    <2> QED
        BY <1>1, <2>3, <2>4
<1> QED
    BY <1>4, <1>5

\* A query is answered with the data of its key, or blocked.
LEMMA QuerySteps ==
    ASSUME IInv, NEW r \in Reader, v2' = v2,
           \/ ~ v2 /\ V1!ExecQuery(r)
           \/ v2 /\ V2!Query(r) /\ UNCHANGED <<received, blockedQueries>>
    PROVE  /\ ReadersOK' /\ UNCHANGED <<expiryVars, dataVars, wr>>
           /\ rd' = rd \/ \E d \in Duty : Store!Put(d)
<1>1. UNCHANGED <<expiryVars, dataVars, wr>>
    BY DEF V1!ExecQuery, V2!Query, V1!expiryVars, V1!dataVars, V2!expiryVars, V2!dataVars,
           expiryVars, dataVars
<1>2. data' = data /\ phase' = phase
    BY <1>1 DEF expiryVars, dataVars
<1>3. rd \in [Reader -> {NoCall} \cup Awaits] /\ DataOK
    BY DEF IInv, ReadersOK
<1>4. rd[r].pc = "await" /\ rd[r] \in Awaits /\ rd[r].got = NoValue
    <2>1. rd[r].pc = "await" /\ rd[r] \in Awaits
        BY <1>3 DEF V1!ExecQuery, V2!Query, NoCall
    <2>2. CASE ~ v2 /\ r \notin received
        BY <2>1, <2>2 DEF IInv, ReadersOK
    <2> QED
        BY <2>1, <2>2 DEF V1!ExecQuery, V2!Query
<1>5. PICK d \in Duty, pk \in PubKey : d = rd[r].duty /\ pk = rd[r].pubKey
    BY <1>4 DEF Awaits
<1>6. CASE rd' = rd
    <2>1. ~ v2 /\ received' = received \cup {r} /\ blockedQueries' \in {blockedQueries, blockedQueries \cup {r}}
        <3>1. CASE v2 /\ V2!Query(r)
            <4>1. rd' = [rd EXCEPT ![r].got = data[d][pk]] /\ data[d][pk] # NoValue
                BY <1>5, <3>1 DEF V2!Query
            <4>2. rd'[r].got # NoValue
                BY <1>3, <1>4, <4>1 DEF Awaits
            <4> QED
                BY <1>4, <1>6, <4>2
        <3> QED
            BY <3>1 DEF V1!ExecQuery
    <2>2. rd[r] # NoCall
        BY <1>4 DEF NoCall
    <2>3. ReadersOK'
        BY <1>3, <1>4, <1>6, <2>1, <2>2 DEF IInv, ReadersOK
    <2> QED
        BY <1>1, <1>6, <2>3
<1>7. CASE rd' = [rd EXCEPT ![r].got = data[d][pk]] /\ data[d][pk] # NoValue
           /\ blockedQueries' = blockedQueries
           /\ \/ v2 /\ received' = received
              \/ ~ v2 /\ r \notin received /\ received' = received \cup {r}
    <2> DEFINE x == [rd[r] EXCEPT !.got = data[d][pk]]
    <2>1. x \in Awaits /\ rd' = [rd EXCEPT ![r] = x]
        BY <1>3, <1>4, <1>7 DEF Awaits, DataOK
    <2>2. x # NoCall
        BY <2>1 DEF Awaits, NoCall
    <2>3. r \notin blockedQueries'
        BY <1>7 DEF IInv, ReadersOK
    <2>4. ReadersOK'
        <3> HIDE DEF x
        <3> QED
            BY <1>3, <1>7, <2>1, <2>2, <2>3 DEF IInv, ReadersOK
    <2>5. Store!Answered
        <3>1. {r} \in SUBSET {q \in Reader : rd[q].pc = "await" /\ rd[q].got = NoValue}
            BY <1>4
        <3>2. \A q \in {r} : data'[rd[q].duty][rd[q].pubKey] # NoValue
            BY <1>2, <1>5, <1>7
        <3>3. rd' = [q \in Reader |->
                       IF q \in {r} THEN [rd[q] EXCEPT !.got = data'[rd[q].duty][rd[q].pubKey]]
                                    ELSE rd[q]]
            BY <1>2, <1>3, <1>5, <2>1
        <3> QED
            BY <3>1, <3>2, <3>3 DEF Store!Answered
    <2>6. \E new \in [PubKey -> Value \cup {NoValue}] :
             data' = [data EXCEPT ![d] =
                        [k \in PubKey |-> IF @[k] = NoValue THEN new[k] ELSE @[k]]]
        <3> DEFINE none == [k \in PubKey |-> NoValue]
        <3>1. none \in [PubKey -> Value \cup {NoValue}]
            OBVIOUS
        <3>2. [k \in PubKey |-> IF data[d][k] = NoValue THEN none[k] ELSE data[d][k]] = data[d]
            BY <1>3 DEF DataOK
        <3>3. data' = [data EXCEPT ![d] =
                        [k \in PubKey |-> IF @[k] = NoValue THEN none[k] ELSE @[k]]]
            BY <1>2, <1>3, <3>2 DEF DataOK
        <3> HIDE DEF none
        <3> QED
            BY <3>1, <3>3
    <2>7. Store!Put(d)
        BY <1>2, <2>5, <2>6 DEF Store!Put
    <2> QED
        BY <1>1, <2>4, <2>7
<1>8. \/ rd' = rd
      \/ /\ rd' = [rd EXCEPT ![r].got = data[d][pk]] /\ data[d][pk] # NoValue
         /\ blockedQueries' = blockedQueries
         /\ \/ v2 /\ received' = received
            \/ ~ v2 /\ r \notin received /\ received' = received \cup {r}
    BY <1>5 DEF V1!ExecQuery, V2!Query
<1> QED
    BY <1>6, <1>7, <1>8

\* A call of Store that is being served has a duty and data for its keys.
LEMMA WriterType ==
    ASSUME IInv, NEW w \in Writer, wr[w].pc = "store"
    PROVE  /\ wr[w] \in Stores /\ wr[w].duty \in Duty /\ wr[w].set \in StoreSets
           /\ wr[w].todo \subseteq DOMAIN wr[w].set
           /\ DOMAIN wr[w].set \in SUBSET PubKey
           /\ \A pk \in DOMAIN wr[w].set : wr[w].set[pk] \in Value
<1>1. wr[w] \in Stores /\ wr[w].todo \subseteq DOMAIN wr[w].set
    BY DEF IInv, WritersOK, NoCall, Stores
<1>2. wr[w].duty \in Duty /\ wr[w].set \in StoreSets
    BY <1>1 DEF Stores
<1> QED
    BY <1>1, <1>2, StoreSetsAssumption

\* Run of MemDB executes a command, and answers blocked queries.
LEMMA CommandStep ==
    ASSUME IInv, NEW w \in Writer, NEW pk \in PubKey, V1!ExecCommand(w, pk),
           ~ v2, v2' = v2, deleting' = deleting
    PROVE  IInv' /\ \E d \in Duty : Store!Put(d)
<1>1. PICK d \in Duty : d = wr[w].duty
    BY WriterType DEF V1!ExecCommand
<1>2. PICK v \in Value : v = wr[w].set[pk]
    BY WriterType DEF V1!ExecCommand
<1>3. Put(d, [k \in {pk} |-> v]) /\ Add(d)
    BY <1>1, <1>2 DEF V1!ExecCommand, V1!Put, Put, V1!Add, Add, V1!CanAdd, CanAdd
<1>4. /\ DataOK'
      /\ \E all \in [PubKey -> Value \cup {NoValue}] :
            data' = [data EXCEPT ![d] =
                       [k \in PubKey |-> IF @[k] = NoValue THEN all[k] ELSE @[k]]]
    BY <1>3, DataPut DEF IInv
<1>5. DueOK'
    BY <1>3, ExpiryKeeps DEF IInv
<1>6. WritersOK'
    <2>1. /\ wr[w] \in Stores /\ wr[w].todo \subseteq DOMAIN wr[w].set
          /\ wr \in [Writer -> {NoCall} \cup Stores]
        BY WriterType DEF V1!ExecCommand, IInv, WritersOK
    <2>2. PICK e : e = V1!Mismatch(wr[w].duty, pk, wr[w].set[pk])
        OBVIOUS
    <2>3. e \in BOOLEAN
        BY <2>2 DEF V1!Mismatch
    <2> DEFINE x == [wr[w] EXCEPT !.pc = "response", !.todo = @ \ {pk}, !.err = e]
    <2>4. x \in Stores /\ x.todo \subseteq DOMAIN x.set
        BY <2>1, <2>3 DEF Stores
    <2>5. wr' = [wr EXCEPT ![w] = x]
        BY <2>1, <2>2 DEF V1!ExecCommand
    <2> HIDE DEF x
    <2> QED
        BY <2>4, <2>5, WriterKeeps DEF IInv
<1> DEFINE at(r) == data'[rd[r].duty][rd[r].pubKey]
           A == {r \in blockedQueries : rd[r].pc # "done" /\ at(r) # NoValue}
<1>7. /\ rd' = [r \in Reader |-> IF r \in A THEN [rd[r] EXCEPT !.got = at(r)] ELSE rd[r]]
      /\ blockedQueries' = {r \in blockedQueries : rd[r].pc # "done" /\ at(r) = NoValue}
      /\ received' = received /\ phase' = phase
    BY <1>3 DEF V1!ExecCommand, V1!AnsweredBlocked, V1!StaysBlocked, V1!Cancelled, Add
<1>8. ASSUME NEW r \in A
      PROVE  r \in Reader /\ rd[r] \in Awaits /\ rd[r].pc = "await" /\ rd[r].got = NoValue
             /\ at(r) \in Value
    <2>1. r \in Reader /\ r \in received /\ rd[r] \in Awaits
        BY DEF IInv, ReadersOK
    <2>2. rd[r].pc = "await" /\ rd[r].duty \in Duty /\ rd[r].pubKey \in PubKey
        BY <2>1 DEF Awaits
    <2>3. rd[r].got = NoValue
        BY <2>1, <2>2 DEF IInv, ReadersOK
    <2> QED
        BY <1>4, <2>1, <2>2, <2>3 DEF DataOK
<1>9. ReadersOK'
    <2> HIDE DEF A
    <2>1. ASSUME NEW r \in Reader
          PROVE  /\ rd'[r] \in {NoCall} \cup Awaits
                 /\ rd[r] # NoCall => rd'[r] # NoCall
                 /\ r \notin A => rd'[r] = rd[r]
        <3>1. CASE r \in A
            <4>1. [rd[r] EXCEPT !.got = at(r)] \in Awaits
                BY <1>8, <3>1 DEF Awaits
            <4>2. rd'[r] \in Awaits
                BY <1>7, <3>1, <4>1
            <4> QED
                BY <3>1, <4>2 DEF Awaits, NoCall
        <3>2. CASE r \notin A
            BY <1>7, <3>2 DEF IInv, ReadersOK
        <3> QED
            BY <3>1, <3>2
    <2>2. rd' \in [Reader -> {NoCall} \cup Awaits]
        BY <1>7, <2>1
    <2>3. \A r \in A : r \in received /\ r \notin blockedQueries'
        BY <1>7 DEF A, IInv, ReadersOK
    <2>4. blockedQueries' \subseteq blockedQueries
        BY <1>7
    <2>5. /\ blockedQueries' \subseteq received' /\ received' \subseteq Reader
          /\ \A r \in received' : rd'[r] # NoCall
        BY <1>7, <2>1, <2>4 DEF IInv, ReadersOK
    <2>6. ASSUME NEW r \in Reader, rd'[r] \in Awaits, rd'[r].pc = "await",
                 r \in blockedQueries' \/ r \notin received'
          PROVE  rd'[r].got = NoValue
        <3>1. r \notin A /\ rd'[r] = rd[r] /\ (r \in blockedQueries \/ r \notin received)
            BY <1>7, <2>1, <2>3, <2>4, <2>6
        <3> QED
            BY <2>6, <3>1 DEF IInv, ReadersOK
    <2> QED
        BY <2>2, <2>5, <2>6 DEF IInv, ReadersOK
<1>10. Store!Answered
    <2>1. A \in SUBSET {r \in Reader : rd[r].pc = "await" /\ rd[r].got = NoValue}
        BY <1>8
    <2>2. \A r \in A : at(r) # NoValue
        OBVIOUS
    <2> HIDE DEF A
    <2> QED
        BY <1>7, <2>1, <2>2 DEF Store!Answered
<1>11. Store!Put(d)
    BY <1>4, <1>7, <1>10 DEF Store!Put
<1> QED
    BY <1>4, <1>5, <1>6, <1>9, <1>11 DEF IInv

\* Store of MemDBV2 stores its set, or a part of it that has no other data.
LEMMA StoreAllStep ==
    ASSUME IInv, NEW w \in Writer, V2!StoreAll(w),
           UNCHANGED <<v2, received, blockedQueries>>
    PROVE  IInv' /\ \E d \in Duty : Store!Put(d)
<1>1. PICK d \in Duty : d = wr[w].duty
    BY WriterType DEF V2!StoreAll
<1>2. PICK set \in StoreSets : set = wr[w].set
    BY WriterType DEF V2!StoreAll
<1>3. PICK S \in SUBSET (DOMAIN set) : Put(d, [pk \in S |-> set[pk]])
    <2>1. PICK S \in SUBSET (DOMAIN set) : V2!Put(d, [pk \in S |-> set[pk]])
        BY <1>1, <1>2 DEF V2!StoreAll
    <2>2. Put(d, [pk \in S |-> set[pk]])
        BY <2>1 DEF V2!Put, Put
    <2> QED
        BY <2>2
<1>4. /\ DataOK'
      /\ \E all \in [PubKey -> Value \cup {NoValue}] :
            data' = [data EXCEPT ![d] =
                       [k \in PubKey |-> IF @[k] = NoValue THEN all[k] ELSE @[k]]]
    <2> DEFINE new == [pk \in S |-> set[pk]]
    <2>1. DOMAIN new \in SUBSET PubKey /\ \A pk \in DOMAIN new : new[pk] \in Value
        BY StoreSetsAssumption
    <2> HIDE DEF new
    <2> QED
        BY <1>3, <2>1, DataPut DEF IInv, new
<1>5. Add(d) /\ UNCHANGED <<rd, deleting>>
    BY <1>1 DEF V2!StoreAll, V2!Add, Add, V2!CanAdd, CanAdd
<1>6. DueOK' /\ phase' = phase
    BY <1>5, ExpiryKeeps DEF IInv, Add
<1>7. WritersOK'
    <2>1. wr[w] \in Stores /\ wr \in [Writer -> {NoCall} \cup Stores]
        BY WriterType DEF V2!StoreAll, IInv, WritersOK
    <2>2. PICK e \in BOOLEAN : wr' = [wr EXCEPT ![w].pc = "done", ![w].todo = {}, ![w].err = e]
        BY DEF V2!StoreAll
    <2> DEFINE x == [wr[w] EXCEPT !.pc = "done", !.todo = {}, !.err = e]
    <2>3. x \in Stores /\ x.todo = {}
        BY <2>1 DEF Stores
    <2>4. wr' = [wr EXCEPT ![w] = x]
        BY <2>1, <2>2
    <2> HIDE DEF x
    <2> QED
        BY <2>3, <2>4, WriterKeeps DEF IInv
<1>8. ReadersOK'
    BY <1>5 DEF IInv, ReadersOK
<1>9. Store!Answered
    <2>1. rd' = [r \in Reader |-> IF r \in {} THEN [rd[r] EXCEPT !.got = data'[rd[r].duty][rd[r].pubKey]]
                                             ELSE rd[r]]
        BY <1>5 DEF IInv, ReadersOK
    <2>2. {} \in SUBSET {r \in Reader : rd[r].pc = "await" /\ rd[r].got = NoValue}
        OBVIOUS
    <2>3. \A r \in {} : data'[rd[r].duty][rd[r].pubKey] # NoValue
        OBVIOUS
    <2> QED
        BY <2>1, <2>2, <2>3 DEF Store!Answered
<1>10. Store!Put(d)
    BY <1>4, <1>6, <1>9 DEF Store!Put
<1> QED
    BY <1>4, <1>6, <1>7, <1>8, <1>10 DEF IInv

\* A duty that the deadliner outputs is due, and its data is deleted, by
\* MemDBV2 in a second step.
LEMMA DeleteSteps ==
    ASSUME IInv, UNCHANGED <<v2, received, blockedQueries>>,
           \/ V1!RunExpired /\ deleting' = deleting
           \/ V2!RunExpired
           \/ V2!DeadlineDel
    PROVE  /\ IInv'
           /\ UNCHANGED <<data, rd, phase>> \/ \E d \in Duty : Store!Delete(d)
<1>1. UNCHANGED <<wr, rd, phase>>
    BY DEF V1!RunExpired, V2!RunExpired, V2!DeadlineDel, V1!Take, V2!Take, V2!expiryVars
<1>2. WritersOK' /\ ReadersOK'
    BY <1>1 DEF IInv, WritersOK, ReadersOK
<1>3. ASSUME NEW d \in Duty, phase[d] > 0, DeleteDuty(d)
      PROVE  DataOK' /\ Store!Delete(d)
    BY <1>1, <1>3, DataDelete DEF IInv, Store!Delete
<1>4. ASSUME Take
      PROVE  Head(output) \in Duty /\ phase[Head(output)] > 0
    BY <1>4 DEF Take, IInv, DueOK, ExpiryTypeOK
<1>5. CASE V1!RunExpired /\ deleting' = deleting
    <2>1. Take /\ DeleteDuty(Head(output))
        BY <1>5 DEF V1!RunExpired, V1!Take, Take, V1!DeleteDuty, DeleteDuty
    <2>2. DueOK'
        BY <1>5, <2>1, ExpiryKeeps DEF IInv
    <2> QED
        BY <1>2, <1>3, <1>4, <2>1, <2>2 DEF IInv
<1>6. CASE V2!RunExpired
    <2>1. Take /\ deleting' = Head(output) /\ UNCHANGED dataVars
        BY <1>6 DEF V2!RunExpired, V2!Take, Take, V2!dataVars, dataVars
    <2>2. DueOK'
        <3>1. Head(output) \in Duty /\ phase'[Head(output)] > 0
            BY <1>1, <1>4, <2>1
        <3>2. /\ output' = Tail(output) /\ output \in Seq(Duty) /\ output # << >>
              /\ UNCHANGED <<phase, scheduled, stopped>>
            BY <2>1 DEF Take, IInv, DueOK, ExpiryTypeOK
        <3>3. output' \in Seq(Duty) /\ Len(output') = Len(output) - 1
            BY <3>2
        <3>4. \A i \in 1 .. Len(output') : output'[i] = output[i + 1]
            BY <3>2
        <3>5. Len(output') <= OutputBuffer /\ \A i \in 1 .. Len(output') : phase[output'[i]] > 0
            BY <3>2, <3>3, <3>4, OutputBufferAssumption DEF IInv, DueOK, ExpiryTypeOK
        <3> QED
            BY <2>1, <3>1, <3>2, <3>3, <3>5 DEF IInv, DueOK, ExpiryTypeOK
    <2>3. DataOK'
        BY <2>1 DEF IInv, DataOK, dataVars
    <2> QED
        BY <1>1, <1>2, <2>1, <2>2, <2>3 DEF IInv, dataVars
<1>7. CASE V2!DeadlineDel
    <2>1. /\ deleting # NoDuty /\ deleting' = NoDuty /\ UNCHANGED expiryVars
          /\ DeleteDuty(deleting)
        BY <1>7 DEF V2!DeadlineDel, V2!DeleteDuty, DeleteDuty, V2!expiryVars, expiryVars
    <2>2. deleting \in Duty /\ phase[deleting] > 0
        BY <2>1 DEF IInv, DueOK
    <2>3. DueOK'
        BY <2>1, ExpiryKeeps DEF IInv
    <2> QED
        BY <1>2, <1>3, <2>1, <2>2, <2>3 DEF IInv
<1> QED
    BY <1>5, <1>6, <1>7

\* The deadliner's own steps, the clock, and the end of Run.
LEMMA ClockSteps ==
    ASSUME IInv, UNCHANGED <<v2, received, blockedQueries, deleting>>,
           \/ V1!DeadlineReached \/ V1!Clock \/ V1!RunReturns
           \/ V2!DeadlineReached \/ V2!Clock \/ V2!RunReturns
    PROVE  IInv' /\ (Store!Reach \/ UNCHANGED <<data, rd, phase>>)
<1>1. UNCHANGED <<dataVars, wr, rd>>
    BY DEF V1!DeadlineReached, V1!Clock, V1!RunReturns, V2!DeadlineReached, V2!Clock,
           V2!RunReturns, V1!dataVars, V2!dataVars, dataVars
<1>2. (\E d \in Duty : Expire(d)) \/ TimePasses \/ UNCHANGED expiryVars
    BY DEF V1!DeadlineReached, V1!Clock, V1!RunReturns, V2!DeadlineReached, V2!Clock,
           V2!RunReturns, V1!Expire, V2!Expire, Expire, V1!TimePasses, V2!TimePasses, TimePasses,
           V1!expiryVars, V2!expiryVars, expiryVars
<1>3. IInv'
    <2>1. DueOK'
        BY <1>2, ExpiryKeeps DEF IInv
    <2>2. DataOK' /\ WritersOK' /\ ReadersOK'
        BY <1>1 DEF IInv, DataOK, WritersOK, ReadersOK, dataVars
    <2> QED
        BY <2>1, <2>2 DEF IInv
<1>4. CASE TimePasses
    <2>1. \A d \in Duty : phase[d] \in Nat /\ phase'[d] \in Nat /\ phase'[d] >= phase[d]
        BY <1>4 DEF TimePasses, IInv, DueOK, ExpiryTypeOK
    <2>2. {d \in Duty : phase[d] > 0} \subseteq {d \in Duty : phase'[d] > 0}
        BY <2>1
    <2>3. Store!Reach
        BY <1>1, <2>2 DEF Store!Reach, dataVars
    <2> QED
        BY <1>3, <2>3
<1>5. CASE (\E d \in Duty : Expire(d)) \/ UNCHANGED expiryVars
    BY <1>1, <1>3, <1>5 DEF Expire, expiryVars, dataVars
<1> QED
    BY <1>2, <1>4, <1>5

Promise == [Store!StoreNext]_(Store!storeVars)

\* Every step of either implementation preserves the invariant, and is a step
\* of the promise or leaves what the promise speaks of unchanged.
LEMMA ImplStep == IInv /\ [Next]_vars => IInv' /\ Promise
<1> SUFFICES ASSUME IInv, [Next]_vars PROVE IInv' /\ Promise
    OBVIOUS
<1> USE DEF Promise
<1>1. ASSUME UNCHANGED <<data, rd, phase>> PROVE Promise
    BY <1>1 DEF Store!storeVars
<1>2. ASSUME NEW w \in Writer, UNCHANGED implVars,
             \/ V1!CallStore(w) \/ V1!StoreAborted(w) \/ V1!StoreResponse(w)
             \/ V2!CallStore(w) \/ V2!StoreAborted(w)
      PROVE  IInv' /\ Promise
    <2>1. WritersOK' /\ UNCHANGED <<expiryVars, dataVars, rd>>
        BY <1>2, WriterSteps
    <2>2. DataOK' /\ DueOK' /\ ReadersOK'
        BY <1>2, <2>1, ExpiryKeeps DEF IInv, DataOK, ReadersOK, implVars, dataVars
    <2> QED
        BY <1>1, <2>1, <2>2 DEF IInv, dataVars, expiryVars
<1>3. ASSUME NEW r \in Reader, deleting' = deleting, ReadersOK', UNCHANGED <<expiryVars, dataVars, wr>>
      PROVE  IInv'
    BY <1>3, ExpiryKeeps DEF IInv, DataOK, WritersOK, dataVars
<1>4. ASSUME NEW r \in Reader, UNCHANGED implVars,
             \/ V1!CallAwait(r) \/ V1!AwaitReturns(r) \/ V1!AwaitAborted(r)
             \/ V2!CallAwait(r) \/ V2!AwaitReturns(r) \/ V2!AwaitAborted(r)
      PROVE  IInv' /\ Promise
    <2>1. /\ ReadersOK' /\ UNCHANGED <<expiryVars, dataVars, wr>>
          /\ Store!Await(r) \/ Store!Return(r)
        BY <1>4, ReaderSteps DEF implVars
    <2> QED
        BY <1>3, <1>4, <2>1 DEF implVars, Store!StoreNext
<1>5. ASSUME NEW r \in Reader, v2' = v2, deleting' = deleting,
             \/ ~ v2 /\ V1!ExecQuery(r)
             \/ v2 /\ V2!Query(r) /\ UNCHANGED <<received, blockedQueries>>
      PROVE  IInv' /\ Promise
    <2>1. /\ ReadersOK' /\ UNCHANGED <<expiryVars, dataVars, wr>>
          /\ rd' = rd \/ \E d \in Duty : Store!Put(d)
        BY <1>5, QuerySteps
    <2>2. IInv'
        BY <1>3, <1>5, <2>1
    <2>3. CASE rd' = rd
        BY <1>1, <2>1, <2>2, <2>3 DEF expiryVars, dataVars
    <2>4. CASE \E d \in Duty : Store!Put(d)
        BY <2>2, <2>4 DEF Store!StoreNext
    <2> QED
        BY <2>1, <2>3, <2>4
<1>6. ASSUME NEW w \in Writer, NEW pk \in PubKey, V1!ExecCommand(w, pk), ~ v2,
             v2' = v2, deleting' = deleting
      PROVE  IInv' /\ Promise
    BY <1>6, CommandStep DEF Store!StoreNext
<1>7. ASSUME NEW w \in Writer, V2!StoreAll(w), UNCHANGED <<v2, received, blockedQueries>>
      PROVE  IInv' /\ Promise
    BY <1>7, StoreAllStep DEF Store!StoreNext
<1>8. ASSUME UNCHANGED <<v2, received, blockedQueries>>,
             \/ V1!RunExpired /\ deleting' = deleting
             \/ V2!RunExpired
             \/ V2!DeadlineDel
      PROVE  IInv' /\ Promise
    BY <1>1, <1>8, DeleteSteps DEF Store!StoreNext
<1>9. ASSUME UNCHANGED implVars,
             \/ V1!DeadlineReached \/ V1!Clock \/ V1!RunReturns
             \/ V2!DeadlineReached \/ V2!Clock \/ V2!RunReturns
      PROVE  IInv' /\ Promise
    BY <1>1, <1>9, ClockSteps DEF Store!StoreNext, implVars
<1>10. CASE UNCHANGED vars
    <2>1. IInv'
        BY <1>10, ExpiryKeeps DEF IInv, DataOK, WritersOK, ReadersOK, vars, memVars, implVars, dataVars
    <2> QED
        BY <1>1, <1>10, <2>1 DEF vars, memVars, expiryVars, dataVars
<1>11. CASE ~ v2 /\ V1!Next /\ UNCHANGED <<v2, deleting>>
    BY <1>2, <1>4, <1>5, <1>6, <1>8, <1>9, <1>11
    DEF V1!Next, V1!loopVars, implVars, V1!StoreResponse, V1!RunExpired, V1!RunReturns
<1>12. CASE v2 /\ V2!Next /\ UNCHANGED <<v2, received, blockedQueries>>
    BY <1>2, <1>4, <1>5, <1>7, <1>8, <1>9, <1>12
    DEF V2!Next, implVars, V2!QueryError, V2!RunReturns, V2!Query
<1> QED
    BY <1>10, <1>11, <1>12 DEF Next

\* Both implementations keep the promise of the interface AggSigDB: the first
\* data of a key stays until the duty's deadline, and Await answers with it.
THEOREM Refinement == Spec => ImplementsStore
<1>1. ASSUME Init
      PROVE  IInv /\ Store!StoreInit
    <2>1. /\ data = [d \in Duty |-> [pk \in PubKey |-> NoValue]]
          /\ keysByDuty = [d \in Duty |-> {}] /\ v2 \in BOOLEAN
          /\ wr = [w \in Writer |-> NoCall] /\ rd = [r \in Reader |-> NoCall]
          /\ received = {} /\ blockedQueries = {} /\ deleting = NoDuty
          /\ ExpiryInit
        BY <1>1 DEF Init, V1!Init, V2!Init, V1!MemInit, V1!ExpiryInit, ExpiryInit, V1!NoCall, NoCall
    <2>2. DataOK /\ WritersOK
        BY <2>1 DEF DataOK, WritersOK
    <2>3. ReadersOK
        BY <2>1 DEF ReadersOK, NoCall, Awaits
    <2>4. DueOK
        <3>1. output = << >>
            BY <2>1 DEF ExpiryInit
        <3>2. output \in Seq(Duty) /\ Len(output) = 0
            BY <3>1
        <3>3. ExpiryTypeOK
            <4>1. phase \in [Duty -> 0 .. 2] /\ scheduled \subseteq Duty /\ stopped \in BOOLEAN
                BY <2>1 DEF ExpiryInit
            <4> QED
                BY <3>2, <4>1, OutputBufferAssumption DEF ExpiryTypeOK
        <3>4. \A i \in 1 .. Len(output) : FALSE
            BY <3>2
        <3> QED
            BY <2>1, <3>3, <3>4 DEF DueOK
    <2>5. Store!StoreInit
        BY <2>1 DEF Store!StoreInit, Store!NoCall, NoCall
    <2> QED
        BY <2>2, <2>3, <2>4, <2>5 DEF IInv
<1> QED
    BY <1>1, ImplStep, PTL DEF ImplementsStore, Store!StoreSpec, Spec, Promise

=============================================================================
