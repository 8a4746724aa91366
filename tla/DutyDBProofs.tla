---------------------------- MODULE DutyDBProofs ----------------------------
(***************************************************************************)
(* The validator clients get one value to sign per key (AnswersAgree), and *)
(* an answer when there is one (AnsweredUnlessFailed), for every set of    *)
(* duties, inputs and calls.                                               *)
(***************************************************************************)
EXTENDS DutyDB, TLAPS

\* Most leaves are first-order: Zenon is tried before the SMT solver.
USE ZenonT(4), SMTT(20)

-----------------------------------------------------------------------------
(* The inductive invariant.                                                *)

\* A key belongs to a duty: its table is that of the duty type.
Owns(d, k) == d.slot = k[2] /\ TableOf(d.type) = IF k[1] = "pk" THEN "att" ELSE k[1]

\* The data that consensus may agree on for a duty has the slot of the duty.
DutyData(d) == {u \in UnsignedData(d.type) : u.slot = d.slot}

\* The Store that holds the lock has a set that consensus agreed on.
StoreOK ==
    \/ store = NoStore
    \/ /\ store = [pc |-> store.pc, duty |-> store.duty, set |-> store.set, todo |-> store.todo]
       /\ store.pc \in {"store", "drain"} /\ store.duty \in Duty
       /\ store.todo \subseteq DOMAIN store.set /\ DOMAIN store.set \subseteq PubKey
       /\ \A pk \in DOMAIN store.set : store.set[pk] \in DutyData(store.duty)

\* Only the table of public keys holds public keys.
DataOK == \A k \in Key : k[1] # "pk" => db[k] \in Data \cup {NoValue}

\* The index has keys of its duty only.
IndexOK == \A d \in Duty : \A k \in keysBySlot[d] : k \in Key /\ Owns(d, k) /\ Indexed(d, k)

\* What is stored belongs to a duty, and is deleted with it.
StoredOK == \A k \in Key : db[k] # NoValue => \E d \in Duty : Owns(d, k) /\ k \in Deleted(d)

\* The deadline of a duty that the deadliner outputs was reached.
OutputDue == \A i \in DOMAIN output : phase[output[i]] > 0

\* Nothing more is stored for the duty, unless it is accepted at the instant
\* of its deadline.
Dead(d) == phase[d] > 0 /\ (store.pc = "store" => store.duty # d)

\* The state of the calls.
Call == [pc : {"await", "done"}, key : Asked, got : Data \cup {NoValue}]
CallsOK == rd \in [Reader -> {NoCall} \cup Call]

\* A value that a call got is still stored, or was deleted for good.
AnswersStay ==
    \A r \in Reader : \A d \in Duty \ renewed :
        rd[r] # NoCall /\ rd[r].got # NoValue /\ rd[r].key[1] # "agg" /\ Owns(d, rd[r].key)
        => db[rd[r].key] = rd[r].got \/ (db[rd[r].key] = NoValue /\ Dead(d))

\* Two calls for a key got the same value.
SameAnswers ==
    \A r, s \in Reader : \A d \in Duty \ renewed :
        /\ rd[r] # NoCall /\ rd[s] # NoCall /\ rd[r].key = rd[s].key /\ rd[r].key[1] # "agg"
        /\ rd[r].got # NoValue /\ rd[s].got # NoValue /\ Owns(d, rd[r].key)
        => rd[r].got = rd[s].got

\* What a call got belongs to a duty.
AnswersOwned ==
    \A r \in Reader : rd[r] # NoCall /\ rd[r].got # NoValue => \E d \in Duty : Owns(d, rd[r].key)

\* A query for data that is stored waits for the Store that has stored it, or
\* a Store of the duty has failed.
QueriesOK ==
    \A r \in queries : Live(r) /\ db[rd[r].key] # NoValue =>
        \E d \in Duty : /\ Owns(d, rd[r].key)
                        /\ d \in failed \/ (store.pc = "store" /\ store.duty = d)

IInv ==
    /\ TypeOK /\ CallsOK /\ StoreOK /\ DataOK /\ IndexOK /\ StoredOK /\ OutputDue
    /\ AnswersStay /\ SameAnswers /\ AnswersOwned /\ QueriesOK

-----------------------------------------------------------------------------
(* Keys and duties.                                                        *)

\* The first element of a key names its table.
LEMMA KeyTags ==
    ASSUME NEW k \in Key
    PROVE  /\ k \in PkKey <=> k[1] = "pk"
           /\ k[1] = "att" => k = <<"att", k[2], k[3]>> /\ k[2] \in Slot /\ k[3] \in CommIdx
           /\ k[1] = "pro" => k = <<"pro", k[2]>>
           /\ k[1] \in {"att", "pk", "pro", "agg", "con"}
<1>1. CASE k \in AttKey
    BY <1>1 DEF AttKey, PkKey
<1>2. CASE k \in PkKey
    BY <1>2 DEF PkKey
<1>3. CASE k \in ProKey
    BY <1>3 DEF ProKey, PkKey
<1>4. CASE k \in AggKey
    BY <1>4 DEF AggKey, PkKey
<1>5. CASE k \in ContribKey
    BY <1>5 DEF ContribKey, PkKey
<1> QED
    BY <1>1, <1>2, <1>3, <1>4, <1>5 DEF Key

\* A duty is its type and its slot.
LEMMA DutyFields ==
    ASSUME NEW d \in Duty
    PROVE  d = [type |-> d.type, slot |-> d.slot] /\ d.type \in Type /\ d.slot \in Slot
BY DutyAssumption

\* The types have different tables.
LEMMA TablesDiffer ==
    ASSUME NEW t \in Type, NEW u \in Type, TableOf(t) = TableOf(u)
    PROVE  t = u
BY DEF Type, TableOf

\* A key belongs to one duty.
LEMMA OneOwner ==
    ASSUME NEW d \in Duty, NEW e \in Duty, NEW k, Owns(d, k), Owns(e, k)
    PROVE  d = e
<1>1. d.slot = e.slot /\ TableOf(d.type) = TableOf(e.type)
    BY DEF Owns
<1>2. d.type = e.type
    BY <1>1, TablesDiffer, DutyFields
<1> QED
    BY <1>1, <1>2, DutyFields

\* DutyOf finds it.
LEMMA OwnerIsDutyOf ==
    ASSUME NEW d \in Duty, NEW k, Owns(d, k)
    PROVE  DutyOf(k) = d
<1>1. DutyOf(k) = CHOOSE e \in Duty : Owns(e, k)
    BY DEF DutyOf, Owns
<1>2. (CHOOSE e \in Duty : Owns(e, k)) \in Duty /\ Owns((CHOOSE e \in Duty : Owns(e, k)), k)
    OBVIOUS
<1> QED
    BY <1>1, <1>2, OneOwner

-----------------------------------------------------------------------------
(* What a Store writes.                                                    *)

\* The entries of a validator's data are keys of the duty.
LEMMA PutsOK ==
    ASSUME NEW d \in Duty, NEW pk \in PubKey, NEW u \in DutyData(d),
           NEW P, P = Puts(d, pk, u)
    PROVE  /\ DOMAIN P \subseteq Nat \ {0}
           /\ \A i \in DOMAIN P :
                 /\ P[i].key \in Key /\ Owns(d, P[i].key)
                 /\ P[i].value \in PubKey \cup Data
                 /\ P[i].key[1] # "pk" => P[i].value \in Data
<1>1. d.type \in Type /\ d.slot \in Slot
    BY DutyFields
<1>2. CASE d.type = "attester"
    <2>1. u.slot = d.slot /\ u.comm \in CommIdx /\ u.val \in ValIdx /\ u.data \in Data
        BY <1>2 DEF DutyData, UnsignedData
    <2>2. P = << [key |-> <<"pk", d.slot, u.comm, u.val>>, value |-> pk],
                 [key |-> <<"att", d.slot, u.comm>>, value |-> u.data],
                 [key |-> <<"pk", d.slot, 0, u.val>>, value |-> pk],
                 [key |-> <<"att", d.slot, 0>>, value |-> u.data] >>
        BY <1>2, <2>1 DEF Puts
    <2>3. \A c \in CommIdx : <<"pk", d.slot, c, u.val>> \in Key /\ <<"att", d.slot, c>> \in Key
        BY <1>1, <2>1 DEF Key, PkKey, AttKey
    <2>4. \A c \in CommIdx : Owns(d, <<"pk", d.slot, c, u.val>>) /\ Owns(d, <<"att", d.slot, c>>)
        BY <1>2 DEF Owns, TableOf
    <2>5. DOMAIN P = 1 .. 4
        BY <2>2
    <2> QED
        BY <2>1, <2>2, <2>3, <2>4, <2>5, CommIdxAssumption
<1>3. CASE d.type = "proposer"
    <2>1. u.slot = d.slot /\ u.data \in Data
        BY <1>3 DEF DutyData, UnsignedData
    <2>2. P = << [key |-> <<"pro", d.slot>>, value |-> u.data] >> /\ DOMAIN P = {1}
        BY <1>3, <2>1 DEF Puts
    <2>3. <<"pro", d.slot>> \in Key /\ Owns(d, <<"pro", d.slot>>)
        BY <1>1, <1>3 DEF Key, ProKey, Owns, TableOf
    <2> QED
        BY <2>1, <2>2, <2>3
<1>4. CASE d.type = "aggregator"
    <2>1. u.slot = d.slot /\ u.data \in Data /\ u.root \in Root
        BY <1>4 DEF DutyData, UnsignedData
    <2>2. P = << [key |-> <<"agg", d.slot, u.root>>, value |-> u.data] >> /\ DOMAIN P = {1}
        BY <1>4, <2>1 DEF Puts
    <2>3. <<"agg", d.slot, u.root>> \in Key /\ Owns(d, <<"agg", d.slot, u.root>>)
        BY <1>1, <1>4, <2>1 DEF Key, AggKey, Owns, TableOf
    <2> QED
        BY <2>1, <2>2, <2>3
<1>5. CASE d.type = "contribution"
    <2>1. u.slot = d.slot /\ u.data \in Data /\ u.root \in Root /\ u.comm \in CommIdx
        BY <1>5 DEF DutyData, UnsignedData
    <2>2. P = << [key |-> <<"con", d.slot, u.comm, u.root>>, value |-> u.data] >> /\ DOMAIN P = {1}
        BY <1>5, <2>1 DEF Puts
    <2>3. <<"con", d.slot, u.comm, u.root>> \in Key /\ Owns(d, <<"con", d.slot, u.comm, u.root>>)
        BY <1>1, <1>5, <2>1 DEF Key, ContribKey, Owns, TableOf
    <2> QED
        BY <2>1, <2>2, <2>3
<1> QED
    BY <1>1, <1>2, <1>3, <1>4, <1>5 DEF Type

\* Attestation data comes after the public key of its committee.
LEMMA PutsOrder ==
    ASSUME NEW d \in Duty, NEW pk \in PubKey, NEW u \in DutyData(d),
           NEW P, P = Puts(d, pk, u),
           NEW i \in DOMAIN P, P[i].key[1] = "att"
    PROVE  /\ i - 1 \in DOMAIN P /\ P[i - 1].key[1] = "pk"
           /\ P[i - 1].key[2] = P[i].key[2] /\ P[i - 1].key[3] = P[i].key[3]
<1>1. CASE d.type = "attester"
    <2>0. u.slot = d.slot
        BY DEF DutyData
    <2>1. P = << [key |-> <<"pk", d.slot, u.comm, u.val>>, value |-> pk],
                 [key |-> <<"att", d.slot, u.comm>>, value |-> u.data],
                 [key |-> <<"pk", d.slot, 0, u.val>>, value |-> pk],
                 [key |-> <<"att", d.slot, 0>>, value |-> u.data] >>
        BY <1>1, <2>0 DEF Puts
    <2>2. DOMAIN P = 1 .. 4
        BY <2>1
    <2>3. i \in {2, 4}
        BY <2>1, <2>2
    <2> QED
        BY <2>1, <2>2, <2>3
<1>2. CASE d.type # "attester"
    <2>1. Owns(d, P[i].key)
        BY PutsOK
    <2>2. TableOf(d.type) = "att"
        BY <2>1 DEF Owns
    <2> QED
        BY <1>2, <2>2 DEF TableOf
<1> QED
    BY <1>1, <1>2

\* What StoreOne does to the tables: W are the new values of the keys K.
Writes(d, K, W) ==
    /\ db' = [k \in Key |-> IF k \in K THEN W[k] ELSE db[k]]
    /\ keysBySlot' = [keysBySlot EXCEPT ![d] = @ \cup {k \in K : db[k] = NoValue /\ Indexed(d, k)}]
    /\ \A k \in K :
          /\ k \in Key /\ Owns(d, k)
          /\ W[k] \in PubKey \cup Data
          /\ k[1] # "pk" => W[k] \in Data
          /\ k[1] # "agg" => db[k] \in {NoValue, W[k]}
          /\ k[1] = "att" => \E q \in K : q[1] = "pk" /\ q[2] = k[2] /\ q[3] = k[3]

\* StoreOne writes keys of its duty, over the same values, or new ones.
LEMMA StoreOneWrites ==
    ASSUME StoreOK, NEW pk \in PubKey, StoreOne(pk)
    PROVE  /\ store.pc = "store" /\ store.duty \in Duty
           /\ \E K, W : Writes(store.duty, K, W)
<1>1. store.pc = "store" /\ pk \in store.todo
    BY DEF StoreOne
<1>2. store # NoStore
    BY <1>1 DEF NoStore
<1>3. /\ store.duty \in Duty /\ pk \in DOMAIN store.set
      /\ store.set[pk] \in DutyData(store.duty)
    BY <1>1, <1>2 DEF StoreOK
<1>4. PICK d \in Duty : d = store.duty
    BY <1>3
<1>5. PICK u \in DutyData(d) : u = store.set[pk]
    BY <1>3, <1>4
<1> DEFINE puts  == Puts(store.duty, pk, store.set[pk])
           oks   == {i \in DOMAIN puts : \A j \in 1 .. i : ~ Clash(store.duty, puts[j])}
           key   == {puts[i].key : i \in oks}
           value == [k \in key |-> LET i == CHOOSE i \in oks : puts[i].key = k IN puts[i].value]
<1>6. /\ db' = [k \in Key |-> IF k \in key THEN value[k] ELSE db[k]]
       /\ keysBySlot' = [keysBySlot EXCEPT ![d] = @ \cup {k \in key : db[k] = NoValue /\ Indexed(d, k)}]
    BY <1>4 DEF StoreOne
<1>7. PICK P : P = puts /\ P = Puts(d, pk, u)
    BY <1>4, <1>5
<1> HIDE DEF puts
<1>8. PICK ok : ok = oks /\ ok = {i \in DOMAIN P : \A j \in 1 .. i : ~ Clash(d, P[j])}
    BY <1>4, <1>7
<1> HIDE DEF oks
<1>9. PICK K : K = key /\ K = {P[i].key : i \in ok}
    BY <1>7, <1>8
<1> HIDE DEF key
<1>10. PICK W : W = value
    OBVIOUS
<1> HIDE DEF value
<1>11. /\ db' = [k \in Key |-> IF k \in K THEN W[k] ELSE db[k]]
       /\ keysBySlot' = [keysBySlot EXCEPT ![d] = @ \cup {k \in K : db[k] = NoValue /\ Indexed(d, k)}]
    BY <1>9, <1>10, <1>6
<1>12. ASSUME NEW k \in K
       PROVE  /\ k \in Key /\ Owns(d, k)
              /\ W[k] \in PubKey \cup Data
              /\ k[1] # "pk" => W[k] \in Data
              /\ k[1] # "agg" => db[k] \in {NoValue, W[k]}
              /\ k[1] = "att" => \E q \in K : q[1] = "pk" /\ q[2] = k[2] /\ q[3] = k[3]
    <2>1. PICK i : i = CHOOSE j \in oks : puts[j].key = k
        OBVIOUS
    <2>2. \E j \in oks : puts[j].key = k
        BY <1>7, <1>8, <1>9
    <2>3. i \in ok /\ P[i].key = k
        BY <1>7, <1>8, <2>1, <2>2
    <2>4. W[k] = P[i].value
        BY <1>7, <1>9, <1>10, <2>1 DEF value
    <2>5. i \in DOMAIN P /\ i \in Nat \ {0}
        BY <1>7, <1>8, <2>3, PutsOK
    <2>6. /\ k \in Key /\ Owns(d, k)
          /\ W[k] \in PubKey \cup Data
          /\ k[1] # "pk" => W[k] \in Data
        BY <1>7, <2>3, <2>4, <2>5, PutsOK
    <2>7. ASSUME k[1] # "agg"
          PROVE  db[k] \in {NoValue, W[k]}
        <3>1. d.type # "aggregator"
            BY <2>6, <2>7 DEF Owns, TableOf
        <3>2. i \in 1 .. i
            BY <2>5
        <3>3. ~ Clash(d, P[i])
            BY <1>8, <2>3, <3>2
        <3> QED
            BY <2>3, <2>4, <3>1, <3>3 DEF Clash
    <2>8. ASSUME k[1] = "att"
          PROVE  \E q \in K : q[1] = "pk" /\ q[2] = k[2] /\ q[3] = k[3]
        <3>1. /\ i - 1 \in DOMAIN P /\ P[i - 1].key[1] = "pk"
              /\ P[i - 1].key[2] = k[2] /\ P[i - 1].key[3] = k[3]
            BY <1>7, <2>3, <2>5, <2>8, PutsOrder
        <3>2. \A j \in 1 .. (i - 1) : j \in 1 .. i
            BY <2>5
        <3>3. i - 1 \in ok
            BY <1>8, <2>3, <3>1, <3>2
        <3> QED
            BY <1>9, <3>1, <3>3
    <2> QED
        BY <2>6, <2>7, <2>8
<1>13. Writes(d, K, W)
    BY <1>12, <1>11 DEF Writes
<1> QED
    BY <1>1, <1>3, <1>4, <1>13

-----------------------------------------------------------------------------
(* What is deleted with a duty.                                            *)

\* It belongs to the duty.
LEMMA DeletedOwned ==
    ASSUME IndexOK, NEW d \in Duty, NEW k \in Deleted(d)
    PROVE  Owns(d, k)
<1>1. CASE d.type = "proposer"
    <2>1. k = <<"pro", d.slot>>
        BY <1>1 DEF Deleted
    <2> QED
        BY <1>1, <2>1 DEF Owns, TableOf
<1>2. CASE d.type # "proposer" /\ k \in keysBySlot[d]
    BY <1>2 DEF IndexOK
<1>3. CASE d.type # "proposer" /\ k \notin keysBySlot[d]
    <2>1. PICK q \in keysBySlot[d] \cap PkKey : k = <<"att", q[2], q[3]>>
        BY <1>3 DEF Deleted
    <2>2. Owns(d, q) /\ q[1] = "pk"
        BY <2>1 DEF IndexOK, PkKey
    <2>3. k[1] = "att" /\ k[2] = q[2]
        BY <2>1
    <2> QED
        BY <2>2, <2>3 DEF Owns
<1> QED
    BY <1>1, <1>2, <1>3

\* It grows with the index.
LEMMA DeletedGrows ==
    ASSUME NEW d \in Duty, keysBySlot[d] \subseteq keysBySlot'[d]
    PROVE  Deleted(d) \subseteq Deleted(d)'
BY DEF Deleted

\* A key is deleted when it is indexed, or its public key is; a proposal always.
LEMMA DeletedInNew ==
    ASSUME NEW d \in Duty, NEW k \in Key, Owns(d, k),
           \/ d.type = "proposer"
           \/ k \in keysBySlot'[d]
           \/ k[1] = "att" /\ \E q \in keysBySlot'[d] \cap PkKey : q[2] = k[2] /\ q[3] = k[3]
    PROVE  k \in Deleted(d)'
<1>1. CASE d.type = "proposer"
    <2>1. k[1] = "pro" /\ k[2] = d.slot
        BY <1>1, KeyTags DEF Owns, TableOf
    <2> QED
        BY <1>1, <2>1, KeyTags DEF Deleted
<1>2. CASE d.type # "proposer" /\ k \in keysBySlot'[d]
    BY <1>2 DEF Deleted
<1>3. CASE d.type # "proposer" /\ k \notin keysBySlot'[d]
    <2>1. PICK q \in keysBySlot'[d] \cap PkKey : q[2] = k[2] /\ q[3] = k[3]
        BY <1>3
    <2>2. k = <<"att", q[2], q[3]>>
        BY <1>3, <2>1, KeyTags
    <2> QED
        BY <1>3, <2>1, <2>2 DEF Deleted
<1> QED
    BY <1>1, <1>2, <1>3

\* A public key is indexed itself.
LEMMA PkIndexed ==
    ASSUME NEW d \in Duty, NEW q, q[1] = "pk", q \in Deleted(d)
    PROVE  q \in keysBySlot[d]
<1>1. q # <<"pro", d.slot>>
    OBVIOUS
<1>2. \A k : q # <<"att", k[2], k[3]>>
    OBVIOUS
<1> QED
    BY <1>1, <1>2 DEF Deleted

-----------------------------------------------------------------------------
(* The steps of the calls.                                                 *)

\* The step gives to a call what is stored, or leaves what it got.
Reads ==
    /\ UNCHANGED <<phase, db, renewed>>
    /\ \A d \in Duty : Dead(d) => Dead(d)'
    /\ rd' \in [Reader -> {NoCall} \cup Call]
    /\ \A r \in Reader : rd'[r] # NoCall =>
          \/ rd'[r].got \in {NoValue, db[rd'[r].key]}
          \/ rd[r] # NoCall /\ rd'[r].key = rd[r].key /\ rd'[r].got = rd[r].got

\* The key of a call is in a table that is read.
LEMMA CallKey ==
    ASSUME NEW c \in Call
    PROVE  c.key \in Key /\ c.key[1] # "pk"
<1>1. c.key \in Key \ PkKey
    BY AskedAssumption DEF Call
<1> QED
    BY <1>1, KeyTags

\* Then all calls have got what is stored, or was.
LEMMA ReadsKeeps ==
    ASSUME IInv, Reads
    PROVE  AnswersStay' /\ SameAnswers' /\ AnswersOwned'
<1>1. AnswersStay /\ SameAnswers /\ AnswersOwned /\ StoredOK
    BY DEF IInv
<1>2. UNCHANGED <<db, renewed>>
    BY DEF Reads
<1>3. AnswersStay'
    <2> SUFFICES ASSUME NEW r \in Reader, NEW d \in Duty \ renewed',
                        rd'[r] # NoCall, rd'[r].got # NoValue, rd'[r].key[1] # "agg",
                        Owns(d, rd'[r].key)
                 PROVE  db'[rd'[r].key] = rd'[r].got \/ (db'[rd'[r].key] = NoValue /\ Dead(d)')
        BY DEF AnswersStay, Owns
    <2>1. CASE rd'[r].got = db[rd'[r].key]
        BY <1>2, <2>1
    <2>2. CASE rd[r] # NoCall /\ rd'[r].key = rd[r].key /\ rd'[r].got = rd[r].got
        <3>1. db[rd[r].key] = rd[r].got \/ (db[rd[r].key] = NoValue /\ Dead(d))
            BY <1>1, <1>2, <2>2 DEF AnswersStay
        <3> QED
            BY <1>2, <2>2, <3>1 DEF Reads
    <2> QED
        BY <2>1, <2>2 DEF Reads
<1>4. SameAnswers'
    <2> SUFFICES ASSUME NEW r \in Reader, NEW s \in Reader, NEW d \in Duty \ renewed',
                        rd'[r] # NoCall, rd'[s] # NoCall, rd'[r].key = rd'[s].key,
                        rd'[r].key[1] # "agg", rd'[r].got # NoValue, rd'[s].got # NoValue,
                        Owns(d, rd'[r].key)
                 PROVE  rd'[r].got = rd'[s].got
        BY DEF SameAnswers, Owns
    <2>1. PICK k : k = rd'[r].key /\ k = rd'[s].key
        OBVIOUS
    <2>2. \A q \in {r, s} : \/ rd'[q].got = db[k]
                            \/ /\ rd[q] # NoCall /\ rd[q].key = k /\ rd'[q].got = rd[q].got
                               /\ rd[q].got = db[k] \/ db[k] = NoValue
        <3> SUFFICES ASSUME NEW q \in {r, s}, rd'[q].got # db[k]
                     PROVE  /\ rd[q] # NoCall /\ rd[q].key = k /\ rd'[q].got = rd[q].got
                            /\ rd[q].got = db[k] \/ db[k] = NoValue
            OBVIOUS
        <3>1. rd[q] # NoCall /\ rd[q].key = k /\ rd'[q].got = rd[q].got
            BY <2>1 DEF Reads
        <3>2. rd[q].got = db[k] \/ db[k] = NoValue
            BY <1>1, <1>2, <2>1, <3>1 DEF AnswersStay
        <3> QED
            BY <3>1, <3>2
    <2>3. CASE rd'[r].got = db[k]
        BY <2>2, <2>3
    <2>4. CASE rd'[s].got = db[k]
        BY <2>2, <2>4
    <2>5. CASE rd'[r].got # db[k] /\ rd'[s].got # db[k]
        BY <1>1, <1>2, <2>1, <2>2, <2>5 DEF SameAnswers
    <2> QED
        BY <2>3, <2>4, <2>5
<1>5. AnswersOwned'
    <2> SUFFICES ASSUME NEW r \in Reader, rd'[r] # NoCall, rd'[r].got # NoValue
                 PROVE  \E d \in Duty : Owns(d, rd'[r].key)
        BY DEF AnswersOwned, Owns
    <2>1. CASE rd'[r].got = db[rd'[r].key]
        <3>1. rd'[r].key \in Key
            BY CallKey DEF Reads
        <3> QED
            BY <1>1, <2>1, <3>1 DEF StoredOK
    <2>2. CASE rd[r] # NoCall /\ rd'[r].key = rd[r].key /\ rd'[r].got = rd[r].got
        BY <1>1, <2>2 DEF AnswersOwned
    <2> QED
        BY <2>1, <2>2 DEF Reads
<1> QED
    BY <1>3, <1>4, <1>5

\* No table and no index changes.
LEMMA SameTables ==
    ASSUME IInv, UNCHANGED dbVars
    PROVE  DataOK' /\ IndexOK' /\ StoredOK'
<1>1. db' = db /\ keysBySlot' = keysBySlot
    BY DEF dbVars
<1>2. DataOK /\ IndexOK /\ StoredOK
    BY DEF IInv
<1>3. DataOK'
    BY <1>1, <1>2 DEF DataOK
<1>4. IndexOK'
    BY <1>1, <1>2 DEF IndexOK, Owns, Indexed
<1>5. StoredOK'
    BY <1>1, <1>2 DEF StoredOK, Owns, Deleted
<1> QED
    BY <1>3, <1>4, <1>5

\* The deadliner does nothing.
LEMMA SameExpiry ==
    ASSUME IInv, UNCHANGED expiryVars
    PROVE  ExpiryTypeOK' /\ OutputDue'
BY DEF IInv, TypeOK, ExpiryTypeOK, OutputDue, expiryVars

\* The calls keep what they have got while the tables stay as they are.
LEMMA SameReads ==
    ASSUME IInv, UNCHANGED <<db, rd, phase, renewed>>, \A d \in Duty : Dead(d) => Dead(d)'
    PROVE  CallsOK' /\ AnswersStay' /\ SameAnswers' /\ AnswersOwned'
<1>1. CallsOK'
    BY DEF IInv, CallsOK
<1>2. Reads
    BY <1>1 DEF Reads, CallsOK
<1> QED
    BY <1>1, <1>2, ReadsKeeps

\* What the calls have got does not depend on the tables.
LEMMA SameCalls ==
    ASSUME IInv, rd' = rd, renewed \subseteq renewed'
    PROVE  CallsOK' /\ SameAnswers' /\ AnswersOwned'
<1>1. CallsOK'
    BY DEF IInv, CallsOK
<1>2. SameAnswers'
    BY DEF IInv, SameAnswers, Owns
<1>3. AnswersOwned'
    BY DEF IInv, AnswersOwned, Owns
<1> QED
    BY <1>1, <1>2, <1>3

\* The types of the variables, from those of the parts.
LEMMA TypeFromParts ==
    ASSUME ExpiryTypeOK', CallsOK', StoreOK',
           db' \in [Key -> PubKey \cup Data \cup {NoValue}],
           keysBySlot' \in [Duty -> SUBSET Key],
           queries' \subseteq {r \in Reader : rd'[r] # NoCall /\ rd'[r].got = NoValue}
    PROVE  TypeOK'
<1>1. \A r \in Reader : rd'[r] = NoCall \/ rd'[r] \in Call
    BY DEF CallsOK
<1>2. store' # NoStore => /\ store'.pc \in {"store", "drain"} /\ store'.duty \in Duty
                          /\ store'.todo \subseteq DOMAIN store'.set
    BY DEF StoreOK
<1> QED
    BY <1>1, <1>2 DEF TypeOK, Call

\* StoreResolve answers the queries of the table.
LEMMA StoreResolveKeeps ==
    ASSUME IInv, StoreResolve
    PROVE  IInv'
<1> USE DEF IInv
<1>1. /\ store.pc = "store" /\ store # NoStore /\ store.duty \in Duty
      /\ store' = [store EXCEPT !.pc = "drain"]
    BY DEF StoreResolve, NoStore, TypeOK
<1>2. UNCHANGED dbVars /\ UNCHANGED expiryVars /\ UNCHANGED histVars
    BY DEF StoreResolve
<1>3. PICK R : R = Resolved(store.duty.type)
    OBVIOUS
<1>4. PICK D : D = Dropped(store.duty.type)
    OBVIOUS
<1>5. /\ queries' = queries \ (R \cup D)
      /\ rd' = [r \in Reader |-> IF r \in R THEN [rd[r] EXCEPT !.got = db[rd[r].key]] ELSE rd[r]]
    BY <1>3, <1>4 DEF StoreResolve, Resolve
<1>6. \A r \in Reader : rd[r] = NoCall \/ rd[r] \in Call
    BY DEF CallsOK
<1>7. \A r \in queries : r \in Reader /\ rd[r] \in Call /\ rd[r].got = NoValue
    BY <1>6 DEF TypeOK
<1>8. \A r \in R : r \in queries
    BY <1>3 DEF Resolved
<1>9. \A r \in R : rd'[r] = [rd[r] EXCEPT !.got = db[rd[r].key]]
    BY <1>5, <1>7, <1>8
<1>10. \A r \in R : db[rd[r].key] \in Data \cup {NoValue}
    BY <1>7, <1>8, CallKey DEF DataOK
<1>11. \A r \in R : rd'[r] \in Call /\ rd'[r].key = rd[r].key /\ rd'[r].got = db[rd[r].key]
    <2> TAKE r \in R
    <2>1. PICK c \in Call : c = rd[r]
        BY <1>7, <1>8
    <2>2. PICK v \in Data \cup {NoValue} : v = db[c.key]
        BY <1>10, <2>1
    <2>3. rd'[r] = [c EXCEPT !.got = v]
        BY <1>9, <2>1, <2>2
    <2>4. /\ [c EXCEPT !.got = v] \in Call /\ [c EXCEPT !.got = v].key = c.key
          /\ [c EXCEPT !.got = v].got = v
        BY DEF Call
    <2> QED
        BY <2>1, <2>2, <2>3, <2>4
<1>12. \A r \in Reader \ R : rd'[r] = rd[r]
    BY <1>5
<1>13. CallsOK'
    BY <1>5, <1>6, <1>11, <1>12 DEF CallsOK
<1>14. StoreOK'
    <2>1. /\ store = [pc |-> store.pc, duty |-> store.duty, set |-> store.set, todo |-> store.todo]
          /\ store.todo \subseteq DOMAIN store.set /\ DOMAIN store.set \subseteq PubKey
          /\ \A pk \in DOMAIN store.set : store.set[pk] \in DutyData(store.duty)
        BY <1>1 DEF StoreOK
    <2>2. store' = [pc |-> "drain", duty |-> store.duty, set |-> store.set, todo |-> store.todo]
        BY <1>1, <2>1
    <2>3. store'.pc = "drain" /\ store'.duty = store.duty /\ store'.set = store.set /\ store'.todo = store.todo
        BY <2>2
    <2> QED
        BY <1>1, <2>1, <2>2, <2>3 DEF StoreOK
<1>15. DataOK' /\ IndexOK' /\ StoredOK' /\ ExpiryTypeOK' /\ OutputDue'
    BY <1>2, SameTables, SameExpiry
<1>16. store'.pc = "drain"
    <2>1. store = [pc |-> store.pc, duty |-> store.duty, set |-> store.set, todo |-> store.todo]
        BY <1>1 DEF StoreOK
    <2> QED
        BY <1>1, <2>1
<1>17. Reads
    <2>1. \A d \in Duty : Dead(d) => Dead(d)'
        BY <1>2, <1>16 DEF Dead, expiryVars
    <2>2. \A r \in Reader : rd'[r] # NoCall =>
              \/ rd'[r].got \in {NoValue, db[rd'[r].key]}
              \/ rd[r] # NoCall /\ rd'[r].key = rd[r].key /\ rd'[r].got = rd[r].got
        BY <1>11, <1>12
    <2> QED
        BY <1>2, <1>13, <2>1, <2>2 DEF Reads, CallsOK, expiryVars, dbVars, histVars
<1>18. queries' \subseteq {r \in Reader : rd'[r] # NoCall /\ rd'[r].got = NoValue}
    BY <1>5, <1>7, <1>12 DEF TypeOK
<1>19. QueriesOK'
    <2> SUFFICES ASSUME NEW r \in queries', rd'[r].pc = "await", db'[rd'[r].key] # NoValue
                 PROVE  \E d \in Duty : Owns(d, rd'[r].key) /\ d \in failed'
        BY DEF QueriesOK, Live, Owns
    <2>1. r \in queries /\ r \notin R /\ rd'[r] = rd[r]
        BY <1>5, <1>7, <1>12
    <2>2. db[rd[r].key] # NoValue /\ Live(r)
        BY <1>2, <2>1 DEF dbVars, Live
    <2>3. rd[r].key[1] # TableOf(store.duty.type)
        BY <1>3, <2>1, <2>2 DEF Resolved
    <2>4. PICK d \in Duty : Owns(d, rd[r].key) /\ (d \in failed \/ store.duty = d)
        BY <2>1, <2>2 DEF QueriesOK
    <2>5. rd[r].key[1] # "pk"
        BY <1>7, <2>1, CallKey
    <2>6. d # store.duty
        BY <2>3, <2>4, <2>5 DEF Owns
    <2> QED
        BY <1>2, <2>1, <2>4, <2>6 DEF histVars
<1>20. TypeOK'
    <2>1. db' \in [Key -> PubKey \cup Data \cup {NoValue}] /\ keysBySlot' \in [Duty -> SUBSET Key]
        BY <1>2 DEF TypeOK, dbVars
    <2> QED
        BY <1>13, <1>14, <1>15, <1>18, <2>1, TypeFromParts
<1> QED
    BY <1>13, <1>14, <1>15, <1>17, <1>19, <1>20, ReadsKeeps

-----------------------------------------------------------------------------
(* The steps that change the tables.                                       *)

\* StoreOne writes what no other value was there for, and indexes it.
LEMMA StoreOneKeeps ==
    ASSUME IInv, NEW pk \in PubKey, StoreOne(pk)
    PROVE  IInv'
<1> USE DEF IInv
<1>1. store.pc = "store" /\ store.duty \in Duty /\ \E K, W : Writes(store.duty, K, W)
    BY StoreOneWrites
<1>2. PICK d \in Duty : d = store.duty
    BY <1>1
<1>3. PICK K, W : Writes(d, K, W)
    BY <1>1, <1>2
<1>4. /\ UNCHANGED expiryVars /\ UNCHANGED queryVars /\ renewed' = renewed
      /\ \/ failed' = failed /\ store' = [store EXCEPT !.todo = @ \ {pk}]
         \/ failed' = failed \cup {d} /\ store' = NoStore
    BY <1>2 DEF StoreOne
<1>5. /\ store = [pc |-> store.pc, duty |-> store.duty, set |-> store.set, todo |-> store.todo]
      /\ store.todo \subseteq DOMAIN store.set /\ DOMAIN store.set \subseteq PubKey
      /\ \A p \in DOMAIN store.set : store.set[p] \in DutyData(store.duty)
    BY <1>1 DEF StoreOK, NoStore
<1>6. \/ /\ failed' = failed
         /\ store' = [pc |-> "store", duty |-> d, set |-> store.set, todo |-> store.todo \ {pk}]
      \/ failed' = failed \cup {d} /\ store' = NoStore
    BY <1>1, <1>2, <1>4, <1>5
<1>7. StoreOK'
    <2>1. CASE store' = NoStore
        BY <2>1 DEF StoreOK
    <2>2. CASE store' = [pc |-> "store", duty |-> d, set |-> store.set, todo |-> store.todo \ {pk}]
        <3>1. store'.pc = "store" /\ store'.duty = d /\ store'.set = store.set /\ store'.todo = store.todo \ {pk}
            BY <2>2
        <3> QED
            BY <1>2, <1>5, <2>2, <3>1 DEF StoreOK
    <2> QED
        BY <1>6, <2>1, <2>2
<1>8. \A e \in Duty : Dead(e) => Dead(e)'
    BY <1>1, <1>2, <1>4, <1>6 DEF Dead, NoStore, expiryVars
<1>9. /\ \A k \in Key : db'[k] = IF k \in K THEN W[k] ELSE db[k]
      /\ db' \in [Key -> PubKey \cup Data \cup {NoValue}]
    BY <1>3 DEF Writes, TypeOK
<1>10. DataOK'
    BY <1>3, <1>9 DEF Writes, DataOK
<1>11. PICK N : N = {k \in K : db[k] = NoValue /\ Indexed(d, k)}
    OBVIOUS
<1>12. N \subseteq K /\ N \subseteq Key /\ \A k \in N : Owns(d, k) /\ Indexed(d, k)
    BY <1>3, <1>11 DEF Writes
<1>13. /\ keysBySlot' \in [Duty -> SUBSET Key]
       /\ keysBySlot'[d] = keysBySlot[d] \cup N
       /\ \A e \in Duty \ {d} : keysBySlot'[e] = keysBySlot[e]
    <2>1. keysBySlot' = [keysBySlot EXCEPT ![d] = @ \cup N]
        BY <1>3, <1>11 DEF Writes
    <2>2. keysBySlot \in [Duty -> SUBSET Key]
        BY DEF TypeOK
    <2> QED
        BY <1>12, <2>1, <2>2
<1>14. IndexOK'
    <2> SUFFICES ASSUME NEW e \in Duty, NEW k \in keysBySlot'[e]
                 PROVE  k \in Key /\ Owns(e, k) /\ Indexed(e, k)
        BY DEF IndexOK, Owns, Indexed
    <2>1. CASE e = d /\ k \in N
        BY <1>12, <2>1
    <2>2. CASE k \in keysBySlot[e]
        BY <2>2 DEF IndexOK
    <2> QED
        BY <1>13, <2>1, <2>2
<1>15. \A e \in Duty : Deleted(e) \subseteq Deleted(e)'
    <2> TAKE e \in Duty
    <2>1. keysBySlot[e] \subseteq keysBySlot'[e]
        BY <1>13
    <2> QED
        BY <2>1, DeletedGrows
<1>16. \A k \in Key : db[k] # NoValue /\ Owns(d, k) => k \in Deleted(d)
    BY OneOwner DEF StoredOK
<1>17. ASSUME NEW k \in K, db[k] = NoValue
       PROVE  k \in Deleted(d)'
    <2>1. k \in Key /\ Owns(d, k)
        BY <1>3 DEF Writes
    <2>2. CASE k \in N
        BY <1>13, <2>1, <2>2, DeletedInNew
    <2>3. CASE k \notin N
        <3>1. d.type = "attester" /\ k \notin PkKey
            BY <1>11, <1>17, <2>3 DEF Indexed
        <3>2. k[1] = "att"
            BY <2>1, <3>1, KeyTags DEF Owns, TableOf
        <3>3. PICK q \in K : q[1] = "pk" /\ q[2] = k[2] /\ q[3] = k[3]
            BY <1>3, <3>2 DEF Writes
        <3>4. q \in Key /\ q \in PkKey /\ Owns(d, q)
            BY <1>3, <3>3, KeyTags DEF Writes
        <3>5. CASE db[q] = NoValue
            <4>1. q \in N
                BY <1>11, <3>4, <3>5 DEF Indexed
            <4> QED
                BY <1>13, <2>1, <3>2, <3>3, <3>4, <4>1, DeletedInNew
        <3>6. CASE db[q] # NoValue
            <4>1. q \in keysBySlot[d]
                BY <1>16, <3>3, <3>4, <3>6, PkIndexed
            <4> QED
                BY <1>13, <2>1, <3>2, <3>3, <3>4, <4>1, DeletedInNew
        <3> QED
            BY <3>5, <3>6
    <2> QED
        BY <2>2, <2>3
<1>18. StoredOK'
    <2> SUFFICES ASSUME NEW k \in Key, db'[k] # NoValue
                 PROVE  \E e \in Duty : Owns(e, k) /\ k \in Deleted(e)'
        BY DEF StoredOK, Owns
    <2>1. CASE db[k] # NoValue
        BY <1>15, <2>1 DEF StoredOK
    <2>2. CASE db[k] = NoValue
        <3>1. k \in K
            BY <1>9, <2>2
        <3>2. Owns(d, k)
            BY <1>3, <3>1 DEF Writes
        <3> QED
            BY <1>17, <2>2, <3>1, <3>2
    <2> QED
        BY <2>1, <2>2
<1>19. AnswersStay'
    <2> SUFFICES ASSUME NEW r \in Reader, NEW e \in Duty \ renewed,
                        rd[r] # NoCall, rd[r].got # NoValue, rd[r].key[1] # "agg",
                        Owns(e, rd[r].key)
                 PROVE  db'[rd[r].key] = rd[r].got \/ (db'[rd[r].key] = NoValue /\ Dead(e)')
        BY <1>4 DEF AnswersStay, Owns, queryVars
    <2>1. PICK k \in Key : k = rd[r].key
        BY CallKey DEF CallsOK
    <2>2. CASE db[k] = rd[r].got
        <3>1. k \in K => W[k] = db[k]
            BY <1>3, <2>1, <2>2 DEF Writes
        <3> QED
            BY <1>9, <2>1, <2>2, <3>1
    <2>3. CASE db[k] = NoValue /\ Dead(e)
        <3>1. e # d
            BY <1>1, <1>2, <2>3 DEF Dead
        <3>2. k \notin K
            BY <1>3, <2>1, <3>1, OneOwner DEF Writes
        <3> QED
            BY <1>8, <1>9, <2>1, <2>3, <3>2
    <2> QED
        BY <2>1, <2>2, <2>3 DEF AnswersStay
<1>20. CallsOK' /\ SameAnswers' /\ AnswersOwned'
    BY <1>4, SameCalls DEF queryVars
<1>21. QueriesOK'
    <2>1. queries' = queries /\ rd' = rd
        BY <1>4 DEF queryVars
    <2> SUFFICES ASSUME NEW r \in queries, Live(r), db'[rd[r].key] # NoValue
                 PROVE  \E e \in Duty : /\ Owns(e, rd[r].key)
                                        /\ e \in failed' \/ (store'.pc = "store" /\ store'.duty = e)
        BY <2>1 DEF QueriesOK, Owns, Live
    <2>2. \A e \in Duty : e \in failed \/ e = d => e \in failed' \/ (store'.pc = "store" /\ store'.duty = e)
        BY <1>6
    <2>3. rd[r].key \in Key
        <3>1. r \in Reader /\ rd[r] # NoCall
            BY DEF TypeOK
        <3> QED
            BY <3>1, CallKey DEF CallsOK
    <2>4. CASE db[rd[r].key] # NoValue
        BY <1>2, <2>2, <2>4 DEF QueriesOK
    <2>5. CASE db[rd[r].key] = NoValue
        <3>1. rd[r].key \in K
            BY <1>9, <2>3, <2>5
        <3>2. Owns(d, rd[r].key)
            BY <1>3, <3>1 DEF Writes
        <3> QED
            BY <2>2, <3>2
    <2> QED
        BY <2>4, <2>5
<1>22. ExpiryTypeOK' /\ OutputDue'
    BY <1>4, SameExpiry
<1>23. TypeOK'
    <2>1. queries' \subseteq {r \in Reader : rd'[r] # NoCall /\ rd'[r].got = NoValue}
        BY <1>4 DEF TypeOK, queryVars
    <2> QED
        BY <1>7, <1>9, <1>13, <1>20, <1>22, <2>1, TypeFromParts
<1> QED
    BY <1>7, <1>10, <1>14, <1>18, <1>19, <1>20, <1>21, <1>22, <1>23

\* DeleteExpired deletes all keys of a duty whose deadline was reached.
LEMMA DeleteExpiredKeeps ==
    ASSUME IInv, DeleteExpired
    PROVE  IInv'
<1> USE DEF IInv
<1>1. PICK d : d = Head(output)
    OBVIOUS
<1>2. /\ store.pc = "drain" /\ UNCHANGED <<store, queryVars, histVars>>
      /\ output # << >> /\ output' = Tail(output) /\ UNCHANGED <<phase, scheduled, stopped>>
    BY DEF DeleteExpired, Take
<1>3. output \in Seq(Duty) /\ Len(output) <= OutputBuffer
    BY DEF TypeOK, ExpiryTypeOK
<1>4. d \in Duty /\ phase[d] > 0
    <2>1. 1 \in DOMAIN output /\ d = output[1] /\ output[1] \in Duty
        BY <1>1, <1>2, <1>3
    <2> QED
        BY <2>1 DEF OutputDue
<1>5. ExpiryTypeOK' /\ OutputDue'
    <2>1. /\ Tail(output) \in Seq(Duty) /\ Len(Tail(output)) <= OutputBuffer
          /\ \A i \in DOMAIN Tail(output) : i + 1 \in DOMAIN output /\ Tail(output)[i] = output[i + 1]
        BY <1>2, <1>3, OutputBufferAssumption
    <2>2. ExpiryTypeOK'
        BY <1>2, <2>1 DEF TypeOK, ExpiryTypeOK
    <2>3. OutputDue'
        BY <1>2, <2>1 DEF OutputDue
    <2> QED
        BY <2>2, <2>3
<1>6. PICK D : D = Deleted(d)
    OBVIOUS
<1>7. \A k \in D : Owns(d, k)
    BY <1>4, <1>6, DeletedOwned
<1>8. /\ db' = [k \in Key |-> IF k \in D THEN NoValue ELSE db[k]]
      /\ keysBySlot' = [keysBySlot EXCEPT ![d] = {}]
    BY <1>1, <1>6 DEF DeleteExpired
<1>9. /\ \A k \in Key : db'[k] = IF k \in D THEN NoValue ELSE db[k]
      /\ db' \in [Key -> PubKey \cup Data \cup {NoValue}]
    BY <1>8 DEF TypeOK
<1>10. /\ keysBySlot' \in [Duty -> SUBSET Key] /\ keysBySlot'[d] = {}
       /\ \A e \in Duty \ {d} : keysBySlot'[e] = keysBySlot[e]
    BY <1>4, <1>8 DEF TypeOK
<1>11. DataOK'
    BY <1>9 DEF DataOK
<1>12. IndexOK'
    <2> SUFFICES ASSUME NEW e \in Duty, NEW k \in keysBySlot'[e]
                 PROVE  k \in Key /\ Owns(e, k) /\ Indexed(e, k)
        BY DEF IndexOK, Owns, Indexed
    <2>1. k \in keysBySlot[e]
        BY <1>10
    <2> QED
        BY <2>1 DEF IndexOK
<1>13. StoredOK'
    <2> SUFFICES ASSUME NEW k \in Key, db'[k] # NoValue
                 PROVE  \E e \in Duty : Owns(e, k) /\ k \in Deleted(e)'
        BY DEF StoredOK, Owns
    <2>1. k \notin D /\ db[k] # NoValue
        BY <1>9
    <2>2. PICK e \in Duty : Owns(e, k) /\ k \in Deleted(e)
        BY <2>1 DEF StoredOK
    <2>3. e # d
        BY <1>6, <2>1, <2>2
    <2>4. Deleted(e)' = Deleted(e)
        BY <1>10, <2>3 DEF Deleted
    <2> QED
        BY <2>2, <2>4
<1>14. AnswersStay'
    <2> SUFFICES ASSUME NEW r \in Reader, NEW e \in Duty \ renewed,
                        rd[r] # NoCall, rd[r].got # NoValue, rd[r].key[1] # "agg",
                        Owns(e, rd[r].key)
                 PROVE  db'[rd[r].key] = rd[r].got \/ (db'[rd[r].key] = NoValue /\ Dead(e)')
        BY <1>2 DEF AnswersStay, Owns, queryVars, histVars
    <2>1. PICK k \in Key : k = rd[r].key
        BY CallKey DEF CallsOK
    <2>2. CASE k \in D
        <3>1. e = d
            BY <1>4, <1>7, <2>1, <2>2, OneOwner
        <3>2. Dead(d)'
            BY <1>2, <1>4 DEF Dead
        <3> QED
            BY <1>9, <2>1, <2>2, <3>1, <3>2
    <2>3. CASE k \notin D
        <3>1. Dead(e) => Dead(e)'
            BY <1>2 DEF Dead
        <3>2. db'[k] = db[k]
            BY <1>9, <2>3
        <3> QED
            BY <2>1, <3>1, <3>2 DEF AnswersStay
    <2> QED
        BY <2>2, <2>3
<1>15. CallsOK' /\ SameAnswers' /\ AnswersOwned'
    BY <1>2, SameCalls DEF queryVars, histVars
<1>16. QueriesOK'
    <2> SUFFICES ASSUME NEW r \in queries, Live(r), db'[rd[r].key] # NoValue
                 PROVE  \E e \in Duty : /\ Owns(e, rd[r].key)
                                        /\ e \in failed \/ (store.pc = "store" /\ store.duty = e)
        BY <1>2 DEF QueriesOK, Owns, Live, queryVars, histVars
    <2>1. r \in Reader /\ rd[r] # NoCall
        BY DEF TypeOK
    <2>2. rd[r].key \in Key
        BY <2>1, CallKey DEF CallsOK
    <2>3. db[rd[r].key] # NoValue
        BY <1>9, <2>2
    <2> QED
        BY <2>3 DEF QueriesOK
<1>17. StoreOK'
    BY <1>2 DEF StoreOK
<1>18. TypeOK'
    <2>1. queries' \subseteq {r \in Reader : rd'[r] # NoCall /\ rd'[r].got = NoValue}
        BY <1>2 DEF TypeOK, queryVars
    <2> QED
        BY <1>5, <1>9, <1>10, <1>15, <1>17, <2>1, TypeFromParts
<1> QED
    BY <1>5, <1>11, <1>12, <1>13, <1>14, <1>15, <1>16, <1>17, <1>18

-----------------------------------------------------------------------------
(* The other steps of a Store.                                             *)

\* Only the Store and the deadliner change, and no duty that is dead is
\* stored, unless it is renewed.
LEMMA StoreOnlyKeeps ==
    ASSUME IInv, UNCHANGED dbVars, UNCHANGED queryVars,
           StoreOK', ExpiryTypeOK', OutputDue',
           renewed \subseteq renewed', failed \subseteq failed',
           \A d \in Duty \ renewed' : Dead(d) => Dead(d)',
           \A d \in Duty : store.pc = "store" /\ store.duty = d => store'.pc = "store" /\ store'.duty = d
    PROVE  IInv'
<1> USE DEF IInv
<1>1. db' = db /\ keysBySlot' = keysBySlot /\ queries' = queries /\ rd' = rd
    BY DEF dbVars, queryVars
<1>2. DataOK' /\ IndexOK' /\ StoredOK'
    BY SameTables
<1>3. CallsOK' /\ SameAnswers' /\ AnswersOwned'
    BY <1>1, SameCalls
<1>4. AnswersStay'
    BY <1>1 DEF AnswersStay, Owns
<1>5. QueriesOK'
    BY <1>1 DEF QueriesOK, Live, Owns
<1>6. TypeOK'
    <2>1. /\ db' \in [Key -> PubKey \cup Data \cup {NoValue}] /\ keysBySlot' \in [Duty -> SUBSET Key]
          /\ queries' \subseteq {r \in Reader : rd'[r] # NoCall /\ rd'[r].got = NoValue}
        BY <1>1 DEF TypeOK
    <2> QED
        BY <1>3, <2>1, TypeFromParts
<1> QED
    BY <1>2, <1>3, <1>4, <1>5, <1>6

\* Store accepts data of a duty that is not dead, or renews the duty.
LEMMA StoreKeeps ==
    ASSUME IInv, NEW in \in Inputs, Store(in[1], in[2])
    PROVE  IInv'
<1> USE DEF IInv
<1>1. PICK d \in Duty : d = in[1]
    BY InputsAssumption
<1>2. PICK set : set = in[2]
    OBVIOUS
<1>3. DOMAIN set \subseteq PubKey /\ \A pk \in DOMAIN set : set[pk] \in DutyData(d)
    BY <1>1, <1>2, InputsAssumption, SlotAssumption DEF DutyData
<1>4. Store(d, set)
    BY <1>1, <1>2
<1>5. /\ store = NoStore /\ phase[d] < 2 /\ UNCHANGED dbVars /\ UNCHANGED queryVars
      /\ failed \subseteq failed' /\ renewed \subseteq renewed'
      /\ phase[d] = 1 => d \in renewed'
    BY <1>4 DEF Store, CanAdd
<1>6. store' = NoStore \/ store' = [pc |-> "store", duty |-> d, set |-> set, todo |-> DOMAIN set]
    BY <1>4 DEF Store
<1>7. UNCHANGED <<phase, output, stopped>> /\ scheduled' \subseteq scheduled \cup {d}
    BY <1>4 DEF Store, Add
<1>8. ExpiryTypeOK' /\ OutputDue'
    BY <1>7 DEF TypeOK, ExpiryTypeOK, OutputDue
<1>9. StoreOK'
    <2>1. CASE store' = NoStore
        BY <2>1 DEF StoreOK
    <2>2. CASE store' = [pc |-> "store", duty |-> d, set |-> set, todo |-> DOMAIN set]
        <3>1. store'.pc = "store" /\ store'.duty = d /\ store'.set = set /\ store'.todo = DOMAIN set
            BY <2>2
        <3> QED
            BY <1>3, <2>2, <3>1 DEF StoreOK
    <2> QED
        BY <1>6, <2>1, <2>2
<1>10. \A e \in Duty \ renewed' : Dead(e) => Dead(e)'
    <2> SUFFICES ASSUME NEW e \in Duty \ renewed', Dead(e)
                 PROVE  Dead(e)'
        OBVIOUS
    <2>1. e # d
        <3>1. phase[d] \in 0 .. 2
            BY DEF TypeOK, ExpiryTypeOK
        <3>2. phase[d] = 0 \/ d \in renewed'
            BY <1>5, <3>1
        <3> QED
            BY <3>2 DEF Dead
    <2>2. store'.pc = "store" => store'.duty = d
        BY <1>6 DEF NoStore
    <2> QED
        BY <1>7, <2>1, <2>2 DEF Dead
<1>11. store.pc # "store"
    BY <1>5 DEF NoStore
<1> QED
    BY <1>5, <1>8, <1>9, <1>10, <1>11, StoreOnlyKeeps

\* StoreReturns unlocks.
LEMMA StoreReturnsKeeps ==
    ASSUME IInv, StoreReturns
    PROVE  IInv'
<1>1. /\ store.pc = "drain" /\ store' = NoStore
      /\ UNCHANGED dbVars /\ UNCHANGED queryVars /\ UNCHANGED expiryVars
      /\ renewed' = renewed /\ failed' = failed /\ phase' = phase
    BY DEF StoreReturns, histVars, expiryVars
<1>2. StoreOK'
    BY <1>1 DEF StoreOK
<1>3. \A d \in Duty \ renewed' : Dead(d) => Dead(d)'
    BY <1>1 DEF Dead, NoStore
<1> QED
    BY <1>1, <1>2, <1>3, SameExpiry, StoreOnlyKeeps

\* The deadliner and its clock: what is dead stays dead.
LEMMA ExpiryKeeps ==
    ASSUME IInv, DeadlineReached \/ Clock
    PROVE  IInv'
<1> USE DEF IInv
<1>1. /\ UNCHANGED dbVars /\ UNCHANGED queryVars /\ store' = store
      /\ renewed' = renewed /\ failed' = failed
    BY DEF DeadlineReached, Clock, histVars
<1>2. StoreOK'
    BY <1>1 DEF StoreOK
<1>3. ExpiryTypeOK
    BY DEF TypeOK
<1>4. CASE DeadlineReached
    <2>1. PICK d \in Duty : Expire(d)
        BY <1>4 DEF DeadlineReached
    <2>2. /\ phase' = phase /\ stopped' = stopped /\ phase[d] > 0 /\ scheduled' = scheduled \ {d}
          /\ output' = IF Len(output) < OutputBuffer THEN Append(output, d) ELSE output
        BY <2>1 DEF Expire
    <2>3. CASE output' = output
        BY <1>1, <1>2, <1>3, <2>2, <2>3, StoreOnlyKeeps DEF ExpiryTypeOK, OutputDue, Dead
    <2>4. CASE Len(output) < OutputBuffer /\ output' = Append(output, d)
        <3>1. output \in Seq(Duty)
            BY <1>3 DEF ExpiryTypeOK
        <3>2. /\ output' \in Seq(Duty) /\ Len(output') <= OutputBuffer
              /\ \A i \in DOMAIN output' : output'[i] = d \/ (i \in DOMAIN output /\ output'[i] = output[i])
            BY <2>4, <3>1, OutputBufferAssumption
        <3>3. ExpiryTypeOK'
            BY <1>3, <2>2, <3>2 DEF ExpiryTypeOK
        <3>4. OutputDue'
            BY <2>2, <3>2 DEF OutputDue
        <3>5. \A e \in Duty \ renewed' : Dead(e) => Dead(e)'
            BY <1>1, <2>2 DEF Dead
        <3> QED
            BY <1>1, <1>2, <3>3, <3>4, <3>5, StoreOnlyKeeps
    <2> QED
        BY <2>2, <2>3, <2>4
<1>5. CASE Clock
    <2>1. PICK d \in Duty : DeadlineNears(d)
        BY <1>5 DEF Clock
    <2>2. /\ phase[d] < 2 /\ phase' = [phase EXCEPT ![d] = @ + 1]
          /\ UNCHANGED <<scheduled, output, stopped>>
        BY <2>1 DEF DeadlineNears
    <2>3. phase \in [Duty -> 0 .. 2]
        BY <1>3 DEF ExpiryTypeOK
    <2>4. phase' \in [Duty -> 0 .. 2] /\ \A e \in Duty : phase[e] > 0 => phase'[e] > 0
        BY <2>2, <2>3
    <2>5. ExpiryTypeOK'
        BY <1>3, <2>2, <2>4 DEF ExpiryTypeOK
    <2>6. OutputDue'
        <3>1. \A i \in DOMAIN output : output[i] \in Duty
            BY <1>3 DEF ExpiryTypeOK
        <3> QED
            BY <2>2, <2>4, <3>1 DEF OutputDue
    <2>7. \A e \in Duty \ renewed' : Dead(e) => Dead(e)'
        BY <1>1, <2>4 DEF Dead
    <2> QED
        BY <1>1, <1>2, <2>5, <2>6, <2>7, StoreOnlyKeeps
<1> QED
    BY <1>4, <1>5

-----------------------------------------------------------------------------
(* The steps of one call.                                                  *)

\* The tables, the Store and the deadliner stay as they are.
LEMMA CallOnlyKeeps ==
    ASSUME IInv, UNCHANGED <<expiryVars, dbVars, store, histVars>>, CallsOK', QueriesOK',
           queries' \subseteq {r \in Reader : rd'[r] # NoCall /\ rd'[r].got = NoValue},
           \A r \in Reader : rd'[r] # NoCall =>
              \/ rd'[r].got \in {NoValue, db[rd'[r].key]}
              \/ rd[r] # NoCall /\ rd'[r].key = rd[r].key /\ rd'[r].got = rd[r].got
    PROVE  IInv'
<1> USE DEF IInv
<1>1. DataOK' /\ IndexOK' /\ StoredOK' /\ ExpiryTypeOK' /\ OutputDue'
    BY SameTables, SameExpiry
<1>2. StoreOK'
    BY DEF StoreOK
<1>3. Reads
    <2>1. \A d \in Duty : Dead(d) => Dead(d)'
        BY DEF Dead, expiryVars
    <2> QED
        BY <2>1 DEF Reads, CallsOK, expiryVars, dbVars, histVars
<1>4. TypeOK'
    <2>1. db' \in [Key -> PubKey \cup Data \cup {NoValue}] /\ keysBySlot' \in [Duty -> SUBSET Key]
        BY DEF TypeOK, dbVars
    <2> QED
        BY <1>1, <1>2, <2>1, TypeFromParts
<1> QED
    BY <1>1, <1>2, <1>3, <1>4, ReadsKeeps

\* Await answers the calls of the table for which there is data.
LEMMA AwaitKeeps ==
    ASSUME IInv, NEW r \in Reader, NEW k \in Asked, Await(r, k)
    PROVE  IInv'
<1> USE DEF IInv
<1>1. PICK live : live = {q \in queries : rd[q].key[1] = k[1] => Live(q)}
    OBVIOUS
<1>2. PICK found : found = {q \in live : rd[q].key[1] = k[1] /\ db[rd[q].key] # NoValue}
    OBVIOUS
<1>3. /\ store = NoStore /\ rd[r] = NoCall
      /\ rd' = [q \in Reader |->
            CASE q = r       -> [pc |-> "await", key |-> k, got |-> db[k]]
              [] q \in found -> [rd[q] EXCEPT !.got = db[rd[q].key]]
              [] OTHER       -> rd[q]]
      /\ queries' = (live \ found) \cup (IF db[k] = NoValue THEN {r} ELSE {})
    BY <1>1, <1>2 DEF Await
<1>4. UNCHANGED <<expiryVars, dbVars, store, histVars>>
    BY DEF Await
<1>5. \A q \in queries : q \in Reader /\ rd[q] \in Call /\ rd[q].got = NoValue /\ q # r
    BY <1>3 DEF TypeOK, Call
<1>6. \A q \in live : q \in queries
    BY <1>1
<1>7. \A q \in found : q \in live
    BY <1>2
<1>8. k \in Key /\ k[1] # "pk"
    BY AskedAssumption, KeyTags
<1>9. rd'[r] = [pc |-> "await", key |-> k, got |-> db[k]]
    <2>1. r \notin found
        BY <1>5, <1>6, <1>7
    <2> QED
        BY <1>3, <2>1
<1>10. rd'[r] \in Call /\ rd'[r].key = k /\ rd'[r].got = db[k]
    <2>1. db[k] \in Data \cup {NoValue}
        BY <1>8 DEF DataOK
    <2> QED
        BY <1>9, <2>1 DEF Call
<1>11. ASSUME NEW q \in found
       PROVE  rd'[q] \in Call /\ rd'[q].key = rd[q].key /\ rd'[q].got = db[rd[q].key]
    <2>1. q \in Reader /\ q # r
        BY <1>5, <1>6, <1>7
    <2>2. PICK c \in Call : c = rd[q]
        BY <1>5, <1>6, <1>7
    <2>3. PICK v \in Data \cup {NoValue} : v = db[c.key]
        BY CallKey DEF DataOK
    <2>4. rd'[q] = [c EXCEPT !.got = v]
        BY <1>3, <2>1, <2>2, <2>3
    <2>5. /\ [c EXCEPT !.got = v] \in Call /\ [c EXCEPT !.got = v].key = c.key
          /\ [c EXCEPT !.got = v].got = v
        BY DEF Call
    <2> QED
        BY <2>2, <2>3, <2>4, <2>5
<1>12. \A q \in Reader \ (found \cup {r}) : rd'[q] = rd[q]
    BY <1>3
<1>13. CallsOK'
    <2>1. \A q \in Reader : rd'[q] \in {NoCall} \cup Call
        BY <1>10, <1>11, <1>12 DEF CallsOK
    <2>2. rd' = [q \in Reader |-> rd'[q]]
        BY <1>3
    <2> QED
        BY <2>1, <2>2 DEF CallsOK
<1>14. \A q \in Reader : rd'[q] # NoCall =>
          \/ rd'[q].got \in {NoValue, db[rd'[q].key]}
          \/ rd[q] # NoCall /\ rd'[q].key = rd[q].key /\ rd'[q].got = rd[q].got
    BY <1>10, <1>11, <1>12
<1>15. \A q \in queries' : \/ q \in queries /\ q \in live \ found /\ rd'[q] = rd[q]
                           \/ q = r /\ db[k] = NoValue
    BY <1>3, <1>5, <1>6, <1>12
<1>16. queries' \subseteq {q \in Reader : rd'[q] # NoCall /\ rd'[q].got = NoValue}
    BY <1>5, <1>10, <1>15 DEF Call, NoCall
<1>17. QueriesOK'
    <2> SUFFICES ASSUME NEW q \in queries', rd'[q].pc = "await", db[rd'[q].key] # NoValue
                 PROVE  \E d \in Duty : Owns(d, rd'[q].key) /\ d \in failed
        BY <1>4 DEF QueriesOK, Live, Owns, dbVars, histVars
    <2>1. q # r
        BY <1>5, <1>10, <1>15
    <2>2. q \in queries /\ rd'[q] = rd[q]
        BY <1>15, <2>1
    <2>3. Live(q) /\ store.pc # "store"
        BY <1>3, <2>2 DEF Live, NoStore
    <2> QED
        BY <2>2, <2>3 DEF QueriesOK
<1> QED
    BY <1>4, <1>13, <1>14, <1>16, <1>17, CallOnlyKeeps

\* AwaitReturns and AwaitAborted end the call.
LEMMA AwaitEndsKeeps ==
    ASSUME IInv, NEW r \in Reader, AwaitReturns(r) \/ AwaitAborted(r)
    PROVE  IInv'
<1> USE DEF IInv
<1>1. /\ rd[r].pc = "await" /\ UNCHANGED <<expiryVars, dbVars, store, histVars>> /\ queries' = queries
      /\ \/ rd' = [rd EXCEPT ![r].pc = "done"]
         \/ rd' = [rd EXCEPT ![r].pc = "done", ![r].got = NoValue]
    BY DEF AwaitReturns, AwaitAborted
<1>2. rd \in [Reader -> {NoCall} \cup Call]
    BY DEF CallsOK
<1>3. PICK c \in Call : c = rd[r]
    BY <1>1, <1>2 DEF NoCall
<1>4. PICK e \in {[c EXCEPT !.pc = "done"], [c EXCEPT !.pc = "done", !.got = NoValue]} :
          rd' = [rd EXCEPT ![r] = e]
    BY <1>1, <1>3
<1>5. e \in Call /\ e.key = c.key /\ e.got \in {NoValue, c.got} /\ e.pc = "done"
    BY DEF Call
<1>6. rd'[r] = e /\ (\A q \in Reader \ {r} : rd'[q] = rd[q]) /\ CallsOK'
    BY <1>2, <1>4, <1>5 DEF CallsOK
<1>7. e # NoCall /\ c # NoCall
    BY <1>1, <1>3, <1>5 DEF NoCall
<1>8. \A q \in Reader : rd'[q] # NoCall =>
          \/ rd'[q].got \in {NoValue, db[rd'[q].key]}
          \/ rd[q] # NoCall /\ rd'[q].key = rd[q].key /\ rd'[q].got = rd[q].got
    BY <1>3, <1>5, <1>6, <1>7
<1>9. queries' \subseteq {q \in Reader : rd'[q] # NoCall /\ rd'[q].got = NoValue}
    <2>1. \A q \in queries : q \in Reader /\ rd[q] # NoCall /\ rd[q].got = NoValue
        BY DEF TypeOK
    <2> QED
        BY <1>1, <1>3, <1>5, <1>6, <1>7, <2>1
<1>10. QueriesOK'
    <2> SUFFICES ASSUME NEW q \in queries, rd'[q].pc = "await", db[rd'[q].key] # NoValue
                 PROVE  \E d \in Duty : /\ Owns(d, rd'[q].key)
                                        /\ d \in failed \/ (store.pc = "store" /\ store.duty = d)
        BY <1>1 DEF QueriesOK, Live, Owns, dbVars, histVars
    <2>1. q \in Reader
        BY DEF TypeOK
    <2>2. q # r /\ rd'[q] = rd[q]
        BY <1>5, <1>6, <2>1
    <2> QED
        BY <2>2 DEF QueriesOK, Live
<1> QED
    BY <1>1, <1>6, <1>8, <1>9, <1>10, CallOnlyKeeps

\* Only the flag changes, or nothing.
LEMMA SameKeeps ==
    ASSUME IInv, UNCHANGED <<expiryVars, dbVars, store, queryVars, histVars>>
    PROVE  IInv'
<1>1. CallsOK'
    BY DEF IInv, CallsOK, queryVars
<1>2. QueriesOK'
    BY DEF IInv, QueriesOK, Live, Owns, queryVars, dbVars, histVars
<1>3. queries' \subseteq {r \in Reader : rd'[r] # NoCall /\ rd'[r].got = NoValue}
    BY DEF IInv, TypeOK, queryVars
<1> QED
    BY <1>1, <1>2, <1>3, CallOnlyKeeps DEF queryVars

-----------------------------------------------------------------------------
(* The theorems.                                                           *)

\* Initially nothing is stored, asked or output.
LEMMA InitIInv == Init => IInv
<1> SUFFICES ASSUME Init
             PROVE  IInv
    OBVIOUS
<1>1. /\ db = [k \in Key |-> NoValue] /\ keysBySlot = [d \in Duty |-> {}]
      /\ store = NoStore /\ queries = {} /\ rd = [r \in Reader |-> NoCall]
    BY DEF Init
<1>2. ExpiryTypeOK /\ OutputDue
    <2>1. /\ phase \in [Duty -> 0 .. 2] /\ scheduled = {} /\ output = << >> /\ stopped = FALSE
        BY DEF Init, ExpiryInit
    <2>2. output \in Seq(Duty) /\ Len(output) <= OutputBuffer /\ DOMAIN output = {}
        BY <2>1, OutputBufferAssumption
    <2> QED
        BY <2>1, <2>2 DEF ExpiryTypeOK, OutputDue
<1>3. TypeOK
    BY <1>1, <1>2 DEF TypeOK
<1>4. CallsOK /\ StoreOK
    BY <1>1 DEF CallsOK, StoreOK
<1>5. DataOK /\ IndexOK /\ StoredOK
    BY <1>1 DEF DataOK, IndexOK, StoredOK
<1>6. AnswersStay /\ SameAnswers /\ AnswersOwned /\ QueriesOK
    BY <1>1 DEF AnswersStay, SameAnswers, AnswersOwned, QueriesOK
<1> QED
    BY <1>2, <1>3, <1>4, <1>5, <1>6 DEF IInv

\* Every step keeps the inductive invariant.
LEMMA NextIInv == IInv /\ [Next]_vars => IInv'
<1> SUFFICES ASSUME IInv, [Next]_vars
             PROVE  IInv'
    OBVIOUS
<1>1. ASSUME NEW in \in Inputs, Store(in[1], in[2])
      PROVE  IInv'
    BY <1>1, StoreKeeps
<1>2. ASSUME NEW pk \in PubKey, StoreOne(pk)
      PROVE  IInv'
    BY <1>2, StoreOneKeeps
<1>3. CASE StoreResolve
    BY <1>3, StoreResolveKeeps
<1>4. CASE DeleteExpired
    BY <1>4, DeleteExpiredKeeps
<1>5. CASE StoreReturns
    BY <1>5, StoreReturnsKeeps
<1>6. ASSUME NEW r \in Reader, NEW k \in Asked, Await(r, k)
      PROVE  IInv'
    BY <1>6, AwaitKeeps
<1>7. ASSUME NEW r \in Reader, AwaitReturns(r) \/ AwaitAborted(r)
      PROVE  IInv'
    BY <1>7, AwaitEndsKeeps
<1>8. CASE Shutdown
    BY <1>8, SameKeeps DEF Shutdown
<1>9. CASE DeadlineReached \/ Clock
    BY <1>9, ExpiryKeeps
<1>10. CASE UNCHANGED vars
    BY <1>10, SameKeeps DEF vars
<1> QED
    BY <1>1, <1>2, <1>3, <1>4, <1>5, <1>6, <1>7, <1>8, <1>9, <1>10 DEF Next

\* The inductive invariant holds in every reachable state.
THEOREM Invariant == Spec => []IInv
<1>1. Init => IInv
    BY InitIInv
<1>2. IInv /\ [Next]_vars => IInv'
    BY NextIInv
<1> QED
    BY <1>1, <1>2, PTL DEF Spec

\* The tables, the Store and the calls keep their types; an answered query is
\* in no list.
THEOREM TypeCorrect == Spec => []TypeOK
<1>1. IInv => TypeOK
    BY DEF IInv
<1> QED
    BY <1>1, Invariant, PTL

\* The validator clients never get two different values for a key, although
\* the data may be deleted between two calls.
THEOREM Agreement == Spec => []AnswersAgree
<1>1. IInv => AnswersAgree
    <2> SUFFICES ASSUME IInv, NEW r \in Reader, NEW s \in Reader,
                        rd[r].pc # "idle", rd[s].pc # "idle",
                        rd[r].key = rd[s].key, rd[r].key[1] # "agg",
                        NoValue \notin {rd[r].got, rd[s].got}
                 PROVE  rd[r].got = rd[s].got \/ DutyOf(rd[r].key) \in renewed
        BY DEF AnswersAgree
    <2>1. rd[r] # NoCall /\ rd[s] # NoCall
        BY DEF NoCall
    <2>2. PICK d \in Duty : Owns(d, rd[r].key)
        BY <2>1 DEF IInv, AnswersOwned
    <2>3. DutyOf(rd[r].key) = d
        BY <2>2, OwnerIsDutyOf
    <2> QED
        BY <2>1, <2>2, <2>3 DEF IInv, SameAnswers
<1> QED
    BY <1>1, Invariant, PTL

\* A query only waits for data that is there after a Store of its duty failed.
THEOREM Answered == Spec => []AnsweredUnlessFailed
<1>1. IInv => AnsweredUnlessFailed
    <2> SUFFICES ASSUME IInv, store = NoStore, NEW r \in queries, Live(r), db[rd[r].key] # NoValue
                 PROVE  DutyOf(rd[r].key) \in failed
        BY DEF AnsweredUnlessFailed
    <2>1. store.pc # "store"
        BY DEF NoStore
    <2>2. PICK d \in Duty : Owns(d, rd[r].key) /\ d \in failed
        BY <2>1 DEF IInv, QueriesOK
    <2> QED
        BY <2>2, OwnerIsDutyOf
<1> QED
    BY <1>1, Invariant, PTL

-----------------------------------------------------------------------------
(* What is stored will be deleted.                                         *)

\* The deadliner, with these duties scheduled and these in its channel, will
\* output the duty or has done so, or it has dropped it.
Pending(sch, out, drop, d) == d \in sch \/ d \in drop \/ \E i \in DOMAIN out : out[i] = d

\* A duty with stored data is with the deadliner or dropped, as is the one being
\* stored.
PendingOK ==
    /\ \A k \in Key : \A d \in Duty : db[k] # NoValue /\ Owns(d, k) => Pending(scheduled, output, dropped, d)
    /\ store.pc = "store" => Pending(scheduled, output, dropped, store.duty)

\* A step that stores nothing but data of the duty of the Store, and takes no
\* duty from the deadliner.
LEMMA PendingKeeps ==
    ASSUME PendingOK,
           \A d \in Duty : Pending(scheduled, output, dropped, d) => Pending(scheduled', output', dropped', d),
           \A k \in Key : \A d \in Duty : db'[k] # NoValue /\ Owns(d, k)
               => db[k] # NoValue \/ (store.pc = "store" /\ store.duty = d),
           store.pc = "store" => store.duty \in Duty,
           store'.pc = "store" => \/ store.pc = "store" /\ store'.duty = store.duty
                                  \/ Pending(scheduled', output', dropped', store'.duty)
    PROVE  PendingOK'
<1>1. \A k \in Key : \A d \in Duty : db'[k] # NoValue /\ Owns(d, k) => Pending(scheduled', output', dropped', d)
    BY DEF PendingOK
<1>2. store'.pc = "store" => Pending(scheduled', output', dropped', store'.duty)
    BY DEF PendingOK
<1> QED
    BY <1>1, <1>2 DEF PendingOK, Owns

\* The deadliner moves a duty to its output while there is room, and drops it when
\* there is none.
LEMMA ExpiryPending ==
    ASSUME IInv, DeadlineReached,
           NEW d \in Duty, Pending(scheduled, output, dropped, d)
    PROVE  Pending(scheduled', output', dropped', d)
<1>1. PICK e \in Duty :
         /\ Expire(e)
         /\ dropped' = IF Len(output) < OutputBuffer THEN dropped ELSE dropped \cup {e}
    BY DEF DeadlineReached
<1>2. /\ scheduled' = scheduled \ {e}
      /\ output' = IF Len(output) < OutputBuffer THEN Append(output, e) ELSE output
    BY <1>1 DEF Expire
<1>3. output \in Seq(Duty)
    BY DEF IInv, TypeOK, ExpiryTypeOK
<1>4. CASE Len(output) < OutputBuffer
    <2>1. /\ Len(output) + 1 \in DOMAIN output' /\ output'[Len(output) + 1] = e
          /\ \A i \in DOMAIN output : i \in DOMAIN output' /\ output'[i] = output[i]
        BY <1>2, <1>3, <1>4
    <2> QED
        BY <1>1, <1>2, <1>4, <2>1 DEF Pending
<1>5. CASE ~ (Len(output) < OutputBuffer)
    BY <1>1, <1>2, <1>5 DEF Pending
<1> QED
    BY <1>4, <1>5

\* All keys of the duty that DeleteExpired takes are deleted.
LEMMA DeletePending ==
    ASSUME IInv, PendingOK, DeleteExpired
    PROVE  PendingOK'
<1>1. /\ store.pc = "drain" /\ store' = store /\ output # << >>
      /\ output' = Tail(output) /\ scheduled' = scheduled /\ dropped' = dropped
      /\ db' = [k \in Key |-> IF k \in Deleted(Head(output)) THEN NoValue ELSE db[k]]
    BY DEF DeleteExpired, Take, histVars
<1>2. output \in Seq(Duty)
    BY DEF IInv, TypeOK, ExpiryTypeOK
<1>3. ASSUME NEW k \in Key, NEW d \in Duty, db'[k] # NoValue, Owns(d, k)
      PROVE  Pending(scheduled', output', dropped', d)
    <2>1. db[k] # NoValue /\ k \notin Deleted(Head(output))
        BY <1>1, <1>3
    <2>2. k \in Deleted(d)
        BY <1>3, <2>1, OneOwner DEF IInv, StoredOK
    <2>3. d # Head(output)
        BY <2>1, <2>2
    <2>4. Pending(scheduled, output, dropped, d)
        BY <1>3, <2>1 DEF PendingOK
    <2>5. CASE d \in scheduled \cup dropped
        BY <1>1, <2>5 DEF Pending
    <2>6. CASE d \notin scheduled \cup dropped
        <3>1. PICK i \in DOMAIN output : output[i] = d
            BY <2>4, <2>6 DEF Pending
        <3>2. i # 1
            BY <1>1, <1>2, <2>3, <3>1
        <3>3. i - 1 \in DOMAIN Tail(output) /\ Tail(output)[i - 1] = d
            BY <1>1, <1>2, <3>1, <3>2
        <3> QED
            BY <1>1, <3>3 DEF Pending
    <2> QED
        BY <2>5, <2>6
<1>4. store'.pc # "store"
    BY <1>1
<1> QED
    BY <1>3, <1>4 DEF PendingOK, Owns

\* Every step keeps the duties of stored data with the deadliner.
LEMMA NextPending ==
    ASSUME IInv, PendingOK, [Next]_vars
    PROVE  PendingOK'
<1>1. store.pc = "store" => store.duty \in Duty
    BY DEF IInv, TypeOK, NoStore
<1>2. ASSUME NEW in \in Inputs, Store(in[1], in[2])
      PROVE  PendingOK'
    <2>1. in[1] \in Duty
        BY InputsAssumption
    <2>2. /\ scheduled' = scheduled \cup {in[1]} /\ output' = output /\ UNCHANGED db
          /\ dropped' = dropped \ {in[1]}
        BY <1>2 DEF Store, Add, dbVars
    <2>3. store'.pc = "store" => store'.duty = in[1]
        BY <1>2 DEF Store, NoStore
    <2> QED
        BY <1>1, <2>2, <2>3, PendingKeeps DEF Pending
<1>3. ASSUME NEW pk \in PubKey, StoreOne(pk)
      PROVE  PendingOK'
    <2>1. PICK K, W : Writes(store.duty, K, W)
        BY <1>3, StoreOneWrites DEF IInv
    <2>2. store.pc = "store" /\ store.duty \in Duty
        BY <1>3, StoreOneWrites DEF IInv
    <2>3. \A k \in Key : \A d \in Duty : db'[k] # NoValue /\ Owns(d, k) => db[k] # NoValue \/ store.duty = d
        BY <2>1, <2>2, OneOwner DEF Writes
    <2>4. UNCHANGED <<scheduled, output, dropped>>
        BY <1>3 DEF StoreOne, expiryVars
    <2>5. store = [pc |-> store.pc, duty |-> store.duty, set |-> store.set, todo |-> store.todo]
        BY <2>2 DEF IInv, StoreOK, NoStore
    <2>6. store' = NoStore \/ store' = [store EXCEPT !.todo = @ \ {pk}]
        BY <1>3 DEF StoreOne
    <2>7. store'.pc = "store" => store'.duty = store.duty
        BY <2>5, <2>6 DEF NoStore
    <2> QED
        BY <2>2, <2>3, <2>4, <2>7, PendingKeeps
<1>4. CASE DeleteExpired
    BY <1>4, DeletePending
<1>5. ASSUME UNCHANGED <<scheduled, output, dropped, db>>, store'.pc # "store" \/ store' = store
      PROVE  PendingOK'
    BY <1>1, <1>5, PendingKeeps
<1>6. CASE StoreResolve
    <2>1. store = [pc |-> store.pc, duty |-> store.duty, set |-> store.set, todo |-> store.todo]
        BY <1>6 DEF IInv, StoreOK, NoStore, StoreResolve
    <2>2. store'.pc = "drain"
        BY <1>6, <2>1 DEF StoreResolve
    <2> QED
        BY <1>5, <1>6, <2>2 DEF StoreResolve, expiryVars, dbVars, histVars
<1>7. CASE StoreReturns
    BY <1>5, <1>7 DEF StoreReturns, NoStore, expiryVars, dbVars, histVars
<1>8. ASSUME NEW r \in Reader, (\E k \in Asked : Await(r, k)) \/ AwaitReturns(r) \/ AwaitAborted(r)
      PROVE  PendingOK'
    BY <1>5, <1>8 DEF Await, AwaitReturns, AwaitAborted, expiryVars, dbVars, histVars
<1>9. CASE Shutdown
    BY <1>5, <1>9 DEF Shutdown, expiryVars, dbVars, histVars
<1>10. CASE DeadlineReached
    BY <1>1, <1>10, ExpiryPending, PendingKeeps DEF DeadlineReached, dbVars
<1>11. CASE Clock
    BY <1>5, <1>11 DEF Clock, DeadlineNears, dbVars, histVars
<1>12. CASE UNCHANGED vars
    BY <1>5, <1>12 DEF vars, expiryVars, dbVars, histVars
<1> QED
    BY <1>2, <1>3, <1>4, <1>6, <1>7, <1>8, <1>9, <1>10, <1>11, <1>12 DEF Next

\* What is stored is in the index by which it is deleted, and its duty is with
\* the deadliner, unless the last output of this duty was dropped: that is the one
\* way in which data stays for ever.
THEOREM Deletion == Spec => []StoredWillBeDeleted
<1>1. Init => PendingOK
    BY DEF Init, PendingOK, NoStore
<1>2. IInv /\ PendingOK /\ [Next]_vars => PendingOK'
    BY NextPending
<1>3. IInv /\ PendingOK => StoredWillBeDeleted
    <2> SUFFICES ASSUME IInv, PendingOK, NEW k \in Key, db[k] # NoValue
                 PROVE  /\ k \in Deleted(DutyOf(k))
                        /\ \/ DutyOf(k) \in scheduled
                           \/ \E i \in DOMAIN output : output[i] = DutyOf(k)
                           \/ DutyOf(k) \in dropped
        BY DEF StoredWillBeDeleted
    <2>1. PICK d \in Duty : Owns(d, k) /\ k \in Deleted(d)
        BY DEF IInv, StoredOK
    <2>2. DutyOf(k) = d
        BY <2>1, OwnerIsDutyOf
    <2>3. Pending(scheduled, output, dropped, d)
        BY <2>1 DEF PendingOK
    <2> QED
        BY <2>1, <2>2, <2>3 DEF Pending
<1> QED
    BY <1>1, <1>2, <1>3, Invariant, PTL DEF Spec
=============================================================================
