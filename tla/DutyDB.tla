------------------------------- MODULE DutyDB -------------------------------
(***************************************************************************)
(* core/dutydb/memory.go: the unsigned data that the cluster agreed on,    *)
(* which the validator clients sign.                                       *)
(*                                                                         *)
(* All tables of the database are one function from keys to values here;   *)
(* a key is a tuple that begins with the name of its table.  Every         *)
(* operation holds the lock; a Store is a sequence of steps under the      *)
(* lock, between which the deadliner may output duties.                    *)
(***************************************************************************)
EXTENDS DutyExpiry

CONSTANTS
    Slot, CommIdx, ValIdx, Root,
    PubKey, Data, NoValue,
    Inputs,   \* <<duty, set>> that consensus may store
    Asked,    \* the keys that validator clients may ask for
    Reader    \* the calls of the Await methods

Type == {"attester", "proposer", "aggregator", "contribution"}

ASSUME DutyAssumption == Duty \subseteq [type : Type, slot : Slot]

\* The data of one validator: what the tables need of core.UnsignedData.  The slot
\* is the one in the data itself.
UnsignedData(type) ==
    CASE type = "attester"   -> [slot : Slot, comm : CommIdx, val : ValIdx, data : Data]
      [] type = "proposer"   -> [slot : Slot, data : Data]
      [] type = "aggregator" -> [slot : Slot, root : Root, data : Data]
      [] OTHER               -> [slot : Slot, comm : CommIdx, root : Root, data : Data]

ASSUME InputsAssumption ==
    \A in \in Inputs :
        /\ in[1] \in Duty /\ DOMAIN in[2] \subseteq PubKey
        /\ \A pk \in DOMAIN in[2] : in[2][pk] \in UnsignedData(in[1].type)
\* The fetchers of the cluster ask their beacon nodes for data of the duty's slot.
\* The database relies on it and does not check it: data is stored under its own
\* slot, attestations are indexed by the slot of the duty definition that comes with
\* them, and both are deleted with the duty that has that slot.
ASSUME SlotAssumption ==
    \A in \in Inputs : \A pk \in DOMAIN in[2] : in[2][pk].slot = in[1].slot
ASSUME CommIdxAssumption == 0 \in CommIdx

AttKey     == {"att"} \X Slot \X CommIdx
PkKey      == {"pk"} \X Slot \X CommIdx \X ValIdx
ProKey     == {"pro"} \X Slot
AggKey     == {"agg"} \X Slot \X Root
ContribKey == {"con"} \X Slot \X CommIdx \X Root
Key        == AttKey \cup PkKey \cup ProKey \cup AggKey \cup ContribKey

ASSUME AskedAssumption == Asked \subseteq Key \ PkKey

\* The table that a query of the duty type reads.
TableOf(type) ==
    CASE type = "attester"   -> "att"
      [] type = "proposer"   -> "pro"
      [] type = "aggregator" -> "agg"
      [] OTHER               -> "con"

VARIABLES
    db,        \* db[key], the value of a key or NoValue
    keysBySlot,\* keysBySlot[duty], the keys that are deleted with the duty
    store,     \* the Store that holds the lock, or NoStore
    queries,   \* the calls whose query is in the list of their table
    rd,        \* rd[r], the state of the call r
    shutdown,
    failed,    \* the duties for which a Store returned an error
    renewed,   \* the duties accepted at the instant of their deadline
    dropped    \* the duties whose last output found the deadliner's channel full

dbVars == <<db, keysBySlot>>
queryVars == <<queries, rd>>
histVars == <<failed, renewed, dropped>>
vars == <<expiryVars, dbVars, store, queryVars, shutdown, histVars>>

NoStore == [pc |-> "none"]
NoCall == [pc |-> "idle"]

Init ==
    /\ ExpiryInit
    /\ db = [k \in Key |-> NoValue]
    /\ keysBySlot = [d \in Duty |-> {}]
    /\ store = NoStore
    /\ queries = {}
    /\ rd = [r \in Reader |-> NoCall]
    /\ shutdown = FALSE
    /\ failed = {} /\ renewed = {} /\ dropped = {}

-----------------------------------------------------------------------------
\* The entries that the data u of a validator adds, in their order.
\* Attestation data is also stored for committee index 0.
Puts(d, pk, u) ==
    CASE d.type = "attester" ->
           << [key |-> <<"pk", u.slot, u.comm, u.val>>, value |-> pk],
              [key |-> <<"att", u.slot, u.comm>>, value |-> u.data],
              [key |-> <<"pk", u.slot, 0, u.val>>, value |-> pk],
              [key |-> <<"att", u.slot, 0>>, value |-> u.data] >>
      [] d.type = "proposer"   -> << [key |-> <<"pro", u.slot>>, value |-> u.data] >>
      [] d.type = "aggregator" -> << [key |-> <<"agg", u.slot, u.root>>, value |-> u.data] >>
      [] OTHER -> << [key |-> <<"con", u.slot, u.comm, u.root>>, value |-> u.data] >>

\* A key with another value is an error.  The key of an aggregate has the
\* root of its data; another aggregate with the same root replaces the first.
Clash(d, put) == d.type # "aggregator" /\ db[put.key] \notin {NoValue, put.value}

\* The keys that go into the index: those of public keys for attesters.
Indexed(d, key) == d.type = "attester" => key \in PkKey

\* A bug: the entry of committee index 0 is not deleted.
ForgetsIndexZero(d) ==
    IF d.type = "proposer" THEN {<<"pro", d.slot>>}
    ELSE keysBySlot[d] \cup
         {<<"att", k[2], k[3]>> : k \in {i \in keysBySlot[d] : i \in PkKey /\ i[3] # 0}}

\* The keys that are deleted with a duty.
Deleted(d) ==
    IF d.type = "proposer" THEN {<<"pro", d.slot>>}
    ELSE keysBySlot[d] \cup {<<"att", k[2], k[3]>> : k \in keysBySlot[d] \cap PkKey}

\* The queries of a table that are answered, and the new state of their calls.
Live(r) == rd[r].pc = "await"
Resolved(type) == {r \in queries : Live(r) /\ rd[r].key[1] = TableOf(type) /\ db[rd[r].key] # NoValue}
Dropped(type) == {r \in queries : ~ Live(r) /\ rd[r].key[1] = TableOf(type)}

\* A bug: the answer of the deadliner is ignored.
StoreIgnoresExpiry(d, set) ==
    /\ store = NoStore
    /\ store' = [pc |-> "store", duty |-> d, set |-> set, todo |-> DOMAIN set]
    /\ Add(d)
    /\ renewed' = IF phase[d] = 1 THEN renewed \cup {d} ELSE renewed
    /\ dropped' = dropped \ {d}
    /\ UNCHANGED <<dbVars, queryVars, shutdown, failed>>

\* Store takes the lock.  It refuses an expired duty, and more than one
\* proposal for a slot.
Store(d, set) ==
    /\ store = NoStore
    /\ CanAdd(d)
    /\ Add(d)
    /\ \/ /\ d.type = "proposer" => \A p, q \in DOMAIN set : p = q
          /\ store' = [pc |-> "store", duty |-> d, set |-> set, todo |-> DOMAIN set]
          /\ UNCHANGED failed
       \/ /\ d.type = "proposer" /\ \E p, q \in DOMAIN set : p # q
          /\ failed' = failed \cup {d}
          /\ UNCHANGED store
    /\ renewed' = IF phase[d] = 1 THEN renewed \cup {d} ELSE renewed
    /\ dropped' = dropped \ {d}
    /\ UNCHANGED <<dbVars, queryVars, shutdown>>

\* storeAttestationUnsafe and its siblings for one validator of the set: the
\* entries before the first clash are stored.  New ones go into the index of the
\* slot, which is the one of the duty (SlotAssumption).
StoreOne(pk) ==
    LET d     == store.duty
        puts  == Puts(d, pk, store.set[pk])
        ok    == {i \in DOMAIN puts : \A j \in 1 .. i : ~ Clash(d, puts[j])}
        key   == {puts[i].key : i \in ok}
        value == [k \in key |-> LET i == CHOOSE i \in ok : puts[i].key = k IN puts[i].value]
    IN
    /\ store.pc = "store" /\ pk \in store.todo
    /\ db' = [k \in Key |-> IF k \in key THEN value[k] ELSE db[k]]
    /\ keysBySlot' = [keysBySlot EXCEPT ![d] =
          @ \cup {k \in key : db[k] = NoValue /\ Indexed(d, k)}]
    /\ \/ /\ ok = DOMAIN puts
          /\ store' = [store EXCEPT !.todo = @ \ {pk}]
          /\ UNCHANGED failed
       \/ /\ ok # DOMAIN puts
          /\ store' = NoStore
          /\ failed' = failed \cup {d}
    /\ UNCHANGED <<expiryVars, queryVars, shutdown, renewed, dropped>>

\* A bug: answered queries stay in the list.
ResolveKeepsQueries(type) ==
    /\ queries' = queries \ Dropped(type)
    /\ rd' = [r \in Reader |-> IF r \in Resolved(type) THEN [rd[r] EXCEPT !.got = db[rd[r].key]]
                                                       ELSE rd[r]]

\* All data is stored: the queries of the table are resolved.
Resolve(type) ==
    /\ queries' = queries \ (Resolved(type) \cup Dropped(type))
    /\ rd' = [r \in Reader |-> IF r \in Resolved(type) THEN [rd[r] EXCEPT !.got = db[rd[r].key]]
                                                       ELSE rd[r]]

StoreResolve ==
    /\ store.pc = "store" /\ store.todo = {}
    /\ Resolve(store.duty.type)
    /\ store' = [store EXCEPT !.pc = "drain"]
    /\ UNCHANGED <<expiryVars, dbVars, shutdown, histVars>>

\* Store deletes the duties that the deadliner has output, and returns when
\* there is none.
DeleteExpired ==
    LET d == Head(output) IN
    /\ store.pc = "drain" /\ Take
    /\ db' = [k \in Key |-> IF k \in Deleted(d) THEN NoValue ELSE db[k]]
    /\ keysBySlot' = [keysBySlot EXCEPT ![d] = {}]
    /\ UNCHANGED <<store, queryVars, shutdown, histVars>>

StoreReturns ==
    /\ store.pc = "drain" /\ output = << >>
    /\ store' = NoStore
    /\ UNCHANGED <<expiryVars, dbVars, queryVars, shutdown, histVars>>

\* A bug: a new query is not resolved with what is there.
AwaitNoResolve(r, k) ==
    /\ store = NoStore /\ rd[r] = NoCall
    /\ rd' = [rd EXCEPT ![r] = [pc |-> "await", key |-> k, got |-> NoValue]]
    /\ queries' = queries \cup {r}
    /\ UNCHANGED <<expiryVars, dbVars, store, shutdown, histVars>>

\* AwaitAttestation and its siblings: the query is added to its list and all
\* queries of the list are resolved, under the lock.
Await(r, k) ==
    LET live == {q \in queries : rd[q].key[1] = k[1] => Live(q)}
        found == {q \in live : rd[q].key[1] = k[1] /\ db[rd[q].key] # NoValue}
    IN
    /\ store = NoStore /\ rd[r] = NoCall
    /\ rd' = [q \in Reader |->
          CASE q = r      -> [pc |-> "await", key |-> k, got |-> db[k]]
            [] q \in found -> [rd[q] EXCEPT !.got = db[rd[q].key]]
            [] OTHER      -> rd[q]]
    /\ queries' = (live \ found) \cup (IF db[k] = NoValue THEN {r} ELSE {})
    /\ UNCHANGED <<expiryVars, dbVars, store, shutdown, histVars>>

\* The call returns what it was answered, or an error when its context is
\* done or the database is shut down.
AwaitReturns(r) ==
    /\ rd[r].pc = "await" /\ rd[r].got # NoValue
    /\ rd' = [rd EXCEPT ![r].pc = "done"]
    /\ UNCHANGED <<expiryVars, dbVars, store, queries, shutdown, histVars>>

AwaitAborted(r) ==
    /\ rd[r].pc = "await"
    /\ rd' = [rd EXCEPT ![r].pc = "done", ![r].got = NoValue]
    /\ UNCHANGED <<expiryVars, dbVars, store, queries, shutdown, histVars>>

Shutdown ==
    /\ ~ shutdown /\ shutdown' = TRUE
    /\ UNCHANGED <<expiryVars, dbVars, store, queryVars, histVars>>

\* The deadliner outputs a duty, or drops it.
DeadlineReached ==
    /\ \E d \in Duty :
          /\ Expire(d)
          /\ dropped' = IF Len(output) < OutputBuffer THEN dropped ELSE dropped \cup {d}
    /\ UNCHANGED <<dbVars, store, queryVars, shutdown, failed, renewed>>

Clock ==
    /\ \E d \in Duty : DeadlineNears(d)
    /\ UNCHANGED <<dbVars, store, queryVars, shutdown, histVars>>

Next ==
    \/ \E in \in Inputs : Store(in[1], in[2])
    \/ \E pk \in PubKey : StoreOne(pk)
    \/ StoreResolve
    \/ DeleteExpired
    \/ StoreReturns
    \/ \E r \in Reader : \/ \E k \in Asked : Await(r, k)
                         \/ AwaitReturns(r)
                         \/ AwaitAborted(r)
    \/ Shutdown
    \/ DeadlineReached
    \/ Clock

Spec == Init /\ [][Next]_vars

-----------------------------------------------------------------------------
(* Properties *)

\* The state of the tables, of the Store that holds the lock and of the calls.
\* A query that was answered is in no list, so resolving never blocks on its
\* channel with the lock held.
TypeOK ==
    /\ ExpiryTypeOK
    /\ db \in [Key -> PubKey \cup Data \cup {NoValue}]
    /\ keysBySlot \in [Duty -> SUBSET Key]
    /\ store # NoStore => /\ store.pc \in {"store", "drain"} /\ store.duty \in Duty
                         /\ store.todo \subseteq DOMAIN store.set
    /\ queries \subseteq {r \in Reader : rd[r] # NoCall /\ rd[r].got = NoValue}
    /\ \A r \in Reader : rd[r] = NoCall \/ rd[r] \in [pc : {"await", "done"}, key : Asked,
                                                    got : Data \cup {NoValue}]

\* The duty that a key belongs to.
DutyOf(k) ==
    CHOOSE d \in Duty :
        /\ d.slot = k[2]
        /\ TableOf(d.type) = IF k[1] = "pk" THEN "att" ELSE k[1]

\* The validator clients never get two different values to sign for a key, not
\* even when the data was deleted in between, since Store refuses an expired
\* duty.  Aggregates may differ, and a duty may be stored again at the very
\* instant of its deadline.
AnswersAgree ==
    \A r, s \in Reader :
        /\ rd[r].pc # "idle" /\ rd[s].pc # "idle"
        /\ rd[r].key = rd[s].key /\ rd[r].key[1] # "agg"
        /\ NoValue \notin {rd[r].got, rd[s].got}
        => rd[r].got = rd[s].got \/ DutyOf(rd[r].key) \in renewed

\* Whatever is stored is in the index by which it will be deleted, and its duty is
\* still with the deadliner, or else the deadliner found its channel full when it
\* last output this very duty: that is the one way in which data stays for ever.
StoredWillBeDeleted ==
    \A k \in Key : db[k] # NoValue =>
        /\ k \in Deleted(DutyOf(k))
        /\ \/ DutyOf(k) \in scheduled
           \/ \E i \in DOMAIN output : output[i] = DutyOf(k)
           \/ DutyOf(k) \in dropped

\* docs/architecture.md: a query "blocks until any requested data is
\* available".  A query only waits although its data is there after a Store of
\* its duty has failed half-way.
AnsweredUnlessFailed ==
    store = NoStore => \A r \in queries :
        Live(r) /\ db[rd[r].key] # NoValue => DutyOf(rd[r].key) \in failed
=============================================================================
