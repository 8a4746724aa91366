----------------------------- MODULE AggSigMem ------------------------------
(***************************************************************************)
(* What core/aggsigdb/memory.go and memory_v2.go have in common: the map   *)
(* of aggregated signatures with its index by duty, the calls of Store and *)
(* Await, and the properties that both implementations are checked for.    *)
(***************************************************************************)
EXTENDS DutyExpiry

CONSTANTS
    PubKey, Value, NoValue,
    StoreSets,  \* the SignedDataSets that may be stored
    Writer,     \* the calls of Store
    Reader      \* the calls of Await

ASSUME ValueAssumption == NoValue \notin Value
ASSUME StoreSetsAssumption ==
    \A set \in StoreSets : /\ DOMAIN set \in SUBSET PubKey
                           /\ \A pk \in DOMAIN set : set[pk] \in Value

VARIABLES
    data,        \* data[duty][pubkey], a value or NoValue
    keysByDuty,  \* keysByDuty[duty], the keys to delete with the duty
    wr,          \* wr[w], the state of the call w of Store
    rd,          \* rd[r], the state of the call r of Await
    quit,        \* Run has returned
    deleted      \* the duties whose data was deleted

dataVars == <<data, keysByDuty>>
memVars == <<expiryVars, dataVars, wr, rd, quit, deleted>>

NoCall == [pc |-> "idle"]

MemInit ==
    /\ ExpiryInit
    /\ data = [d \in Duty |-> [pk \in PubKey |-> NoValue]]
    /\ keysByDuty = [d \in Duty |-> {}]
    /\ wr = [w \in Writer |-> NoCall]
    /\ rd = [r \in Reader |-> NoCall]
    /\ quit = FALSE
    /\ deleted = {}

\* Store and Await are called.
CallStore(w) ==
    /\ wr[w] = NoCall
    /\ \E d \in Duty, set \in StoreSets :
         wr' = [wr EXCEPT ![w] = [pc |-> "store", duty |-> d, set |-> set,
                                  todo |-> DOMAIN set, err |-> FALSE]]
    /\ UNCHANGED <<expiryVars, dataVars, rd, quit, deleted>>

CallAwait(r) ==
    /\ rd[r] = NoCall
    /\ \E d \in Duty, pk \in PubKey :
         rd' = [rd EXCEPT ![r] = [pc |-> "await", duty |-> d, pubKey |-> pk, got |-> NoValue]]
    /\ UNCHANGED <<expiryVars, dataVars, wr, quit, deleted>>

\* A bug: a stopped database does not release its readers.
AwaitAbortedByContext(r) ==
    /\ rd[r].pc = "await" /\ ~ quit
    /\ rd' = [rd EXCEPT ![r].pc = "done", ![r].got = NoValue]
    /\ UNCHANGED <<expiryVars, dataVars, wr, quit, deleted>>

\* A call returns an error because its context is done or the database has
\* stopped, even if its command was executed or its answer is there.
StoreAborted(w) ==
    /\ wr[w].pc \in {"store", "response"}
    /\ wr' = [wr EXCEPT ![w].pc = "done", ![w].err = TRUE]
    /\ UNCHANGED <<expiryVars, dataVars, rd, quit, deleted>>

AwaitAborted(r) ==
    /\ rd[r].pc = "await"
    /\ rd' = [rd EXCEPT ![r].pc = "done", ![r].got = NoValue]
    /\ UNCHANGED <<expiryVars, dataVars, wr, quit, deleted>>

\* Await returns the data it was answered with.
AwaitReturns(r) ==
    /\ rd[r].pc = "await" /\ rd[r].got # NoValue
    /\ rd' = [rd EXCEPT ![r].pc = "done"]
    /\ UNCHANGED <<expiryVars, dataVars, wr, quit, deleted>>

\* Whether the data to store differs from what the key holds.
Mismatch(d, pk, v) == data[d][pk] \notin {NoValue, v}

\* A bug: data that is there is replaced.
OverwritePut(d, new) ==
    /\ data' = [data EXCEPT ![d] = [pk \in PubKey |-> IF pk \in DOMAIN new THEN new[pk] ELSE @[pk]]]
    /\ keysByDuty' = [keysByDuty EXCEPT ![d] = @ \cup DOMAIN new]

\* The data of keys that have none is stored, and the keys are indexed.
Put(d, new) ==
    /\ data' = [data EXCEPT ![d] =
          [pk \in PubKey |-> IF @[pk] = NoValue /\ pk \in DOMAIN new THEN new[pk] ELSE @[pk]]]
    /\ keysByDuty' = [keysByDuty EXCEPT ![d] =
          @ \cup {pk \in DOMAIN new : data[d][pk] = NoValue}]

\* The data of the keys in the duty's index is deleted, and the index.
DeleteDuty(d) ==
    /\ data' = [data EXCEPT ![d] =
          [pk \in PubKey |-> IF pk \in keysByDuty[d] THEN NoValue ELSE @[pk]]]
    /\ keysByDuty' = [keysByDuty EXCEPT ![d] = {}]
    /\ deleted' = deleted \cup {d}

\* The deadliner's own steps, and the clock.
DeadlineReached ==
    /\ \E d \in Duty : Expire(d)
    /\ UNCHANGED <<dataVars, wr, rd, quit, deleted>>

Clock ==
    /\ TimePasses
    /\ UNCHANGED <<dataVars, wr, rd, quit, deleted>>

-----------------------------------------------------------------------------
(* Properties *)

\* A call of Await whose data is there returns, unless the duty is deleted.
AwaitIsAnswered ==
    \A r \in Reader, d \in Duty, pk \in PubKey :
        /\ rd[r].pc = "await" /\ rd[r].duty = d /\ rd[r].pubKey = pk
        /\ data[d][pk] # NoValue
        ~> rd[r].pc = "done" \/ d \in deleted

\* When the database stops, no call stays blocked.
StopReleases ==
    \A r \in Reader, w \in Writer :
        quit ~> rd[r].pc # "await" /\ wr[w].pc \notin {"store", "response"}
=============================================================================
