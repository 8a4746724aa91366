---------------------------- MODULE AggSigStore -----------------------------
(***************************************************************************)
(* What core.AggSigDB promises (interface AggSigDB in core/interfaces.go): *)
(* the first data stored for a key stays until the duty's deadline, and    *)
(* Await answers with the data of its key.  Modules AggSigDB and           *)
(* AggSigDBV2, the two implementations, implement it.                      *)
(***************************************************************************)
EXTENDS Integers

CONSTANTS Duty, PubKey, Value, NoValue, Reader

VARIABLES
    data,     \* data[duty][pubkey], a value or NoValue
    rd,       \* rd[r], the state of the call r of Await
    reached   \* the duties whose deadline is reached

storeVars == <<data, rd, reached>>

NoCall == [pc |-> "idle"]

Awaiting(d, pk) == [pc |-> "await", duty |-> d, pubKey |-> pk, got |-> NoValue]

StoreInit ==
    /\ data = [d \in Duty |-> [pk \in PubKey |-> NoValue]]
    /\ rd = [r \in Reader |-> NoCall]
    /\ reached \in SUBSET Duty

\* Some of the waiting calls get the data of their keys, as it is after the
\* step.
Answered ==
    \E A \in SUBSET {r \in Reader : rd[r].pc = "await" /\ rd[r].got = NoValue} :
        /\ \A r \in A : data'[rd[r].duty][rd[r].pubKey] # NoValue
        /\ rd' = [r \in Reader |->
                    IF r \in A THEN [rd[r] EXCEPT !.got = data'[rd[r].duty][rd[r].pubKey]]
                               ELSE rd[r]]

\* Data is added for keys of the duty that have none.
Put(d) ==
    /\ \E new \in [PubKey -> Value \cup {NoValue}] :
         data' = [data EXCEPT ![d] =
                    [pk \in PubKey |-> IF @[pk] = NoValue THEN new[pk] ELSE @[pk]]]
    /\ Answered
    /\ UNCHANGED reached

\* Data is only deleted once the deadline of its duty is reached.
Delete(d) ==
    /\ d \in reached
    /\ data' = [data EXCEPT ![d] = [pk \in PubKey |-> NoValue]]
    /\ UNCHANGED <<rd, reached>>

Await(r) ==
    /\ rd[r] = NoCall
    /\ \E d \in Duty, pk \in PubKey : rd' = [rd EXCEPT ![r] = Awaiting(d, pk)]
    /\ UNCHANGED <<data, reached>>

\* Await returns its answer, or an error.
Return(r) ==
    /\ rd[r].pc = "await"
    /\ \E got \in {rd[r].got, NoValue} :
         rd' = [rd EXCEPT ![r].pc = "done", ![r].got = got]
    /\ UNCHANGED <<data, reached>>

Reach ==
    /\ reached \subseteq reached'
    /\ UNCHANGED <<data, rd>>

StoreNext ==
    \/ \E d \in Duty : Put(d) \/ Delete(d)
    \/ \E r \in Reader : Await(r) \/ Return(r)
    \/ Reach

StoreSpec == StoreInit /\ [][StoreNext]_storeVars
=============================================================================
