----------------------------- MODULE AggSigDBV2 -----------------------------
(***************************************************************************)
(* core/aggsigdb/memory_v2.go: the map is guarded by a read-write lock.    *)
(* Store holds it for its whole set, Await polls, and Run deletes the      *)
(* duties that the deadliner outputs, in a critical section of its own.    *)
(***************************************************************************)
EXTENDS AggSigMem

CONSTANT NoDuty

VARIABLE deleting  \* the duty that Run has received and not yet deleted

vars == <<memVars, deleting>>

Init == MemInit /\ deleting = NoDuty

\* Store stores the keys of its set in some order up to the first that has
\* other data, all in one critical section.
StoreAll(w) ==
    LET d == wr[w].duty
        set == wr[w].set
        bad == {pk \in DOMAIN set : Mismatch(d, pk, set[pk])}
    IN
    /\ ~ quit /\ wr[w].pc = "store"
    /\ Add(d)
    /\ \E S \in SUBSET (DOMAIN set \ bad) :
         /\ bad = {} => S = DOMAIN set
         /\ Put(d, [pk \in S |-> set[pk]])
    /\ wr' = [wr EXCEPT ![w].pc = "done", ![w].todo = {}, ![w].err = bad # {}]
    /\ UNCHANGED <<rd, quit, deleted, deleting>>

\* One round of the loop of Await that finds data.
Query(r) ==
    LET v == data[rd[r].duty][rd[r].pubKey] IN
    /\ ~ quit /\ rd[r].pc = "await" /\ rd[r].got = NoValue
    /\ v # NoValue
    /\ rd' = [rd EXCEPT ![r].got = v]
    /\ UNCHANGED <<expiryVars, dataVars, wr, quit, deleted, deleting>>

\* One that finds its context done or the database closed.
QueryError(r) ==
    /\ rd[r].pc = "await" /\ rd[r].got = NoValue
    /\ AwaitAborted(r)
    /\ UNCHANGED deleting

\* Run receives a duty from the deadliner, and then deletes it.
RunExpired ==
    /\ ~ quit /\ deleting = NoDuty
    /\ Take
    /\ deleting' = Head(output)
    /\ UNCHANGED <<dataVars, wr, rd, quit, deleted>>

DeadlineDel ==
    /\ deleting # NoDuty
    /\ DeleteDuty(deleting)
    /\ deleting' = NoDuty
    /\ UNCHANGED <<expiryVars, wr, rd, quit>>

RunReturns ==
    /\ ~ quit /\ deleting = NoDuty
    /\ quit' = TRUE
    /\ UNCHANGED <<expiryVars, dataVars, wr, rd, deleted, deleting>>

Next ==
    \/ \E w \in Writer : \/ StoreAll(w)
                         \/ CallStore(w) /\ UNCHANGED deleting
                         \/ StoreAborted(w) /\ UNCHANGED deleting
    \/ \E r \in Reader : \/ Query(r)
                         \/ CallAwait(r) /\ UNCHANGED deleting
                         \/ AwaitReturns(r) /\ UNCHANGED deleting
                         \/ QueryError(r)
    \/ RunExpired
    \/ DeadlineDel
    \/ RunReturns
    \/ DeadlineReached /\ UNCHANGED deleting
    \/ Clock /\ UNCHANGED deleting
=============================================================================
