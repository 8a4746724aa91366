------------------------------ MODULE AggSigDB ------------------------------
(***************************************************************************)
(* core/aggsigdb/memory.go: one goroutine, Run, owns the map.  Store and   *)
(* Await send it commands and queries over unbuffered channels and wait    *)
(* for its response; queries that find no data wait in blockedQueries.     *)
(***************************************************************************)
EXTENDS AggSigMem

VARIABLES
    received,       \* the calls of Await whose query Run has received
    blockedQueries  \* those of them whose query is in blockedQueries

loopVars == <<received, blockedQueries>>
vars == <<memVars, loopVars>>

Init == MemInit /\ received = {} /\ blockedQueries = {}

Cancelled(r) == rd[r].pc = "done"

\* A bug: queries that cannot be answered yet are dropped.
StaysNone == {}

\* processBlockedQueries: the queries that stay, and those that are answered.
StaysBlocked ==
    {r \in blockedQueries : ~ Cancelled(r) /\ data'[rd[r].duty][rd[r].pubKey] = NoValue}

AnsweredBlocked ==
    {r \in blockedQueries : ~ Cancelled(r) /\ data'[rd[r].duty][rd[r].pubKey] # NoValue}

\* Run receives the command of the call w for a key.  The response is an error
\* if the key has other data.
ExecCommand(w, pk) ==
    LET d == wr[w].duty
        v == wr[w].set[pk]
    IN
    /\ ~ quit /\ wr[w].pc = "store" /\ pk \in wr[w].todo
    /\ Add(d)
    /\ Put(d, [k \in {pk} |-> v])
    /\ wr' = [wr EXCEPT ![w].pc = "response", ![w].todo = @ \ {pk}, ![w].err = Mismatch(d, pk, v)]
    /\ blockedQueries' = StaysBlocked
    /\ rd' = [r \in Reader |-> IF r \in AnsweredBlocked
                THEN [rd[r] EXCEPT !.got = data'[rd[r].duty][rd[r].pubKey]] ELSE rd[r]]
    /\ UNCHANGED <<quit, deleted, received>>

\* Store gets the response and goes on with the next key or returns.
StoreResponse(w) ==
    /\ wr[w].pc = "response"
    /\ wr' = [wr EXCEPT ![w].pc = IF wr[w].err \/ wr[w].todo = {} THEN "done" ELSE "store"]
    /\ UNCHANGED <<expiryVars, dataVars, rd, quit, deleted, loopVars>>

\* Run receives the query of the call r.
ExecQuery(r) ==
    LET v == data[rd[r].duty][rd[r].pubKey] IN
    /\ ~ quit /\ rd[r].pc = "await" /\ r \notin received
    /\ received' = received \cup {r}
    /\ \/ /\ v # NoValue
          /\ rd' = [rd EXCEPT ![r].got = v]
          /\ UNCHANGED blockedQueries
       \/ /\ v = NoValue
          /\ blockedQueries' = blockedQueries \cup {r}
          /\ UNCHANGED rd
    /\ UNCHANGED <<expiryVars, dataVars, wr, quit, deleted>>

\* Run receives a duty from the deadliner.
RunExpired ==
    /\ ~ quit /\ Take
    /\ DeleteDuty(Head(output))
    /\ UNCHANGED <<wr, rd, quit, loopVars>>

\* The context of Run is done.
RunReturns ==
    /\ ~ quit /\ quit' = TRUE
    /\ UNCHANGED <<expiryVars, dataVars, wr, rd, deleted, loopVars>>

Next ==
    \/ \E w \in Writer : \/ \E pk \in PubKey : ExecCommand(w, pk)
                         \/ StoreResponse(w)
                         \/ CallStore(w) /\ UNCHANGED loopVars
                         \/ StoreAborted(w) /\ UNCHANGED loopVars
    \/ \E r \in Reader : \/ ExecQuery(r)
                         \/ CallAwait(r) /\ UNCHANGED loopVars
                         \/ AwaitReturns(r) /\ UNCHANGED loopVars
                         \/ AwaitAborted(r) /\ UNCHANGED loopVars
    \/ RunExpired
    \/ RunReturns
    \/ DeadlineReached /\ UNCHANGED loopVars
    \/ Clock /\ UNCHANGED loopVars
=============================================================================
