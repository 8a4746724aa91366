----------------------------- MODULE AggSigImpl -----------------------------
(***************************************************************************)
(* app/app.go wires one of the two implementations of core.AggSigDB, by    *)
(* the feature flag AggSigDBV2.  Everything that calls the database relies *)
(* on the same promise of both, so that they are checked side by side.     *)
(***************************************************************************)
EXTENDS AggSigMem

CONSTANT NoDuty

VARIABLES
    v2,                        \* the feature AggSigDBV2 is enabled
    received, blockedQueries,  \* of MemDB
    deleting                   \* of MemDBV2

implVars == <<v2, received, blockedQueries, deleting>>
vars == <<memVars, implVars>>

V1 == INSTANCE AggSigDB
V2 == INSTANCE AggSigDBV2

Init == v2 \in BOOLEAN /\ V1!Init /\ V2!Init

Next ==
    /\ \/ ~ v2 /\ V1!Next /\ UNCHANGED deleting
       \/ v2 /\ V2!Next /\ UNCHANGED <<received, blockedQueries>>
    /\ UNCHANGED v2

\* The goroutine of MemDB keeps receiving, the lock of MemDBV2 is fair, a call
\* takes its response, and sees that the database has stopped.  That a context
\* is ever done is not assumed.
Fairness ==
    /\ \A r \in Reader :
         /\ WF_vars(~ v2 /\ V1!ExecQuery(r) /\ UNCHANGED <<v2, deleting>>)
         /\ WF_vars(v2 /\ V2!Query(r) /\ UNCHANGED <<v2, received, blockedQueries>>)
         /\ WF_vars(AwaitReturns(r) /\ UNCHANGED implVars)
         /\ WF_vars(quit /\ AwaitAborted(r) /\ UNCHANGED implVars)
    /\ \A w \in Writer :
         /\ WF_vars(~ v2 /\ V1!StoreResponse(w) /\ UNCHANGED <<v2, deleting>>)
         /\ WF_vars(quit /\ StoreAborted(w) /\ UNCHANGED implVars)

Spec == Init /\ [][Next]_vars /\ Fairness

-----------------------------------------------------------------------------
(* Properties *)

\* The promise of the interface AggSigDB, kept by both implementations.
Store == INSTANCE AggSigStore WITH reached <- {d \in Duty : phase[d] > 0}
ImplementsStore == Store!StoreSpec
=============================================================================
