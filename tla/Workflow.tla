----------------------------- MODULE Workflow ------------------------------
(***************************************************************************)
(* The core workflow of a cluster (core.Wire) for the duties of one        *)
(* validator in one slot: scheduler, fetcher, consensus, DutyDB, validator *)
(* API, ParSigDB, ParSigEx, SigAgg, AggSigDB and broadcaster of every      *)
(* node, and its validator client.  Each component does here what its own  *)
(* module shows it to do: consensus decides one value (QBFT, Consensus),   *)
(* the databases keep the first value (DutyDB, AggSigStore), a threshold   *)
(* of matching signatures is reported (ParSigDB).                          *)
(* QBFT shows that for processes that follow the code and keep their       *)
(* state; that consensus also decides one value with the faulty and the    *)
(* restarted nodes here is an assumption.                                  *)
(*                                                                         *)
(* The duties depend on each other: the fetcher of a proposal waits for    *)
(* the aggregated randao, that of an aggregation for the selection and for *)
(* the attestation data, that of a contribution for the selection and the  *)
(* sync message.  Every step may be late, a node may restart and lose what *)
(* it had, and some nodes may be faulty.                                   *)
(***************************************************************************)
EXTENDS Naturals, FiniteSets

CONSTANTS
    Node,        \* the correct nodes
    FaultyNode,  \* the others, which are faulty or down
    Root,        \* data, by its root
    None,        \* no data
    Heads(_),    \* what the beacon nodes of the nodes may return, by the last duty
    MaxMishaps   \* bound: how much goes wrong

VARIABLES
    last,       \* the last of the duties
    faulty,     \* whether FaultyNode are faulty, and not just down
    selected,   \* whether the validator is selected to aggregate
    head,       \* what the beacon node of a node returns
    fetched,    \* the duties for which Fetch is done
    running,    \* the nodes that run consensus
    proposals,  \* what they propose
    decided,    \* what they decided
    behind,     \* the nodes that no longer learn it
    dutydb,     \* the unsigned data in DutyDB
    client,     \* what the validator client has signed
    sent,       \* the partial signature that a node sent to its peers
    aggsigdb,   \* the aggregated signature in AggSigDB
    submitted,  \* what was submitted to a beacon node
    restarts
vars == <<last, faulty, selected, head, fetched, running, proposals, decided, behind,
          dutydb, client, sent, aggsigdb, submitted, restarts>>

-----------------------------------------------------------------------------
(* The duties.                                                             *)

\* Those whose aggregated signature the fetcher waits for.
AggSigs(k) == CASE k = "proposer" -> {"randao"}
                [] k = "aggregator" -> {"prepare_aggregator"}
                [] k = "contribution" -> {"prepare_contribution", "sync_message"}
                [] OTHER -> {}
\* Those whose unsigned data it waits for.
AttData(k) == IF k = "aggregator" THEN {"attester"} ELSE {}

Duties == {last} \cup AggSigs(last) \cup AttData(last)

\* The scheduler schedules those that are fetched and agreed upon.
Scheduled == {"proposer", "attester", "aggregator", "contribution"}
\* Participate: consensus is joined before there is a proposal, unless the
\* duty may be none.
Participants(k) == IF k \in {"proposer", "attester"} THEN Node ELSE {}
\* The other duties begin with the signature of the validator client.  All
\* clients sign the same, except for the head of the chain.
ClientData(n, k) == IF k = "sync_message" THEN head[n] ELSE CHOOSE r \in Root : TRUE
\* Aggregates and contributions belong to the attestation data and to the head
\* whose signatures they aggregate, and are queried by it: a pair.
Aggregates == {"aggregator", "contribution"}
Data(k) == IF k \in Aggregates THEN Root \X Root ELSE Root
\* Internal duties are not submitted to the beacon node.
Internal == {"randao", "prepare_aggregator", "prepare_contribution"}

LastDuty == {"proposer", "aggregator", "contribution"}
Shares == Cardinality(Node \cup FaultyNode)

\* Less than a third of the nodes are faulty.
ASSUME ClusterAssumption ==
    /\ IsFiniteSet(Node) /\ IsFiniteSet(FaultyNode) /\ Node \cap FaultyNode = {}
    /\ 3 * Cardinality(FaultyNode) < Shares
ASSUME DataAssumption ==
    /\ None \notin Root \cup (Root \X Root) /\ Root # {}
    /\ \A k \in LastDuty : Heads(k) \subseteq [Node -> Root]

\* A bug: half of the nodes.
ThresholdHalf == (Shares + 1) \div 2

\* cluster.Threshold, and the quorum of consensus.
Threshold == (2 * Shares + 2) \div 3

PerNode(x) == [n \in Node |-> [k \in Duties |-> x]]

Init ==
    /\ last \in LastDuty
    /\ faulty \in BOOLEAN /\ selected \in BOOLEAN /\ (last = "proposer" => selected)
    /\ head \in Heads(last)
    /\ fetched = [n \in Node |-> {}]
    /\ running = [k \in Duties |-> Participants(k)] /\ proposals = [k \in Duties |-> {}]
    /\ decided = [k \in Duties |-> None] /\ behind = [k \in Duties |-> {}]
    /\ dutydb = PerNode(None) /\ client = PerNode(None)
    /\ sent = PerNode(None) /\ aggsigdb = PerNode(None)
    /\ submitted = [k \in Duties |-> {}]
    /\ restarts = 0

\* What went wrong: nodes are faulty, and not just down, restarted or were left
\* behind.
mishaps ==
    (IF faulty THEN 1 ELSE 0) + restarts + Cardinality(UNION {behind[d] : d \in Duties})

inputs == <<last, faulty, selected, head>>
signing == <<client, sent, aggsigdb, submitted>>

-----------------------------------------------------------------------------
(* Scheduler, fetcher and consensus.                                       *)

\* Fetch has what it waits for.
Ready(n, k) ==
    /\ \A d \in AggSigs(k) : selected \/ d # "sync_message" => aggsigdb[n][d] # None
    /\ \A d \in AttData(k) : selected => dutydb[n][d] # None

\* What the beacon node returns: for the attestation data in DutyDB, for the sync
\* message in AggSigDB.
Fetched(n, k) == CASE k = "aggregator" -> <<dutydb[n]["attester"], head[n]>>
                   [] k = "contribution" -> <<aggsigdb[n]["sync_message"], head[n]>>
                   [] OTHER -> head[n]

\* A bug: the data is stored before it is agreed upon.
FetchStores(n, k) ==
    /\ k \in Scheduled \ fetched[n] /\ Ready(n, k) /\ (n \in running[k] => decided[k] = None)
    /\ fetched' = [fetched EXCEPT ![n] = @ \cup {k}]
    /\ running' = [running EXCEPT ![k] = @ \cup {n}]
    /\ proposals' = [proposals EXCEPT ![k] = @ \cup {Fetched(n, k)}]
    /\ dutydb' = [dutydb EXCEPT ![n][k] = IF @ = None THEN Fetched(n, k) ELSE @]
    /\ UNCHANGED <<inputs, decided, behind, signing, restarts>>

\* The data of the beacon node is proposed.  If the validator is not selected
\* to aggregate there is nothing to propose.  Errors are retried.  A proposal of
\* a node that takes part changes nothing after the decision, and is left out.
Fetch(n, k) ==
    /\ k \in Scheduled \ fetched[n] /\ Ready(n, k) /\ (n \in running[k] => decided[k] = None)
    /\ fetched' = [fetched EXCEPT ![n] = @ \cup {k}]
    /\ IF k \in Aggregates /\ ~ selected
       THEN UNCHANGED <<running, proposals>>
       ELSE /\ running' = [running EXCEPT ![k] = @ \cup {n}]
            /\ proposals' = [proposals EXCEPT ![k] = @ \cup {Fetched(n, k)}]
    /\ UNCHANGED <<inputs, decided, behind, dutydb, signing, restarts>>

\* A quorum decides a value that was proposed.  Faulty nodes may take part, and
\* propose anything.
Decide(k, joined) ==
    /\ decided[k] = None
    /\ Cardinality(running[k] \cup joined) >= Threshold /\ running[k] # {}
    /\ \E v \in IF joined = {} THEN proposals[k] ELSE Data(k) :
          decided' = [decided EXCEPT ![k] = v]
    /\ UNCHANGED <<inputs, fetched, running, proposals, behind, dutydb, signing, restarts>>

\* A node that runs consensus learns the decision, and stores it in DutyDB.
Store(n, k) ==
    /\ n \in running[k] \ behind[k] /\ decided[k] # None /\ dutydb[n][k] = None
    /\ dutydb' = [dutydb EXCEPT ![n][k] = decided[k]]
    /\ UNCHANGED <<inputs, fetched, running, proposals, decided, behind, signing, restarts>>

\* A node that has decided cancels its instance, and answers its peers no more: one
\* that lacks their messages does not learn the decision.
LeftBehind(n, k) ==
    /\ n \in running[k] \ behind[k] /\ decided[k] # None /\ dutydb[n][k] = None
    /\ \E p \in Node : dutydb[p][k] # None
    /\ mishaps < MaxMishaps
    /\ behind' = [behind EXCEPT ![k] = @ \cup {n}]
    /\ UNCHANGED <<inputs, fetched, running, proposals, decided, dutydb, signing, restarts>>

-----------------------------------------------------------------------------
(* The validator client and its API.                                       *)

\* What the client asks for by its root, which it has signed, it gets only if that
\* was decided (AggregateAttestation, SyncCommitteeContribution).
Queried(n, k) ==
    LET root == client[n][IF k = "aggregator" THEN "attester" ELSE "sync_message"]
    IN  IF dutydb[n][k] # None /\ dutydb[n][k][1] = root THEN dutydb[n][k] ELSE None

\* What the client has to sign, if it has an answer.
ToSign(n, k) == CASE k \in Aggregates -> Queried(n, k)
                  [] k \in Scheduled \ Aggregates -> dutydb[n][k]
                  [] OTHER -> ClientData(n, k)

\* What it signs, once: it has not signed yet, or submits again.
Signs(n, k) == IF client[n][k] = None THEN ToSign(n, k) ELSE client[n][k]

\* What the API requires of DutyDB when the client submits its signature.
Accepts(n, k) ==
    /\ k = "proposer" => dutydb[n][k] = Signs(n, k)
    /\ k = "attester" => dutydb[n][k] # None

-----------------------------------------------------------------------------
(* ParSigDB, ParSigEx, SigAgg and AggSigDB.                                *)

\* The nodes that have sent their signature over root.
Signers(k, root) == {n \in Node : sent[n][k] = root}

\* A bug: a node that already has enough signatures of its peers does not send
\* its own.
SubmitQuiet(n, k) ==
    LET root == Signs(n, k) IN
    /\ root # None /\ sent[n][k] = None /\ Accepts(n, k)
    /\ client' = [client EXCEPT ![n][k] = root]
    /\ sent' = IF Cardinality(Signers(k, root)) + 1 >= Threshold THEN sent
               ELSE [sent EXCEPT ![n][k] = root]
    /\ UNCHANGED <<inputs, fetched, running, proposals, decided, behind, dutydb,
                   aggsigdb, submitted, restarts>>

\* The client signs and submits its signature: StoreInternal stores it, and
\* sends it to the peers.
Submit(n, k) ==
    LET root == Signs(n, k) IN
    /\ root # None /\ sent[n][k] = None /\ Accepts(n, k)
    /\ client' = [client EXCEPT ![n][k] = root]
    /\ sent' = [sent EXCEPT ![n][k] = root]
    /\ UNCHANGED <<inputs, fetched, running, proposals, decided, behind, dutydb,
                   aggsigdb, submitted, restarts>>

\* ParSigDB has a threshold of signatures over one root, its own or received
\* from peers in any order (StoreExternal): they are aggregated, and stored in
\* AggSigDB.  Faulty nodes may sign different data for different peers.
Aggregate(n, k, root, joined) ==
    /\ aggsigdb[n][k] = None
    /\ Cardinality(Signers(k, root) \cup joined) >= Threshold
    /\ aggsigdb' = [aggsigdb EXCEPT ![n][k] = root]
    /\ submitted' = [submitted EXCEPT ![k] = IF k \in Internal THEN {} ELSE @ \cup {root}]
    /\ UNCHANGED <<inputs, fetched, running, proposals, decided, behind, dutydb,
                   client, sent, restarts>>

-----------------------------------------------------------------------------
\* A node restarts: its databases are empty, and
\* the duties of the slot are scheduled again.  The client may have signed data
\* of a duty just before.
Restart(n) ==
    /\ mishaps < MaxMishaps
    /\ restarts' = restarts + 1
    /\ fetched' = [fetched EXCEPT ![n] = {}]
    /\ running' = [d \in Duties |-> (running[d] \ {n}) \cup (Participants(d) \cap {n})]
    /\ behind' = [d \in Duties |-> behind[d] \ {n}]
    /\ dutydb' = [dutydb EXCEPT ![n] = [d \in Duties |-> None]]
    /\ client' = [client EXCEPT ![n][last] = Signs(n, last)]
    /\ aggsigdb' = [aggsigdb EXCEPT ![n] = [d \in Duties |-> None]]
    /\ UNCHANGED <<inputs, proposals, decided, sent, submitted>>

\* What the correct nodes do on their own.
Progress ==
    \E k \in Duties :
        \/ Decide(k, {})
        \/ \E n \in Node : Fetch(n, k) \/ Store(n, k) \/ Submit(n, k)
        \/ \E n \in Node, r \in Data(k) : Aggregate(n, k, r, {})

\* What faulty nodes help them to do.
Joined ==
    /\ faulty
    /\ \E k \in Duties :
          \/ Decide(k, FaultyNode)
          \/ \E n \in Node, r \in Data(k) : Aggregate(n, k, r, FaultyNode)

Next ==
    \/ Progress
    \/ Joined
    \/ \E n \in Node, k \in Duties : LeftBehind(n, k)
    \/ \E n \in Node : Restart(n)

Spec == Init /\ [][Next]_vars

-----------------------------------------------------------------------------
(* Properties.                                                             *)

\* Two nodes never aggregate signatures of the validator over different data for
\* one duty, nor submit them (SigAgg, Broadcaster): the validator is not slashed,
\* though clients may sign different heads, a faulty node signs different data
\* for different peers, and a node restarts.
OneSignature ==
    \A k \in Duties : \A n, p \in Node :
        Cardinality(({aggsigdb[n][k], aggsigdb[p][k]} \ {None}) \cup submitted[k]) <= 1

\* Whatever is signed by a client, aggregated or submitted for a duty that the
\* cluster agrees upon is what consensus decided (core.Wire), also after a
\* restart of the node between the query for the data and its submission.
SignedWasDecided ==
    \A k \in Duties \cap Scheduled : \A n \in Node :
        {client[n][k], aggsigdb[n][k]} \cup submitted[k] \subseteq {None, decided[k]}

\* Fewer nodes than the threshold have learned all that was decided.
TooFewLearned == Cardinality(Node \ UNION {behind[k] : k \in Duties}) < Threshold

\* With the help of a faulty leader an aggregate or a contribution is decided that
\* some client will not ask for, as it belongs to other data than it has signed.
Misled ==
    /\ faulty /\ last \in Aggregates /\ decided[last] # None
    /\ \E n \in Node :
          decided[last][1] # IF last = "aggregator" THEN decided["attester"] ELSE head[n]

\* The duties do not wait for each other for ever (fetcher, validator API): the
\* correct nodes have something left to do until each of them has the aggregated
\* signatures of the duties that apply, though the node that is faulty or down
\* does not help.  No step is repeated, so that they get there if they make
\* progress before the deadline.  The exceptions: a node restarts; the heads that
\* are signed for a contribution differ (they are not agreed upon, and may not
\* reach the threshold); nodes that decided have cancelled consensus before a
\* threshold learned the decision; consensus decided an aggregate or a
\* contribution of a faulty leader that clients do not ask for.
DutiesComplete ==
    \/ ENABLED <<Progress>>_vars
    \/ restarts > 0
    \/ last = "contribution" /\ \E n, p \in Node : head[n] # head[p]
    \/ TooFewLearned
    \/ Misled
    \/ \A k \in Duties, n \in Node : selected \/ k # last => aggsigdb[n][k] # None
=============================================================================
