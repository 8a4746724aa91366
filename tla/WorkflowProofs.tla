--------------------------- MODULE WorkflowProofs ---------------------------
(***************************************************************************)
(* Proofs about Workflow, for every number of nodes of which less than a   *)
(* third are faulty, all data, beacon node answers and restarts: a         *)
(* validator has at most one aggregated signature per duty, and it is over *)
(* what consensus decided.                                                 *)
(***************************************************************************)
EXTENDS Workflow, FiniteSetTheorems, TLAPS

\* Most leaves are first-order: Zenon is tried before the SMT solver.
USE ZenonT(4), SMTT(20)

\* The data of all duties.
Value == Root \cup (Root \X Root)
Opt == Value \cup {None}

\* The state that the two properties are about.
TypeInv ==
    /\ last \in LastDuty /\ head \in [Node -> Root]
    /\ running \in [Duties -> SUBSET Node] /\ proposals \in [Duties -> SUBSET Value]
    /\ decided \in [Duties -> Opt]
    /\ dutydb \in [Node -> [Duties -> Opt]] /\ client \in [Node -> [Duties -> Opt]]
    /\ sent \in [Node -> [Duties -> Opt]] /\ aggsigdb \in [Node -> [Duties -> Opt]]
    /\ submitted \in [Duties -> SUBSET Value]

\* Every duty has data of its own kind.
Kind(k) == Data(k) \cup {None}
WellTyped ==
    \A k \in Duties :
        /\ proposals[k] \subseteq Data(k) /\ decided[k] \in Kind(k)
        /\ \A n \in Node : /\ dutydb[n][k] \in Kind(k) /\ client[n][k] \in Kind(k)
                          /\ sent[n][k] \in Kind(k) /\ aggsigdb[n][k] \in Kind(k)

\* What a node stores and its client signs was decided.
StoredWasDecided ==
    \A k \in Duties \cap Scheduled : \A n \in Node :
        {dutydb[n][k], client[n][k]} \subseteq {None, decided[k]}

\* A node sends what its client signed, and no client signs twice.
SentWasSigned == \A k \in Duties : \A n \in Node : sent[n][k] \in {None, client[n][k]}

\* A threshold of nodes signed root.
Quorate(k, root) == Cardinality(Signers(k, root) \cup FaultyNode) >= Threshold

\* What is aggregated or submitted was signed by a threshold.
AggregatedIsQuorate ==
    \A k \in Duties :
        /\ \A n \in Node : aggsigdb[n][k] # None => Quorate(k, aggsigdb[n][k])
        /\ \A r \in submitted[k] : Quorate(k, r)

\* The inductive invariant.  OneSignature speaks of aggregated signatures only: it
\* needs the partial signatures behind them, which a node never takes back.
IInv == TypeInv /\ WellTyped /\ StoredWasDecided /\ SentWasSigned /\ AggregatedIsQuorate

-----------------------------------------------------------------------------
(* Thresholds.                                                             *)

\* The number of nodes is positive, and three thresholds are two clusters.
LEMMA ThresholdBound ==
    /\ Shares \in Nat /\ Threshold \in Nat /\ Cardinality(FaultyNode) \in Nat
    /\ 3 * Threshold >= 2 * Shares /\ 3 * Cardinality(FaultyNode) < Shares
<1>1. IsFiniteSet(Node \cup FaultyNode)
    BY ClusterAssumption, FS_Union
<1>2. Shares \in Nat /\ Cardinality(FaultyNode) \in Nat
    BY <1>1, ClusterAssumption, FS_CardinalityType DEF Shares
<1>3. 3 * ((2 * Shares + 2) \div 3) >= 2 * Shares /\ (2 * Shares + 2) \div 3 \in Nat
    BY <1>2, SMT
<1> QED BY <1>2, <1>3, ClusterAssumption DEF Threshold

\* Correct nodes that make a threshold with the faulty ones.
LEMMA SignersBound ==
    ASSUME NEW A \in SUBSET Node, Cardinality(A \cup FaultyNode) >= Threshold
    PROVE  /\ IsFiniteSet(A) /\ Cardinality(A) \in Nat
           /\ Cardinality(A) + Cardinality(FaultyNode) >= Threshold
<1>1. IsFiniteSet(A)
    BY ClusterAssumption, FS_Subset
<1>2. A \cap FaultyNode = {}
    BY ClusterAssumption
<1>3. Cardinality(A \cup FaultyNode) = Cardinality(A) + Cardinality(FaultyNode) - 0
    BY <1>1, <1>2, ClusterAssumption, FS_Union, FS_EmptySet
<1> QED BY <1>1, <1>3, FS_CardinalityType, ThresholdBound

\* Faulty nodes alone do not make a threshold.
LEMMA SomeSigner ==
    ASSUME NEW A \in SUBSET Node, Cardinality(A \cup FaultyNode) >= Threshold
    PROVE  A # {}
<1>1. Cardinality({}) = 0
    BY FS_EmptySet
<1>2. Cardinality(A) + Cardinality(FaultyNode) >= Threshold
    BY SignersBound
<1> QED BY <1>1, <1>2, ThresholdBound

\* Two thresholds have a correct node in common.
LEMMA ThresholdsIntersect ==
    ASSUME NEW A \in SUBSET Node, Cardinality(A \cup FaultyNode) >= Threshold,
           NEW B \in SUBSET Node, Cardinality(B \cup FaultyNode) >= Threshold
    PROVE  A \cap B # {}
<1> SUFFICES ASSUME A \cap B = {} PROVE FALSE
    OBVIOUS
<1> DEFINE a == Cardinality(A)
           b == Cardinality(B)
           f == Cardinality(FaultyNode)
<1>1. IsFiniteSet(A) /\ IsFiniteSet(B) /\ a \in Nat /\ b \in Nat
    BY SignersBound
<1>2. a + f >= Threshold /\ b + f >= Threshold
    BY SignersBound
<1>3. IsFiniteSet(A \cup B) /\ Cardinality(A \cup B) = a + b - 0
    BY <1>1, FS_Union, FS_EmptySet
<1>4. (A \cup B) \cap FaultyNode = {}
    BY ClusterAssumption
<1>5. Cardinality((A \cup B) \cup FaultyNode) = Cardinality(A \cup B) + f - 0
    BY <1>3, <1>4, ClusterAssumption, FS_Union, FS_EmptySet
<1>6. Cardinality((A \cup B) \cup FaultyNode) <= Shares
  <2>1. IsFiniteSet(Node \cup FaultyNode)
    BY ClusterAssumption, FS_Union
  <2>2. (A \cup B) \cup FaultyNode \in SUBSET (Node \cup FaultyNode)
    OBVIOUS
  <2> QED BY <2>1, <2>2, FS_Subset DEF Shares
<1>7. a + b + f <= Shares
    BY <1>1, <1>3, <1>5, <1>6, ThresholdBound
<1> QED BY <1>1, <1>2, <1>7, ThresholdBound

\* More signatures, or help of all faulty nodes, do not undo a threshold.
LEMMA ThresholdGrows ==
    ASSUME NEW A \in SUBSET Node, NEW B \in SUBSET Node, A \subseteq B,
           NEW J \in SUBSET FaultyNode, Cardinality(A \cup J) >= Threshold
    PROVE  Cardinality(B \cup FaultyNode) >= Threshold
<1>1. IsFiniteSet(B \cup FaultyNode)
    BY ClusterAssumption, FS_Subset, FS_Union
<1>2. A \cup J \in SUBSET (B \cup FaultyNode)
    OBVIOUS
<1>3. IsFiniteSet(A \cup J) /\ Cardinality(A \cup J) <= Cardinality(B \cup FaultyNode)
    BY <1>1, <1>2, FS_Subset
<1>4. Cardinality(A \cup J) \in Nat /\ Cardinality(B \cup FaultyNode) \in Nat
    BY <1>1, <1>3, FS_CardinalityType
<1> QED BY <1>3, <1>4, ThresholdBound

-----------------------------------------------------------------------------
(* The invariant.                                                          *)

\* The workflow starts with empty databases.
LEMMA InitIInv == Init => IInv
<1> SUFFICES ASSUME Init PROVE IInv
    OBVIOUS
<1>1. TypeInv
    BY DataAssumption DEF Init, TypeInv, Value, Opt, PerNode, Participants
<1>2. StoredWasDecided /\ SentWasSigned /\ AggregatedIsQuorate
    BY DEF Init, PerNode, StoredWasDecided, SentWasSigned, AggregatedIsQuorate
<1>3. WellTyped
    BY DEF Init, PerNode, WellTyped, Kind
<1> QED BY <1>1, <1>2, <1>3 DEF IInv

\* The data of a duty is data.
LEMMA KindIsOpt == \A k : Data(k) \subseteq Value /\ Kind(k) \subseteq Opt /\ None \notin Value
    BY DataAssumption DEF Data, Value, Opt, Kind

\* What a client signs is data of the duty, and the decision if the duty is agreed
\* upon.
LEMMA SignsType ==
    ASSUME IInv, NEW n \in Node, NEW k \in Duties
    PROVE  /\ Signs(n, k) \in Kind(k)
           /\ k \in Scheduled => Signs(n, k) \in {None, decided[k]}
           /\ client[n][k] # None => Signs(n, k) = client[n][k]
<1>1. k \notin Scheduled => ClientData(n, k) \in Kind(k)
  <2>1. (CHOOSE r \in Root : TRUE) \in Root /\ head[n] \in Root
    BY DataAssumption DEF IInv, TypeInv
  <2>2. k \notin Scheduled => Data(k) = Root
    BY DEF Data, Scheduled, Aggregates
  <2> QED BY <2>1, <2>2 DEF ClientData, Kind
<1>2. dutydb[n][k] \in Kind(k) /\ client[n][k] \in Kind(k) /\ None \in Kind(k)
    BY DEF IInv, WellTyped, Kind
<1>3. k \in Scheduled => {dutydb[n][k], client[n][k]} \subseteq {None, decided[k]}
    BY DEF IInv, StoredWasDecided
<1>4. k \in Scheduled => ToSign(n, k) \in {None, dutydb[n][k]}
  <2>1. Queried(n, k) \in {None, dutydb[n][k]}
    BY DEF Queried
  <2> QED BY <2>1 DEF ToSign
<1>5. k \notin Scheduled => ToSign(n, k) = ClientData(n, k)
    BY DEF ToSign, Scheduled, Aggregates
<1>6. Signs(n, k) = IF client[n][k] = None THEN ToSign(n, k) ELSE client[n][k]
    BY DEF Signs
<1> QED BY <1>1, <1>2, <1>3, <1>4, <1>5, <1>6

\* A threshold that has signed has signed for good, if no signature is taken back.
LEMMA QuorateKept ==
    ASSUME IInv, last' = last, sent' \in [Node -> [Duties -> Opt]],
           \A n \in Node : \A k \in Duties : sent[n][k] # None => sent'[n][k] = sent[n][k]
    PROVE  \A k \in Duties : \A r \in Value : Quorate(k, r) => Quorate(k, r)'
<1> SUFFICES ASSUME NEW k \in Duties, NEW r \in Value, Quorate(k, r)
             PROVE  Quorate(k, r)'
    OBVIOUS
<1>1. Signers(k, r) \subseteq Signers(k, r)'
    BY KindIsOpt DEF Signers
<1>2. Signers(k, r) \in SUBSET Node /\ Signers(k, r)' \in SUBSET Node
    BY DEF Signers
<1>3. Cardinality(Signers(k, r)' \cup FaultyNode) >= Threshold
    BY <1>1, <1>2, ThresholdGrows DEF Quorate
<1> QED BY <1>3 DEF Quorate

\* AggregatedIsQuorate survives any step that takes back no signature and
\* aggregates none.
LEMMA AggregatedKept ==
    ASSUME IInv, last' = last, sent' \in [Node -> [Duties -> Opt]], submitted' = submitted,
           \A n \in Node : \A k \in Duties : sent[n][k] # None => sent'[n][k] = sent[n][k],
           \A n \in Node : \A k \in Duties : aggsigdb'[n][k] \in {None, aggsigdb[n][k]}
    PROVE  AggregatedIsQuorate'
<1>1. Duties' = Duties
    BY DEF Duties
<1>2. \A k \in Duties : \A r \in Value : Quorate(k, r) => Quorate(k, r)'
    BY QuorateKept
<1>3. ASSUME NEW k \in Duties, NEW n \in Node, aggsigdb'[n][k] # None
      PROVE  Quorate(k, aggsigdb[n][k])'
  <2>0. aggsigdb'[n][k] = aggsigdb[n][k] /\ aggsigdb[n][k] \in Value
    BY <1>3 DEF IInv, TypeInv, Opt
  <2>1. PICK r \in Value : r = aggsigdb[n][k] /\ r = aggsigdb'[n][k]
    BY <2>0
  <2>2. Quorate(k, r)
    BY <1>3, <2>1 DEF IInv, AggregatedIsQuorate
  <2>3. Quorate(k, r)'
    BY <1>2, <2>2
  <2> QED BY <2>1, <2>3 DEF Quorate, Signers
<1>4. ASSUME NEW k \in Duties, NEW r \in submitted[k]
      PROVE  Quorate(k, r)'
  <2>1. r \in Value /\ Quorate(k, r)
    BY <1>4 DEF IInv, TypeInv, AggregatedIsQuorate
  <2> QED BY <1>2, <2>1
<1> QED BY <1>1, <1>3, <1>4 DEF AggregatedIsQuorate

\* Steps that change no signature: Fetch, Decide, Store and LeftBehind.
LEMMA AgreementKeeps ==
    ASSUME IInv, UNCHANGED <<inputs, signing>>,
           running' \in [Duties -> SUBSET Node], proposals' \in [Duties -> SUBSET Value],
           decided' \in [Duties -> Opt], dutydb' \in [Node -> [Duties -> Opt]],
           \A k \in Duties : decided[k] # None => decided'[k] = decided[k],
           \A k \in Duties : \A n \in Node :
              dutydb'[n][k] \in {None, dutydb[n][k], decided'[k]},
           \A k \in Duties : proposals'[k] \subseteq Data(k) /\ decided'[k] \in Kind(k)
    PROVE  IInv'
<1>1. last' = last /\ head' = head /\ Duties' = Duties /\ client' = client /\ sent' = sent
      /\ aggsigdb' = aggsigdb /\ submitted' = submitted
    BY DEF inputs, signing, Duties
<1>2. TypeInv'
    BY <1>1 DEF IInv, TypeInv
<1>3. StoredWasDecided'
  <2> SUFFICES ASSUME NEW k \in Duties \cap Scheduled, NEW n \in Node
               PROVE  dutydb'[n][k] \in {None, decided'[k]} /\ client'[n][k] \in {None, decided'[k]}
    BY <1>1 DEF StoredWasDecided
  <2>1. dutydb[n][k] \in {None, decided[k]} /\ client[n][k] \in {None, decided[k]}
    BY DEF IInv, StoredWasDecided
  <2> QED BY <1>1, <2>1
<1>4. SentWasSigned'
    BY <1>1 DEF IInv, SentWasSigned
<1>5. AggregatedIsQuorate'
    BY <1>1 DEF IInv, AggregatedIsQuorate, Quorate, Signers
<1>6. WellTyped'
  <2> SUFFICES ASSUME NEW k \in Duties, NEW n \in Node
               PROVE  /\ dutydb'[n][k] \in Kind(k) /\ client[n][k] \in Kind(k)
                      /\ sent[n][k] \in Kind(k) /\ aggsigdb[n][k] \in Kind(k)
    BY <1>1 DEF WellTyped, Kind, Data
  <2>1. /\ dutydb[n][k] \in Kind(k) /\ client[n][k] \in Kind(k) /\ None \in Kind(k)
        /\ sent[n][k] \in Kind(k) /\ aggsigdb[n][k] \in Kind(k) /\ decided'[k] \in Kind(k)
    BY DEF IInv, WellTyped, Kind
  <2> QED BY <2>1
<1> QED BY <1>2, <1>3, <1>4, <1>5, <1>6 DEF IInv

\* What a node proposes is data of the duty: what it waits for is there.
LEMMA FetchedType ==
    ASSUME IInv, NEW n \in Node, NEW k \in Duties, Ready(n, k), k \in Scheduled,
           k \in Aggregates => selected
    PROVE  Fetched(n, k) \in Data(k)
<1>1. head[n] \in Root
    BY DEF IInv, TypeInv
<1>2. CASE k = "aggregator"
  <2>1. "attester" \in Duties
    BY <1>2 DEF Duties, AggSigs, AttData, IInv, TypeInv, LastDuty
  <2>2. dutydb[n]["attester"] \in Root
    BY <1>2, <2>1 DEF IInv, WellTyped, Kind, Data, Ready, AttData, Aggregates
  <2> QED BY <1>1, <1>2, <2>2 DEF Fetched, Data, Aggregates
<1>3. CASE k = "contribution"
  <2>1. "sync_message" \in Duties
    BY <1>3 DEF Duties, AggSigs, AttData, IInv, TypeInv, LastDuty
  <2>2. aggsigdb[n]["sync_message"] \in Root
    BY <1>3, <2>1 DEF IInv, WellTyped, Kind, Data, Ready, AggSigs, Aggregates
  <2> QED BY <1>1, <1>3, <2>2 DEF Fetched, Data, Aggregates
<1>4. CASE k \notin Aggregates
    BY <1>1, <1>4 DEF Fetched, Data, Aggregates
<1> QED BY <1>2, <1>3, <1>4 DEF Aggregates

\* Fetch, and the proposal it makes, keep the invariant.
LEMMA FetchKeeps ==
    ASSUME IInv, NEW n \in Node, NEW k \in Duties, Fetch(n, k)
    PROVE  IInv'
<1>1. UNCHANGED <<inputs, decided, dutydb, signing>>
    BY DEF Fetch
<1>2. running' \in [Duties -> SUBSET Node]
  <2>1. running' = running \/ running' = [running EXCEPT ![k] = @ \cup {n}]
    BY DEF Fetch
  <2>2. running \in [Duties -> SUBSET Node]
    BY DEF IInv, TypeInv
  <2>3. running[k] \cup {n} \in SUBSET Node
    BY <2>2
  <2> QED BY <2>1, <2>2, <2>3
<1>3. proposals \in [Duties -> SUBSET Value] /\ \A d \in Duties : proposals[d] \subseteq Data(d)
    BY DEF IInv, TypeInv, WellTyped
<1>4. proposals' = proposals
      \/ \E v \in Data(k) : proposals' = [proposals EXCEPT ![k] = @ \cup {v}]
  <2>1. CASE k \in Aggregates /\ ~ selected
    BY <2>1 DEF Fetch
  <2>2. CASE ~ (k \in Aggregates /\ ~ selected)
    <3>1. Fetched(n, k) \in Data(k)
      BY <2>2, FetchedType DEF Fetch
    <3>2. proposals' = [proposals EXCEPT ![k] = @ \cup {Fetched(n, k)}]
      BY <2>2 DEF Fetch
    <3> QED BY <3>1, <3>2
  <2> QED BY <2>1, <2>2
<1>5. proposals' \in [Duties -> SUBSET Value] /\ \A d \in Duties : proposals'[d] \subseteq Data(d)
  <2>1. CASE proposals' = proposals
    BY <1>3, <2>1
  <2>2. ASSUME NEW v \in Data(k), proposals' = [proposals EXCEPT ![k] = @ \cup {v}]
        PROVE  /\ proposals' \in [Duties -> SUBSET Value]
               /\ \A d \in Duties : proposals'[d] \subseteq Data(d)
    <3>1. proposals[k] \cup {v} \in SUBSET Value /\ proposals[k] \cup {v} \subseteq Data(k)
      BY <1>3, KindIsOpt
    <3> QED BY <1>3, <2>2, <3>1
  <2> QED BY <1>4, <2>1, <2>2
<1>6. /\ decided' \in [Duties -> Opt] /\ dutydb' \in [Node -> [Duties -> Opt]]
      /\ \A d \in Duties : decided'[d] \in Kind(d)
    BY <1>1 DEF IInv, TypeInv, WellTyped
<1> QED BY <1>1, <1>2, <1>5, <1>6, AgreementKeeps

\* The decision of consensus keeps it.
LEMMA DecideKeeps ==
    ASSUME IInv, NEW k \in Duties, NEW J, Decide(k, J)
    PROVE  IInv'
<1>1. PICK v \in Data(k) : decided' = [decided EXCEPT ![k] = v]
    BY DEF IInv, WellTyped, Decide
<1>2. UNCHANGED <<inputs, running, proposals, dutydb, signing>> /\ decided[k] = None
    BY DEF Decide
<1>3. v \in Opt /\ v \in Kind(k)
    BY KindIsOpt DEF Kind
<1>4. decided' \in [Duties -> Opt] /\ \A d \in Duties : decided'[d] \in Kind(d)
    BY <1>1, <1>3 DEF IInv, TypeInv, WellTyped
<1>5. \A d \in Duties : decided[d] # None => decided'[d] = decided[d]
    BY <1>1, <1>2 DEF IInv, TypeInv
<1>6. /\ running' \in [Duties -> SUBSET Node] /\ proposals' \in [Duties -> SUBSET Value]
      /\ dutydb' \in [Node -> [Duties -> Opt]] /\ \A d \in Duties : proposals'[d] \subseteq Data(d)
    BY <1>2 DEF IInv, TypeInv, WellTyped
<1> QED BY <1>2, <1>4, <1>5, <1>6, AgreementKeeps

\* So does a node that no longer learns it.
LEMMA LeftBehindKeeps ==
    ASSUME IInv, NEW n \in Node, NEW k \in Duties, LeftBehind(n, k)
    PROVE  IInv'
<1>1. UNCHANGED <<inputs, running, proposals, decided, dutydb, signing>>
    BY DEF LeftBehind
<1>2. /\ running' \in [Duties -> SUBSET Node] /\ proposals' \in [Duties -> SUBSET Value]
      /\ decided' \in [Duties -> Opt] /\ dutydb' \in [Node -> [Duties -> Opt]]
      /\ \A d \in Duties : proposals'[d] \subseteq Data(d) /\ decided'[d] \in Kind(d)
    BY <1>1 DEF IInv, TypeInv, WellTyped
<1> QED BY <1>1, <1>2, AgreementKeeps

\* The store of a decision in DutyDB keeps it.
LEMMA StoreKeeps ==
    ASSUME IInv, NEW n \in Node, NEW k \in Duties, Store(n, k)
    PROVE  IInv'
<1>1. /\ UNCHANGED <<inputs, running, proposals, decided, signing>>
      /\ dutydb' = [dutydb EXCEPT ![n][k] = decided[k]]
    BY DEF Store
<1>2. dutydb' \in [Node -> [Duties -> Opt]]
    BY <1>1 DEF IInv, TypeInv
<1>3. \A d \in Duties : \A p \in Node : dutydb'[p][d] \in {None, dutydb[p][d], decided'[d]}
    BY <1>1 DEF IInv, TypeInv
<1>4. /\ running' \in [Duties -> SUBSET Node] /\ proposals' \in [Duties -> SUBSET Value]
      /\ decided' \in [Duties -> Opt]
      /\ \A d \in Duties : proposals'[d] \subseteq Data(d) /\ decided'[d] \in Kind(d)
    BY <1>1 DEF IInv, TypeInv, WellTyped
<1> QED BY <1>1, <1>2, <1>3, <1>4, AgreementKeeps

\* A submission: what the client signed before stays, so that a signature that
\* was counted is still there.
LEMMA SubmitKeeps ==
    ASSUME IInv, NEW n \in Node, NEW k \in Duties, Submit(n, k)
    PROVE  IInv'
<1> DEFINE root == Signs(n, k)
<1>1. /\ root \in Kind(k) /\ root \in Opt
      /\ (k \in Scheduled => root \in {None, decided[k]})
      /\ (client[n][k] # None => root = client[n][k])
    BY SignsType, KindIsOpt
<1>2. /\ UNCHANGED <<inputs, running, proposals, decided, dutydb, aggsigdb, submitted>>
      /\ client' = [client EXCEPT ![n][k] = root] /\ sent' = [sent EXCEPT ![n][k] = root]
      /\ sent[n][k] = None
    BY DEF Submit
<1>3. last' = last /\ head' = head /\ Duties' = Duties
    BY <1>2 DEF inputs, Duties
<1> HIDE DEF root
<1>4. client' \in [Node -> [Duties -> Opt]] /\ sent' \in [Node -> [Duties -> Opt]]
    BY <1>1, <1>2 DEF IInv, TypeInv
<1>5. TypeInv'
    BY <1>2, <1>3, <1>4 DEF IInv, TypeInv
<1>6. \A p \in Node : \A d \in Duties :
          /\ client'[p][d] = IF p = n /\ d = k THEN root ELSE client[p][d]
          /\ sent'[p][d] = IF p = n /\ d = k THEN root ELSE sent[p][d]
    BY <1>2 DEF IInv, TypeInv
<1>7. StoredWasDecided'
    BY <1>1, <1>2, <1>3, <1>6 DEF IInv, StoredWasDecided
<1>8. SentWasSigned'
    BY <1>3, <1>6 DEF IInv, SentWasSigned
<1>9. AggregatedIsQuorate'
  <2>1. \A p \in Node : \A d \in Duties : sent[p][d] # None => sent'[p][d] = sent[p][d]
    BY <1>2, <1>6
  <2> QED BY <1>2, <1>3, <1>4, <2>1, AggregatedKept
<1>10. WellTyped'
    BY <1>1, <1>2, <1>3, <1>6 DEF IInv, WellTyped, Kind, Data
<1> QED BY <1>5, <1>7, <1>8, <1>9, <1>10 DEF IInv

\* An aggregation: the signatures that SigAgg combines are a threshold.
LEMMA AggregateKeeps ==
    ASSUME IInv, NEW n \in Node, NEW k \in Duties, NEW root \in Data(k),
           NEW J \in SUBSET FaultyNode, Aggregate(n, k, root, J)
    PROVE  IInv'
<1>0. root \in Value /\ root \in Opt /\ root \in Kind(k)
    BY KindIsOpt DEF Kind, Opt
<1>1. /\ UNCHANGED <<inputs, running, proposals, decided, dutydb, client, sent>>
      /\ aggsigdb' = [aggsigdb EXCEPT ![n][k] = root]
      /\ submitted' = [submitted EXCEPT ![k] = IF k \in Internal THEN {} ELSE @ \cup {root}]
      /\ Cardinality(Signers(k, root) \cup J) >= Threshold
    BY DEF Aggregate
<1>2. last' = last /\ head' = head /\ Duties' = Duties
    BY <1>1 DEF inputs, Duties
<1>3. aggsigdb' \in [Node -> [Duties -> Opt]]
    BY <1>0, <1>1 DEF IInv, TypeInv
<1>4. submitted' \in [Duties -> SUBSET Value]
  <2> DEFINE more == IF k \in Internal THEN {} ELSE submitted[k] \cup {root}
  <2>1. submitted \in [Duties -> SUBSET Value]
    BY DEF IInv, TypeInv
  <2>2. more \in SUBSET Value
    BY <1>0, <2>1
  <2>3. submitted' = [submitted EXCEPT ![k] = more]
    BY <1>1
  <2> HIDE DEF more
  <2> QED BY <2>1, <2>2, <2>3
<1>5. TypeInv'
    BY <1>1, <1>2, <1>3, <1>4 DEF IInv, TypeInv
<1>6. StoredWasDecided' /\ SentWasSigned'
    BY <1>1, <1>2 DEF IInv, StoredWasDecided, SentWasSigned
<1>7. Quorate(k, root)
  <2>1. Signers(k, root) \in SUBSET Node
    BY DEF Signers
  <2> QED BY <1>1, <2>1, ThresholdGrows DEF Quorate
<1>8. AggregatedIsQuorate'
  <2>1. \A d : \A r : Quorate(d, r)' <=> Quorate(d, r)
    BY <1>1 DEF Quorate, Signers
  <2>2. \A p \in Node : \A d \in Duties :
            aggsigdb'[p][d] = IF p = n /\ d = k THEN root ELSE aggsigdb[p][d]
    BY <1>1 DEF IInv, TypeInv
  <2>3. \A d \in Duties : submitted'[d] \subseteq submitted[d] \cup (IF d = k THEN {root} ELSE {})
    BY <1>1 DEF IInv, TypeInv
  <2>4. \A p \in Node : \A d \in Duties : aggsigdb'[p][d] # None => Quorate(d, aggsigdb'[p][d])
    BY <1>7, <2>2 DEF IInv, AggregatedIsQuorate
  <2>5. \A d \in Duties : \A r \in submitted'[d] : Quorate(d, r)
    BY <1>7, <2>3 DEF IInv, AggregatedIsQuorate
  <2> QED BY <1>1, <1>2, <2>4, <2>5 DEF AggregatedIsQuorate, Quorate, Signers
<1>9. WellTyped'
  <2>1. \A p \in Node : \A d \in Duties :
            aggsigdb'[p][d] = IF p = n /\ d = k THEN root ELSE aggsigdb[p][d]
    BY <1>1 DEF IInv, TypeInv
  <2> QED BY <1>0, <1>1, <1>2, <2>1 DEF IInv, WellTyped, Kind, Data
<1> QED BY <1>5, <1>6, <1>8, <1>9 DEF IInv

\* A restart empties the databases of a node, not the memory of its client nor
\* of its peers.
LEMMA RestartKeeps ==
    ASSUME IInv, NEW n \in Node, Restart(n)
    PROVE  IInv'
<1> DEFINE root == Signs(n, last)
           empty == [d \in Duties |-> None]
<1>0. last \in Duties
    BY DEF Duties
<1>1. /\ root \in Kind(last) /\ root \in Opt /\ (last \in Scheduled => root \in {None, decided[last]})
      /\ (client[n][last] # None => root = client[n][last])
    BY <1>0, SignsType, KindIsOpt
<1>2. /\ UNCHANGED <<inputs, proposals, decided, sent, submitted>>
      /\ client' = [client EXCEPT ![n][last] = root]
      /\ dutydb' = [dutydb EXCEPT ![n] = empty] /\ aggsigdb' = [aggsigdb EXCEPT ![n] = empty]
    BY DEF Restart
<1>3. last' = last /\ head' = head /\ Duties' = Duties
    BY <1>2 DEF inputs, Duties
<1>4. empty \in [Duties -> Opt] /\ \A d \in Duties : empty[d] = None
    BY DEF Opt
<1>5. running' \in [Duties -> SUBSET Node]
    BY DEF IInv, TypeInv, Restart
<1> HIDE DEF root, empty
<1>6. client' \in [Node -> [Duties -> Opt]]
    BY <1>0, <1>1, <1>2 DEF IInv, TypeInv
<1>7. dutydb' \in [Node -> [Duties -> Opt]] /\ aggsigdb' \in [Node -> [Duties -> Opt]]
    BY <1>2, <1>4 DEF IInv, TypeInv
<1>8. TypeInv'
    BY <1>2, <1>3, <1>5, <1>6, <1>7 DEF IInv, TypeInv
<1>9. \A p \in Node : \A d \in Duties :
          /\ client'[p][d] = IF p = n /\ d = last THEN root ELSE client[p][d]
          /\ dutydb'[p][d] \in {None, dutydb[p][d]}
          /\ aggsigdb'[p][d] \in {None, aggsigdb[p][d]}
    BY <1>0, <1>2, <1>4 DEF IInv, TypeInv
<1>10. StoredWasDecided'
    BY <1>1, <1>2, <1>3, <1>9 DEF IInv, StoredWasDecided
<1>11. SentWasSigned'
    BY <1>1, <1>2, <1>3, <1>9 DEF IInv, SentWasSigned
<1>12. AggregatedIsQuorate'
  <2>1. sent' = sent /\ sent' \in [Node -> [Duties -> Opt]]
    BY <1>2 DEF IInv, TypeInv
  <2> QED BY <1>2, <1>3, <1>9, <2>1, AggregatedKept
<1>13. WellTyped'
  <2>1. \A d \in Duties : None \in Kind(d)
    BY DEF Kind
  <2> QED BY <1>1, <1>2, <1>3, <1>9, <2>1 DEF IInv, WellTyped, Kind, Data
<1> QED BY <1>8, <1>10, <1>11, <1>12, <1>13 DEF IInv

\* Every step preserves the invariant.
LEMMA NextIInv == IInv /\ [Next]_vars => IInv'
<1> SUFFICES ASSUME IInv, [Next]_vars PROVE IInv'
    OBVIOUS
<1>1. ASSUME NEW k \in Duties, NEW J \in SUBSET FaultyNode,
             \/ Decide(k, J)
             \/ \E n \in Node : Fetch(n, k) \/ Store(n, k) \/ Submit(n, k)
             \/ \E n \in Node, r \in Data(k) : Aggregate(n, k, r, J)
      PROVE  IInv'
    BY <1>1, DecideKeeps, FetchKeeps, StoreKeeps, SubmitKeeps, AggregateKeeps
<1>2. CASE Progress
  <2>1. {} \in SUBSET FaultyNode
    OBVIOUS
  <2>2. PICK k \in Duties :
            \/ Decide(k, {})
            \/ \E n \in Node : Fetch(n, k) \/ Store(n, k) \/ Submit(n, k)
            \/ \E n \in Node, r \in Data(k) : Aggregate(n, k, r, {})
    BY <1>2 DEF Progress
  <2> QED BY <1>1, <2>1, <2>2
<1>3. CASE Joined
    BY <1>1, <1>3 DEF Joined
<1>4. CASE \E n \in Node : Restart(n)
    BY <1>4, RestartKeeps
<1>5. CASE \E n \in Node, k \in Duties : LeftBehind(n, k)
    BY <1>5, LeftBehindKeeps
<1>6. CASE UNCHANGED vars
  <2>1. TypeInv'
    BY <1>6 DEF vars, IInv, TypeInv, Duties
  <2>2. StoredWasDecided' /\ SentWasSigned'
    BY <1>6 DEF vars, IInv, StoredWasDecided, SentWasSigned, Duties
  <2>3. AggregatedIsQuorate'
    <3>1. /\ last' = last /\ sent' = sent /\ aggsigdb' = aggsigdb /\ submitted' = submitted
          /\ sent' \in [Node -> [Duties -> Opt]]
      BY <1>6 DEF vars, IInv, TypeInv
    <3> QED BY <3>1, AggregatedKept
  <2>4. WellTyped'
    BY <1>6 DEF vars, IInv, WellTyped, Duties, Kind, Data
  <2> QED BY <2>1, <2>2, <2>3, <2>4 DEF IInv
<1> QED BY <1>2, <1>3, <1>4, <1>5, <1>6 DEF Next

-----------------------------------------------------------------------------
(* Theorems.                                                               *)

\* Two roots that a threshold signed are equal: a correct node signed both.
LEMMA QuorateIsUnique ==
    ASSUME NEW k \in Duties, NEW r, NEW s, Quorate(k, r), Quorate(k, s)
    PROVE  r = s
<1>1. Signers(k, r) \in SUBSET Node /\ Signers(k, s) \in SUBSET Node
    BY DEF Signers
<1>2. Signers(k, r) \cap Signers(k, s) # {}
    BY <1>1, ThresholdsIntersect DEF Quorate
<1> QED BY <1>2 DEF Signers

\* A set without two elements has at most one.
LEMMA AtMostOne ==
    ASSUME NEW S, \A x, y \in S : x = y
    PROVE  Cardinality(S) <= 1
<1>1. CASE S = {}
    BY <1>1, FS_EmptySet
<1>2. CASE S # {}
  <2>1. PICK x \in S : S = {x}
    BY <1>2
  <2> QED BY <2>1, FS_Singleton
<1> QED BY <1>1, <1>2

\* The validator has at most one aggregated signature per duty, in every cluster of
\* which less than a third is faulty, whatever is proposed and signed, and
\* however often nodes restart.
THEOREM OneSignatureHolds == Spec => []OneSignature
<1>1. IInv => OneSignature
  <2> SUFFICES ASSUME IInv, NEW k \in Duties, NEW n \in Node, NEW p \in Node
               PROVE  Cardinality(({aggsigdb[n][k], aggsigdb[p][k]} \ {None}) \cup submitted[k]) <= 1
    BY DEF OneSignature
  <2> DEFINE S == ({aggsigdb[n][k], aggsigdb[p][k]} \ {None}) \cup submitted[k]
  <2>1. \A r \in S : Quorate(k, r)
    BY DEF IInv, AggregatedIsQuorate
  <2> HIDE DEF S
  <2>2. \A x, y \in S : x = y
    BY <2>1, QuorateIsUnique
  <2>3. Cardinality(S) <= 1
    BY <2>2, AtMostOne
  <2> QED BY <2>3 DEF S
<1> QED BY <1>1, InitIInv, NextIInv, PTL DEF Spec

\* What is signed, aggregated or submitted for a duty that the cluster agrees upon
\* is what consensus decided, in every such cluster.
THEOREM SignedWasDecidedHolds == Spec => []SignedWasDecided
<1>1. IInv => SignedWasDecided
  <2> SUFFICES ASSUME IInv, NEW k \in Duties \cap Scheduled, NEW n \in Node
               PROVE  {client[n][k], aggsigdb[n][k]} \cup submitted[k] \subseteq {None, decided[k]}
    BY DEF SignedWasDecided
  <2>1. ASSUME NEW r \in Opt, r # None, Quorate(k, r)
        PROVE  r = decided[k]
    <3>1. Signers(k, r) \in SUBSET Node
      BY DEF Signers
    <3>2. PICK p \in Node : sent[p][k] = r
      BY <2>1, <3>1, SomeSigner DEF Quorate, Signers
    <3>3. client[p][k] = r
      BY <2>1, <3>2 DEF IInv, SentWasSigned
    <3> QED BY <2>1, <3>3 DEF IInv, StoredWasDecided
  <2>2. client[n][k] \in {None, decided[k]}
    BY DEF IInv, StoredWasDecided
  <2>3. aggsigdb[n][k] \in {None, decided[k]}
    BY <2>1 DEF IInv, AggregatedIsQuorate, TypeInv
  <2>4. \A r \in submitted[k] : r \in Opt /\ r # None /\ Quorate(k, r)
    BY KindIsOpt DEF IInv, AggregatedIsQuorate, TypeInv, Value, Opt
  <2> QED BY <2>1, <2>2, <2>3, <2>4
<1> QED BY <1>1, InitIInv, NextIInv, PTL DEF Spec
=============================================================================
