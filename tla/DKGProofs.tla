----------------------------- MODULE DKGProofs ------------------------------
(***************************************************************************)
(* Proofs about DKG, for every set of nodes and every number of deposit    *)
(* amounts, restarts and failures: the nodes agree on what was broadcast,  *)
(* their shares fit, exchanges do not mix, and no node writes unless all   *)
(* of them can.                                                            *)
(***************************************************************************)
EXTENDS DKG, TLAPS

\* Most leaves are first-order: Zenon is tried before the SMT solver.
USE ZenonT(4), SMTT(20)

-----------------------------------------------------------------------------
(* The inductive invariant.                                                *)

CastMsg == [to : Node, from : Node, id : CastID, val : Nat \ {0}, sigs : SUBSET Node]
ShareMsg == [to : Node, from : Node, id : {"share"}, val : Nat]
ParSigMsg == {m \in [to : Node, from : Node, id : {"parsig"}, val : SigType] : m.from # m.to}

Place == {"round1", "shares", "await1", "round2", "await2", "sync", "deposit", "registration",
          "lock", "exchange", "deposited", "registered", "locked", "nodesig", "awaitSigs",
          "write", "written", "done", "failed"}

Number == Nat
Signatures == [Node -> [Node -> [CastID -> Number]]]
Casts == [Node -> [CastID -> [Node -> Number]]]
Shares == [Node -> [Node -> Number]]
PartialSigs == [Node -> [SigType -> SUBSET Node]]

CastTypes ==
    /\ pc \in [Node -> Place] /\ step \in [Node -> Nat] /\ proc \in [Node -> Nat \ {0}]
    /\ signed \in Signatures /\ casts \in Casts /\ shares \in Shares
    /\ sigs \in [Node -> SUBSET Node] /\ sent \in [Node -> SUBSET Node]
    /\ net \subseteq CastMsg \cup ShareMsg \cup ParSigMsg

SigTypes ==
    /\ parsigs \in PartialSigs
    /\ pushing \in [Node -> SUBSET SigType]
    /\ sigDatas \in [Node -> Seq(SigType)] /\ results \in [Node -> Seq(SigType)]

\* All peers have signed the message v of n with the ID, but for a peer that
\* has forgotten it: then n is the process that it was from the beginning.
Certified(n, id, v) ==
    /\ v \in 1 .. proc[n]
    /\ \A p \in Peers(n) : signed[p][n][id] = v \/ proc[p] # 1

OneRestarts == \A n, p \in Node : n # p => proc[n] = 1 \/ proc[p] = 1

ReceivedCertified(n) ==
    /\ \A id \in CastID, s \in Node : casts[n][id][s] # 0 => Certified(s, id, casts[n][id][s])
    /\ \A s \in Node : shares[n][s] # 0 => Certified(s, "round1", shares[n][s])

\* What a node has collected or received is certified, and shares are of a
\* process whose casts were certified first.
NodeCertified(n) ==
    /\ pc[n] \in CastID => \A p \in sigs[n] \cap Peers(n) :
                             signed[p][n][pc[n]] = proc[n] \/ proc[p] # 1
    /\ sigs[n] # {} => pc[n] \in CastID \cup {"failed"}
    /\ pc[n] = "shares" => Certified(n, "round1", proc[n])
    /\ ReceivedCertified(n)

MsgCertified(m) ==
    /\ m.id \in CastID => Certified(m.from, m.id, m.val)
    /\ m.id = "share" => Certified(m.from, "round1", m.val)

CastInv ==
    /\ CastTypes /\ OneRestarts
    /\ \A n \in Node : NodeCertified(n)
    /\ \A m \in net : MsgCertified(m)

\* The steps that the places of a node belong to, and how many exchanges it
\* has done there.
Steps(place) ==
    CASE place \in {"round1", "shares", "await1", "round2", "await2"} -> {1}
      [] place \in {"deposit", "deposited"} -> {2}
      [] place \in {"registration", "registered"} -> {3}
      [] place \in {"lock", "locked"} -> {4}
      [] place \in {"nodesig", "awaitSigs"} -> {5}
      [] place \in {"write", "written"} -> {6}
      [] place = "done" -> {7}
      [] place = "exchange" -> 2 .. 4
      [] place = "sync" -> 2 .. 7
      [] OTHER -> 1 .. 7

PlaceInv(n) ==
    LET k == Len(results[n]) IN
    /\ step[n] \in Steps(pc[n])
    /\ step[n] = 1 => k = 0
    /\ step[n] = 2 => /\ k <= NumAmounts
                      /\ pc[n] = "sync" => k = 0
                      /\ pc[n] \in {"deposit", "exchange"} => k < NumAmounts
                      /\ pc[n] = "deposited" => k = NumAmounts
    /\ step[n] = 3 => /\ k \in {NumAmounts, Registration}
                      /\ pc[n] \in {"sync", "registration", "exchange"} => k = NumAmounts
                      /\ pc[n] = "registered" => k = Registration
    /\ step[n] = 4 => /\ k \in {Registration, Lock}
                      /\ pc[n] \in {"sync", "lock", "exchange"} => k = Registration
                      /\ pc[n] = "locked" => k = Lock
    /\ step[n] >= 5 => k = Lock

\* A node stores its own signature of a type in the exchange of that type, so
\* that no other type can be complete then.
InExchange(n) == pc[n] \in {"exchange", "failed"} /\ step[n] # 1
Mine(n, t) == t < Current(n) \/ (t = Current(n) /\ InExchange(n))
Complete(n, t) == t = Current(n) /\ InExchange(n) /\ parsigs[n][t] = Node

ExchangeInv(n) ==
    /\ \A i \in 1 .. Len(results[n]) : results[n][i] = i /\ parsigs[n][i] = Node
    /\ \A t \in SigType : n \in parsigs[n][t] => Mine(n, t)
    /\ \A t \in pushing[n] : Complete(n, t) /\ sigDatas[n] = <<>>
    /\ sigDatas[n] # <<>> => /\ sigDatas[n] = <<Current(n)>> /\ Complete(n, Current(n))
                             /\ pushing[n] = {}

\* Once all nodes are at a step none of them is before it again.
WriteInv ==
    /\ written \subseteq Node
    /\ \A n \in Node : step[n] >= 6 => allSigs(n)
    /\ \A n \in Node : n \in written \/ pc[n] \in {"write", "written"} =>
                         \A p \in Node : step[p] >= 6

SigInv ==
    /\ SigTypes /\ \A n \in Node : PlaceInv(n) /\ ExchangeInv(n)

IInv == CastInv /\ SigInv /\ WriteInv

-----------------------------------------------------------------------------
(* Updates of functions of two and of three arguments.                     *)

Set3(f, a, b, c, v) == [f EXCEPT ![a][b][c] = v]
Set2(f, a, b, v) == [f EXCEPT ![a][b] = v]

\* Assigning to f[a][b][c] changes that value and no other: the signatures.
LEMMA SignsType ==
    ASSUME NEW f \in Signatures, NEW a \in Node, NEW b \in Node, NEW c \in CastID, NEW v \in Number
    PROVE  Set3(f, a, b, c, v) \in Signatures
<1>1. [f[a][b] EXCEPT ![c] = v] \in [CastID -> Number]
    BY DEF Signatures
<1>2. [f[a] EXCEPT ![b] = [f[a][b] EXCEPT ![c] = v]] \in [Node -> [CastID -> Number]]
    BY <1>1 DEF Signatures
<1> QED
    BY <1>2 DEF Signatures, Set3

\* The values it assigns.
LEMMA Signs ==
    ASSUME NEW f \in Signatures, NEW a \in Node, NEW b \in Node, NEW c \in CastID, NEW v
    PROVE  /\ \A x \in Node, y \in Node, z \in CastID :
                Set3(f, a, b, c, v)[x][y][z]
                  = IF x = a /\ y = b /\ z = c THEN v ELSE f[x][y][z]
           /\ \A x \in Node : x # a => Set3(f, a, b, c, v)[x] = f[x]
BY DEF Signatures, Set3

\* The same for the casts that are received.
LEMMA ReceivesType ==
    ASSUME NEW f \in Casts, NEW a \in Node, NEW b \in CastID, NEW c \in Node, NEW v \in Number
    PROVE  Set3(f, a, b, c, v) \in Casts
<1>1. [f[a][b] EXCEPT ![c] = v] \in [Node -> Number]
    BY DEF Casts
<1>2. [f[a] EXCEPT ![b] = [f[a][b] EXCEPT ![c] = v]] \in [CastID -> [Node -> Number]]
    BY <1>1 DEF Casts
<1> QED
    BY <1>2 DEF Casts, Set3

\* The values it assigns.
LEMMA Receives ==
    ASSUME NEW f \in Casts, NEW a \in Node, NEW b \in CastID, NEW c \in Node, NEW v
    PROVE  /\ \A x \in Node, y \in CastID, z \in Node :
                Set3(f, a, b, c, v)[x][y][z]
                  = IF x = a /\ y = b /\ z = c THEN v ELSE f[x][y][z]
           /\ \A x \in Node : x # a => Set3(f, a, b, c, v)[x] = f[x]
BY DEF Casts, Set3

\* A cast that is received removes no other.
LEMMA ReceivesMore ==
    ASSUME NEW f \in Casts, NEW a \in Node, NEW b \in CastID, NEW c \in Node, NEW v,
           v # 0, NEW x \in Node, NEW y \in CastID, NEW z \in Node, f[x][y][z] # 0
    PROVE  Set3(f, a, b, c, v)[x][y][z] # 0
<1>1. Set3(f, a, b, c, v)[x][y][z] \in {f[x][y][z], v}
    BY Receives
<1> QED
    BY <1>1

\* The same for the shares.
LEMMA SharedType ==
    ASSUME NEW f \in Shares, NEW a \in Node, NEW b \in Node, NEW v \in Number
    PROVE  Set2(f, a, b, v) \in Shares
BY DEF Set2, Shares

\* The values it assigns.
LEMMA Shared ==
    ASSUME NEW f \in Shares, NEW a \in Node, NEW b \in Node, NEW v
    PROVE  /\ \A x \in Node, y \in Node :
                Set2(f, a, b, v)[x][y] = IF x = a /\ y = b THEN v ELSE f[x][y]
           /\ \A x \in Node : x # a => Set2(f, a, b, v)[x] = f[x]
BY DEF Set2, Shares

-----------------------------------------------------------------------------
(* What is broadcast.                                                      *)

\* What no step takes back: a signature is forgotten only with a restart.
Keeps ==
    \A p \in Node :
        /\ proc[p] <= proc'[p]
        /\ \A n \in Node, id \in CastID :
              signed[p][n][id] # 0 => signed'[p][n][id] = signed[p][n][id] \/ proc'[p] # 1

\* What was certified stays certified.
LEMMA CertifiedKept ==
    ASSUME CastTypes, CastTypes', Keeps, NEW n \in Node, NEW id \in CastID, NEW v,
           Certified(n, id, v)
    PROVE  Certified(n, id, v)'
<1>1. v \in 1 .. proc[n] /\ v # 0 /\ proc[n] \in Nat /\ proc'[n] \in Nat
    BY DEF Certified, CastTypes
<1>2. v \in 1 .. proc'[n]
    BY <1>1 DEF Keeps
<1>3. ASSUME NEW p \in Peers(n)
      PROVE  signed'[p][n][id] = v \/ proc'[p] # 1
    <2>1. p \in Node /\ proc[p] \in Nat \ {0} /\ proc'[p] \in Nat
        BY DEF Peers, CastTypes
    <2>2. CASE signed[p][n][id] = v
        BY <1>1, <2>1, <2>2 DEF Keeps
    <2>3. CASE proc[p] # 1
        BY <2>1, <2>3 DEF Keeps
    <2> QED
        BY <2>2, <2>3 DEF Certified
<1> QED
    BY <1>2, <1>3 DEF Certified

\* Two messages of a node with one ID that all its peers have signed are the
\* same: a peer that forgot what it signed is the only one that restarted.
LEMMA CertifiedUnique ==
    ASSUME CastTypes, OneRestarts, NEW n \in Node, NEW id \in CastID, NEW v, NEW w,
           Certified(n, id, v), Certified(n, id, w), Peers(n) # {}
    PROVE  v = w
<1>1. PICK p \in Peers(n) : TRUE
    OBVIOUS
<1>2. p \in Node /\ p # n /\ proc[n] \in Nat
    BY DEF Peers, CastTypes
<1>3. CASE proc[p] = 1
    BY <1>1, <1>3 DEF Certified
<1>4. CASE proc[p] # 1
    <2>1. proc[n] = 1
        BY <1>2, <1>4 DEF OneRestarts
    <2> QED
        BY <2>1 DEF Certified
<1> QED
    BY <1>3, <1>4

\* What a node receives in a step is certified.
Gets(q) ==
    /\ \A id \in CastID, s \in Node :
          casts'[q][id][s] = casts[q][id][s] \/ Certified(s, id, casts[q][id][s])'
    /\ \A s \in Node : shares'[q][s] = shares[q][s] \/ Certified(s, "round1", shares[q][s])'

\* A node that collects no signatures and does not restart.
Calm(q) ==
    /\ proc'[q] = proc[q] /\ sigs'[q] = sigs[q] /\ Gets(q)
    /\ pc'[q] = pc[q] \/ pc'[q] = "failed" \/ (sigs[q] = {} /\ pc'[q] # "shares")

\* What a node has received stays certified.
LEMMA ReceivedKept ==
    ASSUME CastTypes, CastTypes', Keeps, NEW q \in Node, ReceivedCertified(q), Gets(q)
    PROVE  ReceivedCertified(q)'
<1>1. ASSUME NEW id \in CastID, NEW s \in Node, casts'[q][id][s] # 0,
             casts'[q][id][s] = casts[q][id][s]
      PROVE  Certified(s, id, casts[q][id][s])'
    <2>1. PICK v : v = casts[q][id][s]
        OBVIOUS
    <2>2. Certified(s, id, v)' /\ casts'[q][id][s] = v
        BY <1>1, <2>1, CertifiedKept DEF ReceivedCertified
    <2> QED
        BY <2>2
<1>2. ASSUME NEW s \in Node, shares'[q][s] # 0, shares'[q][s] = shares[q][s]
      PROVE  Certified(s, "round1", shares[q][s])'
    <2>1. PICK v : v = shares[q][s]
        OBVIOUS
    <2>2. Certified(s, "round1", v)' /\ shares'[q][s] = v
        BY <1>2, <2>1, CertifiedKept DEF ReceivedCertified, CastID
    <2> QED
        BY <2>2
<1> QED
    BY <1>1, <1>2 DEF Gets, ReceivedCertified

\* Such a node keeps its part of the invariant.
LEMMA CalmKeeps ==
    ASSUME CastTypes, CastTypes', Keeps, NEW q \in Node, NodeCertified(q), Calm(q)
    PROVE  NodeCertified(q)'
<1>1. ASSUME pc'[q] \in CastID
      PROVE  \A p \in sigs'[q] \cap Peers(q) : signed'[p][q][pc'[q]] = proc'[q] \/ proc'[p] # 1
    <2>1. CASE sigs[q] = {}
        BY <2>1 DEF Calm
    <2>2. CASE pc'[q] = pc[q]
        <3>1. ASSUME NEW p \in sigs[q] \cap Peers(q)
              PROVE  signed'[p][q][pc[q]] = proc[q] \/ proc'[p] # 1
            <4>1. p \in Node /\ proc[p] \in Nat \ {0} /\ proc'[p] \in Nat /\ proc[q] # 0
                BY DEF Peers, CastTypes
            <4>2. signed[p][q][pc[q]] = proc[q] \/ proc[p] # 1
                BY <1>1, <2>2 DEF NodeCertified
            <4> QED
                BY <1>1, <2>2, <4>1, <4>2 DEF Keeps
        <3> QED
            BY <2>2, <3>1 DEF Calm
    <2> QED
        BY <1>1, <2>1, <2>2 DEF Calm, CastID
<1>2. sigs'[q] # {} => pc'[q] \in CastID \cup {"failed"}
    BY DEF Calm, NodeCertified
<1>3. pc'[q] = "shares" => Certified(q, "round1", proc[q])'
    <2> SUFFICES ASSUME pc'[q] = "shares" PROVE Certified(q, "round1", proc[q])'
        OBVIOUS
    <2>1. pc[q] = "shares" /\ proc'[q] = proc[q]
        BY DEF Calm
    <2>2. Certified(q, "round1", proc[q])
        BY <2>1 DEF NodeCertified
    <2>3. PICK v : v = proc[q]
        OBVIOUS
    <2>4. Certified(q, "round1", v)'
        BY <2>2, <2>3, CertifiedKept DEF CastID
    <2> QED
        BY <2>1, <2>3, <2>4 DEF Certified
<1>4. ReceivedCertified(q)'
    BY ReceivedKept DEF Calm, NodeCertified
<1> QED
    BY <1>1, <1>2, <1>3, <1>4 DEF NodeCertified

\* Messages that were sent stay certified, and so do those that are sent with
\* a certified value.
LEMMA MsgKept ==
    ASSUME CastTypes, CastTypes', Keeps, NEW m \in net, MsgCertified(m)
    PROVE  MsgCertified(m)'
<1>1. m.from \in Node
    BY DEF CastTypes, CastMsg, ShareMsg, ParSigMsg
<1> QED
    BY <1>1, CertifiedKept DEF MsgCertified, CastID

-----------------------------------------------------------------------------
(* Types.                                                                  *)

\* The type of the exchange that a node is in, or begins.
LEMMA CurrentType ==
    ASSUME SigInv, NEW n \in Node, pc[n] \in Exchanging \cup {"exchange"}
    PROVE  /\ Current(n) \in SigType /\ Len(results[n]) \in Nat
           /\ step[n] \in 2 .. 4
           /\ step[n] = 2 => Current(n) <= NumAmounts
           /\ step[n] = 3 => Current(n) = Registration
           /\ step[n] = 4 => Current(n) = Lock
<1>1. Len(results[n]) \in Nat /\ PlaceInv(n)
    BY DEF SigInv, SigTypes
<1>2. step[n] \in 2 .. 4
    BY <1>1 DEF PlaceInv, Steps, Exchanging
<1> QED
    BY <1>1, <1>2, AmountsAssumption
    DEF PlaceInv, Steps, Exchanging, Current, SigType, Registration, Lock

\* Where a node goes on after an exchange.
LEMMA ExchangedTo ==
    ASSUME SigInv, NEW n \in Node, Exchanged(n)
    PROVE  \/ step[n] = 2 /\ Current(n) < NumAmounts /\ ToPC(n, "deposit")
           \/ step[n] = 2 /\ Current(n) = NumAmounts /\ ToPC(n, "deposited")
           \/ step[n] = 3 /\ Current(n) = Registration /\ ToPC(n, "registered")
           \/ step[n] = 4 /\ Current(n) = Lock /\ ToPC(n, "locked")
<1>1. pc[n] = "exchange"
    BY DEF Exchanged
<1>2. /\ Current(n) \in Nat /\ step[n] \in 2 .. 4
      /\ step[n] = 2 => Current(n) <= NumAmounts
      /\ step[n] = 3 => Current(n) = Registration
      /\ step[n] = 4 => Current(n) = Lock
    BY <1>1, CurrentType DEF Current
<1>3. PICK c \in Nat : c = Current(n)
    BY <1>2
<1>4. PICK x : /\ ToPC(n, x)
               /\ x = CASE c < NumAmounts -> "deposit"
                        [] c = NumAmounts -> "deposited"
                        [] c = NumAmounts + 1 -> "registered"
                        [] c = NumAmounts + 2 -> "locked"
    BY <1>3 DEF Exchanged, Registration, Lock
<1>5. /\ c < NumAmounts => x = "deposit"
      /\ c = NumAmounts => x = "deposited"
      /\ c = NumAmounts + 1 => x = "registered"
      /\ c = NumAmounts + 2 => x = "locked"
    BY <1>4, AmountsAssumption
<1> QED
    BY <1>2, <1>3, <1>4, <1>5, AmountsAssumption DEF Registration, Lock

\* What nextStepSync goes on with.
LEMMA AtStepPlace ==
    ASSUME NEW s \in 2 .. 7
    PROVE  /\ AtStep(s) \in Place \ {"shares", "failed", "exchange", "written", "sync"}
           /\ s \in Steps(AtStep(s))
           /\ AtStep(s) = "deposit" => s = 2
           /\ AtStep(s) = "write" <=> s = 6
           /\ AtStep(s) \notin {"deposited", "registered", "locked", "exchange"}
<1>1. s = 2 \/ s = 3 \/ s = 4 \/ s = 5 \/ s = 6 \/ s = 7
    OBVIOUS
<1> QED
    BY <1>1 DEF AtStep, Place, Steps

\* Every step keeps the types of what is broadcast.
LEMMA CastTypesStep ==
    ASSUME CastTypes, SigInv, Next
    PROVE  CastTypes'
<1> USE DEF CastTypes
<1>1. ASSUME NEW n \in Node, NEW p \in Node, RequestSig(n, p)
      PROVE  CastTypes'
    <2>1. pc[n] \in CastID /\ proc[n] \in Nat
        BY <1>1 DEF RequestSig
    <2>2. \/ /\ signed' = Set3(signed, p, n, pc[n], proc[n])
             /\ sigs' = [sigs EXCEPT ![n] = @ \cup {p}] /\ pc' = pc
          \/ pc' = [pc EXCEPT ![n] = "failed"] /\ signed' = signed /\ sigs' = sigs
        BY <1>1 DEF RequestSig, Fail, ToPC, Set3
    <2>3. UNCHANGED <<step, proc, sent, net, casts, shares>>
        BY <1>1 DEF RequestSig
    <2>4. signed' \in Signatures
        BY <2>1, <2>2, SignsType DEF Number
    <2>5. sigs' \in [Node -> SUBSET Node] /\ pc' \in [Node -> Place]
        BY <2>2 DEF Place
    <2> QED
        BY <2>3, <2>4, <2>5
<1>2. ASSUME NEW n \in Node, NEW p \in Node, SendCast(n, p)
      PROVE  CastTypes'
    <2>1. pc[n] \in CastID /\ proc[n] \in Nat
        BY <1>2 DEF SendCast
    <2>2. [to |-> p, from |-> n, id |-> pc[n], val |-> proc[n], sigs |-> sigs[n]] \in CastMsg
        BY <2>1 DEF CastMsg
    <2>3. net' \subseteq CastMsg \cup ShareMsg \cup ParSigMsg
        BY <1>2, <2>2 DEF SendCast
    <2>4. \/ /\ casts' = Set3(casts, n, pc[n], n, proc[n])
             /\ sigs' = [sigs EXCEPT ![n] = {}] /\ sent' = [sent EXCEPT ![n] = {}]
             /\ \E x \in {"shares", "await2", "awaitSigs"} : pc' = [pc EXCEPT ![n] = x]
          \/ /\ sent' = [sent EXCEPT ![n] = @ \cup {p}] /\ UNCHANGED <<pc, casts, sigs>>
        BY <1>2, <2>1 DEF SendCast, ToPC, CastID, Set3
    <2>5. casts' \in Casts
        BY <2>1, <2>4, ReceivesType DEF Number
    <2>6. /\ sigs' \in [Node -> SUBSET Node] /\ sent' \in [Node -> SUBSET Node]
          /\ pc' \in [Node -> Place]
        BY <2>4 DEF Place
    <2>7. UNCHANGED <<step, proc, signed, shares>>
        BY <1>2 DEF SendCast
    <2> QED
        BY <2>3, <2>5, <2>6, <2>7
<1>3. ASSUME NEW n \in Node, SendShares(n)
      PROVE  CastTypes'
    <2>1. \A p \in Peers(n) :
            [to |-> p, from |-> n, id |-> "share", val |-> proc[n]] \in ShareMsg
        BY DEF Peers, ShareMsg
    <2> QED
        BY <1>3, <2>1 DEF SendShares, ToPC, Place
<1>4. ASSUME NEW n \in Node, Round1(n) \/ NextStep(n) \/ Exchanged(n) \/ Write(n)
                             \/ NodeFails(n) \/ PeerFailed(n)
      PROVE  CastTypes'
    <2>1. /\ \E x \in Place : pc' = [pc EXCEPT ![n] = x]
          /\ step' = step \/ step' = [step EXCEPT ![n] = @ + 1]
          /\ UNCHANGED <<proc, castVars, shares>>
        <3>1. CASE Round1(n)
            BY <3>1 DEF Round1, ToPC, Place, castVars
        <3>2. CASE NextStep(n)
            BY <3>2 DEF NextStep, ToPC, Place, castVars
        <3>3. CASE Exchanged(n)
            <4>2. \/ ToPC(n, "deposit") \/ ToPC(n, "deposited")
                  \/ ToPC(n, "registered") \/ ToPC(n, "locked")
                BY <3>3, ExchangedTo
            <4>3. UNCHANGED <<step, proc, castVars, shares>>
                BY <3>3 DEF Exchanged
            <4> QED
                BY <4>2, <4>3 DEF ToPC, Place
        <3>4. CASE Write(n)
            BY <3>4 DEF Write, ToPC, Place, castVars
        <3>5. CASE NodeFails(n) \/ PeerFailed(n)
            BY <3>5 DEF NodeFails, PeerFailed, Fail, ToPC, Place, castVars
        <3> QED
            BY <1>4, <3>1, <3>2, <3>3, <3>4, <3>5
    <2> QED
        BY <2>1 DEF castVars
<1>5. ASSUME NEW n \in Node, AwaitAllAtStep(n)
      PROVE  CastTypes'
    <2>1. step[n] \in 2 .. 7
        BY <1>5 DEF AwaitAllAtStep, SigInv, PlaceInv, Steps
    <2> QED
        BY <1>5, <2>1, AtStepPlace DEF AwaitAllAtStep, ToPC, castVars
<1>6. ASSUME NEW n \in Node, StoreInternal(n)
      PROVE  CastTypes'
    <2>1. Current(n) \in SigType
        BY <1>6, CurrentType DEF StoreInternal
    <2>2. \A p \in Peers(n) :
            [to |-> p, from |-> n, id |-> "parsig", val |-> Current(n)] \in ParSigMsg
        BY <2>1 DEF Peers, ParSigMsg
    <2> QED
        BY <1>6, <2>2 DEF StoreInternal, ToPC, Place
<1>7. ASSUME NEW n \in Node, NEW t \in SigType, Push(n, t)
      PROVE  CastTypes'
    BY <1>7 DEF Push, castVars
<1>8. ASSUME NEW m \in net, DeliverCast(m)
      PROVE  CastTypes'
    <2>1. m \in CastMsg
        BY <1>8 DEF DeliverCast, CastMsg, ShareMsg, ParSigMsg, CastID
    <2>2. casts' = Set3(casts, m.to, m.id, m.from, m.val)
        BY <1>8 DEF DeliverCast, Set3
    <2>3. casts' \in Casts
        BY <2>1, <2>2, ReceivesType DEF CastMsg, Number
    <2> QED
        BY <1>8, <2>3 DEF DeliverCast
<1>9. ASSUME NEW m \in net, DeliverShare(m)
      PROVE  CastTypes'
    <2>1. m \in ShareMsg
        BY <1>9 DEF DeliverShare, CastMsg, ShareMsg, ParSigMsg, CastID
    <2>2. shares' = Set2(shares, m.to, m.from, m.val)
        BY <1>9 DEF DeliverShare, Set2
    <2>3. shares' \in Shares
        BY <2>1, <2>2, SharedType DEF ShareMsg, Number
    <2> QED
        BY <1>9, <2>3 DEF DeliverShare, castVars
<1>10. ASSUME NEW m \in net, DeliverParSig(m)
       PROVE  CastTypes'
    BY <1>10 DEF DeliverParSig, castVars
<1>11. ASSUME NEW n \in Node, Restart(n)
       PROVE  CastTypes'
    <2>1. signed' \in Signatures
        BY <1>11 DEF Restart, Signatures, Number
    <2>2. casts' \in Casts
        BY <1>11 DEF Restart, Casts, Fresh, Number
    <2>3. shares' \in Shares
        BY <1>11 DEF Restart, Shares, Fresh, Number
    <2> QED
        BY <1>11, <2>1, <2>2, <2>3 DEF Restart, ToPC, Place
<1>12. ASSUME Terminated
       PROVE  CastTypes'
    BY <1>12 DEF Terminated, vars
<1> HIDE DEF CastTypes
<1> QED
    BY <1>1, <1>2, <1>3, <1>4, <1>5, <1>6, <1>7, <1>8, <1>9, <1>10, <1>11, <1>12
    DEF Next, Advance, Deliver

-----------------------------------------------------------------------------
(* Every step keeps what is broadcast certified.                           *)

\* It is enough to look at the node that moves and at the new messages.
LEMMA CastJoin ==
    ASSUME CastInv, CastTypes', Keeps, OneRestarts',
           \A q \in Node : Calm(q) \/ NodeCertified(q)', \A m \in net' \ net : MsgCertified(m)'
    PROVE  CastInv'
<1>1. \A q \in Node : NodeCertified(q)'
    BY CalmKeeps DEF CastInv
<1>2. \A m \in net' : MsgCertified(m)'
    BY MsgKept DEF CastInv
<1> QED
    BY <1>1, <1>2 DEF CastInv

\* Steps of the later parts of the ceremony, and failures.
LEMMA CalmStep ==
    ASSUME CastInv, CastTypes', UNCHANGED <<proc, signed, sigs, casts, shares>>,
           NEW n \in Node, NEW x, pc' = pc \/ pc' = [pc EXCEPT ![n] = x],
           x = "failed" \/ (sigs[n] = {} /\ x # "shares"),
           \A m \in net' \ net : m.id = "parsig"
    PROVE  CastInv'
<1>1. Keeps /\ OneRestarts'
    BY DEF Keeps, CastInv, CastTypes, OneRestarts
<1>2. \A q \in Node : Gets(q)
    BY DEF Gets
<1>3. \A q \in Node : Calm(q)
    BY <1>2 DEF Calm, CastInv, CastTypes
<1>4. \A m \in net' \ net : MsgCertified(m)'
    BY DEF MsgCertified, CastID
<1> QED
    BY <1>1, <1>3, <1>4, CastJoin

\* A peer signs: it has signed nothing else of this node with this ID.
LEMMA RequestSigKeeps ==
    ASSUME CastInv, CastTypes', NEW n \in Node, NEW p \in Node, RequestSig(n, p)
    PROVE  CastInv'
<1>t. CastTypes /\ NodeCertified(n) /\ OneRestarts
    BY DEF CastInv
<1>0. pc[n] \in CastID /\ p \in Peers(n) /\ proc[n] \in Nat \ {0}
      /\ UNCHANGED <<step, proc, sent, net, casts, shares>>
    BY <1>t DEF RequestSig, CastTypes
<1>1. CASE pc' = [pc EXCEPT ![n] = "failed"] /\ signed' = signed /\ sigs' = sigs
    BY <1>0, <1>1, CalmStep
<1>2. CASE /\ dedupHash(p, n, pc[n], proc[n])
           /\ signed' = Set3(signed, p, n, pc[n], proc[n])
           /\ sigs' = [sigs EXCEPT ![n] = @ \cup {p}] /\ pc' = pc
    <2>1. \A x \in Node, y \in Node, z \in CastID :
            signed'[x][y][z] = IF x = p /\ y = n /\ z = pc[n] THEN proc[n] ELSE signed[x][y][z]
        <3>1. signed \in Signatures /\ signed' = Set3(signed, p, n, pc[n], proc[n])
            BY <1>t, <1>2 DEF CastTypes
        <3> QED
            BY <1>0, <3>1, Signs
    <2>2. Keeps
        BY <1>t, <1>0, <1>2, <2>1 DEF Keeps, dedupHash, CastTypes
    <2>3. OneRestarts'
        BY <1>t, <1>0 DEF OneRestarts
    <2>4. \A q \in Node : Gets(q) /\ (q # n => Calm(q))
        BY <1>t, <1>0, <1>2 DEF Gets, Calm, CastTypes
    <2>5. NodeCertified(n)'
        <3>1. sigs'[n] = sigs[n] \cup {p} /\ pc'[n] = pc[n] /\ proc'[n] = proc[n]
            BY <1>t, <1>0, <1>2 DEF CastTypes
        <3>2. \A q \in sigs'[n] \cap Peers(n) : signed'[q][n][pc'[n]] = proc'[n] \/ proc'[q] # 1
            <4> SUFFICES ASSUME NEW q \in sigs[n] \cup {p}, q \in Peers(n), proc[q] = 1
                         PROVE  signed'[q][n][pc[n]] = proc[n]
                BY <1>0, <3>1
            <4>1. CASE q = p
                BY <1>0, <2>1, <4>1 DEF Peers
            <4>2. CASE q # p
                BY <1>t, <1>0, <2>1, <4>2 DEF Peers, NodeCertified
            <4> QED
                BY <4>1, <4>2
        <3>3. pc'[n] # "shares"
            BY <1>0, <3>1 DEF CastID
        <3>4. ReceivedCertified(n)'
            BY <1>t, <2>2, <2>4, ReceivedKept DEF NodeCertified
        <3> QED
            BY <1>0, <3>1, <3>2, <3>3, <3>4 DEF NodeCertified
    <2> QED
        BY <1>0, <2>2, <2>3, <2>4, <2>5, CastJoin
<1> QED
    BY <1>1, <1>2 DEF RequestSig, Fail, ToPC, Set3

\* The node sends what all its peers have signed, and takes it for received.
LEMMA SendCastKeeps ==
    ASSUME CastInv, CastTypes', NEW n \in Node, NEW p \in Node, SendCast(n, p)
    PROVE  CastInv'
<1>t. CastTypes /\ NodeCertified(n) /\ OneRestarts
    BY DEF CastInv
<1>0. /\ pc[n] \in CastID /\ sigs[n] = Peers(n) /\ proc[n] \in Nat \ {0}
      /\ UNCHANGED <<step, proc, signed, shares>>
    BY <1>t DEF SendCast, CastTypes
<1>1. \/ /\ casts' = Set3(casts, n, pc[n], n, proc[n])
         /\ sigs' = [sigs EXCEPT ![n] = {}]
         /\ \/ pc[n] = "round1" /\ pc' = [pc EXCEPT ![n] = "shares"]
            \/ \E y \in {"await2", "awaitSigs"} : pc' = [pc EXCEPT ![n] = y]
      \/ UNCHANGED <<pc, casts, sigs>>
    BY <1>0 DEF SendCast, ToPC, CastID, Set3
<1>2. PICK x : /\ net' = net \cup {x}
               /\ x = [to |-> p, from |-> n, id |-> pc[n], val |-> proc[n], sigs |-> sigs[n]]
    BY DEF SendCast
<1>3. Certified(n, pc[n], proc[n])
    <2>1. \A q \in Peers(n) : signed[q][n][pc[n]] = proc[n] \/ proc[q] # 1
        BY <1>t, <1>0 DEF NodeCertified
    <2> QED
        BY <1>0, <2>1 DEF Certified
<1>4. Keeps /\ OneRestarts'
    BY <1>t, <1>0 DEF Keeps, CastTypes, OneRestarts
<1>5. PICK v \in Nat, id \in CastID : v = proc[n] /\ id = pc[n]
    BY <1>0
<1>6. Certified(n, id, v)'
    BY <1>t, <1>3, <1>4, <1>5, CertifiedKept
<1>7. MsgCertified(x)'
    <2>1. x.id = id /\ x.from = n /\ x.val = v
        BY <1>2, <1>5
    <2> QED
        BY <1>6, <2>1 DEF MsgCertified, CastID
<1>8. \A q \in Node : Gets(q)
    <2>1. \A q, z \in Node, y \in CastID :
            casts'[q][y][z] = casts[q][y][z] \/ (z = n /\ y = id /\ casts'[q][y][z] = v)
        BY <1>t, <1>0, <1>1, <1>5, Receives DEF CastTypes
    <2> QED
        BY <1>0, <1>6, <2>1 DEF Gets
<1>9. \A q \in Node \ {n} : Calm(q)
    BY <1>t, <1>0, <1>1, <1>8 DEF Calm, CastTypes
<1>10. Calm(n) \/ NodeCertified(n)'
    <2>1. CASE UNCHANGED <<pc, casts, sigs>>
        BY <1>0, <1>8, <2>1 DEF Calm
    <2>2. CASE /\ sigs' = [sigs EXCEPT ![n] = {}]
               /\ \/ pc[n] = "round1" /\ pc' = [pc EXCEPT ![n] = "shares"]
                  \/ \E y \in {"await2", "awaitSigs"} : pc' = [pc EXCEPT ![n] = y]
        <3>1. sigs'[n] = {} /\ (pc'[n] = "shares" => pc[n] = "round1") /\ pc'[n] \notin CastID
            BY <1>t, <2>2 DEF CastTypes, CastID
        <3>2. ReceivedCertified(n)'
            BY <1>t, <1>4, <1>8, ReceivedKept DEF NodeCertified
        <3>3. pc'[n] = "shares" => Certified(n, "round1", proc[n])'
            BY <1>0, <1>5, <1>6, <3>1
        <3> QED
            BY <3>1, <3>2, <3>3 DEF NodeCertified
    <2> QED
        BY <1>1, <2>1, <2>2
<1> QED
    BY <1>2, <1>4, <1>7, <1>9, <1>10, CastJoin

\* The shares that are sent after the cast are of the process that cast.
LEMMA SendSharesKeeps ==
    ASSUME CastInv, CastTypes', NEW n \in Node, SendShares(n)
    PROVE  CastInv'
<1>t. CastTypes /\ NodeCertified(n) /\ OneRestarts
    BY DEF CastInv
<1>0. /\ pc[n] = "shares" /\ pc' = [pc EXCEPT ![n] = "await1"]
      /\ UNCHANGED <<proc, signed, sigs, casts, shares>>
    BY DEF SendShares, ToPC
<1>1. Keeps /\ OneRestarts'
    BY <1>t, <1>0 DEF Keeps, CastTypes, OneRestarts
<1>2. sigs[n] = {}
    BY <1>t, <1>0 DEF NodeCertified, CastID
<1>3. \A q \in Node : Gets(q)
    BY <1>0 DEF Gets
<1>4. \A q \in Node : Calm(q)
    BY <1>t, <1>0, <1>2, <1>3 DEF Calm, CastTypes
<1>5. PICK v \in Nat : v = proc[n]
    BY <1>t DEF CastTypes
<1>6. Certified(n, "round1", v)'
    <2>1. Certified(n, "round1", v)
        BY <1>t, <1>0, <1>5 DEF NodeCertified
    <2> QED
        BY <1>t, <1>1, <2>1, CertifiedKept DEF CastID
<1>7. \A m \in net' \ net : m.id = "share" /\ m.from = n /\ m.val = v
    BY <1>5 DEF SendShares
<1>8. \A m \in net' \ net : MsgCertified(m)'
    BY <1>6, <1>7 DEF MsgCertified, CastID
<1> QED
    BY <1>1, <1>4, <1>8, CastJoin

\* What is delivered was certified when it was sent.
LEMMA DeliverCastKeeps ==
    ASSUME CastInv, CastTypes', NEW m \in net, DeliverCast(m)
    PROVE  CastInv'
<1>t. CastTypes /\ OneRestarts /\ MsgCertified(m)
    BY DEF CastInv
<1>0. /\ m \in CastMsg /\ casts' = Set3(casts, m.to, m.id, m.from, m.val)
      /\ UNCHANGED <<pc, proc, signed, sigs, net, shares>>
    <2>1. m \in CastMsg \cup ShareMsg \cup ParSigMsg /\ m.id \in CastID
        BY <1>t DEF CastTypes, DeliverCast
    <2> QED
        BY <2>1 DEF DeliverCast, CastMsg, ShareMsg, ParSigMsg, CastID, Set3
<1>1. PICK n \in Node, id \in CastID, s \in Node, v \in Nat :
            n = m.to /\ id = m.id /\ s = m.from /\ v = m.val
    BY <1>0 DEF CastMsg
<1>2. Keeps /\ OneRestarts'
    BY <1>t, <1>0 DEF Keeps, CastTypes, OneRestarts
<1>3. Certified(s, id, v)'
    BY <1>t, <1>1, <1>2, CertifiedKept DEF MsgCertified
<1>4. \A q, z \in Node, y \in CastID :
         casts'[q][y][z] = casts[q][y][z] \/ (z = s /\ y = id /\ casts'[q][y][z] = v)
    <2>1. casts \in Casts /\ casts' = Set3(casts, n, id, s, v)
        BY <1>t, <1>0, <1>1 DEF CastTypes
    <2> QED
        BY <2>1, Receives
<1>5. \A q \in Node : Gets(q)
    BY <1>0, <1>3, <1>4 DEF Gets
<1>6. \A q \in Node : Calm(q)
    BY <1>0, <1>5 DEF Calm
<1> QED
    BY <1>0, <1>2, <1>6, CastJoin

\* The same for shares.
LEMMA DeliverShareKeeps ==
    ASSUME CastInv, CastTypes', NEW m \in net, DeliverShare(m)
    PROVE  CastInv'
<1>t. CastTypes /\ OneRestarts /\ MsgCertified(m)
    BY DEF CastInv
<1>0. /\ m \in ShareMsg /\ shares' = Set2(shares, m.to, m.from, m.val) /\ m.id = "share"
      /\ UNCHANGED <<pc, proc, signed, sigs, net, casts>>
    <2>1. m \in CastMsg \cup ShareMsg \cup ParSigMsg /\ m.id = "share"
        BY <1>t DEF CastTypes, DeliverShare
    <2> QED
        BY <2>1 DEF DeliverShare, CastMsg, ShareMsg, ParSigMsg, CastID, Set2, castVars
<1>1. PICK n \in Node, s \in Node, v \in Nat : n = m.to /\ s = m.from /\ v = m.val
    BY <1>0 DEF ShareMsg
<1>2. Keeps /\ OneRestarts'
    BY <1>t, <1>0 DEF Keeps, CastTypes, OneRestarts
<1>3. Certified(s, "round1", v)'
    BY <1>t, <1>0, <1>1, <1>2, CertifiedKept DEF MsgCertified, CastID
<1>4. \A q, z \in Node :
         shares'[q][z] = shares[q][z] \/ (z = s /\ shares'[q][z] = v)
    <2>1. shares \in Shares /\ shares' = Set2(shares, n, s, v)
        BY <1>t, <1>0, <1>1 DEF CastTypes
    <2> QED
        BY <2>1, Shared
<1>5. \A q \in Node : Gets(q)
    BY <1>0, <1>3, <1>4 DEF Gets
<1>6. \A q \in Node : Calm(q)
    BY <1>0, <1>5 DEF Calm
<1> QED
    BY <1>0, <1>2, <1>6, CastJoin

\* A restart is the only thing that makes a peer forget what it has signed.
LEMMA RestartKeeps ==
    ASSUME CastInv, CastTypes', NEW n \in Node, Restart(n)
    PROVE  CastInv'
<1>t. CastTypes /\ OneRestarts
    BY DEF CastInv
<1>0. /\ \A p \in Node : p # n => proc[p] = 1 /\ proc'[p] = proc[p]
      /\ proc'[n] = proc[n] + 1 /\ proc[n] \in Nat \ {0}
    BY <1>t DEF Restart, CastTypes, Peers
<1>1. OneRestarts'
    BY <1>0 DEF OneRestarts
<1>2. \A p \in Node : p # n => signed'[p] = signed[p] /\ casts'[p] = casts[p]
                              /\ shares'[p] = shares[p]
    BY <1>t DEF Restart, CastTypes, Signatures, Casts, Shares
<1>3. \A p \in Node : p # n => sigs'[p] = sigs[p] /\ pc'[p] = pc[p]
    BY <1>t DEF Restart, CastTypes, ToPC
<1>4. Keeps
    BY <1>t, <1>0, <1>2 DEF Keeps, CastTypes
<1>5. \A q \in Node \ {n} : Calm(q)
    BY <1>0, <1>2, <1>3 DEF Calm, Gets
<1>6. /\ sigs'[n] = {} /\ pc'[n] = "round1" /\ \A s \in Node : shares'[n][s] = 0
    BY <1>t DEF Restart, CastTypes, ToPC, Shares, Fresh
<1>7. \A id \in CastID, s \in Node : casts'[n][id][s] = 0
    BY <1>t DEF Restart, CastTypes, Casts, Fresh
<1>8. NodeCertified(n)'
    BY <1>6, <1>7 DEF NodeCertified, ReceivedCertified, CastID
<1>9. net' \subseteq net
    BY DEF Restart
<1> QED
    BY <1>1, <1>4, <1>5, <1>8, <1>9, CastJoin

\* So does a step that changes nothing.
LEMMA CastStutters ==
    ASSUME CastInv, UNCHANGED vars
    PROVE  CastInv'
<1>1. /\ CastTypes' /\ CastTypes
      /\ UNCHANGED <<pc, proc, signed, sigs, net, casts, shares>>
    BY DEF CastInv, CastTypes, vars
<1>2. CASE Node = {}
    BY <1>1, <1>2 DEF CastInv, CastTypes, OneRestarts, MsgCertified, CastMsg, ShareMsg, ParSigMsg
<1>3. CASE Node # {}
    BY <1>1, <1>3, CalmStep
<1> QED
    BY <1>2, <1>3

\* Every step keeps the invariant of what is broadcast.
LEMMA CastStep ==
    ASSUME CastInv, SigInv, CastTypes', Next
    PROVE  CastInv'
<1>t. CastTypes /\ \A n \in Node : NodeCertified(n)
    BY DEF CastInv
<1>c. ASSUME NEW n \in Node, NEW x, pc' = [pc EXCEPT ![n] = x],
             UNCHANGED <<proc, castVars, shares>>,
             x = "failed" \/ pc[n] \notin CastID \cup {"failed"}, x # "shares"
      PROVE  CastInv'
    <2>1. x = "failed" \/ sigs[n] = {}
        BY <1>t, <1>c DEF NodeCertified
    <2> QED
        BY <1>c, <2>1, CalmStep DEF castVars
<1>1. ASSUME NEW n \in Node, Round1(n)
      PROVE  CastInv'
    BY <1>c, <1>1 DEF Round1, ToPC, CastID
<1>2. ASSUME NEW n \in Node, NextStep(n)
      PROVE  CastInv'
    BY <1>c, <1>2 DEF NextStep, ToPC, CastID
<1>3. ASSUME NEW n \in Node, AwaitAllAtStep(n)
      PROVE  CastInv'
    <2>1. step[n] \in 2 .. 7
        BY <1>3 DEF AwaitAllAtStep, SigInv, PlaceInv, Steps
    <2>2. AtStep(step[n]) # "shares"
        BY <2>1, AtStepPlace
    <2> QED
        BY <1>c, <1>3, <2>2 DEF AwaitAllAtStep, ToPC, CastID
<1>4. ASSUME NEW n \in Node, StoreInternal(n)
      PROVE  CastInv'
    <2>1. sigs[n] = {}
        BY <1>t, <1>4 DEF NodeCertified, StoreInternal, Exchanging, CastID
    <2>2. \A m \in net' \ net : m.id = "parsig"
        BY <1>4 DEF StoreInternal
    <2>3. pc' = [pc EXCEPT ![n] = "exchange"] /\ UNCHANGED <<proc, signed, sigs, casts, shares>>
        BY <1>4 DEF StoreInternal, ToPC
    <2> QED
        BY <2>1, <2>2, <2>3, CalmStep
<1>5. ASSUME NEW n \in Node, Exchanged(n)
      PROVE  CastInv'
    <2>2. \E x \in {"deposit", "deposited", "registered", "locked"} : pc' = [pc EXCEPT ![n] = x]
        BY <1>5, ExchangedTo DEF ToPC
    <2>3. pc[n] = "exchange" /\ UNCHANGED <<proc, castVars, shares>>
        BY <1>5 DEF Exchanged
    <2> QED
        BY <1>c, <2>2, <2>3 DEF CastID
<1>6. ASSUME NEW n \in Node, Write(n)
      PROVE  CastInv'
    BY <1>c, <1>6 DEF Write, ToPC, CastID
<1>7. ASSUME NEW n \in Node, NodeFails(n) \/ PeerFailed(n)
      PROVE  CastInv'
    BY <1>c, <1>7 DEF NodeFails, PeerFailed, Fail, ToPC
<1>8. ASSUME UNCHANGED <<pc, proc, castVars, shares>>, NEW n \in Node
      PROVE  CastInv'
    BY <1>8, CalmStep DEF castVars
<1>9. ASSUME NEW n \in Node, NEW t \in SigType, Push(n, t)
      PROVE  CastInv'
    BY <1>8, <1>9 DEF Push
<1>10. ASSUME NEW n \in Node, NEW m \in net, DeliverParSig(m)
       PROVE  CastInv'
    BY <1>8, <1>10 DEF DeliverParSig
<1>11. ASSUME Terminated
       PROVE  CastInv'
    BY <1>11, CastStutters DEF Terminated
<1> QED
    BY <1>1, <1>2, <1>3, <1>4, <1>5, <1>6, <1>7, <1>9, <1>10, <1>11, RequestSigKeeps,
       SendCastKeeps, SendSharesKeeps, DeliverCastKeeps, DeliverShareKeeps, RestartKeeps
    DEF Next, Advance, Deliver

-----------------------------------------------------------------------------
(* The exchanges.                                                          *)

\* A node whose exchanges do not change, and that does not leave one.
LEMMA ExchangeKept ==
    ASSUME NEW q \in Node, ExchangeInv(q), parsigs'[q] = parsigs[q], pushing'[q] = pushing[q],
           sigDatas'[q] = sigDatas[q], results'[q] = results[q], InExchange(q) => InExchange(q)'
    PROVE  ExchangeInv(q)'
<1>1. Current(q)' = Current(q)
    BY DEF Current
<1>2. \A t : (Mine(q, t) => Mine(q, t)') /\ (Complete(q, t) => Complete(q, t)')
    BY <1>1 DEF Mine, Complete
<1>3. /\ \A i \in 1 .. Len(results'[q]) : results'[q][i] = i /\ parsigs'[q][i] = Node
      /\ \A t \in SigType : q \in parsigs'[q][t] => Mine(q, t)'
      /\ \A t \in pushing'[q] : Complete(q, t)' /\ sigDatas'[q] = <<>>
    BY <1>2 DEF ExchangeInv
<1>4. PICK c : c = Current(q)
    OBVIOUS
<1>5. sigDatas'[q] # <<>> => sigDatas'[q] = <<c>> /\ Complete(q, c)' /\ pushing'[q] = {}
    BY <1>2, <1>4 DEF ExchangeInv
<1> QED
    BY <1>1, <1>3, <1>4, <1>5 DEF ExchangeInv

\* A step that leaves the exchanges alone keeps their invariant, if the node
\* does not leave one.
LEMMA SigJoin ==
    ASSUME SigInv, UNCHANGED sigVars, NEW n \in Node,
           \A q \in Node \ {n} : pc'[q] = pc[q] /\ step'[q] = step[q],
           InExchange(n) => InExchange(n)', PlaceInv(n)'
    PROVE  SigInv'
<1>1. UNCHANGED <<parsigs, pushing, sigDatas, results>>
    BY DEF sigVars
<1>2. SigTypes'
    BY <1>1 DEF SigInv, SigTypes
<1>3. ASSUME NEW q \in Node
      PROVE  PlaceInv(q)'
    <2>1. CASE q = n
        BY <2>1
    <2>2. CASE q # n
        BY <1>1, <2>2 DEF SigInv, PlaceInv
    <2> QED
        BY <2>1, <2>2
<1>4. ASSUME NEW q \in Node
      PROVE  ExchangeInv(q)'
    <2>1. InExchange(q) => InExchange(q)'
        BY DEF InExchange
    <2>2. ExchangeInv(q)
        BY DEF SigInv
    <2> QED
        BY <1>1, <2>1, <2>2, ExchangeKept
<1> QED
    BY <1>2, <1>3, <1>4 DEF SigInv

\* A node that moves within a step, or fails, keeps its place.
LEMMA SigMove ==
    ASSUME SigInv, CastTypes, UNCHANGED <<step, sigVars>>, NEW n \in Node, NEW x,
           pc' = pc \/ pc' = [pc EXCEPT ![n] = x],
           \/ x = "failed"
           \/ {pc[n], x} \subseteq {"round1", "shares", "await1", "round2", "await2"}
           \/ {pc[n], x} \subseteq {"nodesig", "awaitSigs"}
           \/ {pc[n], x} \subseteq {"write", "written"}
    PROVE  SigInv'
<1>1. pc \in [Node -> Place]
    BY DEF CastTypes
<1>2. /\ \A q \in Node \ {n} : pc'[q] = pc[q] /\ step'[q] = step[q]
      /\ pc'[n] = pc[n] \/ pc'[n] = x
      /\ step'[n] = step[n] /\ results' = results
    BY <1>1 DEF sigVars
<1>3. PlaceInv(n)
    BY DEF SigInv
<1>4. PICK k : k = Len(results[n])
    OBVIOUS
<1>5. step[n] \in Steps(x)
    <2>1. CASE x = "failed"
        BY <1>3, <2>1 DEF PlaceInv, Steps
    <2>2. CASE x # "failed"
        BY <1>3, <2>2 DEF PlaceInv, Steps
    <2> QED
        BY <2>1, <2>2
<1>6. PlaceInv(n)'
    <2>1. CASE pc'[n] = pc[n]
        BY <1>2, <1>3, <2>1 DEF PlaceInv
    <2>2. CASE pc'[n] = x
        <3>1. x \notin {"sync", "deposit", "exchange", "deposited", "registration", "registered",
                         "lock", "locked"}
            OBVIOUS
        <3> QED
            BY <1>2, <1>3, <1>5, <2>2, <3>1 DEF PlaceInv
    <2> QED
        BY <1>2, <2>1, <2>2
<1>7. InExchange(n) => InExchange(n)'
    BY <1>2 DEF InExchange
<1> QED
    BY <1>2, <1>6, <1>7, SigJoin

\* nextStepSync: the node reports that a step is done, and begins the next
\* one when all nodes have.
LEMMA NextStepSig ==
    ASSUME SigInv, CastTypes, NEW n \in Node, NextStep(n)
    PROVE  SigInv'
<1>1. /\ pc \in [Node -> Place] /\ step \in [Node -> Nat]
      /\ step' = [step EXCEPT ![n] = @ + 1] /\ pc' = [pc EXCEPT ![n] = "sync"]
      /\ pc[n] \in {"await2", "awaitSigs", "deposited", "registered", "locked", "written"}
      /\ UNCHANGED sigVars
    BY DEF CastTypes, NextStep, ToPC
<1>2. PICK s \in Nat, k \in Nat : s = step[n] /\ k = Len(results[n])
    BY <1>1 DEF SigInv, SigTypes
<1>3. /\ step'[n] = s + 1 /\ pc'[n] = "sync" /\ Len(results[n])' = k
      /\ \A q \in Node \ {n} : pc'[q] = pc[q] /\ step'[q] = step[q]
    BY <1>1, <1>2 DEF sigVars
<1>4. \/ s = 1 /\ k = 0
      \/ s = 2 /\ k = NumAmounts
      \/ s = 3 /\ k = Registration
      \/ s \in 4 .. 6 /\ k = Lock
    BY <1>1, <1>2 DEF SigInv, PlaceInv, Steps
<1>5. PlaceInv(n)'
    BY <1>3, <1>4, AmountsAssumption DEF PlaceInv, Steps
<1>6. InExchange(n) => InExchange(n)'
    BY <1>1 DEF InExchange
<1> QED
    BY <1>1, <1>3, <1>5, <1>6, SigJoin

\* The barrier after a step is passed.
LEMMA AwaitSig ==
    ASSUME SigInv, CastTypes, NEW n \in Node, AwaitAllAtStep(n)
    PROVE  SigInv'
<1>1. /\ pc \in [Node -> Place] /\ pc[n] = "sync"
      /\ pc' = [pc EXCEPT ![n] = AtStep(step[n])] /\ UNCHANGED <<step, sigVars>>
    BY DEF CastTypes, AwaitAllAtStep, ToPC
<1>2. PICK s \in 2 .. 7, k \in Nat : s = step[n] /\ k = Len(results[n])
    <2>1. step[n] \in 2 .. 7
        BY <1>1 DEF SigInv, PlaceInv, Steps
    <2> QED
        BY <2>1 DEF SigInv, SigTypes
<1>3. /\ step'[n] = s /\ pc'[n] = AtStep(s) /\ Len(results[n])' = k
      /\ \A q \in Node \ {n} : pc'[q] = pc[q] /\ step'[q] = step[q]
    BY <1>1, <1>2 DEF sigVars
<1>4. /\ s = 2 => k = 0
      /\ s = 3 => k = NumAmounts
      /\ s = 4 => k = Registration
      /\ s >= 5 => k = Lock
    BY <1>1, <1>2 DEF SigInv, PlaceInv
<1>5. /\ s \in Steps(AtStep(s)) /\ AtStep(s) # "sync"
      /\ AtStep(s) \notin {"deposited", "registered", "locked", "exchange"}
    BY AtStepPlace
<1>6. PlaceInv(n)'
    BY <1>3, <1>4, <1>5, AmountsAssumption DEF PlaceInv
<1>7. InExchange(n) => InExchange(n)'
    BY <1>1 DEF InExchange
<1> QED
    BY <1>1, <1>3, <1>6, <1>7, SigJoin

\* Storing a partial signature changes the set it is added to and no other.
LEMMA StoresType ==
    ASSUME NEW f \in PartialSigs, NEW n \in Node, NEW t \in SigType, NEW S \in SUBSET Node
    PROVE  Set2(f, n, t, S) \in PartialSigs
BY DEF Set2, PartialSigs

\* The values it assigns.
LEMMA Stores ==
    ASSUME NEW f \in PartialSigs, NEW n \in Node, NEW t \in SigType, NEW S
    PROVE  /\ \A u \in SigType : Set2(f, n, t, S)[n][u] = IF u = t THEN S ELSE f[n][u]
           /\ \A q \in Node \ {n} : Set2(f, n, t, S)[q] = f[q]
BY DEF Set2, PartialSigs

\* What Stored does.
StoresIn(n, t, p) ==
    /\ parsigs' \in PartialSigs /\ pushing' \in [Node -> SUBSET SigType]
    /\ parsigs'[n][t] = parsigs[n][t] \cup {p}
    /\ \A u \in SigType : u # t => parsigs'[n][u] = parsigs[n][u]
    /\ \/ pushing'[n] = pushing[n]
       \/ pushing'[n] = pushing[n] \cup {t} /\ p \notin parsigs[n][t] /\ parsigs'[n][t] = Node
    /\ \A q \in Node \ {n} : parsigs'[q] = parsigs[q] /\ pushing'[q] = pushing[q]

\* Storing adds one signature, and completes no other type.
LEMMA StoredSig ==
    ASSUME SigTypes, NEW n \in Node, NEW t \in SigType, NEW p \in Node, Stored(n, t, p)
    PROVE  StoresIn(n, t, p)
<1>1. parsigs \in PartialSigs /\ pushing \in [Node -> SUBSET SigType]
    BY DEF SigTypes
<1>2. PICK S \in SUBSET Node : S = parsigs[n][t] \cup {p}
    <2>1. parsigs[n][t] \in SUBSET Node
        BY <1>1 DEF PartialSigs
    <2> QED
        BY <2>1
<1>3. parsigs' = Set2(parsigs, n, t, S)
    BY <1>2 DEF Stored, Set2
<1>4. /\ parsigs' \in PartialSigs /\ parsigs'[n][t] = S
      /\ \A u \in SigType : u # t => parsigs'[n][u] = parsigs[n][u]
      /\ \A q \in Node \ {n} : parsigs'[q] = parsigs[q]
    BY <1>1, <1>3, StoresType, Stores
<1>5. /\ pushing' \in [Node -> SUBSET SigType]
      /\ \A q \in Node \ {n} : pushing'[q] = pushing[q]
      /\ \/ pushing'[n] = pushing[n]
         \/ pushing'[n] = pushing[n] \cup {t} /\ p \notin parsigs[n][t] /\ S = Node
    <2>1. CASE p \notin parsigs[n][t] /\ S = Node
        BY <1>1, <1>2, <2>1 DEF Stored
    <2>2. CASE ~ (p \notin parsigs[n][t] /\ S = Node)
        BY <1>1, <1>2, <2>2 DEF Stored
    <2> QED
        BY <2>1, <2>2
<1> QED
    BY <1>2, <1>4, <1>5 DEF StoresIn

\* A step that changes the exchanges of one node keeps those of the others.
LEMMA OtherExchanges ==
    ASSUME SigInv, SigTypes', NEW n \in Node, step' = step,
           \A q \in Node \ {n} : /\ pc'[q] = pc[q] /\ parsigs'[q] = parsigs[q]
                                 /\ pushing'[q] = pushing[q] /\ sigDatas'[q] = sigDatas[q]
                                 /\ results'[q] = results[q],
           PlaceInv(n)', ExchangeInv(n)'
    PROVE  SigInv'
<1>1. ASSUME NEW q \in Node, q # n
      PROVE  PlaceInv(q)' /\ ExchangeInv(q)'
    <2>1. PlaceInv(q) /\ ExchangeInv(q)
        BY DEF SigInv
    <2>2. PlaceInv(q)'
        BY <1>1, <2>1 DEF PlaceInv
    <2>3. InExchange(q) => InExchange(q)'
        BY <1>1 DEF InExchange
    <2>4. ExchangeInv(q)'
        BY <1>1, <2>1, <2>3, ExchangeKept
    <2> QED
        BY <2>2, <2>4
<1> QED
    BY <1>1 DEF SigInv

\* The own signature is stored in the exchange of its type.
LEMMA StoreInternalSig ==
    ASSUME SigInv, CastTypes, NEW n \in Node, StoreInternal(n)
    PROVE  SigInv'
<1>0. SigTypes /\ PlaceInv(n) /\ ExchangeInv(n) /\ pc \in [Node -> Place]
    BY DEF SigInv, CastTypes
<1>1. PICK t \in SigType : t = Current(n)
    BY CurrentType DEF StoreInternal
<1>2. /\ pc[n] \in Exchanging /\ step[n] \in 2 .. 4
      /\ UNCHANGED <<step, sigDatas, results>>
      /\ pc'[n] = "exchange" /\ \A q \in Node \ {n} : pc'[q] = pc[q]
    BY <1>0, CurrentType DEF StoreInternal, ToPC
<1>3. StoresIn(n, t, n)
    <2>1. SigTypes /\ Stored(n, t, n)
        BY <1>1 DEF StoreInternal, SigInv
    <2> QED
        BY <2>1, StoredSig
<1>4. SigTypes'
    BY <1>0, <1>2, <1>3 DEF SigTypes, StoresIn
<1>5. PlaceInv(n)'
    BY <1>0, <1>2 DEF PlaceInv, Steps, Exchanging
<1>6. ~ InExchange(n) /\ InExchange(n)' /\ Current(n)' = t /\ t = Len(results[n]) + 1
      /\ Len(results[n]) \in Nat /\ t \in Nat
    BY <1>0, <1>1, <1>2 DEF InExchange, Exchanging, Current, SigTypes
<1>7. pushing[n] = {} /\ sigDatas[n] = <<>>
    BY <1>0, <1>6 DEF ExchangeInv, Complete
<1>8. \A u \in SigType : u # t => parsigs'[n][u] = parsigs[n][u]
    BY <1>3 DEF StoresIn
<1>9. \A i \in 1 .. Len(results[n]) : i \in SigType /\ i # t
    BY <1>1, <1>6, AmountsAssumption DEF SigType
<1>10. \A i \in 1 .. Len(results'[n]) : results'[n][i] = i /\ parsigs'[n][i] = Node
    BY <1>0, <1>2, <1>8, <1>9 DEF ExchangeInv
<1>11. ASSUME NEW u \in SigType, n \in parsigs'[n][u]
       PROVE  Mine(n, u)'
    <2>1. CASE u = t
        BY <1>6, <2>1 DEF Mine
    <2>2. CASE u # t
        <3>1. Mine(n, u)
            BY <1>0, <1>8, <1>11, <2>2 DEF ExchangeInv
        <3> QED
            BY <1>1, <1>6, <3>1 DEF Mine
    <2> QED
        BY <2>1, <2>2
<1>12. \A u \in pushing'[n] : Complete(n, u)'
    <2>1. pushing'[n] = {} \/ (pushing'[n] = {t} /\ parsigs'[n][t] = Node)
        BY <1>3, <1>7 DEF StoresIn
    <2> QED
        BY <1>6, <2>1 DEF Complete
<1>13. ExchangeInv(n)'
    BY <1>2, <1>7, <1>10, <1>11, <1>12 DEF ExchangeInv
<1>14. \A q \in Node \ {n} : parsigs'[q] = parsigs[q] /\ pushing'[q] = pushing[q]
    BY <1>3 DEF StoresIn
<1> QED
    BY <1>2, <1>4, <1>5, <1>13, <1>14, OtherExchanges

\* A signature of a peer completes a type only after the own one.
LEMMA DeliverParSigSig ==
    ASSUME SigInv, CastTypes, NEW m \in net, DeliverParSig(m)
    PROVE  SigInv'
<1>0. m \in ParSigMsg
    BY DEF CastTypes, DeliverParSig, CastMsg, ShareMsg, CastID
<1>1. PICK n \in Node, p \in Node, t \in SigType :
         n = m.to /\ p = m.from /\ t = m.val /\ p # n
    BY <1>0 DEF ParSigMsg
<1>2. SigTypes /\ PlaceInv(n) /\ ExchangeInv(n)
    BY DEF SigInv
<1>3. UNCHANGED <<pc, step, sigDatas, results>> /\ p \notin parsigs[n][t]
    BY <1>1 DEF DeliverParSig
<1>s. StoresIn(n, t, p)
    <2>1. SigTypes /\ Stored(n, t, p)
        BY <1>1 DEF DeliverParSig, SigInv
    <2> QED
        BY <2>1, StoredSig
<1>4. SigTypes'
    BY <1>2, <1>3, <1>s DEF SigTypes, StoresIn
<1>5. PlaceInv(n)'
    BY <1>2, <1>3 DEF PlaceInv
<1>6. /\ Current(n) = Len(results[n]) + 1 /\ Len(results[n]) \in Nat
      /\ Current(n)' = Current(n) /\ (InExchange(n)' <=> InExchange(n)) /\ t \in Nat \ {0}
    <2>1. t \in Nat \ {0}
        BY AmountsAssumption DEF SigType
    <2>2. Len(results[n]) \in Nat
        BY <1>2 DEF SigTypes
    <2> QED
        BY <1>3, <2>1, <2>2 DEF Current, InExchange
<1>7. \A u \in SigType : /\ parsigs[n][u] = Node => parsigs'[n][u] = Node
                         /\ n \in parsigs'[n][u] => n \in parsigs[n][u]
    <2>1. \A u \in SigType : u # t => parsigs'[n][u] = parsigs[n][u]
        BY <1>s DEF StoresIn
    <2>2. parsigs'[n][t] = parsigs[n][t] \cup {p} /\ p \in Node /\ p # n
        BY <1>1, <1>s DEF StoresIn
    <2> QED
        BY <2>1, <2>2
<1>8. \A u \in SigType : (Mine(n, u)' <=> Mine(n, u)) /\ (Complete(n, u) => Complete(n, u)')
    BY <1>6, <1>7 DEF Mine, Complete
<1>9. \A i \in 1 .. Len(results'[n]) : results'[n][i] = i /\ parsigs'[n][i] = Node
    <2>1. ASSUME NEW i \in 1 .. Len(results[n])
          PROVE  i \in SigType
        <3>1. results[n][i] = i /\ results[n] \in Seq(SigType)
            BY <1>2 DEF SigTypes, ExchangeInv
        <3> QED
            BY <3>1
    <2> QED
        BY <1>2, <1>3, <1>7, <2>1 DEF ExchangeInv
<1>10. ASSUME pushing'[n] # pushing[n]
       PROVE  pushing'[n] = pushing[n] \cup {t} /\ Complete(n, t)' /\ sigDatas[n] = <<>>
    <2>1. pushing'[n] = pushing[n] \cup {t} /\ parsigs'[n][t] = Node
        BY <1>10, <1>s DEF StoresIn
    <2>2. n \in parsigs[n][t] /\ parsigs[n][t] # Node
        BY <1>3, <1>7, <2>1
    <2>3. t \notin 1 .. Len(results[n])
        BY <1>2, <2>2 DEF ExchangeInv
    <2>4. Mine(n, t)
        BY <1>2, <2>2 DEF ExchangeInv
    <2>5. t = Current(n) /\ InExchange(n)
        BY <1>6, <2>3, <2>4 DEF Mine
    <2>6. sigDatas[n] = <<>>
        BY <1>2, <2>2, <2>5 DEF ExchangeInv, Complete
    <2> QED
        BY <1>6, <2>1, <2>5, <2>6 DEF Complete
<1>11. \A u \in pushing'[n] : Complete(n, u)' /\ sigDatas'[n] = <<>>
    <2>1. pushing[n] \subseteq SigType
        BY <1>2 DEF SigTypes
    <2>2. \A u \in pushing[n] : Complete(n, u)' /\ sigDatas'[n] = <<>>
        BY <1>2, <1>3, <1>8, <2>1 DEF ExchangeInv
    <2> QED
        BY <1>3, <1>10, <2>2
<1>12. sigDatas'[n] # <<>> => /\ sigDatas'[n] = <<Current(n)'>> /\ Complete(n, Current(n))'
                              /\ pushing'[n] = {}
    <2>1. SUFFICES ASSUME sigDatas[n] # <<>>
                   PROVE  sigDatas[n] = <<Current(n)>> /\ Complete(n, Current(n))' /\ pushing'[n] = {}
        BY <1>3, <1>6
    <2>2. sigDatas[n] = <<Current(n)>> /\ Complete(n, Current(n)) /\ pushing[n] = {}
        BY <1>2, <2>1 DEF ExchangeInv
    <2>3. Current(n) \in SigType
        <3>1. sigDatas[n] \in Seq(SigType)
            BY <1>2 DEF SigTypes
        <3> QED
            BY <2>2, <3>1
    <2>4. PICK c \in SigType : c = Current(n)
        BY <2>3
    <2> QED
        BY <1>6, <1>8, <1>10, <2>1, <2>2, <2>4
<1>13. \A u \in SigType : n \in parsigs'[n][u] => Mine(n, u)'
    BY <1>2, <1>7, <1>8 DEF ExchangeInv
<1>x. ExchangeInv(n)'
    BY <1>9, <1>11, <1>12, <1>13 DEF ExchangeInv
<1>14. \A q \in Node \ {n} : parsigs'[q] = parsigs[q] /\ pushing'[q] = pushing[q]
    BY <1>s DEF StoresIn
<1> QED
    BY <1>3, <1>4, <1>5, <1>x, <1>14, OtherExchanges

\* pushPsigs: the channel holds the one complete type of the exchange.
LEMMA PushSig ==
    ASSUME SigInv, NEW n \in Node, NEW t \in SigType, Push(n, t)
    PROVE  SigInv'
<1>0. SigTypes /\ PlaceInv(n) /\ ExchangeInv(n)
    BY DEF SigInv
<1>1. t \in pushing[n] /\ UNCHANGED <<pc, step, parsigs, results>>
    BY DEF Push
<1>2. t = Current(n) /\ Complete(n, t) /\ \A u \in pushing[n] : u = t
    BY <1>0, <1>1 DEF ExchangeInv, Complete
<1>3. /\ sigDatas'[n] = <<t>> /\ pushing'[n] = {}
      /\ \A q \in Node \ {n} : sigDatas'[q] = sigDatas[q] /\ pushing'[q] = pushing[q]
    BY <1>0, <1>2 DEF SigTypes, Push
<1>4. SigTypes'
    BY <1>0, <1>1 DEF SigTypes, Push
<1>5. PlaceInv(n)'
    BY <1>0, <1>1 DEF PlaceInv
<1>6. Current(n)' = Current(n) /\ (InExchange(n)' <=> InExchange(n))
    BY <1>1 DEF Current, InExchange
<1>7. \A u : (Mine(n, u)' <=> Mine(n, u)) /\ (Complete(n, u)' <=> Complete(n, u))
    BY <1>1, <1>6 DEF Mine, Complete
<1>8. \A i \in 1 .. Len(results'[n]) : results'[n][i] = i /\ parsigs'[n][i] = Node
    BY <1>0, <1>1 DEF ExchangeInv
<1>9. \A u \in SigType : n \in parsigs'[n][u] => Mine(n, u)'
    BY <1>0, <1>1, <1>7 DEF ExchangeInv
<1>10. Complete(n, t)' /\ sigDatas'[n] = <<t>> /\ t = Current(n)'
    BY <1>2, <1>3, <1>6, <1>7
<1>11. ExchangeInv(n)'
    BY <1>3, <1>8, <1>9, <1>10 DEF ExchangeInv
<1> QED
    BY <1>1, <1>3, <1>4, <1>5, <1>11, OtherExchanges

\* exchange returns the data of its own type.
LEMMA ExchangedSig ==
    ASSUME SigInv, CastTypes, NEW n \in Node, Exchanged(n)
    PROVE  SigInv'
<1>1. /\ SigTypes /\ PlaceInv(n) /\ ExchangeInv(n) /\ pc \in [Node -> Place]
      /\ pc[n] = "exchange" /\ sigDatas[n] # <<>> /\ UNCHANGED <<step, parsigs, pushing>>
      /\ results' = [results EXCEPT ![n] = Append(@, Head(sigDatas[n]))]
      /\ sigDatas' = [sigDatas EXCEPT ![n] = <<>>]
    BY DEF SigInv, CastTypes, Exchanged
<1>2. /\ Current(n) \in SigType /\ Len(results[n]) \in Nat /\ Current(n) = Len(results[n]) + 1
    BY <1>1, CurrentType DEF Current
<1>3. PICK c \in SigType, k \in Nat, r \in Seq(SigType) :
         c = Current(n) /\ k = Len(results[n]) /\ c = k + 1 /\ r = results[n]
    BY <1>1, <1>2 DEF SigTypes
<1>4. Head(sigDatas[n]) = c /\ parsigs[n][c] = Node /\ pushing[n] = {}
    BY <1>1, <1>3 DEF ExchangeInv, Complete
<1>5. results'[n] = Append(r, c) /\ sigDatas'[n] = <<>>
    BY <1>1, <1>3, <1>4 DEF SigTypes
<1>6. \A q \in Node \ {n} : results'[q] = results[q] /\ sigDatas'[q] = sigDatas[q] /\ pc'[q] = pc[q]
    <2>1. \E x : pc' = [pc EXCEPT ![n] = x]
        BY DEF Exchanged, ToPC
    <2> QED
        BY <1>1, <2>1 DEF SigTypes
<1>7. /\ Len(results'[n]) = k + 1 /\ results'[n][k + 1] = c
      /\ \A i \in 1 .. k : results'[n][i] = results[n][i]
    BY <1>3, <1>5
<1>8. SigTypes'
    <2>1. Append(r, c) \in Seq(SigType)
        BY <1>3
    <2>2. results' = [results EXCEPT ![n] = Append(r, c)]
        BY <1>1, <1>3, <1>4
    <2> QED
        BY <1>1, <2>1, <2>2 DEF SigTypes
<1>9. PlaceInv(n)'
    <2>1. \/ step[n] = 2 /\ c < NumAmounts /\ pc'[n] = "deposit"
          \/ step[n] = 2 /\ c = NumAmounts /\ pc'[n] = "deposited"
          \/ step[n] = 3 /\ c = Registration /\ pc'[n] = "registered"
          \/ step[n] = 4 /\ c = Lock /\ pc'[n] = "locked"
        <3>1. \A x : ToPC(n, x) => pc'[n] = x
            BY <1>1 DEF ToPC
        <3> QED
            BY <1>3, <3>1, ExchangedTo
    <2>2. step'[n] = step[n] /\ Len(results'[n]) = c /\ c \in Nat
        BY <1>1, <1>3, <1>7
    <2> QED
        BY <2>1, <2>2, AmountsAssumption DEF PlaceInv, Steps, Registration, Lock
<1>10. Current(n)' = c + 1
    BY <1>3, <1>7 DEF Current
<1>11. \A i \in 1 .. Len(results'[n]) : results'[n][i] = i /\ parsigs'[n][i] = Node
    <2>1. \A i \in 1 .. k : results[n][i] = i /\ parsigs[n][i] = Node
        BY <1>1, <1>3 DEF ExchangeInv
    <2>2. \A i \in 1 .. (k + 1) : i \in 1 .. k \/ i = k + 1
        BY <1>3
    <2> QED
        BY <1>1, <1>3, <1>4, <1>7, <2>1, <2>2
<1>12. ASSUME NEW u \in SigType, n \in parsigs'[n][u]
       PROVE  Mine(n, u)'
    <2>1. u < c \/ u = c
        BY <1>1, <1>3, <1>12 DEF ExchangeInv, Mine
    <2>2. u < c + 1
        BY <1>3, <2>1, AmountsAssumption DEF SigType
    <2> QED
        BY <1>10, <2>2 DEF Mine
<1>13. ExchangeInv(n)'
    BY <1>1, <1>4, <1>5, <1>11, <1>12 DEF ExchangeInv
<1> QED
    BY <1>1, <1>6, <1>8, <1>9, <1>13, OtherExchanges

\* So does a step that changes nothing.
LEMMA SigStutters ==
    ASSUME SigInv, CastTypes, UNCHANGED vars
    PROVE  SigInv'
<1>1. UNCHANGED <<pc, step, parsigs, pushing, sigDatas, results>>
    BY DEF vars
<1>2. CASE Node = {}
    BY <1>1, <1>2 DEF SigInv, SigTypes
<1>3. CASE Node # {}
    BY <1>1, <1>3, SigMove DEF sigVars
<1> QED
    BY <1>2, <1>3

\* Every step keeps the invariant of the exchanges.
LEMMA SigStep ==
    ASSUME SigInv, CastTypes, Next
    PROVE  SigInv'
<1>1. ASSUME NEW n \in Node, NEW p \in Node, RequestSig(n, p)
      PROVE  SigInv'
    <2>1. pc' = pc \/ pc' = [pc EXCEPT ![n] = "failed"]
        BY <1>1 DEF RequestSig, Fail, ToPC
    <2> QED
        BY <1>1, <2>1, SigMove DEF RequestSig
<1>2. ASSUME NEW n \in Node, NEW p \in Node, SendCast(n, p)
      PROVE  SigInv'
    <2>1. UNCHANGED <<step, sigVars>> /\ pc[n] \in CastID
        BY <1>2 DEF SendCast
    <2>2. \/ pc' = pc
          \/ pc[n] = "round1" /\ pc' = [pc EXCEPT ![n] = "shares"]
          \/ pc[n] = "round2" /\ pc' = [pc EXCEPT ![n] = "await2"]
          \/ pc[n] = "nodesig" /\ pc' = [pc EXCEPT ![n] = "awaitSigs"]
        BY <1>2 DEF SendCast, ToPC, CastID
    <2>3. CASE pc' = pc
        BY <2>1, <2>3, SigMove
    <2> QED
        BY <2>1, <2>2, <2>3, SigMove
<1>3. ASSUME NEW n \in Node, SendShares(n)
      PROVE  SigInv'
    BY <1>3, SigMove DEF SendShares, ToPC
<1>4. ASSUME NEW n \in Node, Round1(n)
      PROVE  SigInv'
    <2>1. pc' = [pc EXCEPT ![n] = "round2"] \/ pc' = [pc EXCEPT ![n] = "failed"]
        BY <1>4 DEF Round1, ToPC
    <2> QED
        BY <1>4, <2>1, SigMove DEF Round1
<1>5. ASSUME NEW n \in Node, Write(n)
      PROVE  SigInv'
    BY <1>5, SigMove DEF Write, ToPC
<1>6. ASSUME NEW n \in Node, NodeFails(n) \/ PeerFailed(n)
      PROVE  SigInv'
    BY <1>6, SigMove DEF NodeFails, PeerFailed, Fail, ToPC
<1>7. ASSUME NEW n \in Node, UNCHANGED <<pc, step, sigVars>>
      PROVE  SigInv'
    BY <1>7, SigMove
<1>8. ASSUME NEW m \in net, DeliverCast(m) \/ DeliverShare(m), NEW n \in Node
      PROVE  SigInv'
    BY <1>7, <1>8 DEF DeliverCast, DeliverShare
<1>9. ASSUME NEW n \in Node, Restart(n)
      PROVE  SigInv'
    <2>1. /\ pc \in [Node -> Place] /\ step[n] = 1
          /\ pc' = [pc EXCEPT ![n] = "round1"] /\ UNCHANGED <<step, sigVars>>
        BY <1>9 DEF CastTypes, Restart, ToPC
    <2>2. PlaceInv(n)' /\ ~ InExchange(n)
        BY <2>1 DEF SigInv, PlaceInv, Steps, InExchange, sigVars
    <2>3. \A q \in Node \ {n} : pc'[q] = pc[q] /\ step'[q] = step[q]
        BY <2>1
    <2> QED
        BY <2>1, <2>2, <2>3, SigJoin
<1>10. ASSUME Terminated
       PROVE  SigInv'
    BY <1>10, SigStutters DEF Terminated
<1> QED
    BY <1>1, <1>2, <1>3, <1>4, <1>5, <1>6, <1>8, <1>9, <1>10, NextStepSig, AwaitSig,
       StoreInternalSig, DeliverParSigSig, PushSig, ExchangedSig
    DEF Next, Advance, Deliver

-----------------------------------------------------------------------------
(* Writing.                                                                *)

\* Steps are never undone, and neither is the receipt of a node signature.
Grows ==
    \A n \in Node : /\ step'[n] >= step[n]
                    /\ \A s \in Node : casts[n]["nodesig"][s] # 0 => casts'[n]["nodesig"][s] # 0

\* A step that lets no node write, and reports none of the later steps, keeps
\* the invariant of writing.
LEMMA WriteKept ==
    ASSUME CastTypes, CastTypes', WriteInv, Grows, written' \subseteq Node,
           \A n \in Node : step'[n] >= 6 => step[n] >= 6 \/ allSigs(n),
           \A n \in Node : n \in written' \/ pc'[n] \in {"write", "written"} =>
               n \in written \/ pc[n] \in {"write", "written"} \/ \A p \in Node : step[p] >= 6
    PROVE  WriteInv'
<1>1. ASSUME NEW n \in Node, step'[n] >= 6
      PROVE  allSigs(n)'
    BY <1>1 DEF WriteInv, Grows, allSigs
<1>2. ASSUME NEW n \in Node, n \in written' \/ pc'[n] \in {"write", "written"}, NEW p \in Node
      PROVE  step'[p] >= 6
    <2>1. step[p] >= 6
        BY <1>2 DEF WriteInv
    <2>2. step[p] \in Nat /\ step'[p] \in Nat /\ step'[p] >= step[p]
        BY DEF CastTypes, Grows
    <2> QED
        BY <2>1, <2>2
<1> QED
    BY <1>1, <1>2 DEF WriteInv

\* handleMessage records a cast, and removes none.
LEMMA DeliverCastGrows ==
    ASSUME CastTypes, NEW m \in net, DeliverCast(m)
    PROVE  Grows
<1>1. m \in CastMsg /\ step' = step
    BY DEF DeliverCast, CastTypes, ShareMsg, ParSigMsg, CastID
<1>2. PICK n \in Node, s \in Node, id \in CastID : n = m.to /\ s = m.from /\ id = m.id
    BY <1>1 DEF CastMsg
<1>3. PICK v : v = m.val /\ v # 0
    BY <1>1 DEF CastMsg
<1>4. casts' = Set3(casts, n, id, s, v) /\ v # 0
    BY <1>1, <1>2, <1>3 DEF DeliverCast, Set3
<1>5. casts \in Casts /\ step \in [Node -> Nat] /\ "nodesig" \in CastID
    BY DEF CastTypes, CastID
<1>6. ASSUME NEW q \in Node, NEW z \in Node, casts[q]["nodesig"][z] # 0
      PROVE  casts'[q]["nodesig"][z] # 0
    <2>1. Set3(casts, n, id, s, v)[q]["nodesig"][z] # 0
        BY <1>4, <1>5, <1>6, ReceivesMore
    <2> QED
        BY <1>4, <2>1
<1>7. \A q \in Node : step'[q] >= step[q]
    BY <1>1, <1>5
<1> QED
    BY <1>6, <1>7 DEF Grows

\* Every step keeps the invariant of writing.
LEMMA WriteStep ==
    ASSUME CastTypes, CastTypes', SigInv, WriteInv, Next
    PROVE  WriteInv'
<1>0. /\ pc \in [Node -> Place] /\ step \in [Node -> Nat] /\ casts \in Casts
      /\ written \subseteq Node /\ \A n \in Node : step[n] >= step[n]
    BY DEF CastTypes, WriteInv
\* Steps that move a node to a place from which it does not write.
<1>a. ASSUME NEW n \in Node, NEW x, pc' = pc \/ pc' = [pc EXCEPT ![n] = x],
             x \notin {"write", "written"}, UNCHANGED <<step, written>>, Grows
      PROVE  WriteInv'
    BY <1>0, <1>a, WriteKept
<1>b. ASSUME UNCHANGED <<step, casts>>
      PROVE  Grows
    BY <1>0, <1>b DEF Grows
<1>1. ASSUME NEW n \in Node, NEW p \in Node, RequestSig(n, p)
      PROVE  WriteInv'
    BY <1>1, <1>a, <1>b DEF RequestSig, Fail, ToPC
<1>2. ASSUME NEW n \in Node, NEW p \in Node, SendCast(n, p)
      PROVE  WriteInv'
    <2>1. pc[n] \in CastID /\ proc[n] # 0 /\ UNCHANGED <<step, written>>
        BY <1>2 DEF SendCast, CastTypes
    <2>2. casts' = casts \/ casts' = Set3(casts, n, pc[n], n, proc[n])
        BY <1>2 DEF SendCast, Set3
    <2>3. Grows
        <3>1. CASE casts' = casts
            BY <1>b, <2>1, <3>1
        <3>2. CASE casts' = Set3(casts, n, pc[n], n, proc[n])
            <4>1. \A q, s \in Node : casts'[q]["nodesig"][s] \in {casts[q]["nodesig"][s], proc[n]}
                BY <1>0, <2>1, <3>2, Receives DEF CastID
            <4> QED
                BY <1>0, <2>1, <4>1 DEF Grows
        <3> QED
            BY <2>2, <3>1, <3>2
    <2>4. \E x \in {"shares", "await2", "awaitSigs"} : pc' = pc \/ pc' = [pc EXCEPT ![n] = x]
        BY <1>2 DEF SendCast, ToPC, CastID
    <2> QED
        BY <1>a, <2>1, <2>3, <2>4
<1>3. ASSUME NEW n \in Node, SendShares(n) \/ Round1(n) \/ StoreInternal(n) \/ NodeFails(n)
                             \/ PeerFailed(n)
      PROVE  WriteInv'
    BY <1>3, <1>a, <1>b DEF SendShares, Round1, StoreInternal, NodeFails, PeerFailed, Fail, ToPC,
                            castVars
<1>4. ASSUME NEW n \in Node, Exchanged(n)
      PROVE  WriteInv'
    <2>1. \E x \in {"deposit", "deposited", "registered", "locked"} : pc' = [pc EXCEPT ![n] = x]
        BY <1>4, ExchangedTo DEF ToPC
    <2>2. UNCHANGED <<step, casts, written>>
        BY <1>4 DEF Exchanged, castVars
    <2> QED
        BY <1>a, <1>b, <2>1, <2>2
<1>5. ASSUME NEW n \in Node, NextStep(n)
      PROVE  WriteInv'
    <2>1. /\ step' = [step EXCEPT ![n] = @ + 1] /\ pc' = [pc EXCEPT ![n] = "sync"]
          /\ UNCHANGED <<casts, written>>
        BY <1>5 DEF NextStep, ToPC, castVars
    <2>2. Grows
        BY <1>0, <2>1 DEF Grows
    <2>3. step[n] + 1 >= 6 => step[n] >= 6 \/ allSigs(n)
        BY <1>0, <1>5 DEF NextStep, SigInv, PlaceInv, Steps
    <2>4. \A q \in Node : step'[q] >= 6 => step[q] >= 6 \/ allSigs(q)
        BY <1>0, <2>1, <2>3
    <2>5. \A q \in Node : pc'[q] \in {"write", "written"} => pc[q] \in {"write", "written"}
        BY <1>0, <2>1
    <2> QED
        BY <1>0, <2>1, <2>2, <2>4, <2>5, WriteKept
<1>6. ASSUME NEW n \in Node, AwaitAllAtStep(n)
      PROVE  WriteInv'
    <2>1. /\ pc' = [pc EXCEPT ![n] = AtStep(step[n])] /\ UNCHANGED <<step, casts, written>>
          /\ \A p \in Peers(n) : step[p] >= step[n]
        BY <1>6 DEF AwaitAllAtStep, ToPC, castVars
    <2>2. step[n] \in 2 .. 7
        BY <1>6 DEF AwaitAllAtStep, SigInv, PlaceInv, Steps
    <2>3. CASE AtStep(step[n]) = "write"
        <3>1. step[n] = 6
            BY <2>2, <2>3, AtStepPlace
        <3>2. \A p \in Node : step[p] >= 6
            BY <1>0, <2>1, <3>1 DEF Peers
        <3> QED
            BY <1>0, <1>b, <2>1, <3>2, WriteKept
    <2>4. CASE AtStep(step[n]) # "write"
        <3>1. PICK x : x = AtStep(step[n]) /\ x \notin {"write", "written"}
            BY <2>2, <2>4, AtStepPlace
        <3>2. Grows
            BY <1>b, <2>1
        <3> QED
            BY <1>a, <2>1, <3>1, <3>2
    <2> QED
        BY <2>3, <2>4
<1>7. ASSUME NEW n \in Node, Write(n)
      PROVE  WriteInv'
    <2>1. /\ pc[n] = "write" /\ pc' = [pc EXCEPT ![n] = "written"] /\ written' = written \cup {n}
          /\ UNCHANGED <<step, casts>>
        BY <1>7 DEF Write, ToPC, castVars
    <2> QED
        BY <1>0, <1>b, <2>1, WriteKept
<1>8. ASSUME NEW n \in Node, NEW t \in SigType, Push(n, t)
      PROVE  WriteInv'
    BY <1>8, <1>a, <1>b DEF Push, castVars
<1>9. ASSUME NEW m \in net, DeliverCast(m)
      PROVE  WriteInv'
    <2>1. m \in CastMsg /\ UNCHANGED <<pc, step, written>>
        BY <1>9 DEF DeliverCast, CastTypes, ShareMsg, ParSigMsg, CastID
    <2>2. PICK n \in Node : n = m.to
        BY <2>1 DEF CastMsg
    <2>3. Grows
        BY <1>9, DeliverCastGrows
    <2> QED
        BY <1>a, <2>1, <2>2, <2>3
<1>10. ASSUME NEW m \in net, DeliverShare(m) \/ DeliverParSig(m), NEW n \in Node
       PROVE  WriteInv'
    BY <1>10, <1>a, <1>b DEF DeliverShare, DeliverParSig, castVars
<1>11. ASSUME NEW n \in Node, Restart(n)
       PROVE  WriteInv'
    <2>1. \A p \in Node : step[p] = 1
        BY <1>11 DEF Restart
    <2>2. pc' = [pc EXCEPT ![n] = "round1"] /\ UNCHANGED <<step, written>>
        BY <1>11 DEF Restart, ToPC
    <2> QED
        BY <1>0, <2>1, <2>2 DEF WriteInv
<1>12. ASSUME Terminated
       PROVE  WriteInv'
    BY <1>12 DEF Terminated, vars, WriteInv, allSigs
<1> QED
    BY <1>1, <1>2, <1>3, <1>4, <1>5, <1>6, <1>7, <1>8, <1>9, <1>10, <1>11, <1>12
    DEF Next, Advance, Deliver

-----------------------------------------------------------------------------
(* The theorems.                                                           *)

\* The ceremony starts in the invariant.
LEMMA InitInv ==
    ASSUME Init
    PROVE  IInv
<1>1. /\ \A n \in Node : /\ pc[n] = "round1" /\ step[n] = 1 /\ proc[n] = 1
                         /\ sigs[n] = {} /\ pushing[n] = {} /\ sigDatas[n] = <<>>
                         /\ results[n] = <<>>
      /\ net = {} /\ written = {}
    BY DEF Init, Fresh
<1>2. /\ \A n, s \in Node, id \in CastID : casts[n][id][s] = 0
      /\ \A n, s \in Node : shares[n][s] = 0
      /\ \A n \in Node, t \in SigType : parsigs[n][t] = {}
    BY DEF Init, Fresh
<1>3. CastTypes
    <2>1. signed \in Signatures
        BY DEF Init, Signatures, Number
    <2>2. casts \in Casts
        BY DEF Init, Fresh, Casts, Number
    <2>3. shares \in Shares
        BY DEF Init, Fresh, Shares, Number
    <2>4. pc \in [Node -> Place] /\ step \in [Node -> Nat] /\ proc \in [Node -> Nat \ {0}]
          /\ sigs \in [Node -> SUBSET Node] /\ sent \in [Node -> SUBSET Node]
        BY DEF Init, Fresh, Place
    <2> QED
        BY <1>1, <2>1, <2>2, <2>3, <2>4 DEF CastTypes
<1>4. CastInv
    BY <1>1, <1>2, <1>3 DEF CastInv, OneRestarts, NodeCertified, ReceivedCertified, CastID
<1>5. SigTypes
    <2>1. parsigs \in PartialSigs
        BY DEF Init, PartialSigs
    <2>2. /\ pushing \in [Node -> SUBSET SigType]
          /\ sigDatas \in [Node -> Seq(SigType)] /\ results \in [Node -> Seq(SigType)]
        BY DEF Init, Fresh
    <2> QED
        BY <2>1, <2>2 DEF SigTypes
<1>6. ASSUME NEW n \in Node
      PROVE  PlaceInv(n) /\ ExchangeInv(n)
    BY <1>1, <1>2 DEF PlaceInv, Steps, ExchangeInv
<1>7. WriteInv
    BY <1>1 DEF WriteInv
<1> QED
    BY <1>4, <1>5, <1>6, <1>7 DEF IInv, SigInv

\* Every step of the ceremony keeps the invariant, restarts and failures
\* included.
LEMMA StepInv ==
    ASSUME IInv, [Next]_vars
    PROVE  IInv'
<1>1. CASE Next
    <2>1. CastTypes /\ CastInv /\ SigInv /\ WriteInv
        BY DEF IInv, CastInv
    <2>2. CastTypes'
        BY <1>1, <2>1, CastTypesStep
    <2> QED
        BY <1>1, <2>1, <2>2, CastStep, SigStep, WriteStep DEF IInv
<1>2. CASE UNCHANGED vars
    <2>1. CastInv'
        BY <1>2, CastStutters DEF IInv
    <2>2. SigInv'
        BY <1>2, SigStutters DEF IInv, CastInv
    <2>3. WriteInv'
        BY <1>2 DEF vars, IInv, WriteInv, allSigs
    <2> QED
        BY <2>1, <2>2, <2>3 DEF IInv
<1> QED
    BY <1>1, <1>2

\* The invariant holds in every state of a ceremony (dkg.Run).
THEOREM Invariance == Spec => []IInv
BY InitInv, StepInv, PTL DEF Spec

\* Reliable broadcast (dkg/bcast): nodes that received a message of a third one
\* received the same, also if the sender or a peer that signed it restarted.
THEOREM CastsAgreeHolds == Spec => []CastsAgree
<1>1. ASSUME CastInv, NEW n \in Node, NEW p \in Node, NEW s \in Node, NEW id \in CastID,
             casts[n][id][s] # 0, casts[p][id][s] # 0
      PROVE  casts[n][id][s] = casts[p][id][s]
    <2>1. CastTypes /\ OneRestarts
        BY <1>1 DEF CastInv
    <2>2. Certified(s, id, casts[n][id][s]) /\ Certified(s, id, casts[p][id][s])
        BY <1>1 DEF CastInv, NodeCertified, ReceivedCertified
    <2>3. CASE Peers(s) # {}
        BY <2>1, <2>2, <2>3, CertifiedUnique
    <2>4. CASE Peers(s) = {}
        BY <2>4 DEF Peers
    <2> QED
        BY <2>3, <2>4
<1>2. IInv => CastsAgree
    BY <1>1 DEF IInv, CastsAgree
<1> QED
    BY <1>2, Invariance, PTL

\* frostP2P.Round1: the share of a peer belongs to the cast of the peer, since
\* shares are only sent once the casts are certified.
THEOREM SharesFitCastsHolds == Spec => []SharesFitCasts
<1>1. ASSUME CastInv, NEW n \in Node, NEW p \in Node, n # p,
             shares[n][p] # 0, casts[n]["round1"][p] # 0
      PROVE  shares[n][p] = casts[n]["round1"][p]
    <2>1. CastTypes /\ OneRestarts /\ "round1" \in CastID /\ Peers(p) # {}
        BY <1>1 DEF CastInv, CastID, Peers
    <2>2. Certified(p, "round1", shares[n][p]) /\ Certified(p, "round1", casts[n]["round1"][p])
        BY <1>1, <2>1 DEF CastInv, NodeCertified, ReceivedCertified
    <2> QED
        BY <2>1, <2>2, CertifiedUnique
<1>2. IInv => SharesFitCasts
    BY <1>1 DEF IInv, SharesFitCasts
<1> QED
    BY <1>2, Invariance, PTL

\* exchanger.exchange: what an exchange reads from the channel that all types
\* share is the data of its own type, with the signatures of all nodes.
THEOREM ExchangesFitHolds == Spec => []ExchangesFit
<1>1. IInv => ExchangesFit
    <2>1. ASSUME SigInv, NEW n \in Node
          PROVE  DOMAIN results[n] = 1 .. Len(results[n]) /\ ExchangeInv(n)
        BY <2>1 DEF SigInv, SigTypes
    <2> QED
        BY <2>1 DEF IInv, ExchangesFit, ExchangeInv
<1> QED
    BY <1>1, Invariance, PTL

\* dkg.Run: when a node writes, all nodes have every result and all node
\* signatures, whichever nodes fail afterwards.
THEOREM AllCanWriteHolds == Spec => []AllCanWrite
<1>1. ASSUME IInv, written # {}, NEW n \in Node
      PROVE  Len(results[n]) = Lock /\ allSigs(n)
    <2>1. step[n] >= 6 /\ allSigs(n)
        BY <1>1 DEF IInv, WriteInv
    <2>2. step[n] \in Nat /\ PlaceInv(n)
        BY <1>1 DEF IInv, CastInv, CastTypes, SigInv
    <2> QED
        BY <2>1, <2>2 DEF PlaceInv
<1>2. IInv => AllCanWrite
    BY <1>1 DEF AllCanWrite
<1> QED
    BY <1>2, Invariance, PTL
=============================================================================
