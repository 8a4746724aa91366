-------------------------------- MODULE DKG --------------------------------
(***************************************************************************)
(* A DKG ceremony (dkg.Run): the two rounds of FROST over reliable         *)
(* broadcast (frost.go, frostp2p.go, dkg/bcast), the exchanges of partial  *)
(* signatures (exchanger.go), the exchange of node signatures              *)
(* (nodesigs.go) and writing the result, with a barrier between the steps. *)
(* The barrier is what module DKGSync provides: a node goes on when all    *)
(* its peers are at its step or one ahead, and fails if a peer fails.      *)
(*                                                                         *)
(* Messages may be delivered more than once, in any order, and late.  A    *)
(* process that restarts during the first step, while its peers are still  *)
(* at it, may take part again with new secrets; a later restart is         *)
(* noticed by the sync protocol.  A node may also fail on its own.  What a *)
(* node generates is represented by the number of its process.             *)
(***************************************************************************)
EXTENDS Naturals, FiniteSets, Sequences

CONSTANTS
    Node,        \* the nodes
    NumAmounts,  \* bound: how many deposit amounts there are
    MaxRestarts, \* bound: how many processes restart
    FailStep     \* bound: the step from which a node fails on its own

\* Without amounts in its definition the cluster has the default ones.
ASSUME AmountsAssumption == NumAmounts \in Nat \ {0}

Peers(n) == Node \ {n}
Registration == NumAmounts + 1
Lock == NumAmounts + 2
SigType == 1 .. NumAmounts + 2
CastID == {"round1", "round2", "nodesig"}

VARIABLES
    pc,        \* where the process of a node is
    step,      \* its step, as its peers know it
    proc,      \* the number of its process
    signed,    \* server.dedup: the message that was signed for a peer and an ID
    sigs,      \* the peers that signed the current broadcast
    sent,      \* the peers that it was sent to
    net,       \* the messages sent to the current processes
    casts,     \* what was received from each node, 0 if nothing, for each ID
    shares,    \* the share received from each peer
    parsigs,   \* the nodes whose partial signature is stored, for each type
    pushing,   \* the types whose data is complete but not yet in the channel
    sigDatas,  \* sigDatasChan
    results,   \* what the exchanges returned
    written    \* the nodes that wrote their keys and lock file
vars == <<pc, step, proc, signed, sigs, sent, net, casts, shares, parsigs, pushing,
          sigDatas, results, written>>

Fresh(x) == [m \in Node |-> x]

Init ==
    /\ pc = Fresh("round1") /\ step = Fresh(1) /\ proc = Fresh(1)
    /\ signed = [n \in Node |-> [p \in Node |-> [i \in CastID |-> 0]]]
    /\ sigs = Fresh({}) /\ sent = Fresh({}) /\ net = {}
    /\ casts = [n \in Node |-> [i \in CastID |-> Fresh(0)]]
    /\ shares = [n \in Node |-> Fresh(0)]
    /\ parsigs = [n \in Node |-> [t \in SigType |-> {}]]
    /\ pushing = Fresh({}) /\ sigDatas = Fresh(<<>>) /\ results = Fresh(<<>>)
    /\ written = {}

ToPC(n, s) == pc' = [pc EXCEPT ![n] = s]
Fail(n) == ToPC(n, "failed")
Failed(n) == pc[n] = "failed"
castVars == <<signed, sigs, sent, net, casts>>
sigVars == <<parsigs, pushing, sigDatas, results>>

-----------------------------------------------------------------------------
(* Reliable broadcast: client.Broadcast, of the message with the ID that   *)
(* is the node's pc.                                                       *)

\* A bug: a second message of a peer is signed too.
dedupAlways(p, n, id, val) == TRUE

\* dedupHash: one message is signed for a peer and an ID.
dedupHash(p, n, id, val) == signed[p][n][id] \in {0, val}

\* Peer p is asked to sign (handleSigRequest), and refuses another message.
RequestSig(n, p) ==
    LET id == pc[n] IN
    /\ id \in CastID /\ p \in Peers(n) \ sigs[n] /\ ~ Failed(p)
    /\ IF dedupHash(p, n, id, proc[n])
       THEN /\ signed' = [signed EXCEPT ![p][n][id] = proc[n]]
            /\ sigs' = [sigs EXCEPT ![n] = @ \cup {p}]
            /\ UNCHANGED pc
       ELSE Fail(n) /\ UNCHANGED <<signed, sigs>>
    /\ UNCHANGED <<step, proc, sent, net, casts, shares, sigVars, written>>

\* With all signatures the message is sent to one peer after the other, and
\* then given to the node itself.
SendCast(n, p) ==
    LET id == pc[n] IN
    /\ id \in CastID /\ sigs[n] = Peers(n)
    /\ p \in Peers(n) \ sent[n]
    /\ net' = net \cup {[to |-> p, from |-> n, id |-> id, val |-> proc[n], sigs |-> sigs[n]]}
    /\ IF sent[n] \cup {p} = Peers(n)
       THEN /\ casts' = [casts EXCEPT ![n][id][n] = proc[n]]
            /\ sigs' = [sigs EXCEPT ![n] = {}] /\ sent' = [sent EXCEPT ![n] = {}]
            /\ ToPC(n, CASE id = "round1" -> "shares" [] id = "round2" -> "await2"
                         [] id = "nodesig" -> "awaitSigs")
       ELSE sent' = [sent EXCEPT ![n] = @ \cup {p}] /\ UNCHANGED <<pc, casts, sigs>>
    /\ UNCHANGED <<step, proc, signed, shares, sigVars, written>>

\* The lock hash is there once the node exchanges node signatures itself.
lockHash(n) == pc[n] \in {"nodesig", "awaitSigs"}

\* The callback of frostp2p: the first message of a peer counts.
newBcastCallback(m) == m.id # "nodesig" /\ casts[m.to][m.id][m.from] = 0

\* The callback of nodesigs waits for the lock hash, and setSig overwrites the
\* signature that it has, if it is another one.
broadcastCallback(m) ==
    m.id = "nodesig" /\ lockHash(m.to) /\ casts[m.to][m.id][m.from] # m.val

\* handleMessage.
DeliverCast(m) ==
    /\ m.id \in CastID /\ m.sigs = Peers(m.from) /\ ~ Failed(m.to)
    /\ newBcastCallback(m) \/ broadcastCallback(m)
    /\ casts' = [casts EXCEPT ![m.to][m.id][m.from] = m.val]
    /\ UNCHANGED <<pc, step, proc, signed, sigs, sent, net, shares, sigVars, written>>

-----------------------------------------------------------------------------
(* runFrostParallel.                                                       *)

\* A bug: shares are sent before the casts are broadcast.
SendSharesFirst(n) ==
    /\ pc[n] \in {"round1", "shares"}
    /\ net' = net \cup {[to |-> p, from |-> n, id |-> "share", val |-> proc[n]] : p \in Peers(n)}
    /\ IF pc[n] = "shares" THEN ToPC(n, "await1") ELSE UNCHANGED pc
    /\ UNCHANGED <<step, proc, signed, sigs, sent, casts, shares, sigVars, written>>

\* Round1 sends each peer its share.
SendShares(n) ==
    /\ pc[n] = "shares"
    /\ net' = net \cup {[to |-> p, from |-> n, id |-> "share", val |-> proc[n]] : p \in Peers(n)}
    /\ ToPC(n, "await1")
    /\ UNCHANGED <<step, proc, signed, sigs, sent, casts, shares, sigVars, written>>

\* newP2PCallback: the first share of a peer counts.
DeliverShare(m) ==
    /\ m.id = "share" /\ ~ Failed(m.to) /\ shares[m.to][m.from] = 0
    /\ shares' = [shares EXCEPT ![m.to][m.from] = m.val]
    /\ UNCHANGED <<pc, step, proc, castVars, sigVars, written>>

\* Round1 returns with the casts of all nodes and the shares of all peers.
\* Shares that do not belong to the casts fail their verification (round2).
Round1(n) ==
    /\ pc[n] = "await1"
    /\ \A p \in Node : casts[n]["round1"][p] # 0
    /\ \A p \in Peers(n) : shares[n][p] # 0
    /\ ToPC(n, IF \A p \in Peers(n) : shares[n][p] = casts[n]["round1"][p] THEN "round2" ELSE "failed")
    /\ UNCHANGED <<step, proc, castVars, shares, sigVars, written>>

-----------------------------------------------------------------------------
(* nextStepSync.                                                           *)

\* Round2 has the casts of all nodes, the exchange of node signatures theirs.
Round2(n) == \A p \in Node : casts[n]["round2"][p] # 0
allSigs(n) == \A p \in Node : casts[n]["nodesig"][p] # 0

\* The step is over: the node reports the next one.
NextStep(n) ==
    /\ \/ pc[n] = "await2" /\ Round2(n)
       \/ pc[n] = "awaitSigs" /\ allSigs(n)
       \/ pc[n] \in {"deposited", "registered", "locked", "written"}
    /\ step' = [step EXCEPT ![n] = @ + 1]
    /\ ToPC(n, "sync")
    /\ UNCHANGED <<proc, castVars, shares, sigVars, written>>

\* What follows step s.
AtStep(s) == <<"round1", "deposit", "registration", "lock", "nodesig", "write", "done">>[s]

\* A bug: some peer at the step is enough.
AwaitSomeAtStep(n) ==
    /\ pc[n] = "sync"
    /\ \E p \in Peers(n) : step[p] >= step[n]
    /\ ToPC(n, AtStep(step[n]))
    /\ UNCHANGED <<step, proc, castVars, shares, sigVars, written>>

AwaitAllAtStep(n) ==
    /\ pc[n] = "sync"
    /\ \A p \in Peers(n) : step[p] >= step[n]
    /\ ToPC(n, AtStep(step[n]))
    /\ UNCHANGED <<step, proc, castVars, shares, sigVars, written>>

-----------------------------------------------------------------------------
(* exchanger.exchange.                                                     *)

\* The type that a node exchanges next, by its pc and what it has exchanged.
Current(n) == Len(results[n]) + 1
Exchanging == {"deposit", "registration", "lock"}

\* A bug: the threshold is that of the cluster, and not the number of nodes.
StoredThreshold(n, t, p) ==
    /\ parsigs' = [parsigs EXCEPT ![n][t] = @ \cup {p}]
    /\ pushing' = IF p \notin parsigs[n][t] /\ Cardinality(parsigs[n][t] \cup {p}) = Cardinality(Node) - 1
                  THEN [pushing EXCEPT ![n] = @ \cup {t}] ELSE pushing

\* StoreExternal: a partial signature is stored; with those of all nodes
\* (the threshold) pushPsigs is called.
Stored(n, t, p) ==
    /\ parsigs' = [parsigs EXCEPT ![n][t] = @ \cup {p}]
    /\ pushing' = IF p \notin parsigs[n][t] /\ parsigs[n][t] \cup {p} = Node
                  THEN [pushing EXCEPT ![n] = @ \cup {t}] ELSE pushing

\* StoreInternal: the own signature is stored, and sent to all peers.
StoreInternal(n) ==
    /\ pc[n] \in Exchanging
    /\ Stored(n, Current(n), n)
    /\ net' = net \cup {[to |-> p, from |-> n, id |-> "parsig", val |-> Current(n)] : p \in Peers(n)}
    /\ ToPC(n, "exchange")
    /\ UNCHANGED <<step, proc, signed, sigs, sent, casts, shares, sigDatas, results, written>>

DeliverParSig(m) ==
    /\ m.id = "parsig" /\ ~ Failed(m.to) /\ m.from \notin parsigs[m.to][m.val]
    /\ Stored(m.to, m.val, m.from)
    /\ UNCHANGED <<pc, step, proc, castVars, shares, sigDatas, results, written>>

\* pushPsigs sends the data on the channel, which holds one.
Push(n, t) ==
    /\ t \in pushing[n] /\ sigDatas[n] = <<>> /\ ~ Failed(n)
    /\ sigDatas' = [sigDatas EXCEPT ![n] = <<t>>]
    /\ pushing' = [pushing EXCEPT ![n] = @ \ {t}]
    /\ UNCHANGED <<pc, step, proc, castVars, shares, parsigs, results, written>>

\* exchange returns what it reads.  The amounts are exchanged one after the
\* other, without a barrier.
Exchanged(n) ==
    /\ pc[n] = "exchange" /\ sigDatas[n] # <<>>
    /\ results' = [results EXCEPT ![n] = Append(@, Head(sigDatas[n]))]
    /\ sigDatas' = [sigDatas EXCEPT ![n] = <<>>]
    /\ ToPC(n, CASE Current(n) < NumAmounts -> "deposit"
                 [] Current(n) = NumAmounts -> "deposited"
                 [] Current(n) = Registration -> "registered"
                 [] Current(n) = Lock -> "locked")
    /\ UNCHANGED <<step, proc, castVars, shares, parsigs, pushing, written>>

Write(n) ==
    /\ pc[n] = "write"
    /\ written' = written \cup {n}
    /\ ToPC(n, "written")
    /\ UNCHANGED <<step, proc, castVars, shares, sigVars>>

-----------------------------------------------------------------------------
(* Failures.                                                               *)

\* The process restarts in the first step: what was sent to it is lost.
Restart(n) ==
    /\ proc[n] <= MaxRestarts /\ \A p \in Peers(n) : proc[p] = 1
    /\ \A p \in Node : step[p] = 1
    /\ proc' = [proc EXCEPT ![n] = @ + 1] /\ ToPC(n, "round1")
    /\ signed' = [signed EXCEPT ![n] = [p \in Node |-> [i \in CastID |-> 0]]]
    /\ sigs' = [sigs EXCEPT ![n] = {}] /\ sent' = [sent EXCEPT ![n] = {}]
    /\ net' = {m \in net : m.to # n}
    /\ casts' = [casts EXCEPT ![n] = [i \in CastID |-> Fresh(0)]]
    /\ shares' = [shares EXCEPT ![n] = Fresh(0)]
    /\ UNCHANGED <<step, sigVars, written>>

\* A node fails on its own, for instance because it times out.
NodeFails(n) ==
    /\ step[n] >= FailStep /\ pc[n] # "done" /\ \A p \in Node : ~ Failed(p)
    /\ Fail(n)
    /\ UNCHANGED <<step, proc, castVars, shares, sigVars, written>>

\* The sync protocol ends the ceremony when a peer has failed.
PeerFailed(n) ==
    /\ pc[n] \notin {"failed", "done"} /\ \E p \in Peers(n) : Failed(p)
    /\ Fail(n)
    /\ UNCHANGED <<step, proc, castVars, shares, sigVars, written>>

Advance(n) ==
    \/ \E p \in Node : RequestSig(n, p) \/ SendCast(n, p)
    \/ SendShares(n) \/ Round1(n) \/ NextStep(n) \/ AwaitAllAtStep(n)
    \/ StoreInternal(n) \/ Exchanged(n) \/ Write(n) \/ NodeFails(n) \/ PeerFailed(n)
    \/ \E t \in SigType : Push(n, t)
Deliver(n) == \E m \in net : m.to = n /\ (DeliverCast(m) \/ DeliverShare(m) \/ DeliverParSig(m))

\* The ceremony is over.  After a restart it may not be: what was sent to the
\* old process is not sent again, and the nodes wait until they time out.
Terminated ==
    /\ (\A n \in Node : pc[n] \in {"done", "failed"}) \/ (\E n \in Node : proc[n] > 1)
    /\ UNCHANGED vars

Next == (\E n \in Node : Advance(n) \/ Deliver(n) \/ Restart(n)) \/ Terminated
Spec == Init /\ [][Next]_vars

-----------------------------------------------------------------------------
(* Properties.                                                             *)

\* Reliable broadcast: two nodes that received a message from a third one have
\* the same (server.dedupHash: "byzantine peer cannot broadcast different hashes
\* for the same message ID"), also if the sender restarted in between.
CastsAgree ==
    \A n, p, s \in Node, id \in CastID :
        casts[n][id][s] # 0 /\ casts[p][id][s] # 0 => casts[n][id][s] = casts[p][id][s]

\* The shares that a node received belong to the casts it received from the same
\* peer (frostP2P.Round1 broadcasts the casts before it sends shares).
SharesFitCasts ==
    \A n, p \in Node :
        n # p /\ shares[n][p] # 0 /\ casts[n]["round1"][p] # 0 => shares[n][p] = casts[n]["round1"][p]

\* An exchange returns the data of the type it is for, and of all nodes, though
\* all types share one channel (exchanger.sigDatasChan) and the deposit amounts
\* are exchanged without a barrier.
ExchangesFit ==
    \A n \in Node : \A i \in DOMAIN results[n] : results[n][i] = i /\ parsigs[n][i] = Node

\* A node writes only when every node has all it needs to write, also if a node
\* fails (dkg.Run: "to prevent partial data writes in case of peer connection
\* lost").
AllCanWrite ==
    written # {} =>
        \A n \in Node : Len(results[n]) = Lock /\ allSigs(n)
=============================================================================
