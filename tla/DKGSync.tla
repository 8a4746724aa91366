------------------------------ MODULE DKGSync ------------------------------
(***************************************************************************)
(* The sync protocol of a DKG ceremony (dkg/sync and startSyncProtocol in  *)
(* dkg/dkg.go).  Every node has a server, and a client for each peer that  *)
(* keeps reporting the node's step on a stream.  A node starts a step when *)
(* its server has seen that all peers are at that step, or one ahead, and  *)
(* at the end each node shuts its clients down and waits for those of its  *)
(* peers; it then exits after a delay, whether or not its peers are done.  *)
(* Streams through a relay are reset from time to time: the client opens   *)
(* another one, while the handler of the old stream may still be working   *)
(* on a message, or has yet to notice.  A node may also fail, which ends   *)
(* its streams.                                                            *)
(***************************************************************************)
EXTENDS Naturals, FiniteSets

CONSTANTS
    Node,
    LastStep,   \* bound: the last step of the ceremony, 7 in the code
    MaxResets,  \* bound: how often a stream is reset
    MaxCrashes  \* bound: how many nodes fail on their own

ASSUME StepAssumption == LastStep \in Nat \ {0}

VARIABLES
    misfit,     \* the nodes with another cluster definition or version
    pc,         \* of startSyncProtocol, and of the ceremony that follows
    step,       \* the step of the node, which its clients report
    reconnect,  \* whether its clients reconnect to a peer that is gone
    client,     \* the client of a node for a peer
    server,     \* the server of a node
    handler,    \* handleStream: of a node for the stream of a peer, and
    old,        \* those of streams of that peer that were reset
    resets, crashes,
    overtaken,  \* history: a client got a new stream before its first step was stored
    hurried     \* history: a node exited before its last response got to a peer
vars == <<misfit, pc, step, reconnect, client, server, handler, old, resets, crashes, overtaken,
          hurried>>

Pair == {np \in Node \X Node : np[1] # np[2]}
Peers(n) == Node \ {n}
Unknown == LastStep + 1   \* there is no step for the peer

NoStream == [pc |-> "none", broken |-> FALSE]

Init ==
    /\ misfit = {} \/ \E n \in Node : misfit = {n}
    /\ pc = [n \in Node |-> "connecting"]
    /\ step = [n \in Node |-> 0] /\ reconnect = [n \in Node |-> TRUE]
    /\ client = [c \in Pair |-> [pc |-> "connect", shutdown |-> FALSE]]
    /\ server = [n \in Node |-> [connected |-> {}, shutdown |-> {}, err |-> FALSE,
                                 steps |-> [p \in Peers(n) |-> Unknown]]]
    /\ handler = [h \in Pair |-> NoStream] /\ old = [h \in Pair |-> {}]
    /\ resets = 0 /\ crashes = 0 /\ overtaken = FALSE /\ hurried = FALSE

Up(n) == pc[n] \notin {"failed", "exited"}
nodeUnchanged == UNCHANGED <<pc, step, reconnect, resets, crashes, overtaken, hurried>>

-----------------------------------------------------------------------------
(* A node fails, on its own or because a client or its server does: its    *)
(* context is cancelled and its streams end.                               *)

EndStreams(n) == [h \in Pair |-> IF n \in {h[1], h[2]} /\ handler[h].pc # "none"
                                 THEN [handler[h] EXCEPT !.broken = TRUE] ELSE handler[h]]

Fails(n) ==
    /\ pc' = [pc EXCEPT ![n] = "failed"]
    /\ handler' = EndStreams(n)

Crash(n) ==
    /\ crashes < MaxCrashes /\ pc[n] \notin {"failed", "done", "exited"}
    /\ crashes' = crashes + 1
    /\ Fails(n)
    /\ UNCHANGED <<step, reconnect, client, server, old, resets, overtaken, hurried>>

-----------------------------------------------------------------------------
(* Client.Run: of node c[1] for its peer c[2].  The handler of its stream  *)
(* is the one of node c[2] for c[1].                                       *)

Stream(c) == <<c[2], c[1]>>
SetClient(c, s) == client' = [client EXCEPT ![c].pc = s]

\* A bug: the node is not told that a client gave up.
ConnectGivesUp(c) ==
    /\ Up(c[1]) /\ client[c].pc = "connect"
    /\ IF Up(c[2])
       THEN /\ handler[Stream(c)].pc = "none"
            /\ SetClient(c, "send")
            /\ handler' = [handler EXCEPT ![Stream(c)] = [pc |-> "read", broken |-> FALSE]]
            /\ overtaken' = \/ overtaken
                            \/ /\ server[c[2]].steps[c[1]] = Unknown
                               /\ \E r \in old[Stream(c)] : r.pc \in {"valid", "update"}
            /\ UNCHANGED pc
       ELSE ~ reconnect[c[1]] /\ SetClient(c, "done") /\ UNCHANGED <<pc, handler, overtaken>>
    /\ UNCHANGED <<step, reconnect, server, old, resets, crashes, hurried>>

\* connect.  A peer that is gone is tried again as long as clients reconnect.
Connect(c) ==
    /\ Up(c[1]) /\ client[c].pc = "connect"
    /\ IF Up(c[2])
       THEN /\ handler[Stream(c)].pc = "none"
            /\ SetClient(c, "send")
            /\ handler' = [handler EXCEPT ![Stream(c)] = [pc |-> "read", broken |-> FALSE]]
            /\ overtaken' = \/ overtaken
                            \/ /\ server[c[2]].steps[c[1]] = Unknown
                               /\ \E r \in old[Stream(c)] : r.pc \in {"valid", "update"}
            /\ UNCHANGED pc
       ELSE ~ reconnect[c[1]] /\ SetClient(c, "done") /\ Fails(c[1]) /\ UNCHANGED overtaken
    /\ UNCHANGED <<step, reconnect, server, old, resets, crashes, hurried>>

\* IsConnected: the client has a stream.
IsConnected(c) == client[c].pc \in {"send", "sent"}

\* Whether the message differs from what the server has.  Clients send in
\* every period; a message that tells nothing new changes nothing.
News(c) ==
    \/ client[c].shutdown
    \/ server[c[2]].steps[c[1]] # step[c[1]] \/ c[1] \notin server[c[2]].connected

\* sendMsgs and sendMsg: a message with the step, or to shut down.
Send(c) ==
    /\ Up(c[1]) /\ client[c].pc = "send" /\ News(c)
    /\ handler[Stream(c)].pc = "read" /\ ~ handler[Stream(c)].broken
    /\ SetClient(c, "sent")
    /\ handler' = [handler EXCEPT ![Stream(c)] =
          [pc |-> "valid", broken |-> FALSE, step |-> step[c[1]], shutdown |-> client[c].shutdown]]
    /\ UNCHANGED <<server, old>> /\ nodeUnchanged

\* The response arrives: an error of the peer fails the node.
Receive(c) ==
    /\ Up(c[1]) /\ client[c].pc = "sent"
    /\ handler[Stream(c)].pc = "response" /\ ~ handler[Stream(c)].broken
    /\ CASE handler[Stream(c)].shutdown ->
                /\ SetClient(c, "done")
                /\ handler' = [handler EXCEPT ![Stream(c)] = NoStream]
                /\ UNCHANGED pc
         [] handler[Stream(c)].err /\ ~ handler[Stream(c)].shutdown ->
                SetClient(c, "done") /\ Fails(c[1])
         [] OTHER ->
                /\ SetClient(c, "send")
                /\ handler' = [handler EXCEPT ![Stream(c)] = [pc |-> "read", broken |-> FALSE]]
                /\ UNCHANGED pc
    /\ UNCHANGED <<step, reconnect, server, old, resets, crashes, overtaken, hurried>>

\* A handler that is left behind on a stream that was reset: it has returned
\* only when it ended the stream itself or answered the last message.  Handlers
\* that are left at the same point with the same message are counted once.
LeftBehind(h) == {r \in {h} : r.pc # "none" /\ ~ (r.pc = "response" /\ r.shutdown)}

\* The stream has ended: after a reset the client opens another one, as it
\* does for a peer that hung up while clients reconnect.
StreamEnds(c) ==
    /\ Up(c[1]) /\ client[c].pc \in {"send", "sent"}
    /\ LET h == handler[Stream(c)] IN
       /\ h.pc = "none" \/ h.broken
       /\ IF ~ h.broken /\ ~ reconnect[c[1]]
          THEN SetClient(c, "done") /\ Fails(c[1]) /\ UNCHANGED old
          ELSE /\ SetClient(c, "connect")
               /\ old' = [old EXCEPT ![Stream(c)] =
                     IF Up(c[2]) THEN @ \cup LeftBehind(h) ELSE @]
               /\ handler' = [handler EXCEPT ![Stream(c)] = NoStream]
               /\ UNCHANGED pc
    /\ UNCHANGED <<step, reconnect, server, resets, crashes, overtaken, hurried>>

\* The relay resets the stream.
Reset(c) ==
    /\ resets < MaxResets /\ client[c].pc \in {"send", "sent"}
    /\ handler[Stream(c)].pc # "none" /\ ~ handler[Stream(c)].broken
    /\ resets' = resets + 1
    /\ handler' = [handler EXCEPT ![Stream(c)].broken = TRUE]
    /\ UNCHANGED <<pc, step, reconnect, client, server, old, crashes, overtaken, hurried>>

-----------------------------------------------------------------------------
(* Server.handleStream: of node h[1] for the stream of h[2].               *)

\* A handler that is at r goes on to next.
Handlers(h) == {handler[h]} \cup old[h]
Goes(h, r, next) ==
    \/ /\ handler[h] = r
       /\ handler' = [handler EXCEPT ![h] = next] /\ UNCHANGED old
    \/ /\ r \in old[h]
       /\ old' = [old EXCEPT ![h] = (@ \ {r}) \cup {x \in {next} : x.pc # "none"}] /\ UNCHANGED handler

\* validReq, and setConnected or setErr.
Validate(h, r) ==
    LET invalid == (h[1] \in misfit) # (h[2] \in misfit) IN
    /\ Up(h[1]) /\ r.pc = "valid"
    /\ Goes(h, r, [pc |-> "update", broken |-> r.broken, step |-> r.step,
                   shutdown |-> r.shutdown, err |-> invalid])
    /\ server' = IF invalid THEN [server EXCEPT ![h[1]].err = TRUE]
                 ELSE [server EXCEPT ![h[1]].connected = @ \cup {h[2]}]
    /\ UNCHANGED client /\ nodeUnchanged

\* A bug: a report may be missed when the peer is one step ahead.
StepOKStrict(current, reported) ==
    IF current = Unknown THEN reported <= 1
    ELSE reported >= current /\ reported <= current + 1

\* updateStep: whether the reported step is accepted.
StepOK(current, reported) ==
    IF current = Unknown THEN reported <= 1
    ELSE reported >= current /\ reported <= current + 2

\* updateStep and the response.  A handler that ends, because the step is not
\* accepted, the stream is gone or the peer shuts down, clears connected.
Respond(h, r) ==
    LET n == h[1]
        p == h[2]
        ok == StepOK(server[n].steps[p], r.step)
        ends == r.broken \/ r.shutdown \/ ~ ok
    IN
    /\ Up(n) /\ r.pc = "update"
    /\ Goes(h, r, IF ok /\ ~ r.broken THEN [r EXCEPT !.pc = "response"]
                  ELSE [pc |-> "none", broken |-> r.broken])
    /\ server' = [server EXCEPT
          ![n].steps[p] = IF ok THEN r.step ELSE @,
          ![n].shutdown = IF ok /\ r.shutdown /\ ~ r.broken THEN @ \cup {p} ELSE @,
          ![n].connected = IF ends THEN @ \ {p} ELSE @]
    /\ UNCHANGED client /\ nodeUnchanged

\* A handler finds its stream gone when it reads the next message: it clears
\* connected, which a newer stream of the peer may have set in the meantime.
ReadFails(h, r) ==
    /\ Up(h[1]) /\ r.broken /\ r.pc \in {"read", "response"} /\ LeftBehind(r) # {}
    /\ Goes(h, r, [pc |-> "none", broken |-> TRUE])
    /\ server' = [server EXCEPT ![h[1]].connected = @ \ {h[2]}]
    /\ UNCHANGED client /\ nodeUnchanged

-----------------------------------------------------------------------------
(* startSyncProtocol, nextStepSync and stopSync.                           *)

SetPC(n, s) == pc' = [pc EXCEPT ![n] = s]

\* All clients are connected: they no longer reconnect.  The clients are looked
\* at, and then told, together.
AllClientsConnected(n) ==
    /\ pc[n] = "connecting" /\ ~ server[n].err
    /\ \A p \in Peers(n) : IsConnected(<<n, p>>)
    /\ SetPC(n, "connected") /\ reconnect' = [reconnect EXCEPT ![n] = FALSE]
    /\ UNCHANGED <<step, client, server, handler, old, resets, crashes, overtaken, hurried>>

\* AwaitAllConnected, then the first call of nextStepSync.
AwaitAllConnected(n) ==
    /\ pc[n] = "connected" /\ ~ server[n].err
    /\ server[n].connected = Peers(n)
    /\ SetPC(n, "await") /\ step' = [step EXCEPT ![n] = 1]
    /\ UNCHANGED <<reconnect, client, server, handler, old, resets, crashes, overtaken, hurried>>

\* A bug: a peer at the step before is taken for one at the step.
isAllAtStepBehind(n) == \A p \in Peers(n) : server[n].steps[p] \in step[n] - 1 .. step[n] + 1

isAllAtStep(n) == \A p \in Peers(n) : server[n].steps[p] \in {step[n], step[n] + 1} \ {Unknown}

AwaitAllAtStep(n) ==
    /\ pc[n] = "await" /\ ~ server[n].err
    /\ isAllAtStep(n)
    /\ SetPC(n, "working")
    /\ UNCHANGED <<step, reconnect, client, server, handler, old, resets, crashes, overtaken, hurried>>

\* The work of the step ends: the next one, or stopSync.
StepEnds(n) ==
    /\ pc[n] = "working"
    /\ IF step[n] < LastStep
       THEN SetPC(n, "await") /\ step' = [step EXCEPT ![n] = @ + 1]
       ELSE SetPC(n, "stopping") /\ UNCHANGED step
    /\ UNCHANGED <<reconnect, client, server, handler, old, resets, crashes, overtaken, hurried>>

\* AwaitAllConnected and AwaitAllAtStep return the error of the server, and the
\* latter that a peer is too far ahead.
ServerFails(n) ==
    /\ \/ pc[n] \in {"connecting", "connected", "await"} /\ server[n].err
       \/ /\ pc[n] = "await" /\ \A p \in Peers(n) : server[n].steps[p] # Unknown
          /\ \E p \in Peers(n) : server[n].steps[p] >= step[n] + 2
    /\ Fails(n)
    /\ UNCHANGED <<step, reconnect, client, server, old, resets, crashes, overtaken, hurried>>

\* Shutdown of one client after the other: it sends a last message.
Shutdown(c) ==
    /\ pc[c[1]] = "stopping" /\ ~ client[c].shutdown
    /\ \A p \in Peers(c[1]) : client[<<c[1], p>>].shutdown => client[<<c[1], p>>].pc = "done"
    /\ client' = [client EXCEPT ![c].shutdown = TRUE]
    /\ UNCHANGED <<server, handler, old>> /\ nodeUnchanged

\* AwaitAllShutdown.  The node then stays up for its shutdown delay.
AwaitAllShutdown(n) ==
    /\ pc[n] = "stopping" /\ \A p \in Peers(n) : client[<<n, p>>].pc = "done"
    /\ server[n].shutdown = Peers(n)
    /\ SetPC(n, "done")
    /\ UNCHANGED <<step, reconnect, client, server, handler, old, resets, crashes, overtaken, hurried>>

\* The shutdown delay is over and the process exits.  Nothing tells it whether
\* the clients of its peers got their last response.
Exit(n) ==
    /\ pc[n] = "done"
    /\ SetPC(n, "exited") /\ handler' = EndStreams(n)
    /\ hurried' = (hurried \/ \E p \in Peers(n) : client[<<p, n>>].pc # "done")
    /\ UNCHANGED <<step, reconnect, client, server, old, resets, crashes, overtaken>>

ClientStep(c) ==
    /\ Connect(c) \/ Send(c) \/ Receive(c) \/ StreamEnds(c) \/ Shutdown(c)
    /\ UNCHANGED misfit
HandlerStep(h) ==
    /\ \E r \in Handlers(h) : Validate(h, r) \/ Respond(h, r) \/ ReadFails(h, r)
    /\ UNCHANGED misfit
NodeStep(n) ==
    /\ \/ AllClientsConnected(n) \/ AwaitAllConnected(n) \/ AwaitAllAtStep(n) \/ StepEnds(n)
       \/ ServerFails(n) \/ AwaitAllShutdown(n) \/ Exit(n)
    /\ UNCHANGED misfit
Fault ==
    /\ (\E c \in Pair : Reset(c)) \/ (\E n \in Node : Crash(n))
    /\ UNCHANGED misfit
Next ==
    \/ \E c \in Pair : ClientStep(c) \/ HandlerStep(c)
    \/ \E n \in Node : NodeStep(n)
    \/ Fault

\* Every goroutine keeps running.
Fairness ==
    /\ \A c \in Pair : WF_vars(ClientStep(c)) /\ WF_vars(HandlerStep(c))
    /\ \A n \in Node : WF_vars(NodeStep(n))
Spec == Init /\ [][Next]_vars /\ Fairness

-----------------------------------------------------------------------------
(* Properties.                                                             *)

\* A node works on a step when all its peers have reached it (AwaitAllAtStep:
\* "we know all peers are or were at the given step") and have the same
\* definition, and no node is ever more than a step ahead of another.
StepsAreInSync ==
    \A n, p \in Node :
        /\ step[p] <= step[n] + 1
        /\ pc[n] = "working" => step[p] >= step[n] /\ (n \in misfit <=> p \in misfit)

\* stopSync was called: the node has done all the steps of the ceremony.
Finished(n) == step[n] = LastStep /\ \E p \in Peers(n) : client[<<n, p>>].shutdown

\* Resets of streams do not fail the ceremony (Client.Run always reconnects after
\* one): a node fails only if some node failed on its own, or does not fit.  There
\* are two exceptions.  A handler may be overtaken by the next stream of its peer
\* between setConnected and updateStep: the peer may then be two steps on when
\* its first step is stored, which is refused.  And a reset may lose the response
\* to the last message of a client whose peer then exits, its shutdown delay
\* being over: the client cannot reconnect and its node reports a failure
\* ("Consider increasing --shutdown-delay if this occurs often").  A delay that
\* is too short fails only nodes that have completed their work.
OnlyFailuresFail ==
    crashes = 0 /\ misfit = {} /\ ~ overtaken =>
        \A n \in Node : pc[n] = "failed" => hurried /\ Finished(n)

\* A node whose clients are all done waits for a peer that failed before it shut
\* its client down: AwaitAllShutdown does not look at the server's error, and no
\* client is left to notice.
WaitsInVain(n) ==
    /\ pc[n] = "stopping" /\ \A p \in Peers(n) : client[<<n, p>>].pc = "done"
    /\ \E p \in Peers(n) \ server[n].shutdown : pc[p] = "failed"

\* Once all nodes are connected every node ends: they all complete the ceremony
\* and exit, or fail because one of them did.  The exception is a node in
\* AwaitAllShutdown with a peer that failed: it waits until the ceremony times
\* out.
AllNodesEnd ==
    (\A n \in Node : ~ reconnect[n]) ~>
        \A n \in Node : pc[n] \in {"exited", "failed"} \/ WaitsInVain(n)
=============================================================================
