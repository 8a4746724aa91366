--------------------------- MODULE DKGSyncProofs ---------------------------
(***************************************************************************)
(* Proofs about DKGSync, for every number of nodes, steps, resets and      *)
(* failures: nodes work on a step only when all of them have reached it,   *)
(* resets of streams alone do not fail a ceremony, and a node that exits   *)
(* fails no node that still has work to do.                                *)
(***************************************************************************)
EXTENDS DKGSync, TLAPS

\* Most leaves are first-order: Zenon is tried before the SMT solver.
USE ZenonT(4), SMTT(20)

-----------------------------------------------------------------------------
(* The inductive invariant.  A report of a step is out of date when it is  *)
(* stored, but steps only grow, so that it is never more than the step of  *)
(* its sender; and one that passed validReq is from a node that fits, or   *)
(* the server has the error.                                               *)

Place == {"connecting", "connected", "await", "working", "stopping", "done", "exited", "failed"}
Idle == [pc : {"none", "read"}, broken : BOOLEAN]
Requested == [pc : {"valid"}, broken : BOOLEAN, step : Nat, shutdown : BOOLEAN]
Answered == [pc : {"update", "response"}, broken : BOOLEAN, step : Nat, shutdown : BOOLEAN,
             err : BOOLEAN]
State == Idle \cup Requested \cup Answered

Fits(n, p) == n \in misfit <=> p \in misfit
Trusted(n, p) == Fits(n, p) \/ server[n].err

\* What a handler h knows when it is at r.
HandlerOK(h, r) ==
    /\ r \in State
    /\ r.pc \in {"valid", "update"} => r.step <= step[h[2]]
    /\ r.pc = "update" => Trusted(h[1], h[2])

NodesOK ==
    /\ pc \in [Node -> Place] /\ step \in [Node -> Nat]
    /\ \A n \in Node : pc[n] \in {"connecting", "connected"} => step[n] = 0

StreamsOK ==
    /\ handler = [h \in Pair |-> handler[h]] /\ old = [h \in Pair |-> old[h]]
    /\ \A h \in Pair : \A r \in Handlers(h) : HandlerOK(h, r)

ServerState(n) == [connected : SUBSET Node, shutdown : SUBSET Node, err : BOOLEAN,
                   steps : [Peers(n) -> Nat]]

ServersOK ==
    /\ server = [n \in Node |-> server[n]]
    /\ \A n \in Node : server[n] \in ServerState(n)
    /\ \A n \in Node : \A p \in Peers(n) :
          server[n].steps[p] # Unknown => server[n].steps[p] <= step[p] /\ Trusted(n, p)

ClientPlace == {"connect", "send", "sent", "done"}
ClientsOK == client \in [Pair -> [pc : ClientPlace, shutdown : BOOLEAN]]

IInv == NodesOK /\ ClientsOK /\ StreamsOK /\ ServersOK /\ StepsAreInSync

-----------------------------------------------------------------------------
(* What all steps have in common.                                          *)

\* A state of a handler stays right when its stream is reset.
LEMMA BrokenIsOK ==
    ASSUME NEW h \in Pair, NEW r, HandlerOK(h, r)
    PROVE  HandlerOK(h, [r EXCEPT !.broken = TRUE])
<1> DEFINE b == [r EXCEPT !.broken = TRUE]
<1>1. CASE r \in Idle
  <2>1. b \in Idle /\ b.pc = r.pc
    BY <1>1 DEF Idle
  <2> QED
    BY <2>1 DEF HandlerOK, State, Idle
<1>2. CASE r \in Requested
  <2>1. b \in Requested /\ b.pc = r.pc /\ b.step = r.step
    BY <1>2 DEF Requested
  <2> QED
    BY <1>2, <2>1 DEF HandlerOK, State, Requested
<1>3. CASE r \in Answered
  <2>1. b \in Answered /\ b.pc = r.pc /\ b.step = r.step
    BY <1>3 DEF Answered
  <2> QED
    BY <1>3, <2>1 DEF HandlerOK, State
<1> QED
  BY <1>1, <1>2, <1>3 DEF HandlerOK, State

\* A handler that has no message knows nothing that could be wrong.
LEMMA IdleIsOK ==
    ASSUME NEW h, NEW r \in Idle
    PROVE  HandlerOK(h, r)
BY DEF HandlerOK, State, Idle

\* The handlers of a step are those that were there, or are right.
HandlersFollow ==
    /\ handler' = [h \in Pair |-> handler'[h]] /\ old' = [h \in Pair |-> old'[h]]
    /\ \A h \in Pair : \A r \in {handler'[h]} \cup old'[h] : r \in Handlers(h) \/ HandlerOK(h, r)

\* Nodes only leave the places at which the invariant says something.
NodesLeave ==
    /\ pc' \in [Node -> Place]
    /\ \A n \in Node : /\ pc'[n] \in {"connecting", "connected"} => pc[n] \in {"connecting", "connected"}
                       /\ pc'[n] = "working" => pc[n] = "working"

\* A step that changes neither steps nor servers keeps the invariant.
LEMMA QuietKeepsInv ==
    ASSUME IInv, HandlersFollow, NodesLeave, ClientsOK', UNCHANGED <<misfit, step, server>>
    PROVE  IInv'
<1>1. NodesOK'
  BY DEF IInv, NodesOK, NodesLeave
<1>2. StreamsOK'
  <2>1. ASSUME NEW h \in Pair, NEW r \in {handler'[h]} \cup old'[h]
        PROVE  HandlerOK(h, r)
    BY <2>1 DEF IInv, StreamsOK, HandlersFollow
  <2>2. ASSUME NEW h \in Pair, NEW r, HandlerOK(h, r)
        PROVE  HandlerOK(h, r)'
    BY <2>2 DEF HandlerOK, Trusted, Fits
  <2> QED
    BY <2>1, <2>2 DEF StreamsOK, HandlersFollow, Handlers
<1>3. ServersOK'
  BY DEF IInv, ServersOK, Trusted, Fits
<1>4. StepsAreInSync'
  BY DEF IInv, StepsAreInSync, NodesLeave
<1> QED
  BY <1>1, <1>2, <1>3, <1>4 DEF IInv

\* Steps that leave the handlers, or the nodes, alone.
LEMMA SameHandlersFollow ==
    ASSUME IInv, UNCHANGED <<handler, old>>
    PROVE  HandlersFollow
BY DEF IInv, StreamsOK, HandlersFollow, Handlers

\* No node moves.
LEMMA SameNodesLeave ==
    ASSUME IInv, UNCHANGED pc
    PROVE  NodesLeave
BY DEF IInv, NodesOK, NodesLeave

\* A node fails, which it may do from every place, or exits.
LEMMA FailsLeaves ==
    ASSUME IInv, NEW n \in Node, \E x \in {"failed", "exited"} : pc' = [pc EXCEPT ![n] = x]
    PROVE  NodesLeave
BY DEF IInv, NodesOK, NodesLeave, Place

\* The streams of a node that fails end.
LEMMA FailsFollows ==
    ASSUME IInv, NEW n \in Node, handler' = EndStreams(n), UNCHANGED old
    PROVE  HandlersFollow
<1>1. ASSUME NEW h \in Pair
      PROVE  handler'[h] \in Handlers(h) \/ HandlerOK(h, handler'[h])
  <2>1. HandlerOK(h, handler[h])
    BY DEF IInv, StreamsOK, Handlers
  <2>2. handler'[h] \in {handler[h], [handler[h] EXCEPT !.broken = TRUE]}
    BY DEF EndStreams
  <2> QED
    BY <2>1, <2>2, BrokenIsOK
<1>2. handler' = [h \in Pair |-> handler'[h]] /\ old' = [h \in Pair |-> old'[h]]
  <2>1. handler' = [h \in Pair |-> handler'[h]]
    BY DEF EndStreams
  <2> QED
    BY <2>1 DEF IInv, StreamsOK
<1>3. \A h \in Pair : \A r \in old'[h] : r \in Handlers(h)
  BY DEF Handlers
<1> QED
  BY <1>1, <1>2, <1>3 DEF HandlersFollow

\* One handler goes to another state that is right.
LEMMA OneFollows ==
    ASSUME IInv, NEW h \in Pair, NEW r, HandlerOK(h, r) \/ r \in Idle,
           handler' = [handler EXCEPT ![h] = r], UNCHANGED old
    PROVE  HandlersFollow
<1>1. HandlerOK(h, r)
  BY IdleIsOK
<1> QED
  BY <1>1 DEF IInv, StreamsOK, HandlersFollow, Handlers
\* A client goes to another place.
LEMMA SetClientKeepsType ==
    ASSUME IInv, NEW c \in Pair, \E s \in ClientPlace : SetClient(c, s)
    PROVE  ClientsOK'
BY DEF IInv, ClientsOK, SetClient

\* No client changes.
LEMMA SameClientsOK ==
    ASSUME IInv, UNCHANGED client
    PROVE  ClientsOK'
BY DEF IInv, ClientsOK

\* The stream of a client is the pair of its nodes, the other way round.
LEMMA StreamIsPair ==
    ASSUME NEW c \in Pair
    PROVE  /\ c[1] \in Node /\ c[2] \in Node /\ c[1] # c[2]
           /\ Stream(c) \in Pair /\ Stream(c)[1] = c[2] /\ Stream(c)[2] = c[1]
BY DEF Pair, Stream

-----------------------------------------------------------------------------
(* The clients and the faults.                                             *)

\* connect keeps the invariant.
LEMMA ConnectKeepsInv ==
    ASSUME IInv, NEW c \in Pair, Connect(c), UNCHANGED misfit
    PROVE  IInv'
<1>1. ClientsOK' /\ UNCHANGED <<step, server, old>>
  <2>1. \E s \in ClientPlace : SetClient(c, s)
    BY DEF Connect, SetClient, ClientPlace
  <2> QED
    BY <2>1, SetClientKeepsType DEF Connect
<1>2. CASE Up(c[2])
  <2>1. HandlersFollow
    <3>1. [pc |-> "read", broken |-> FALSE] \in Idle
      BY DEF Idle
    <3>2. handler' = [handler EXCEPT ![Stream(c)] = [pc |-> "read", broken |-> FALSE]]
      BY <1>2 DEF Connect
    <3> QED
      BY <1>1, <3>1, <3>2, StreamIsPair, OneFollows
  <2>2. NodesLeave
    BY <1>2, SameNodesLeave DEF Connect
  <2> QED
    BY <1>1, <2>1, <2>2, QuietKeepsInv
<1>3. CASE ~ Up(c[2])
  <2>1. Fails(c[1])
    BY <1>3 DEF Connect
  <2> QED
    BY <1>1, <2>1, StreamIsPair, FailsFollows, FailsLeaves, QuietKeepsInv DEF Fails
<1> QED
  BY <1>2, <1>3

\* sendMsg keeps it: the message carries the step of its sender.
LEMMA SendKeepsInv ==
    ASSUME IInv, NEW c \in Pair, Send(c), UNCHANGED misfit
    PROVE  IInv'
<1> DEFINE r == [pc |-> "valid", broken |-> FALSE, step |-> step[c[1]],
                 shutdown |-> client[c].shutdown]
<1>1. ClientsOK' /\ NodesLeave /\ UNCHANGED <<step, server, old>>
  <2>1. \E s \in ClientPlace : SetClient(c, s)
    BY DEF Send, SetClient, ClientPlace
  <2> QED
    BY <2>1, SetClientKeepsType, SameNodesLeave DEF Send, nodeUnchanged
<1>2. HandlerOK(Stream(c), r)
  <2>1. step[c[1]] \in Nat /\ client[c].shutdown \in BOOLEAN
    BY StreamIsPair DEF IInv, NodesOK, ClientsOK
  <2>2. r \in Requested /\ r.pc = "valid" /\ r.step = step[Stream(c)[2]]
    BY <2>1, StreamIsPair DEF Requested
  <2> HIDE DEF r
  <2> QED
    BY <2>1, <2>2, StreamIsPair DEF HandlerOK, State
<1>3. handler' = [handler EXCEPT ![Stream(c)] = r]
  BY DEF Send
<1> HIDE DEF r
<1> QED
  BY <1>1, <1>2, <1>3, StreamIsPair, OneFollows, QuietKeepsInv

\* The response a client receives keeps it.
LEMMA ReceiveKeepsInv ==
    ASSUME IInv, NEW c \in Pair, Receive(c), UNCHANGED misfit
    PROVE  IInv'
<1> DEFINE Continues(r) == handler' = [handler EXCEPT ![Stream(c)] = r] /\ UNCHANGED pc
<1>1. UNCHANGED <<step, server, old>>
  BY DEF Receive
<1>2. \E s \in ClientPlace : SetClient(c, s)
  BY DEF Receive, SetClient, ClientPlace
<1>3. Fails(c[1]) \/ Continues(NoStream) \/ Continues([pc |-> "read", broken |-> FALSE])
  BY DEF Receive
<1>4. ClientsOK'
  BY <1>2, SetClientKeepsType
<1>5. ASSUME NEW r \in Idle, Continues(r)
      PROVE  IInv'
  BY <1>1, <1>4, <1>5, StreamIsPair, OneFollows, SameNodesLeave, QuietKeepsInv
<1>6. CASE Fails(c[1])
  BY <1>1, <1>4, <1>6, StreamIsPair, FailsFollows, FailsLeaves, QuietKeepsInv DEF Fails
<1>7. NoStream \in Idle /\ [pc |-> "read", broken |-> FALSE] \in Idle
  BY DEF NoStream, Idle
<1> HIDE DEF Continues
<1> QED
  BY <1>3, <1>5, <1>6, <1>7

\* The end of a stream keeps it.
LEMMA StreamEndsKeepsInv ==
    ASSUME IInv, NEW c \in Pair, StreamEnds(c), UNCHANGED misfit
    PROVE  IInv'
<1> DEFINE s == Stream(c)
           kept == IF Up(c[2]) THEN LeftBehind(handler[s]) ELSE {}
<1>1. UNCHANGED <<step, server>>
  BY DEF StreamEnds
<1>2. \/ Fails(c[1]) /\ UNCHANGED old
      \/ /\ old' = [old EXCEPT ![s] = @ \cup kept]
         /\ handler' = [handler EXCEPT ![s] = NoStream] /\ UNCHANGED pc
  BY DEF StreamEnds
<1>3. ClientsOK'
  <2>1. \E x \in ClientPlace : SetClient(c, x)
    BY DEF StreamEnds, SetClient, ClientPlace
  <2> QED
    BY <2>1, SetClientKeepsType
<1>4. CASE Fails(c[1]) /\ UNCHANGED old
  BY <1>1, <1>3, <1>4, StreamIsPair, FailsFollows, FailsLeaves, QuietKeepsInv DEF Fails
<1>5. CASE /\ old' = [old EXCEPT ![s] = @ \cup kept]
           /\ handler' = [handler EXCEPT ![s] = NoStream] /\ UNCHANGED pc
  <2>1. NoStream \in Idle
    BY DEF NoStream, Idle
  <2>2. s \in Pair /\ kept \subseteq {handler[s]}
    BY StreamIsPair DEF LeftBehind
  <2> HIDE DEF s, kept
  <2>3. ASSUME NEW h \in Pair, NEW r \in {handler'[h]} \cup old'[h]
        PROVE  r \in Handlers(h) \/ HandlerOK(h, r)
    <3>1. r \in Handlers(h) \/ r = NoStream
      BY <1>5, <2>2, <2>3 DEF IInv, StreamsOK, Handlers
    <3> QED
      BY <2>1, <3>1, IdleIsOK
  <2>4. HandlersFollow
    BY <1>5, <2>2, <2>3 DEF IInv, StreamsOK, HandlersFollow
  <2> QED
    BY <1>1, <1>3, <1>5, <2>4, SameNodesLeave, QuietKeepsInv
<1> QED
  BY <1>2, <1>4, <1>5
\* Shutdown of a client keeps it.
LEMMA ShutdownKeepsInv ==
    ASSUME IInv, NEW c \in Pair, Shutdown(c), UNCHANGED misfit
    PROVE  IInv'
<1>1. ClientsOK'
  BY DEF IInv, ClientsOK, Shutdown
<1> QED
  BY <1>1, SameHandlersFollow, SameNodesLeave, QuietKeepsInv DEF Shutdown, nodeUnchanged

\* A stream that the relay resets keeps it.
LEMMA ResetKeepsInv ==
    ASSUME IInv, NEW c \in Pair, Reset(c), UNCHANGED misfit
    PROVE  IInv'
<1> DEFINE r == [handler[Stream(c)] EXCEPT !.broken = TRUE]
<1>1. handler' = [handler EXCEPT ![Stream(c)] = r]
  BY DEF Reset
<1>2. HandlerOK(Stream(c), handler[Stream(c)])
  BY StreamIsPair DEF IInv, StreamsOK, Handlers
<1>3. HandlerOK(Stream(c), r)
  BY <1>2, StreamIsPair, BrokenIsOK
<1> HIDE DEF r
<1>4. HandlersFollow
  BY <1>1, <1>3, StreamIsPair, OneFollows DEF Reset
<1> QED
  BY <1>4, SameClientsOK, SameNodesLeave, QuietKeepsInv DEF Reset

\* A node fails on its own, or because of its server, or exits.
LEMMA FailureKeepsInv ==
    ASSUME IInv, NEW n \in Node, Crash(n) \/ ServerFails(n) \/ Exit(n), UNCHANGED misfit
    PROVE  IInv'
<1>1. /\ \E x \in {"failed", "exited"} : pc' = [pc EXCEPT ![n] = x]
      /\ handler' = EndStreams(n) /\ UNCHANGED <<step, client, server, old>>
  BY DEF Crash, ServerFails, Exit, Fails, SetPC
<1> QED
  BY <1>1, SameClientsOK, FailsFollows, FailsLeaves, QuietKeepsInv

-----------------------------------------------------------------------------
(* The handlers.                                                           *)

\* A step of the handler h from r to next that changes only the server keeps the
\* invariant if what the handler and the server know then is right.
LEMMA HandlerKeepsInv ==
    ASSUME IInv, NEW h \in Pair, NEW r, NEW next, Goes(h, r, next),
           HandlerOK(h, next)', ServersOK', UNCHANGED <<misfit, pc, step, client>>,
           \A n \in Node : server[n].err => server'[n].err
    PROVE  IInv'
<1>1. NodesOK' /\ ClientsOK' /\ StepsAreInSync'
  BY DEF IInv, NodesOK, ClientsOK, StepsAreInSync
<1>2. ASSUME NEW g \in Pair, NEW x, HandlerOK(g, x)
      PROVE  HandlerOK(g, x)'
  BY <1>2 DEF HandlerOK, Trusted, Fits, Pair
<1>3. ASSUME NEW g \in Pair, NEW x \in {handler'[g]} \cup old'[g]
      PROVE  HandlerOK(g, x)'
  <2>1. x \in Handlers(g) \/ (g = h /\ x = next)
    BY <1>3 DEF IInv, StreamsOK, Handlers, Goes
  <2> QED
    BY <1>2, <2>1 DEF IInv, StreamsOK
<1>4. handler' = [g \in Pair |-> handler'[g]] /\ old' = [g \in Pair |-> old'[g]]
  BY DEF IInv, StreamsOK, Goes
<1>5. StreamsOK'
  BY <1>3, <1>4 DEF StreamsOK, Handlers
<1> QED
  BY <1>1, <1>5 DEF IInv

\* What the server of a node holds after a change of one field.
LEMMA ServerFieldChanges ==
    ASSUME NEW n \in Node, NEW s \in ServerState(n), NEW p \in Node
    PROVE  LET e == [s EXCEPT !.err = TRUE]
               c == [s EXCEPT !.connected = @ \cup {p}]
           IN  /\ e \in ServerState(n) /\ e.steps = s.steps /\ e.err
               /\ c \in ServerState(n) /\ c.steps = s.steps /\ c.err = s.err
BY DEF ServerState

\* validReq, and setConnected or setErr, keep it.
LEMMA ValidateKeepsInv ==
    ASSUME IInv, NEW h \in Pair, NEW r \in Handlers(h), Validate(h, r), UNCHANGED misfit
    PROVE  IInv'
<1> DEFINE invalid == (h[1] \in misfit) # (h[2] \in misfit)
<1>1. /\ h[1] \in Node /\ h[2] \in Node
      /\ server = [n \in Node |-> server[n]] /\ \A n \in Node : server[n] \in ServerState(n)
  BY DEF Pair, IInv, ServersOK
<1>2. PICK b \in BOOLEAN : b = invalid
  OBVIOUS
<1> DEFINE next == [pc |-> "update", broken |-> r.broken, step |-> r.step,
                    shutdown |-> r.shutdown, err |-> b]
<1>3. Goes(h, r, next) /\ UNCHANGED <<misfit, pc, step, client>>
  BY <1>2 DEF Validate, nodeUnchanged
<1>4. /\ server' = [n \in Node |-> server'[n]]
      /\ \A n \in Node : n # h[1] => server'[n] = server[n]
      /\ server'[h[1]] = IF invalid THEN [server[h[1]] EXCEPT !.err = TRUE]
                         ELSE [server[h[1]] EXCEPT !.connected = @ \cup {h[2]}]
  BY <1>1 DEF Validate
<1>5. \A n \in Node : /\ server'[n] \in ServerState(n)
                      /\ server'[n].steps = server[n].steps
                      /\ server[n].err => server'[n].err
  <2>1. ASSUME NEW n \in Node, n = h[1]
        PROVE  /\ server'[n] \in ServerState(n)
               /\ server'[n].steps = server[n].steps
               /\ server[n].err => server'[n].err
    <3> DEFINE e == [server[n] EXCEPT !.err = TRUE]
               c == [server[n] EXCEPT !.connected = @ \cup {h[2]}]
    <3>1. /\ e \in ServerState(n) /\ e.steps = server[n].steps /\ e.err
          /\ c \in ServerState(n) /\ c.steps = server[n].steps /\ c.err = server[n].err
      BY <1>1, ServerFieldChanges
    <3>2. server'[n] = e \/ server'[n] = c
      BY <1>4, <2>1
    <3> HIDE DEF e, c
    <3> QED
      BY <3>1, <3>2
  <2> QED
    BY <1>1, <1>4, <2>1
<1>6. invalid => server'[h[1]].err
  BY <1>1, <1>4, ServerFieldChanges
<1>7. ServersOK'
  BY <1>3, <1>4, <1>5 DEF IInv, ServersOK, Trusted, Fits, Peers, ServerState
<1>8. HandlerOK(h, next)'
  <2>1. r \in Requested /\ r.step <= step[h[2]]
    <3>1. HandlerOK(h, r) /\ r.pc = "valid"
      BY DEF IInv, StreamsOK, Validate
    <3> QED
      BY <3>1 DEF HandlerOK, State, Idle, Requested, Answered
  <2>2. Trusted(h[1], h[2])'
    BY <1>3, <1>6 DEF Trusted, Fits
  <2>3. next \in Answered /\ next.step = r.step
    BY <2>1 DEF Requested, Answered
  <2> HIDE DEF next
  <2> QED
    BY <1>3, <2>1, <2>2, <2>3 DEF HandlerOK, State
<1> HIDE DEF next
<1> QED
  BY <1>3, <1>5, <1>7, <1>8, HandlerKeepsInv

\* updateStep and the response keep it.
LEMMA RespondKeepsInv ==
    ASSUME IInv, NEW h \in Pair, NEW r \in Handlers(h), Respond(h, r), UNCHANGED misfit
    PROVE  IInv'
<1> DEFINE n == h[1]
           p == h[2]
           ok == StepOK(server[n].steps[p], r.step)
           ends == r.broken \/ r.shutdown \/ ~ ok
           steps == [server[n].steps EXCEPT ![p] = IF ok THEN r.step ELSE @]
           shutdown == IF ok /\ r.shutdown /\ ~ r.broken
                       THEN server[n].shutdown \cup {p} ELSE server[n].shutdown
           connected == IF ends THEN server[n].connected \ {p} ELSE server[n].connected
           Closed == [pc |-> "none", broken |-> r.broken]
<1>1. /\ n \in Node /\ p \in Node /\ p \in Peers(n)
      /\ server = [m \in Node |-> server[m]] /\ \A m \in Node : server[m] \in ServerState(m)
  BY DEF Pair, Peers, IInv, ServersOK
<1>2. /\ r \in Answered /\ r.pc = "update" /\ r.step <= step[p] /\ Trusted(n, p)
  <2>1. HandlerOK(h, r) /\ r.pc = "update"
    BY DEF IInv, StreamsOK, Respond
  <2> QED
    BY <2>1 DEF HandlerOK, State, Idle, Requested, Answered
<1>3. UNCHANGED <<misfit, pc, step, client>>
  BY DEF Respond, nodeUnchanged
<1>4. PICK next \in {[r EXCEPT !.pc = "response"], Closed} : Goes(h, r, next)
  BY DEF Respond
<1>5. HandlerOK(h, next)'
  <2>1. CASE next = Closed
    <3>1. next \in Idle
      BY <1>2, <2>1 DEF Idle, Answered
    <3> QED
      BY <3>1 DEF HandlerOK, State, Idle
  <2>2. CASE next = [r EXCEPT !.pc = "response"]
    <3>1. next \in Answered /\ next.pc = "response"
      BY <1>2, <2>2 DEF Answered
    <3> QED
      BY <3>1 DEF HandlerOK, State
  <2> QED
    BY <1>4, <2>1, <2>2
<1>6. /\ server' = [m \in Node |-> server'[m]]
      /\ \A m \in Node : m # n => server'[m] = server[m]
      /\ server'[n] = [server[n] EXCEPT !.steps = steps, !.shutdown = shutdown,
                                        !.connected = connected]
  BY <1>1 DEF Respond
<1>7. /\ steps \in [Peers(n) -> Nat]
      /\ \A q \in Peers(n) : steps[q] = server[n].steps[q] \/ (q = p /\ steps[q] = r.step)
  BY <1>1, <1>2 DEF ServerState, Answered
<1>8. shutdown \in SUBSET Node /\ connected \in SUBSET Node
  BY <1>1 DEF ServerState
<1> HIDE DEF steps, shutdown, connected
<1>9. server'[n] \in ServerState(n) /\ server'[n].steps = steps /\ server'[n].err = server[n].err
  <2>1. PICK m \in Node, s \in ServerState(n) : m = n /\ s = server[n]
    BY <1>1
  <2>2. PICK a, b, c : a = steps /\ b = shutdown /\ c = connected
    OBVIOUS
  <2>3. /\ s \in ServerState(m) /\ a \in [Peers(m) -> Nat] /\ b \in SUBSET Node
        /\ c \in SUBSET Node
    BY <1>7, <1>8, <2>1, <2>2
  <2>4. PICK u : u = server'[n]
    OBVIOUS
  <2>5. u = [s EXCEPT !.steps = a, !.shutdown = b, !.connected = c]
    BY <1>6, <2>1, <2>2, <2>4
  <2>6. u \in ServerState(m) /\ u.steps = a /\ u.err = s.err
    BY <2>3, <2>5 DEF ServerState
  <2> QED
    BY <2>1, <2>2, <2>4, <2>6
<1>10. ServersOK'
  <2>1. ASSUME NEW m \in Node
        PROVE  server'[m] \in ServerState(m) /\ server'[m].err = server[m].err
    BY <1>6, <1>9, <1>1
  <2>2. ASSUME NEW m \in Node, NEW q \in Peers(m), server'[m].steps[q] # Unknown
        PROVE  server'[m].steps[q] <= step[q] /\ Trusted(m, q)
    <3>1. \/ server'[m].steps[q] = server[m].steps[q]
          \/ m = n /\ q = p /\ server'[m].steps[q] = r.step
      BY <1>6, <1>7, <1>9
    <3> QED
      BY <1>2, <2>2, <3>1 DEF IInv, ServersOK
  <2>3. ASSUME NEW m \in Node, NEW q \in Node, Trusted(m, q)
        PROVE  Trusted(m, q)'
    BY <1>3, <2>1, <2>3 DEF Trusted, Fits
  <2> QED
    BY <1>3, <1>6, <2>1, <2>2, <2>3 DEF ServersOK, Peers, Unknown
<1>11. \A m \in Node : server[m].err => server'[m].err
  BY <1>6, <1>9
<1> QED
  BY <1>3, <1>4, <1>5, <1>10, <1>11, HandlerKeepsInv

\* A read that fails keeps it: only connected is cleared.
LEMMA ReadFailsKeepsInv ==
    ASSUME IInv, NEW h \in Pair, NEW r \in Handlers(h), ReadFails(h, r), UNCHANGED misfit
    PROVE  IInv'
<1>1. PICK n \in Node, p \in Node : n = h[1] /\ p = h[2]
  BY DEF Pair
<1>2. PICK next : next = [pc |-> "none", broken |-> TRUE]
  OBVIOUS
<1>3. /\ Goes(h, r, next) /\ UNCHANGED <<misfit, pc, step, client>>
      /\ server' = [server EXCEPT ![n].connected = @ \ {p}]
  BY <1>1, <1>2 DEF ReadFails, nodeUnchanged
<1>4. server = [m \in Node |-> server[m]] /\ \A m \in Node : server[m] \in ServerState(m)
  BY DEF IInv, ServersOK
<1>5. /\ server' = [m \in Node |-> server'[m]]
      /\ \A m \in Node \ {n} : server'[m] = server[m]
      /\ server'[n] = [server[n] EXCEPT !.connected = @ \ {p}]
  BY <1>3, <1>4
<1>6. /\ server'[n] \in ServerState(n) /\ server'[n].steps = server[n].steps
      /\ server'[n].err = server[n].err
  BY <1>4, <1>5 DEF ServerState
<1>7. \A m \in Node : /\ server'[m] \in ServerState(m) /\ server'[m].steps = server[m].steps
                      /\ server'[m].err = server[m].err
  BY <1>4, <1>5, <1>6
<1>8. ServersOK'
  <2>1. ASSUME NEW m \in Node, NEW q \in Peers(m), server'[m].steps[q] # Unknown
        PROVE  server'[m].steps[q] <= step'[q] /\ Trusted(m, q)'
    <3>1. server[m].steps[q] <= step[q] /\ Trusted(m, q) /\ server'[m].steps = server[m].steps
      BY <1>7, <2>1 DEF IInv, ServersOK
    <3> QED
      BY <1>3, <1>7, <3>1 DEF Trusted, Fits
  <2> QED
    BY <1>5, <1>7, <2>1 DEF ServersOK, ServerState, Peers, Unknown
<1>9. HandlerOK(h, next)'
  <2>1. next \in Idle
    BY <1>2 DEF Idle
  <2> QED
    BY <2>1 DEF HandlerOK, State, Idle
<1> QED
  BY <1>3, <1>7, <1>8, <1>9, HandlerKeepsInv

-----------------------------------------------------------------------------
(* The nodes.                                                              *)

\* A step of the protocol that leaves streams, servers and steps alone.
LEMMA WaitingKeepsInv ==
    ASSUME IInv, NEW n \in Node, AllClientsConnected(n) \/ AwaitAllShutdown(n), UNCHANGED misfit
    PROVE  IInv'
<1>1. UNCHANGED <<step, client, server, handler, old>>
  BY DEF AllClientsConnected, AwaitAllShutdown
<1>2. NodesLeave
  BY DEF AllClientsConnected, AwaitAllShutdown, SetPC, IInv, NodesOK, NodesLeave, Place
<1> QED
  BY <1>1, <1>2, SameClientsOK, SameHandlersFollow, QuietKeepsInv

\* A node takes its next step: what is known of its earlier ones stays right.
LEMMA GrowingKeepsKnowledge ==
    ASSUME IInv, NodesOK', UNCHANGED <<misfit, client, server, handler, old>>,
           \A n \in Node : step'[n] >= step[n]
    PROVE  ClientsOK' /\ StreamsOK' /\ ServersOK'
<1>1. \A n \in Node : step[n] \in Nat /\ step'[n] \in Nat
  BY DEF IInv, NodesOK
<1>2. ASSUME NEW h \in Pair, NEW r, HandlerOK(h, r)
      PROVE  HandlerOK(h, r)'
  <2>1. r.pc \in {"valid", "update"} => r.step \in Nat /\ h[2] \in Node
    BY <1>2 DEF HandlerOK, State, Idle, Requested, Answered, Pair
  <2> QED
    BY <1>1, <1>2, <2>1 DEF HandlerOK, Trusted, Fits
<1>3. StreamsOK'
  BY <1>2 DEF IInv, StreamsOK, Handlers
<1>4. ServersOK'
  <2>1. ASSUME NEW n \in Node, NEW p \in Peers(n), server[n].steps[p] # Unknown
        PROVE  server[n].steps[p] <= step'[p] /\ Trusted(n, p)'
    <3>1. server[n].steps[p] <= step[p] /\ Trusted(n, p)
      BY <2>1 DEF IInv, ServersOK
    <3>2. server[n].steps[p] \in Nat /\ p \in Node
      BY DEF IInv, ServersOK, ServerState, Peers
    <3> QED
      BY <1>1, <3>1, <3>2 DEF Trusted, Fits
  <2> QED
    BY <2>1 DEF IInv, ServersOK, Unknown
<1> QED
  BY <1>3, <1>4 DEF IInv, ClientsOK

\* AwaitAllConnected keeps it.
LEMMA AwaitAllConnectedKeepsInv ==
    ASSUME IInv, NEW n \in Node, AwaitAllConnected(n), UNCHANGED misfit
    PROVE  IInv'
<1>1. /\ pc[n] = "connected" /\ pc' = [pc EXCEPT ![n] = "await"] /\ step' = [step EXCEPT ![n] = 1]
      /\ UNCHANGED <<client, server, handler, old>>
  BY DEF AwaitAllConnected, SetPC
<1>2. step[n] = 0 /\ pc \in [Node -> Place] /\ step \in [Node -> Nat]
  BY <1>1 DEF IInv, NodesOK
<1>3. NodesOK'
  BY <1>1, <1>2 DEF IInv, NodesOK, Place
<1>4. \A m \in Node : step'[m] >= step[m]
  BY <1>1, <1>2
<1>5. StepsAreInSync'
  BY <1>1, <1>2 DEF IInv, StepsAreInSync
<1> QED
  BY <1>1, <1>3, <1>4, <1>5, GrowingKeepsKnowledge DEF IInv

\* The end of the work of a step keeps it: the next step, or stopSync.
LEMMA StepEndsKeepsInv ==
    ASSUME IInv, NEW n \in Node, StepEnds(n), UNCHANGED misfit
    PROVE  IInv'
<1>1. /\ pc[n] = "working" /\ UNCHANGED <<client, server, handler, old>>
      /\ \/ pc' = [pc EXCEPT ![n] = "await"] /\ step' = [step EXCEPT ![n] = @ + 1]
         \/ pc' = [pc EXCEPT ![n] = "stopping"] /\ UNCHANGED step
  BY DEF StepEnds, SetPC
<1>2. pc \in [Node -> Place] /\ step \in [Node -> Nat]
  BY DEF IInv, NodesOK
<1>3. NodesOK'
  BY <1>1, <1>2 DEF IInv, NodesOK, Place
<1>4. \A m \in Node : step'[m] >= step[m]
  BY <1>1, <1>2
<1>5. StepsAreInSync'
  BY <1>1, <1>2 DEF IInv, StepsAreInSync
<1> QED
  BY <1>1, <1>3, <1>4, <1>5, GrowingKeepsKnowledge DEF IInv

\* A node starts to work: its server knows a step of every peer that is not less
\* than its own, and has no error.
LEMMA AwaitAllAtStepKeepsInv ==
    ASSUME IInv, NEW n \in Node, AwaitAllAtStep(n), UNCHANGED misfit
    PROVE  IInv'
<1>1. /\ pc' = [pc EXCEPT ![n] = "working"] /\ ~ server[n].err /\ isAllAtStep(n)
      /\ UNCHANGED <<step, client, server, handler, old>>
  BY DEF AwaitAllAtStep, SetPC
<1>2. pc \in [Node -> Place] /\ step \in [Node -> Nat]
  BY DEF IInv, NodesOK
<1>3. NodesOK'
  BY <1>1, <1>2 DEF IInv, NodesOK, Place
<1>4. \A m \in Node : step'[m] >= step[m]
  BY <1>1, <1>2
<1>5. ASSUME NEW p \in Peers(n)
      PROVE  step[p] >= step[n] /\ Fits(n, p)
  <2>1. server[n].steps[p] # Unknown /\ server[n].steps[p] \in {step[n], step[n] + 1}
    BY <1>1 DEF isAllAtStep
  <2>2. server[n].steps[p] <= step[p] /\ Trusted(n, p)
    BY <2>1 DEF IInv, ServersOK
  <2> QED
    BY <1>1, <1>2, <2>1, <2>2 DEF Trusted, Peers
<1>6. StepsAreInSync'
  BY <1>1, <1>2, <1>5 DEF IInv, StepsAreInSync, Fits, Peers
<1> QED
  BY <1>1, <1>3, <1>4, <1>6, GrowingKeepsKnowledge DEF IInv

-----------------------------------------------------------------------------
(* The theorem.                                                            *)

\* The invariant holds before the protocol starts.
LEMMA InitIsOK == Init => IInv
<1> SUFFICES ASSUME Init PROVE IInv
  OBVIOUS
<1>1. NodesOK
  BY DEF Init, NodesOK, Place
<1>2. ClientsOK
  BY DEF Init, ClientsOK, ClientPlace
<1>3. StreamsOK
  <2>1. NoStream \in Idle
    BY DEF NoStream, Idle
  <2>2. ASSUME NEW h \in Pair, NEW r \in Handlers(h)
        PROVE  HandlerOK(h, r)
    BY <2>1, <2>2, IdleIsOK DEF Init, Handlers
  <2> QED
    BY <2>2 DEF Init, StreamsOK
<1>4. ServersOK
  BY StepAssumption DEF Init, ServersOK, ServerState, Unknown
<1>5. StepsAreInSync
  BY DEF Init, StepsAreInSync
<1> QED
  BY <1>1, <1>2, <1>3, <1>4, <1>5 DEF IInv

\* Every step of the protocol keeps it.
LEMMA NextKeepsInv == IInv /\ [Next]_vars => IInv'
<1> SUFFICES ASSUME IInv, [Next]_vars PROVE IInv'
  OBVIOUS
<1>1. ASSUME NEW c \in Pair, ClientStep(c)
      PROVE  IInv'
  BY <1>1, ConnectKeepsInv, SendKeepsInv, ReceiveKeepsInv, StreamEndsKeepsInv, ShutdownKeepsInv
     DEF ClientStep
<1>2. ASSUME NEW h \in Pair, HandlerStep(h)
      PROVE  IInv'
  BY <1>2, ValidateKeepsInv, RespondKeepsInv, ReadFailsKeepsInv DEF HandlerStep
<1>3. ASSUME NEW n \in Node, NodeStep(n)
      PROVE  IInv'
  BY <1>3, WaitingKeepsInv, AwaitAllConnectedKeepsInv, AwaitAllAtStepKeepsInv, StepEndsKeepsInv,
     FailureKeepsInv DEF NodeStep
<1>4. CASE Fault
  BY <1>4, ResetKeepsInv, FailureKeepsInv DEF Fault
<1>5. CASE UNCHANGED vars
  <2>1. UNCHANGED <<misfit, step, server, pc, client, handler, old>>
    BY <1>5 DEF vars
  <2> QED
    BY <2>1, SameClientsOK, SameHandlersFollow, SameNodesLeave, QuietKeepsInv
<1> QED
  BY <1>1, <1>2, <1>3, <1>4, <1>5 DEF Next

\* For every number of nodes and steps, whatever streams are reset and nodes
\* fail: a node works on a step only when all its peers have reached it and have
\* the same definition, and no node is more than a step ahead of another
\* (Server.AwaitAllAtStep, updateStep and validReq).
THEOREM StepsAreInSyncHolds == Spec => []StepsAreInSync
<1>1. IInv => StepsAreInSync
  BY DEF IInv
<1> QED
  BY <1>1, InitIsOK, NextKeepsInv, PTL DEF Spec

-----------------------------------------------------------------------------
(* Resets do not fail the ceremony.  A second inductive invariant, for the *)
(* behaviours in which no node fails on its own, all nodes fit, no handler *)
(* is overtaken and no node exits too early, says why every step that is   *)
(* reported on a stream which is not broken is accepted.                   *)

Good == crashes = 0 /\ misfit = {} /\ ~ overtaken /\ ~ hurried

\* A message that a handler has not answered.
Msg(r) == r.pc \in {"valid", "update"}

\* What holds between the step cur that a server has of a peer, the handler hd
\* of the peer's stream and those, ol, of its earlier streams, whether the peer
\* is connected, the step st of the node and whether it works on it.  Before the
\* first report is stored a node is not past step 1, and each handler has a
\* report of at most that.  Later the node is at most one step on, and messages
\* on newer streams report later steps.
PairFacts(cur, hd, ol, conn, st, working) ==
    /\ cur = Unknown =>
          /\ hd.pc # "none" => \A r \in ol : ~ Msg(r)
          /\ conn => \E r \in {hd} \cup ol : r.pc = "update"
          /\ \A r \in {hd} \cup ol : Msg(r) => r.step <= 1
          /\ st >= 1 => \E r \in {hd} \cup ol : r.pc = "update"
          /\ st <= 1 /\ ~ working
    /\ cur # Unknown =>
          /\ Msg(hd) => cur <= hd.step
          /\ st <= cur + 1 /\ (working => st <= cur)
    /\ Msg(hd) => \A r \in ol : Msg(r) => r.step <= hd.step

Facts(h) ==
    PairFacts(server[h[1]].steps[h[2]], handler[h], old[h],
              h[2] \in server[h[1]].connected, step[h[1]], pc[h[1]] = "working")

\* No node has failed, and a client that is not done has a peer that is up.
Served ==
    /\ \A n \in Node : pc[n] # "failed"
    /\ \A c \in Pair : client[c].pc # "done" => Up(c[2])
NoErrors ==
    /\ \A n \in Node : ~ server[n].err
    /\ \A h \in Pair : \A r \in Handlers(h) : r.pc \in {"update", "response"} => ~ r.err

\* A handler only hangs up on a stream that is broken.
HangsUp(c) == IsConnected(c) /\ handler[Stream(c)].pc = "none" => handler[Stream(c)].broken

JOK == Served /\ NoErrors /\ (\A c \in Pair : HangsUp(c)) /\ (\A h \in Pair : Facts(h))

JInv ==
    /\ crashes \in Nat /\ \A n \in Node : step[n] <= LastStep
    /\ Good => JOK

-----------------------------------------------------------------------------
(* What the changes of a stream do to these facts.                         *)

\* The handler of a stream without a message is replaced.
LEMMA FactsIdle ==
    ASSUME NEW cur, NEW hd, NEW ol, NEW conn, NEW st, NEW w, PairFacts(cur, hd, ol, conn, st, w),
           NEW next, next.pc \in {"none", "read"}, ~ Msg(hd),
           \/ next.pc = "none" \/ hd.pc # "none"
           \/ cur = Unknown => \A r \in ol : ~ Msg(r)
    PROVE  PairFacts(cur, next, ol, conn, st, w)
BY DEF PairFacts, Msg

\* A message is sent: its step is the latest.
LEMMA FactsSend ==
    ASSUME NEW cur, NEW hd, NEW ol, NEW conn, NEW st \in Nat, NEW w,
           PairFacts(cur, hd, ol, conn, st, w), hd.pc = "read",
           NEW next, next.pc = "valid", cur # Unknown => cur <= next.step,
           \A r \in ol : Msg(r) => r.step <= next.step,
           next.step <= st + 1
    PROVE  PairFacts(cur, next, ol, conn, st, w)
<1>1. CASE cur = Unknown
  <2>1. (\A r \in ol : ~ Msg(r)) /\ ~ \E r \in {hd} \cup ol : r.pc = "update"
    BY <1>1 DEF PairFacts, Msg
  <2>2. st = 0 /\ ~ conn
    BY <1>1, <2>1 DEF PairFacts
  <2>3. next.step <= 1
    BY <2>2
  <2> QED
    BY <1>1, <2>1, <2>2, <2>3 DEF PairFacts, Msg
<1>2. CASE cur # Unknown
  BY <1>2 DEF PairFacts, Msg
<1> QED
  BY <1>1, <1>2

\* The stream ends: a handler with a message becomes an old one.
LEMMA FactsEnd ==
    ASSUME NEW cur, NEW hd, NEW ol, NEW conn, NEW st, NEW w, PairFacts(cur, hd, ol, conn, st, w),
           NEW next, next.pc = "none",
           NEW new, new \subseteq ol \cup {hd}, ol \subseteq new, Msg(hd) => hd \in new
    PROVE  PairFacts(cur, next, new, conn, st, w)
BY DEF PairFacts, Msg

\* The stream is reset: the message stays.
LEMMA FactsReset ==
    ASSUME NEW cur, NEW hd, NEW ol, NEW conn, NEW st, NEW w, PairFacts(cur, hd, ol, conn, st, w),
           NEW next, next.pc = hd.pc, Msg(hd) => next.step = hd.step
    PROVE  PairFacts(cur, next, ol, conn, st, w)
BY DEF PairFacts, Msg

\* validReq accepts the message of the stream.
LEMMA FactsValid ==
    ASSUME NEW cur, NEW hd, NEW ol, NEW p, NEW C, NEW D, C \subseteq D, NEW st, NEW w,
           PairFacts(cur, hd, ol, p \in C, st, w), hd.pc = "valid",
           NEW next, next.pc = "update", next.step = hd.step
    PROVE  PairFacts(cur, next, ol, p \in D, st, w)
BY DEF PairFacts, Msg

\* It accepts the message of an old stream.
LEMMA FactsOldValid ==
    ASSUME NEW cur, NEW hd, NEW ol, NEW p, NEW C, NEW D, C \subseteq D, NEW st, NEW w,
           PairFacts(cur, hd, ol, p \in C, st, w),
           NEW r \in ol, r.pc = "valid", NEW next, next.pc = "update", next.step = r.step
    PROVE  PairFacts(cur, hd, (ol \ {r}) \cup {next}, p \in D, st, w)
<1>1. CASE cur = Unknown
  <2>1. hd.pc = "none"
    BY <1>1 DEF PairFacts, Msg
  <2> QED
    BY <1>1, <2>1 DEF PairFacts, Msg
<1>2. CASE cur # Unknown
  BY <1>2 DEF PairFacts, Msg
<1> QED
  BY <1>1, <1>2

\* updateStep stores a later step, or there is one.
LEMMA FactsStored ==
    ASSUME NEW cur \in Nat, NEW hd, NEW ol, NEW conn, NEW st \in Nat, NEW w,
           PairFacts(cur, hd, ol, conn, st, w),
           NEW now \in Nat, now # Unknown, cur # Unknown => now >= cur,
           NEW next, Msg(next) => next = hd /\ now <= hd.step,
           NEW new, \A r \in new : r \in ol \/ ~ Msg(r), NEW conn2
    PROVE  PairFacts(now, next, new, conn2, st, w)
<1>1. Msg(next) => now <= next.step
  OBVIOUS
<1>2. st <= now + 1 /\ (w => st <= now)
  BY DEF PairFacts
<1>3. Msg(next) => \A r \in new : Msg(r) => r.step <= next.step
  BY DEF PairFacts
<1> QED
  BY <1>1, <1>2, <1>3 DEF PairFacts

\* A handler without a message is gone, and the peer is not connected.
LEMMA FactsReadFails ==
    ASSUME NEW cur, NEW hd, NEW ol, NEW conn, NEW st, NEW w, PairFacts(cur, hd, ol, conn, st, w),
           NEW next, next = hd \/ (~ Msg(hd) /\ next.pc = "none"),
           NEW new, new \subseteq ol, \A r \in ol : Msg(r) => r \in new,
           NEW p, NEW D, p \notin D
    PROVE  PairFacts(cur, next, new, p \in D, st, w)
BY DEF PairFacts, Msg

-----------------------------------------------------------------------------
(* The steps of the clients and of the relay.                              *)

\* A pair of which nothing changes.
LEMMA SameFacts ==
    ASSUME NEW h \in Pair, Facts(h), handler'[h] = handler[h], old'[h] = old[h],
           server'[h[1]].steps[h[2]] = server[h[1]].steps[h[2]],
           h[2] \in server'[h[1]].connected <=> h[2] \in server[h[1]].connected,
           step'[h[1]] = step[h[1]], pc'[h[1]] = "working" => pc[h[1]] = "working"
    PROVE  Facts(h)'
BY DEF Facts, PairFacts

\* What is known of the nodes and the handlers of a pair.
LEMMA PairTypes ==
    ASSUME IInv, NEW h \in Pair
    PROVE  /\ h[1] \in Node /\ h[2] \in Node /\ h[2] \in Peers(h[1])
           /\ step[h[1]] \in Nat /\ step[h[2]] \in Nat /\ step[h[2]] <= step[h[1]] + 1
           /\ server[h[1]].steps[h[2]] \in Nat
           /\ server[h[1]].steps[h[2]] # Unknown => server[h[1]].steps[h[2]] <= step[h[2]]
           /\ \A r \in Handlers(h) : Msg(r) => r.step \in Nat /\ r.step <= step[h[2]]
<1>1. h[1] \in Node /\ h[2] \in Node /\ h[2] \in Peers(h[1])
  BY DEF Pair, Peers
<1>2. step[h[1]] \in Nat /\ step[h[2]] \in Nat /\ step[h[2]] <= step[h[1]] + 1
  BY <1>1 DEF IInv, NodesOK, StepsAreInSync
<1>3. /\ server[h[1]].steps[h[2]] \in Nat
      /\ server[h[1]].steps[h[2]] # Unknown => server[h[1]].steps[h[2]] <= step[h[2]]
  BY <1>1 DEF IInv, ServersOK, ServerState
<1>4. ASSUME NEW r \in Handlers(h), Msg(r)
      PROVE  r.step \in Nat /\ r.step <= step[h[2]]
  <2>1. HandlerOK(h, r)
    BY DEF IInv, StreamsOK
  <2> QED
    BY <1>4, <2>1 DEF HandlerOK, State, Idle, Requested, Answered, Msg
<1> QED
  BY <1>1, <1>2, <1>3, <1>4

\* One stream, of the client c, changes.
LEMMA StreamKeepsJ ==
    ASSUME IInv, JOK, NEW c \in Pair, UNCHANGED <<pc, step, server>>,
           \A h \in Pair \ {Stream(c)} : handler'[h] = handler[h] /\ old'[h] = old[h],
           \A d \in Pair \ {c} : client'[d] = client[d],
           client'[c].pc = "done" \/ client[c].pc # "done",
           \A r \in Handlers(Stream(c))' : r.pc \in {"update", "response"} => ~ r.err,
           HangsUp(c)', Facts(Stream(c))'
    PROVE  JOK'
<1>1. Served'
  BY DEF JOK, Served, Up
<1>2. NoErrors'
  <2>1. ASSUME NEW h \in Pair, NEW r \in Handlers(h)', r.pc \in {"update", "response"}
        PROVE  ~ r.err
    <3>1. CASE h = Stream(c)
      BY <2>1, <3>1
    <3>2. CASE h # Stream(c)
      BY <2>1, <3>2 DEF JOK, NoErrors, Handlers
    <3> QED
      BY <3>1, <3>2
  <2> QED
    BY <2>1 DEF JOK, NoErrors, Handlers
<1>3. ASSUME NEW d \in Pair
      PROVE  HangsUp(d)'
  <2>1. CASE d = c
    BY <2>1
  <2>2. CASE d # c
    <3>1. Stream(d) \in Pair /\ Stream(d) # Stream(c)
      BY <2>2 DEF Stream, Pair
    <3>2. client'[d] = client[d] /\ handler'[Stream(d)] = handler[Stream(d)]
      BY <2>2, <3>1
    <3> QED
      BY <3>2 DEF JOK, HangsUp, IsConnected, Stream
  <2> QED
    BY <2>1, <2>2
<1>4. ASSUME NEW h \in Pair
      PROVE  Facts(h)'
  <2>1. CASE h = Stream(c)
    BY <2>1
  <2>2. CASE h # Stream(c)
    BY <2>2, SameFacts DEF JOK
  <2> QED
    BY <2>1, <2>2
<1> QED
  BY <1>1, <1>2, <1>3, <1>4 DEF JOK

\* The client c goes to another place, and its stream has the handler next.
LEMMA OneStreamKeepsJ ==
    ASSUME IInv, JOK, NEW c \in Pair, UNCHANGED <<pc, step, server, old>>,
           client[c].pc # "done", NEW x, SetClient(c, x),
           NEW next, handler' = [handler EXCEPT ![Stream(c)] = next],
           next.pc \in {"update", "response"} => ~ next.err,
           x \notin {"send", "sent"} \/ next.pc # "none",
           PairFacts(server[c[2]].steps[c[1]], next, old[Stream(c)],
                     c[1] \in server[c[2]].connected, step[c[2]], pc[c[2]] = "working")
    PROVE  JOK'
<1>1. PICK s \in Pair : s = Stream(c) /\ s[1] = c[2] /\ s[2] = c[1]
  BY StreamIsPair
<1>2. handler'[s] = next /\ \A h \in Pair \ {s} : handler'[h] = handler[h]
  BY <1>1 DEF IInv, StreamsOK
<1>3. client'[c].pc = x /\ \A d \in Pair \ {c} : client'[d] = client[d]
  BY DEF IInv, ClientsOK, SetClient
<1>4. HangsUp(c)'
  BY <1>1, <1>2, <1>3 DEF HangsUp, IsConnected, Stream
<1>5. Facts(s)'
  BY <1>1, <1>2 DEF Facts
<1>6. \A r \in Handlers(s)' : r.pc \in {"update", "response"} => ~ r.err
  BY <1>2 DEF JOK, NoErrors, Handlers
<1>7. Facts(Stream(c))' /\ \A r \in Handlers(Stream(c))' : r.pc \in {"update", "response"} => ~ r.err
  BY <1>1, <1>5, <1>6 DEF Stream
<1> QED
  BY <1>1, <1>2, <1>3, <1>4, <1>7, StreamKeepsJ

\* The facts about the stream of a client.
LEMMA StreamFacts ==
    ASSUME JOK, NEW c \in Pair
    PROVE  PairFacts(server[c[2]].steps[c[1]], handler[Stream(c)], old[Stream(c)],
                     c[1] \in server[c[2]].connected, step[c[2]], pc[c[2]] = "working")
<1>1. PICK s \in Pair : s = Stream(c) /\ s[1] = c[2] /\ s[2] = c[1]
  BY StreamIsPair
<1>2. Facts(s)
  BY DEF JOK
<1> QED
  BY <1>1, <1>2 DEF Facts

\* connect: the peer is up, and no handler is overtaken.
LEMMA ConnectKeepsJ ==
    ASSUME IInv, JOK, NEW c \in Pair, Connect(c), ~ overtaken'
    PROVE  JOK'
<1>1. client[c].pc # "done" /\ Up(c[2])
  BY DEF Connect, JOK, Served
<1>2. PICK next : next = [pc |-> "read", broken |-> FALSE]
  OBVIOUS
<1>3. /\ handler[Stream(c)].pc = "none" /\ SetClient(c, "send")
      /\ handler' = [handler EXCEPT ![Stream(c)] = next]
      /\ UNCHANGED <<pc, step, server, old>>
      /\ server[c[2]].steps[c[1]] = Unknown => \A r \in old[Stream(c)] : ~ Msg(r)
  BY <1>1, <1>2 DEF Connect, Msg
<1>4. next.pc = "read"
  BY <1>2
<1>5. PairFacts(server[c[2]].steps[c[1]], next, old[Stream(c)],
                c[1] \in server[c[2]].connected, step[c[2]], pc[c[2]] = "working")
  BY <1>3, <1>4, StreamFacts, FactsIdle DEF Msg
<1> QED
  BY <1>1, <1>3, <1>4, <1>5, OneStreamKeepsJ

\* sendMsg: the message has the step of the node.
LEMMA SendKeepsJ ==
    ASSUME IInv, JOK, NEW c \in Pair, Send(c)
    PROVE  JOK'
<1>1. PICK s \in Pair : s = Stream(c) /\ s[1] = c[2] /\ s[2] = c[1]
  BY StreamIsPair
<1>2. PICK next : next = [pc |-> "valid", broken |-> FALSE, step |-> step[c[1]],
                          shutdown |-> client[c].shutdown]
  OBVIOUS
<1>3. /\ handler[s].pc = "read" /\ SetClient(c, "sent") /\ client[c].pc # "done"
      /\ handler' = [handler EXCEPT ![Stream(c)] = next]
      /\ UNCHANGED <<pc, step, server, old>>
  BY <1>1, <1>2 DEF Send, nodeUnchanged
<1>4. next.pc = "valid" /\ next.step = step[c[1]]
  BY <1>2
<1>5. /\ step[c[2]] \in Nat /\ step[c[1]] <= step[c[2]] + 1
      /\ server[c[2]].steps[c[1]] # Unknown => server[c[2]].steps[c[1]] <= step[c[1]]
      /\ \A r \in old[s] : Msg(r) => r.step <= step[c[1]]
  BY <1>1, PairTypes DEF Handlers
<1>6. PairFacts(server[c[2]].steps[c[1]], next, old[Stream(c)],
                c[1] \in server[c[2]].connected, step[c[2]], pc[c[2]] = "working")
  BY <1>1, <1>3, <1>4, <1>5, StreamFacts, FactsSend
<1> QED
  BY <1>3, <1>4, <1>6, OneStreamKeepsJ

\* The response is no error.
LEMMA ReceiveKeepsJ ==
    ASSUME IInv, JOK, NEW c \in Pair, Receive(c)
    PROVE  JOK'
<1>1. PICK s \in Pair : s = Stream(c)
  BY StreamIsPair
<1>2. /\ handler[s].pc = "response" /\ ~ handler[s].err /\ client[c].pc # "done"
      /\ UNCHANGED <<step, server, old>>
  BY <1>1 DEF Receive, JOK, NoErrors, Handlers
<1>3. PICK x, next : /\ \/ x = "done" /\ next.pc = "none"
                        \/ x = "send" /\ next.pc = "read"
                     /\ SetClient(c, x) /\ handler' = [handler EXCEPT ![Stream(c)] = next]
                     /\ UNCHANGED pc
  <2>1. [pc |-> "read", broken |-> FALSE].pc = "read" /\ NoStream.pc = "none"
    BY DEF NoStream
  <2>2. \/ SetClient(c, "done") /\ handler' = [handler EXCEPT ![Stream(c)] = NoStream] /\ UNCHANGED pc
        \/ /\ SetClient(c, "send") /\ UNCHANGED pc
           /\ handler' = [handler EXCEPT ![Stream(c)] = [pc |-> "read", broken |-> FALSE]]
    BY <1>1, <1>2 DEF Receive
  <2> QED
    BY <2>1, <2>2
<1>4. PairFacts(server[c[2]].steps[c[1]], next, old[Stream(c)],
                c[1] \in server[c[2]].connected, step[c[2]], pc[c[2]] = "working")
  BY <1>1, <1>2, <1>3, StreamFacts, FactsIdle DEF Msg
<1> QED
  BY <1>2, <1>3, <1>4, OneStreamKeepsJ

\* A stream that ends is broken, so that the client opens another one.
LEMMA StreamEndsKeepsJ ==
    ASSUME IInv, JOK, NEW c \in Pair, StreamEnds(c)
    PROVE  JOK'
<1>1. PICK s \in Pair : s = Stream(c) /\ s[1] = c[2] /\ s[2] = c[1]
  BY StreamIsPair
<1>2. PICK kept : kept = LeftBehind(handler[s])
  OBVIOUS
<1>3. handler[s].broken /\ client[c].pc # "done" /\ Up(c[2])
  BY <1>1 DEF StreamEnds, JOK, HangsUp, IsConnected, Served
<1>4. /\ SetClient(c, "connect") /\ UNCHANGED <<pc, step, server>>
      /\ old' = [old EXCEPT ![s] = @ \cup kept] /\ handler' = [handler EXCEPT ![s] = NoStream]
  BY <1>1, <1>2, <1>3 DEF StreamEnds
<1>5. /\ handler'[s] = NoStream /\ old'[s] = old[s] \cup kept
      /\ \A h \in Pair \ {s} : handler'[h] = handler[h] /\ old'[h] = old[h]
  BY <1>4 DEF IInv, StreamsOK
<1>6. client'[c].pc = "connect" /\ \A d \in Pair \ {c} : client'[d] = client[d]
  BY <1>4 DEF IInv, ClientsOK, SetClient
<1>7. kept \subseteq {handler[s]} /\ (Msg(handler[s]) => handler[s] \in kept)
  BY <1>2 DEF LeftBehind, Msg
<1>8. NoStream.pc = "none"
  BY DEF NoStream
<1>9. PairFacts(server[c[2]].steps[c[1]], NoStream, old'[s],
                c[1] \in server[c[2]].connected, step[c[2]], pc[c[2]] = "working")
  BY <1>1, <1>5, <1>7, <1>8, StreamFacts, FactsEnd
<1>10. Facts(s)'
  BY <1>1, <1>4, <1>5, <1>9 DEF Facts
<1>11. \A r \in Handlers(s)' : r.pc \in {"update", "response"} => ~ r.err
  BY <1>5, <1>7, <1>8 DEF JOK, NoErrors, Handlers
<1>12. HangsUp(c)'
  BY <1>6 DEF HangsUp, IsConnected
<1>13. Facts(Stream(c))' /\ \A r \in Handlers(Stream(c))' : r.pc \in {"update", "response"} => ~ r.err
  BY <1>1, <1>10, <1>11 DEF Stream
<1> QED
  BY <1>1, <1>3, <1>4, <1>5, <1>6, <1>12, <1>13, StreamKeepsJ

\* The relay resets a stream: its message is still there.
LEMMA ResetKeepsJ ==
    ASSUME IInv, JOK, NEW c \in Pair, Reset(c)
    PROVE  JOK'
<1>1. PICK s \in Pair : s = Stream(c) /\ s[1] = c[2] /\ s[2] = c[1]
  BY StreamIsPair
<1>2. PICK r : r = handler[s]
  OBVIOUS
<1>3. r \in State /\ r.pc # "none"
  BY <1>1, <1>2 DEF Reset, IInv, StreamsOK, Handlers, HandlerOK
<1>4. PICK next : next = [r EXCEPT !.broken = TRUE]
  OBVIOUS
<1>5. /\ next.pc = r.pc /\ (Msg(r) => next.step = r.step)
      /\ r.pc \in {"update", "response"} => next.err = r.err
  BY <1>3, <1>4 DEF State, Idle, Requested, Answered, Msg
<1>6. handler' = [handler EXCEPT ![s] = next] /\ UNCHANGED <<pc, step, client, server, old>>
  BY <1>1, <1>2, <1>4 DEF Reset
<1>7. handler'[s] = next /\ \A h \in Pair \ {s} : handler'[h] = handler[h]
  BY <1>6 DEF IInv, StreamsOK
<1>8. PairFacts(server[c[2]].steps[c[1]], next, old[s],
                c[1] \in server[c[2]].connected, step[c[2]], pc[c[2]] = "working")
  BY <1>1, <1>2, <1>5, StreamFacts, FactsReset
<1>9. Facts(s)'
  BY <1>1, <1>6, <1>7, <1>8 DEF Facts
<1>10. \A x \in Handlers(s)' : x.pc \in {"update", "response"} => ~ x.err
  BY <1>2, <1>5, <1>6, <1>7 DEF JOK, NoErrors, Handlers
<1>11. HangsUp(c)'
  BY <1>1, <1>3, <1>5, <1>7 DEF HangsUp, Stream
<1>12. Facts(Stream(c))' /\ \A x \in Handlers(Stream(c))' : x.pc \in {"update", "response"} => ~ x.err
  BY <1>1, <1>9, <1>10 DEF Stream
<1> QED
  BY <1>1, <1>6, <1>7, <1>11, <1>12, StreamKeepsJ

\* Shutdown of a client changes no stream.
LEMMA ShutdownKeepsJ ==
    ASSUME IInv, JOK, NEW c \in Pair, Shutdown(c)
    PROVE  JOK'
<1>1. /\ UNCHANGED <<pc, step, server, handler, old>>
      /\ client' = [client EXCEPT ![c].shutdown = TRUE]
  BY DEF Shutdown, nodeUnchanged
<1>2. client'[c].pc = client[c].pc /\ \A d \in Pair \ {c} : client'[d] = client[d]
  BY <1>1 DEF IInv, ClientsOK
<1>3. HangsUp(c)'
  BY <1>1, <1>2 DEF JOK, HangsUp, IsConnected, Stream
<1>4. Facts(Stream(c))' /\ \A r \in Handlers(Stream(c))' : r.pc \in {"update", "response"} => ~ r.err
  <2>1. PICK s \in Pair : s = Stream(c)
    BY StreamIsPair
  <2>2. Facts(s)'
    BY <1>1, SameFacts DEF JOK
  <2>3. \A r \in Handlers(s)' : r.pc \in {"update", "response"} => ~ r.err
    BY <1>1 DEF JOK, NoErrors, Handlers
  <2> QED
    BY <2>1, <2>2, <2>3 DEF Stream
<1> QED
  BY <1>1, <1>2, <1>3, <1>4, StreamKeepsJ

-----------------------------------------------------------------------------
(* The steps of the handlers.                                              *)

\* A handler of the pair h goes on, and changes what its server has of the peer.
LEMMA HandlerKeepsJ ==
    ASSUME IInv, JOK, NEW h \in Pair, NEW r, NEW next, Goes(h, r, next),
           UNCHANGED <<pc, step, client>>,
           \A g \in Pair \ {h} : /\ server'[g[1]].steps[g[2]] = server[g[1]].steps[g[2]]
                                 /\ g[2] \in server'[g[1]].connected <=> g[2] \in server[g[1]].connected,
           \A n \in Node : ~ server'[n].err,
           next.pc \in {"update", "response"} => ~ next.err,
           handler[h] = r /\ next.pc = "none" => next.broken,
           Facts(h)'
    PROVE  JOK'
<1>1. \A g \in Pair \ {h} : handler'[g] = handler[g] /\ old'[g] = old[g]
  BY DEF Goes, IInv, StreamsOK
<1>2. \A x \in Handlers(h)' : x \in Handlers(h) \/ x = next
  BY DEF Goes, Handlers, IInv, StreamsOK
<1>3. handler'[h] = handler[h] \/ (handler[h] = r /\ handler'[h] = next)
  BY DEF Goes, IInv, StreamsOK
<1>4. Served'
  BY DEF JOK, Served, Up
<1>5. NoErrors'
  <2>1. ASSUME NEW g \in Pair, NEW x \in Handlers(g)', x.pc \in {"update", "response"}
        PROVE  ~ x.err
    <3>1. x \in Handlers(g) \/ x = next
      BY <1>1, <1>2, <2>1 DEF Handlers
    <3> QED
      BY <2>1, <3>1 DEF JOK, NoErrors
  <2> QED
    BY <2>1 DEF NoErrors, Handlers
<1>6. ASSUME NEW c \in Pair
      PROVE  HangsUp(c)'
  <2>1. PICK s \in Pair : s = Stream(c)
    BY StreamIsPair
  <2>2. handler'[s] = handler[s] \/ (handler'[s].pc = "none" => handler'[s].broken)
    BY <1>1, <1>3
  <2> QED
    BY <2>1, <2>2 DEF JOK, HangsUp, IsConnected, Stream
<1>7. ASSUME NEW g \in Pair
      PROVE  Facts(g)'
  <2>1. CASE g = h
    BY <2>1
  <2>2. CASE g # h
    BY <1>1, <2>2, SameFacts DEF JOK
  <2> QED
    BY <2>1, <2>2
<1> QED
  BY <1>4, <1>5, <1>6, <1>7 DEF JOK

\* validReq accepts, since all nodes fit.
LEMMA ValidateKeepsJ ==
    ASSUME IInv, JOK, misfit = {}, NEW h \in Pair, NEW r \in Handlers(h), Validate(h, r)
    PROVE  JOK'
<1>1. PICK next : next = [pc |-> "update", broken |-> r.broken, step |-> r.step,
                          shutdown |-> r.shutdown, err |-> FALSE]
  OBVIOUS
<1>2. (h[1] \in misfit) = (h[2] \in misfit)
  OBVIOUS
<1>3. /\ r.pc = "valid" /\ Goes(h, r, next) /\ UNCHANGED <<pc, step, client>>
      /\ server' = [server EXCEPT ![h[1]].connected = @ \cup {h[2]}]
  BY <1>1, <1>2 DEF Validate, nodeUnchanged
<1>4. next.pc = "update" /\ next.step = r.step /\ ~ next.err
  BY <1>1
<1>5. PICK n \in Node, p \in Node : n = h[1] /\ p = h[2] /\ n # p
  BY PairTypes DEF Peers
<1>6. /\ server = [m \in Node |-> server[m]] /\ server[n] \in ServerState(n)
  BY DEF IInv, ServersOK
<1>7. /\ \A m \in Node \ {n} : server'[m] = server[m]
      /\ server'[n] = [server[n] EXCEPT !.connected = @ \cup {p}]
  BY <1>3, <1>5, <1>6
<1>8. /\ server'[n].steps = server[n].steps /\ server'[n].err = server[n].err
      /\ server'[n].connected = server[n].connected \cup {p}
  BY <1>6, <1>7 DEF ServerState
<1>9. \A m \in Node : ~ server'[m].err
  BY <1>7, <1>8 DEF JOK, NoErrors
<1>10. ASSUME NEW g \in Pair \ {h}
       PROVE  /\ server'[g[1]].steps[g[2]] = server[g[1]].steps[g[2]]
              /\ g[2] \in server'[g[1]].connected <=> g[2] \in server[g[1]].connected
  <2>1. g[1] \in Node /\ (g[1] = n => g[2] # p)
    BY <1>5 DEF Pair
  <2> QED
    BY <1>7, <1>8, <2>1
<1>11. Facts(h)'
  <2>1. PairFacts(server[n].steps[p], handler[h], old[h], p \in server[n].connected,
                  step[n], pc[n] = "working")
    BY <1>5 DEF JOK, Facts
  <2>2. server[n].connected \subseteq server'[n].connected
    BY <1>8
  <2>3. CASE r = handler[h] /\ handler'[h] = next /\ old'[h] = old[h]
    <3>1. PairFacts(server[n].steps[p], next, old[h], p \in server'[n].connected,
                    step[n], pc[n] = "working")
      <4>1. handler[h].pc = "valid" /\ next.step = handler[h].step
        BY <1>3, <1>4, <2>3
      <4> QED
        BY <1>4, <2>1, <2>2, <4>1, FactsValid
    <3> QED
      BY <1>3, <1>5, <1>8, <2>3, <3>1 DEF Facts
  <2>4. CASE r \in old[h] /\ handler'[h] = handler[h] /\ old'[h] = (old[h] \ {r}) \cup {next}
    <3>1. PairFacts(server[n].steps[p], handler[h], (old[h] \ {r}) \cup {next},
                    p \in server'[n].connected, step[n], pc[n] = "working")
      BY <1>3, <1>4, <2>1, <2>2, <2>4, FactsOldValid
    <3> QED
      BY <1>3, <1>5, <1>8, <2>4, <3>1 DEF Facts
  <2>5. {x \in {next} : x.pc # "none"} = {next}
    BY <1>4
  <2> QED
    BY <1>3, <2>3, <2>4, <2>5 DEF Goes, IInv, StreamsOK
<1> QED
  BY <1>3, <1>4, <1>9, <1>10, <1>11, HandlerKeepsJ

\* What updateStep refuses is on a broken stream, and then the server has a
\* later step of the peer.
LEMMA StepIsAccepted ==
    ASSUME IInv, NEW h \in Pair, Facts(h), NEW r \in Handlers(h), r.pc = "update"
    PROVE  /\ server[h[1]].steps[h[2]] = Unknown => StepOK(server[h[1]].steps[h[2]], r.step)
           /\ r = handler[h] => StepOK(server[h[1]].steps[h[2]], r.step)
<1>1. PICK cur \in Nat, st \in Nat : cur = server[h[1]].steps[h[2]] /\ st = step[h[1]]
  BY PairTypes
<1>2. r.step \in Nat /\ r.step <= st + 1 /\ Msg(r)
  <2>1. Msg(r) /\ r.step \in Nat /\ r.step <= step[h[2]] /\ step[h[2]] \in Nat /\ step[h[2]] <= st + 1
    BY <1>1, PairTypes DEF Msg
  <2> QED
    BY <2>1
<1>3. CASE cur = Unknown
  <2>1. r.step <= 1
    BY <1>1, <1>2, <1>3 DEF Facts, PairFacts, Handlers
  <2> QED
    BY <1>1, <1>3, <2>1 DEF StepOK
<1>4. CASE cur # Unknown /\ r = handler[h]
  <2>1. cur <= r.step /\ st <= cur + 1
    BY <1>1, <1>2, <1>4 DEF Facts, PairFacts
  <2>2. r.step <= cur + 2
    BY <1>2, <2>1
  <2> QED
    BY <1>1, <1>4, <2>1, <2>2 DEF StepOK
<1> QED
  BY <1>1, <1>3, <1>4

\* updateStep and the response.
LEMMA RespondKeepsJ ==
    ASSUME IInv, JOK, \A m \in Node : step[m] <= LastStep,
           NEW h \in Pair, NEW r \in Handlers(h), Respond(h, r)
    PROVE  JOK'
<1>1. PICK n \in Node, p \in Node : n = h[1] /\ p = h[2] /\ n # p /\ p \in Peers(n)
  BY PairTypes DEF Peers
<1>2. PICK cur \in Nat : cur = server[n].steps[p]
  BY <1>1, PairTypes
<1>3. r.pc = "update" /\ UNCHANGED <<pc, step, client>>
  BY DEF Respond, nodeUnchanged
<1>4. PICK ok \in BOOLEAN : ok <=> StepOK(cur, r.step)
  <2>1. CASE StepOK(cur, r.step)
    BY <2>1
  <2>2. CASE ~ StepOK(cur, r.step)
    BY <2>2
  <2> QED
    BY <2>1, <2>2
<1>5. r \in Answered /\ r.step \in Nat /\ ~ r.err /\ r.step # Unknown
  <2>1. HandlerOK(h, r)
    BY DEF IInv, StreamsOK
  <2>2. r \in Answered /\ r.step \in Nat /\ r.step <= step[p]
    BY <1>1, <1>3, <2>1 DEF HandlerOK, State, Idle, Requested, Answered
  <2>3. ~ r.err
    BY <1>3 DEF JOK, NoErrors
  <2>4. step[p] \in Nat /\ step[p] <= LastStep
    BY DEF IInv, NodesOK
  <2>5. r.step # Unknown
    BY <2>2, <2>4, StepAssumption DEF Unknown
  <2> QED
    BY <2>2, <2>3, <2>5
<1>6. (cur = Unknown => ok) /\ (r = handler[h] => ok)
  BY <1>1, <1>2, <1>3, <1>4, StepIsAccepted DEF JOK
<1>7. PICK next : /\ next = IF ok /\ ~ r.broken THEN [r EXCEPT !.pc = "response"]
                            ELSE [pc |-> "none", broken |-> r.broken]
                  /\ Goes(h, r, next)
  BY <1>1, <1>2, <1>4 DEF Respond
<1>8. /\ next.pc \in {"none", "response"} /\ (next.pc = "response" => ~ next.err)
      /\ ok /\ next.pc = "none" => next.broken
  <2>1. CASE ok /\ ~ r.broken
    BY <1>5, <1>7, <2>1 DEF Answered
  <2>2. CASE ~ (ok /\ ~ r.broken)
    <3>1. next = [pc |-> "none", broken |-> r.broken]
      BY <1>7, <2>2
    <3> QED
      BY <2>2, <3>1
  <2> QED
    BY <2>1, <2>2
<1>9. PICK s : s = server[n]
  OBVIOUS
<1>10. s \in ServerState(n) /\ server = [m \in Node |-> server[m]]
  BY <1>9 DEF IInv, ServersOK
<1>11. PICK steps, sd, conn :
          /\ steps = [s.steps EXCEPT ![p] = IF ok THEN r.step ELSE @]
          /\ conn = IF r.broken \/ r.shutdown \/ ~ ok THEN s.connected \ {p} ELSE s.connected
          /\ sd = IF ok /\ r.shutdown /\ ~ r.broken THEN s.shutdown \cup {p} ELSE s.shutdown
  OBVIOUS
<1>12. /\ \A m \in Node \ {n} : server'[m] = server[m]
       /\ server'[n] = [s EXCEPT !.steps = steps, !.shutdown = sd, !.connected = conn]
  BY <1>1, <1>2, <1>4, <1>9, <1>10, <1>11 DEF Respond
<1>13. server'[n].steps = steps /\ server'[n].err = s.err /\ server'[n].connected = conn
  BY <1>10, <1>12 DEF ServerState
<1>14. /\ steps[p] = IF ok THEN r.step ELSE cur
       /\ \A q \in Peers(n) \ {p} : steps[q] = s.steps[q]
       /\ \A q : q # p => (q \in conn <=> q \in s.connected)
  BY <1>1, <1>2, <1>9, <1>10, <1>11 DEF ServerState
<1>15. \A m \in Node : ~ server'[m].err
  BY <1>9, <1>12, <1>13 DEF JOK, NoErrors
<1>16. ASSUME NEW g \in Pair \ {h}
       PROVE  /\ server'[g[1]].steps[g[2]] = server[g[1]].steps[g[2]]
              /\ g[2] \in server'[g[1]].connected <=> g[2] \in server[g[1]].connected
  <2>1. g[1] \in Node /\ (g[1] = n => g[2] \in Peers(n) \ {p})
    BY <1>1 DEF Pair, Peers
  <2>2. CASE g[1] # n
    BY <1>12, <2>1, <2>2
  <2>3. CASE g[1] = n
    BY <1>9, <1>13, <1>14, <2>1, <2>3
  <2> QED
    BY <2>2, <2>3
<1>17. Facts(h)'
  <2>1. PairFacts(cur, handler[h], old[h], p \in server[n].connected, step[n], pc[n] = "working")
    BY <1>1, <1>2 DEF JOK, Facts
  <2>2. steps[p] \in Nat /\ steps[p] # Unknown /\ (cur # Unknown => steps[p] >= cur)
    BY <1>4, <1>5, <1>6, <1>14 DEF StepOK
  <2>3. \/ r = handler[h] /\ handler'[h] = next /\ old'[h] = old[h]
        \/ r \in old[h] /\ handler'[h] = handler[h] /\ old'[h] = (old[h] \ {r}) \cup {x \in {next} : x.pc # "none"}
    BY <1>7 DEF Goes, IInv, StreamsOK
  <2>4. step[n] \in Nat
    BY DEF IInv, NodesOK
  <2>5. CASE r = handler[h] /\ handler'[h] = next /\ old'[h] = old[h]
    <3>1. ~ Msg(next)
      BY <1>8 DEF Msg
    <3>2. PairFacts(steps[p], next, old[h], p \in conn, step[n], pc[n] = "working")
      BY <2>1, <2>2, <2>4, <3>1, FactsStored
    <3> QED
      BY <1>1, <1>3, <1>13, <2>5, <3>2 DEF Facts
  <2>6. CASE r \in old[h] /\ handler'[h] = handler[h] /\ old'[h] = (old[h] \ {r}) \cup {x \in {next} : x.pc # "none"}
    <3>1. Msg(handler[h]) => steps[p] <= handler[h].step
      BY <1>3, <1>6, <1>14, <2>1, <2>6 DEF PairFacts, Msg
    <3>2. \A x \in old'[h] : x \in old[h] \/ ~ Msg(x)
      BY <1>8, <2>6 DEF Msg
    <3>3. PairFacts(steps[p], handler[h], old'[h], p \in conn, step[n], pc[n] = "working")
      BY <2>1, <2>2, <2>4, <3>1, <3>2, FactsStored
    <3> QED
      BY <1>1, <1>3, <1>13, <2>6, <3>3 DEF Facts
  <2> QED
    BY <2>3, <2>5, <2>6
<1> QED
  BY <1>3, <1>6, <1>7, <1>8, <1>15, <1>16, <1>17, HandlerKeepsJ

\* A read fails: the handler had no message, and is gone.
LEMMA ReadFailsKeepsJ ==
    ASSUME IInv, JOK, NEW h \in Pair, NEW r \in Handlers(h), ReadFails(h, r)
    PROVE  JOK'
<1>1. PICK n \in Node, p \in Node : n = h[1] /\ p = h[2] /\ n # p
  BY PairTypes DEF Peers
<1>2. PICK next : next = [pc |-> "none", broken |-> TRUE]
  OBVIOUS
<1>3. /\ r.pc \in {"read", "response"} /\ Goes(h, r, next) /\ UNCHANGED <<pc, step, client>>
      /\ server' = [server EXCEPT ![n].connected = @ \ {p}]
  BY <1>1, <1>2 DEF ReadFails, nodeUnchanged
<1>4. ~ Msg(r) /\ next.pc = "none" /\ next.broken
  BY <1>2, <1>3 DEF Msg
<1>5. server = [m \in Node |-> server[m]] /\ server[n] \in ServerState(n)
  BY DEF IInv, ServersOK
<1>6. /\ \A m \in Node \ {n} : server'[m] = server[m]
      /\ server'[n] = [server[n] EXCEPT !.connected = @ \ {p}]
  BY <1>3, <1>5
<1>7. /\ server'[n].steps = server[n].steps /\ server'[n].err = server[n].err
      /\ server'[n].connected = server[n].connected \ {p}
  BY <1>5, <1>6 DEF ServerState
<1>8. \A m \in Node : ~ server'[m].err
  BY <1>6, <1>7 DEF JOK, NoErrors
<1>9. ASSUME NEW g \in Pair \ {h}
      PROVE  /\ server'[g[1]].steps[g[2]] = server[g[1]].steps[g[2]]
             /\ g[2] \in server'[g[1]].connected <=> g[2] \in server[g[1]].connected
  <2>1. g[1] \in Node /\ (g[1] = n => g[2] # p)
    BY <1>1 DEF Pair
  <2> QED
    BY <1>6, <1>7, <2>1
<1>10. Facts(h)'
  <2>1. PairFacts(server[n].steps[p], handler[h], old[h], p \in server[n].connected,
                  step[n], pc[n] = "working")
    BY <1>1 DEF JOK, Facts
  <2>2. {x \in {next} : x.pc # "none"} = {}
    BY <1>4
  <2>3. \/ r = handler[h] /\ handler'[h] = next /\ old'[h] = old[h]
        \/ handler'[h] = handler[h] /\ old'[h] = old[h] \ {r}
    BY <1>3, <2>2 DEF Goes, IInv, StreamsOK
  <2>4. /\ handler'[h] = handler[h] \/ (~ Msg(handler[h]) /\ handler'[h].pc = "none")
        /\ old'[h] \subseteq old[h] /\ \A x \in old[h] : Msg(x) => x \in old'[h]
    BY <1>4, <2>3
  <2>5. p \notin server'[n].connected
    BY <1>7
  <2>6. PairFacts(server[n].steps[p], handler'[h], old'[h], p \in server'[n].connected,
                  step[n], pc[n] = "working")
    BY <2>1, <2>4, <2>5, FactsReadFails
  <2> QED
    BY <1>1, <1>3, <1>7, <2>6 DEF Facts
<1> QED
  BY <1>3, <1>4, <1>8, <1>9, <1>10, HandlerKeepsJ

-----------------------------------------------------------------------------
(* The steps of the nodes.                                                 *)

\* A step of the node n: no stream and no server changes.
LEMMA NodeKeepsJ ==
    ASSUME IInv, JOK, NEW n \in Node, UNCHANGED <<client, server, handler, old>>,
           NEW x, x \notin {"failed", "exited"}, pc' = [pc EXCEPT ![n] = x],
           NEW st, step' = [step EXCEPT ![n] = st],
           \A p \in Peers(n) : PairFacts(server[n].steps[p], handler[<<n, p>>], old[<<n, p>>],
                                         p \in server[n].connected, st, x = "working")
    PROVE  JOK'
<1>1. pc \in [Node -> Place] /\ step \in [Node -> Nat]
  BY DEF IInv, NodesOK
<1>2. Served'
  BY <1>1 DEF JOK, Served, Up
<1>3. NoErrors'
  BY DEF JOK, NoErrors, Handlers
<1>4. \A c \in Pair : HangsUp(c)'
  BY DEF JOK, HangsUp, IsConnected, Stream
<1>5. ASSUME NEW h \in Pair
      PROVE  Facts(h)'
  <2>1. h[1] \in Node
    BY DEF Pair
  <2>2. CASE h[1] # n
    BY <1>1, <2>1, <2>2, SameFacts DEF JOK
  <2>3. CASE h[1] = n
    <3>1. PICK p \in Peers(n) : p = h[2] /\ h = <<n, p>>
      BY <2>3 DEF Pair, Peers
    <3>2. pc'[n] = x /\ step'[n] = st
      BY <1>1
    <3> QED
      BY <2>3, <3>1, <3>2 DEF Facts
  <2> QED
    BY <2>2, <2>3
<1> QED
  BY <1>2, <1>3, <1>4, <1>5 DEF JOK

\* A node and a peer are a pair.
LEMMA PeerPair ==
    ASSUME NEW n \in Node, NEW p \in Peers(n)
    PROVE  \E h \in Pair : h = <<n, p>> /\ h[1] = n /\ h[2] = p
<1>1. p \in Node /\ n # p
  BY DEF Peers
<1>2. <<n, p>> \in Node \X Node
  BY <1>1
<1>3. <<n, p>>[1] = n /\ <<n, p>>[2] = p
  OBVIOUS
<1>4. <<n, p>> \in Pair
  BY <1>1, <1>2, <1>3 DEF Pair
<1> QED
  BY <1>3, <1>4

\* The facts about the peers of a node.
LEMMA NodeFacts ==
    ASSUME IInv, JOK, NEW n \in Node, NEW p \in Peers(n)
    PROVE  /\ PairFacts(server[n].steps[p], handler[<<n, p>>], old[<<n, p>>],
                        p \in server[n].connected, step[n], pc[n] = "working")
           /\ server[n].steps[p] \in Nat /\ step[n] \in Nat
<1>1. PICK h \in Pair : h = <<n, p>> /\ h[1] = n /\ h[2] = p
  BY PeerPair
<1>2. Facts(h)
  BY DEF JOK
<1> QED
  BY <1>1, <1>2, PairTypes DEF Facts

\* All clients are connected, or shut down.
LEMMA WaitingKeepsJ ==
    ASSUME IInv, JOK, NEW n \in Node, AllClientsConnected(n) \/ AwaitAllShutdown(n)
    PROVE  JOK'
<1>1. PICK x \in {"connected", "done"} : pc' = [pc EXCEPT ![n] = x]
  BY DEF AllClientsConnected, AwaitAllShutdown, SetPC
<1>2. UNCHANGED <<step, client, server, handler, old>>
  BY DEF AllClientsConnected, AwaitAllShutdown
<1>3. step' = [step EXCEPT ![n] = step[n]]
  BY <1>2 DEF IInv, NodesOK
<1>4. \A p \in Peers(n) : PairFacts(server[n].steps[p], handler[<<n, p>>], old[<<n, p>>],
                                    p \in server[n].connected, step[n], x = "working")
  BY NodeFacts DEF PairFacts
<1> QED
  BY <1>1, <1>2, <1>3, <1>4, NodeKeepsJ

\* The first step, when all peers are connected.
LEMMA AwaitAllConnectedKeepsJ ==
    ASSUME IInv, JOK, NEW n \in Node, AwaitAllConnected(n)
    PROVE  JOK'
<1>1. /\ pc' = [pc EXCEPT ![n] = "await"] /\ step' = [step EXCEPT ![n] = 1]
      /\ server[n].connected = Peers(n) /\ UNCHANGED <<client, server, handler, old>>
  BY DEF AwaitAllConnected, SetPC
<1>2. ASSUME NEW p \in Peers(n)
      PROVE  PairFacts(server[n].steps[p], handler[<<n, p>>], old[<<n, p>>],
                       p \in server[n].connected, 1, "await" = "working")
  <2>1. p \in server[n].connected
    BY <1>1
  <2>2. 1 <= server[n].steps[p] + 1
    <3>1. server[n].steps[p] \in Nat
      BY NodeFacts
    <3> QED
      BY <3>1
  <2> QED
    BY <2>1, <2>2, NodeFacts DEF PairFacts
<1> QED
  BY <1>1, <1>2, NodeKeepsJ

\* A node works when all steps of its peers are known.
LEMMA AwaitAllAtStepKeepsJ ==
    ASSUME IInv, JOK, NEW n \in Node, AwaitAllAtStep(n)
    PROVE  JOK'
<1>1. /\ pc' = [pc EXCEPT ![n] = "working"] /\ UNCHANGED <<step, client, server, handler, old>>
      /\ \A p \in Peers(n) : server[n].steps[p] \in {step[n], step[n] + 1} \ {Unknown}
  BY DEF AwaitAllAtStep, SetPC, isAllAtStep
<1>2. step' = [step EXCEPT ![n] = step[n]]
  BY <1>1 DEF IInv, NodesOK
<1>3. ASSUME NEW p \in Peers(n)
      PROVE  PairFacts(server[n].steps[p], handler[<<n, p>>], old[<<n, p>>],
                       p \in server[n].connected, step[n], "working" = "working")
  <2>1. server[n].steps[p] # Unknown /\ step[n] <= server[n].steps[p]
    <3>1. server[n].steps[p] \in Nat /\ step[n] \in Nat
      BY NodeFacts
    <3> QED
      BY <1>1, <3>1
  <2> QED
    BY <2>1, NodeFacts DEF PairFacts
<1> QED
  BY <1>1, <1>2, <1>3, NodeKeepsJ

\* The next step, or the end.
LEMMA StepEndsKeepsJ ==
    ASSUME IInv, JOK, NEW n \in Node, StepEnds(n)
    PROVE  JOK'
<1>1. pc[n] = "working" /\ UNCHANGED <<client, server, handler, old>>
  BY DEF StepEnds
<1>2. step[n] \in Nat
  BY DEF IInv, NodesOK
<1>3. PICK x \in {"await", "stopping"}, st \in {step[n], step[n] + 1} :
          pc' = [pc EXCEPT ![n] = x] /\ step' = [step EXCEPT ![n] = st]
  <2>1. step = [step EXCEPT ![n] = step[n]]
    BY DEF IInv, NodesOK
  <2> QED
    BY <2>1 DEF StepEnds, SetPC
<1>4. ASSUME NEW p \in Peers(n)
      PROVE  PairFacts(server[n].steps[p], handler[<<n, p>>], old[<<n, p>>],
                       p \in server[n].connected, st, x = "working")
  <2>1. server[n].steps[p] # Unknown /\ step[n] <= server[n].steps[p]
    BY <1>1, NodeFacts DEF PairFacts
  <2>2. server[n].steps[p] \in Nat
    BY NodeFacts
  <2>3. st <= server[n].steps[p] + 1 /\ x # "working"
    BY <1>2, <1>3, <2>1, <2>2
  <2> QED
    BY <2>1, <2>3, NodeFacts DEF PairFacts
<1> QED
  BY <1>1, <1>3, <1>4, NodeKeepsJ

\* No server fails: there is no error, and no peer is two steps ahead.
LEMMA NoServerFails ==
    ASSUME IInv, JOK, NEW n \in Node
    PROVE  ~ ServerFails(n)
<1>1. ~ server[n].err
  BY DEF JOK, NoErrors
<1>2. ASSUME NEW p \in Peers(n), server[n].steps[p] # Unknown, server[n].steps[p] >= step[n] + 2
      PROVE  FALSE
  <2>1. PICK h \in Pair : h = <<n, p>> /\ h[1] = n /\ h[2] = p
    BY PeerPair
  <2>2. /\ step[n] \in Nat /\ step[p] \in Nat /\ step[p] <= step[n] + 1
        /\ server[n].steps[p] \in Nat /\ server[n].steps[p] <= step[p]
    BY <1>2, <2>1, PairTypes
  <2> QED
    BY <1>2, <2>2
<1> QED
  BY <1>1, <1>2 DEF ServerFails

\* The state of a handler whose stream ends, apart from that.
LEMMA BrokenIsSame ==
    ASSUME NEW r \in State, NEW b, b = [r EXCEPT !.broken = TRUE]
    PROVE  /\ b.pc = r.pc /\ b.broken /\ (Msg(r) => b.step = r.step /\ b.shutdown = r.shutdown)
           /\ r.pc \in {"update", "response"} => b.err = r.err
BY DEF State, Idle, Requested, Answered, Msg

\* A node exits when the clients of its peers are done with it.
LEMMA ExitKeepsJ ==
    ASSUME IInv, JOK, NEW n \in Node, Exit(n), ~ hurried'
    PROVE  JOK'
<1>1. /\ pc[n] = "done" /\ pc' = [pc EXCEPT ![n] = "exited"] /\ handler' = EndStreams(n)
      /\ \A p \in Peers(n) : client[<<p, n>>].pc = "done"
      /\ UNCHANGED <<step, client, server, old>>
  BY DEF Exit, SetPC
<1>2. pc \in [Node -> Place]
  BY DEF IInv, NodesOK
<1>3. pc'[n] = "exited" /\ \A m \in Node \ {n} : pc'[m] = pc[m]
  BY <1>1, <1>2
<1>4. Served'
  <2>1. ASSUME NEW c \in Pair, client[c].pc # "done"
        PROVE  Up(c[2]) /\ c[2] # n /\ c[2] \in Node
    <3>1. c[1] \in Node /\ c[2] \in Node /\ c[1] # c[2] /\ c = <<c[1], c[2]>>
      BY DEF Pair
    <3>2. c[2] # n
      BY <1>1, <2>1, <3>1 DEF Peers
    <3> QED
      BY <2>1, <3>1, <3>2 DEF JOK, Served
  <2> QED
    BY <1>1, <1>3, <2>1 DEF JOK, Served, Up
<1>5. ASSUME NEW h \in Pair
      PROVE  /\ handler'[h].pc = handler[h].pc
             /\ Msg(handler[h]) => handler'[h].step = handler[h].step
             /\ handler[h].pc \in {"update", "response"} => handler'[h].err = handler[h].err
             /\ handler[h].pc = "none" => handler'[h] = handler[h]
  <2>1. handler[h] \in State
    BY DEF IInv, StreamsOK, Handlers, HandlerOK
  <2>2. \/ handler'[h] = handler[h]
        \/ handler[h].pc # "none" /\ handler'[h] = [handler[h] EXCEPT !.broken = TRUE]
    BY <1>1 DEF EndStreams
  <2> QED
    BY <2>1, <2>2, BrokenIsSame
<1>6. NoErrors'
  BY <1>1, <1>5 DEF JOK, NoErrors, Handlers
<1>7. ASSUME NEW c \in Pair
      PROVE  HangsUp(c)'
  <2>1. PICK s \in Pair : s = Stream(c)
    BY StreamIsPair
  <2> QED
    BY <1>1, <1>5, <2>1 DEF JOK, HangsUp, IsConnected, Stream
<1>8. ASSUME NEW h \in Pair
      PROVE  Facts(h)'
  <2>1. h[1] \in Node /\ (pc'[h[1]] = "working") = (pc[h[1]] = "working")
    BY <1>1, <1>3 DEF Pair
  <2>2. PairFacts(server[h[1]].steps[h[2]], handler'[h], old[h], h[2] \in server[h[1]].connected,
                  step[h[1]], pc[h[1]] = "working")
    BY <1>5, FactsReset DEF JOK, Facts
  <2> QED
    BY <1>1, <2>1, <2>2 DEF Facts
<1> QED
  BY <1>4, <1>6, <1>7, <1>8 DEF JOK

-----------------------------------------------------------------------------
(* The second invariant is inductive.                                      *)

\* The second invariant holds before the protocol starts.
LEMMA InitIsJ == Init => JInv
<1> SUFFICES ASSUME Init PROVE JInv
  OBVIOUS
<1>1. /\ pc = [n \in Node |-> "connecting"] /\ step = [n \in Node |-> 0]
      /\ client = [c \in Pair |-> [pc |-> "connect", shutdown |-> FALSE]]
      /\ server = [n \in Node |-> [connected |-> {}, shutdown |-> {}, err |-> FALSE,
                                   steps |-> [p \in Peers(n) |-> Unknown]]]
      /\ handler = [h \in Pair |-> NoStream] /\ old = [h \in Pair |-> {}] /\ crashes = 0
  BY DEF Init
<1>2. crashes \in Nat /\ \A n \in Node : step[n] <= LastStep
  BY <1>1, StepAssumption
<1>3. Served
  BY <1>1 DEF Served, Up, Pair
<1>4. NoErrors
  BY <1>1 DEF NoErrors, Handlers, NoStream
<1>5. \A c \in Pair : HangsUp(c)
  BY <1>1 DEF HangsUp, IsConnected
<1>6. ASSUME NEW h \in Pair
      PROVE  Facts(h)
  <2>1. h[1] \in Node /\ h[2] \in Peers(h[1])
    BY DEF Pair, Peers
  <2>2. /\ server[h[1]].steps[h[2]] = Unknown /\ h[2] \notin server[h[1]].connected
        /\ handler[h] = NoStream /\ old[h] = {} /\ step[h[1]] = 0 /\ pc[h[1]] # "working"
    BY <1>1, <2>1
  <2>3. ~ Msg(NoStream) /\ NoStream.pc = "none"
    BY DEF Msg, NoStream
  <2>4. ~ (0 >= 1) /\ 0 <= 1
    OBVIOUS
  <2> QED
    BY <2>2, <2>3, <2>4 DEF Facts, PairFacts
<1> QED
  BY <1>2, <1>3, <1>4, <1>5, <1>6 DEF JInv, JOK

\* The steps of the ceremony end with the last one, and failures are counted.
LEMMA NextKeepsBounds ==
    ASSUME IInv, crashes \in Nat, \A n \in Node : step[n] <= LastStep, [Next]_vars
    PROVE  crashes' \in Nat /\ \A n \in Node : step'[n] <= LastStep
<1>1. step \in [Node -> Nat] /\ LastStep \in Nat \ {0}
  BY StepAssumption DEF IInv, NodesOK
<1>2. ASSUME NEW c \in Pair, ClientStep(c)
      PROVE  UNCHANGED <<step, crashes>>
  BY <1>2 DEF ClientStep, Connect, Send, Receive, StreamEnds, Shutdown, nodeUnchanged
<1>3. ASSUME NEW h \in Pair, HandlerStep(h)
      PROVE  UNCHANGED <<step, crashes>>
  BY <1>3 DEF HandlerStep, Validate, Respond, ReadFails, nodeUnchanged
<1>4. ASSUME NEW n \in Node, NodeStep(n)
      PROVE  crashes' = crashes /\ \A m \in Node : step'[m] <= LastStep
  <2>1. crashes' = crashes
    BY <1>4 DEF NodeStep, AllClientsConnected, AwaitAllConnected, AwaitAllAtStep, StepEnds, ServerFails,
                AwaitAllShutdown, Exit
  <2>2. \/ step' = step \/ step' = [step EXCEPT ![n] = 1]
        \/ step[n] < LastStep /\ step' = [step EXCEPT ![n] = @ + 1]
    BY <1>4 DEF NodeStep, AllClientsConnected, AwaitAllConnected, AwaitAllAtStep, StepEnds, ServerFails,
                AwaitAllShutdown, Exit
  <2>3. \A m \in Node : step'[m] <= LastStep
    BY <1>1, <2>2
  <2> QED
    BY <2>1, <2>3
<1>5. CASE Fault
  <2>1. step' = step /\ crashes' \in {crashes, crashes + 1}
    BY <1>5 DEF Fault, Reset, Crash
  <2> QED
    BY <2>1
<1>6. CASE UNCHANGED vars
  BY <1>6 DEF vars
<1> QED
  BY <1>2, <1>3, <1>4, <1>5, <1>6 DEF Next

\* No step makes the exceptions undone.
LEMMA GoodBefore ==
    ASSUME crashes \in Nat, [Next]_vars, Good'
    PROVE  /\ Good /\ misfit = {} /\ ~ overtaken' /\ crashes' = 0 /\ misfit' = misfit
           /\ ~ hurried'
<1>1. crashes' = 0 /\ misfit' = {} /\ ~ overtaken' /\ ~ hurried'
  BY DEF Good
<1>2. misfit' = misfit
  BY DEF Next, ClientStep, HandlerStep, NodeStep, Fault, vars
<1>3. ~ overtaken
  <2>1. ASSUME NEW c \in Pair, ClientStep(c)
        PROVE  overtaken => overtaken'
    BY <2>1 DEF ClientStep, Connect, Send, Receive, StreamEnds, Shutdown, nodeUnchanged
  <2>2. ASSUME NEW h \in Pair, HandlerStep(h)
        PROVE  overtaken' = overtaken
    BY <2>2 DEF HandlerStep, Validate, Respond, ReadFails, nodeUnchanged
  <2>3. ASSUME NEW n \in Node, NodeStep(n)
        PROVE  overtaken' = overtaken
    BY <2>3 DEF NodeStep, AllClientsConnected, AwaitAllConnected, AwaitAllAtStep, StepEnds, ServerFails,
                AwaitAllShutdown, Exit
  <2>4. ASSUME Fault \/ UNCHANGED vars
        PROVE  overtaken' = overtaken
    BY <2>4 DEF Fault, Reset, Crash, vars
  <2> QED
    BY <1>1, <2>1, <2>2, <2>3, <2>4 DEF Next
<1>4. crashes = 0
  <2>1. ASSUME NEW c \in Pair, ClientStep(c)
        PROVE  crashes' = crashes
    BY <2>1 DEF ClientStep, Connect, Send, Receive, StreamEnds, Shutdown, nodeUnchanged
  <2>2. ASSUME NEW h \in Pair, HandlerStep(h)
        PROVE  crashes' = crashes
    BY <2>2 DEF HandlerStep, Validate, Respond, ReadFails, nodeUnchanged
  <2>3. ASSUME NEW n \in Node, NodeStep(n)
        PROVE  crashes' = crashes
    BY <2>3 DEF NodeStep, AllClientsConnected, AwaitAllConnected, AwaitAllAtStep, StepEnds, ServerFails,
                AwaitAllShutdown, Exit
  <2>4. ASSUME Fault \/ UNCHANGED vars
        PROVE  crashes' = crashes \/ crashes' = crashes + 1
    BY <2>4 DEF Fault, Reset, Crash, vars
  <2>5. crashes' = crashes \/ crashes' = crashes + 1
    BY <2>1, <2>2, <2>3, <2>4 DEF Next
  <2> QED
    BY <1>1, <2>5
<1>5. ~ hurried
  <2>1. ASSUME NEW c \in Pair, ClientStep(c)
        PROVE  hurried' = hurried
    BY <2>1 DEF ClientStep, Connect, Send, Receive, StreamEnds, Shutdown, nodeUnchanged
  <2>2. ASSUME NEW h \in Pair, HandlerStep(h)
        PROVE  hurried' = hurried
    BY <2>2 DEF HandlerStep, Validate, Respond, ReadFails, nodeUnchanged
  <2>3. ASSUME NEW n \in Node, NodeStep(n)
        PROVE  hurried => hurried'
    BY <2>3 DEF NodeStep, AllClientsConnected, AwaitAllConnected, AwaitAllAtStep, StepEnds, ServerFails,
                AwaitAllShutdown, Exit
  <2>4. ASSUME Fault \/ UNCHANGED vars
        PROVE  hurried' = hurried
    BY <2>4 DEF Fault, Reset, Crash, vars
  <2> QED
    BY <1>1, <2>1, <2>2, <2>3, <2>4 DEF Next
<1> QED
  BY <1>1, <1>2, <1>3, <1>4, <1>5 DEF Good

\* Every step keeps the second invariant.
LEMMA NextKeepsJ == IInv /\ JInv /\ [Next]_vars => JInv'
<1> SUFFICES ASSUME IInv, JInv, [Next]_vars PROVE JInv'
  OBVIOUS
<1>1. crashes \in Nat /\ (\A n \in Node : step[n] <= LastStep) /\ (Good => JOK)
  BY DEF JInv
<1>2. crashes' \in Nat /\ \A n \in Node : step'[n] <= LastStep
  BY <1>1, NextKeepsBounds
<1>3. ASSUME Good'
      PROVE  JOK'
  <2>1. JOK /\ misfit = {} /\ ~ overtaken' /\ ~ hurried' /\ crashes' = 0 /\ crashes \in Nat
    BY <1>1, <1>3, GoodBefore
  <2>2. ASSUME NEW c \in Pair, ClientStep(c)
        PROVE  JOK'
    BY <2>1, <2>2, ConnectKeepsJ, SendKeepsJ, ReceiveKeepsJ, StreamEndsKeepsJ, ShutdownKeepsJ
       DEF ClientStep
  <2>3. ASSUME NEW h \in Pair, HandlerStep(h)
        PROVE  JOK'
    BY <1>1, <2>1, <2>3, ValidateKeepsJ, RespondKeepsJ, ReadFailsKeepsJ DEF HandlerStep
  <2>4. ASSUME NEW n \in Node, NodeStep(n)
        PROVE  JOK'
    BY <2>1, <2>4, WaitingKeepsJ, AwaitAllConnectedKeepsJ, AwaitAllAtStepKeepsJ, StepEndsKeepsJ,
       NoServerFails, ExitKeepsJ DEF NodeStep
  <2>5. CASE Fault
    <3>1. ASSUME NEW n \in Node, Crash(n)
          PROVE  FALSE
      <4>1. crashes' = crashes + 1
        BY <3>1 DEF Crash
      <4> QED
        BY <2>1, <4>1
    <3> QED
      BY <2>1, <2>5, <3>1, ResetKeepsJ DEF Fault
  <2>6. CASE UNCHANGED vars
    <3>1. UNCHANGED <<pc, step, client, server, handler, old>>
      BY <2>6 DEF vars
    <3>2. Served' /\ NoErrors'
      BY <2>1, <3>1 DEF JOK, Served, Up, NoErrors, Handlers
    <3>3. \A c \in Pair : HangsUp(c)'
      BY <2>1, <3>1 DEF JOK, HangsUp, IsConnected, Stream
    <3>4. \A h \in Pair : Facts(h)'
      BY <2>1, <3>1, SameFacts DEF JOK
    <3> QED
      BY <3>2, <3>3, <3>4 DEF JOK
  <2> QED
    BY <2>2, <2>3, <2>4, <2>5, <2>6 DEF Next
<1> QED
  BY <1>2, <1>3 DEF JInv

-----------------------------------------------------------------------------
(* A node that exits leaves no peer with work to do.  The third invariant: *)
(* a server knows that a peer shuts down only from a message that the peer *)
(* sent after its last step, so that all peers of a node that exits have   *)
(* finished, whether or not they get their last response.                  *)

Stopped(n) == step[n] = LastStep /\ pc[n] \in {"stopping", "done", "exited", "failed"}

\* A handler h at r has a last message only if the client sends one.
Honest(h, r) == Msg(r) /\ r.shutdown => client[Stream(h)].shutdown

KNodes ==
    /\ \A n \in Node : pc[n] \in {"stopping", "done"} => step[n] = LastStep
    /\ \A n \in Node : pc[n] = "done" => server[n].shutdown = Peers(n)
    /\ \A c \in Pair : client[c].shutdown => Stopped(c[1])
KStreams == \A h \in Pair : \A r \in Handlers(h) : Honest(h, r)
KServers == \A h \in Pair : h[2] \in server[h[1]].shutdown => client[Stream(h)].shutdown
KEnd == hurried => \A n \in Node : pc[n] = "exited" \/ Finished(n)

KInv == KNodes /\ KStreams /\ KServers /\ KEnd

\* The handlers of a step have a last message only if their client sends one.
HonestAfter == \A h \in Pair : \A r \in {handler'[h]} \cup old'[h] : Honest(h, r)

\* A step of a client, a handler or the relay that shuts no client down, and
\* after which a server knows no more of the end of its peers.
LEMMA QuietKeepsK ==
    ASSUME IInv, KInv, HonestAfter, UNCHANGED <<step, hurried>>,
           \A c \in Pair : client'[c].shutdown = client[c].shutdown,
           \A n \in Node : server'[n].shutdown = server[n].shutdown,
           \A n \in Node : pc'[n] = pc[n] \/ (pc'[n] = "failed" /\ pc[n] # "exited")
    PROVE  KInv'
<1>1. KNodes'
  <2>1. ASSUME NEW c \in Pair, client'[c].shutdown
        PROVE  Stopped(c[1])'
    <3>1. Stopped(c[1]) /\ c[1] \in Node
      BY <2>1 DEF KInv, KNodes, Pair
    <3> QED
      BY <3>1 DEF Stopped
  <2> QED
    BY <2>1 DEF KInv, KNodes, Peers
<1>2. ASSUME NEW h \in Pair
      PROVE  client'[Stream(h)].shutdown = client[Stream(h)].shutdown
  BY StreamIsPair
<1>3. KStreams'
  BY <1>2 DEF HonestAfter, KStreams, Honest, Handlers, Stream
<1>4. KServers'
  <2>1. \A h \in Pair : h[1] \in Node
    BY DEF Pair
  <2> QED
    BY <1>2, <2>1 DEF KInv, KServers, Stream
<1>5. KEnd'
  <2>1. ASSUME NEW n \in Node, Finished(n)
        PROVE  Finished(n)'
    <3>1. PICK p \in Peers(n) : client[<<n, p>>].shutdown
      BY <2>1 DEF Finished
    <3>2. <<n, p>> \in Pair
      BY PeerPair
    <3> QED
      BY <2>1, <3>1, <3>2 DEF Finished, Peers
  <2>2. ASSUME NEW n \in Node, pc[n] = "exited"
        PROVE  pc'[n] = "exited"
    BY <2>2
  <2> QED
    BY <2>1, <2>2 DEF KInv, KEnd
<1> QED
  BY <1>1, <1>3, <1>4, <1>5 DEF KInv

\* The handlers stay.
LEMMA SameHonest ==
    ASSUME KInv, UNCHANGED <<handler, old>>
    PROVE  HonestAfter
BY DEF KInv, KStreams, HonestAfter, Handlers

\* The streams of a node end.
LEMMA EndHonest ==
    ASSUME IInv, KInv, NEW n \in Node, handler' = EndStreams(n), UNCHANGED old
    PROVE  HonestAfter
<1>1. ASSUME NEW h \in Pair
      PROVE  Honest(h, handler'[h])
  <2>1. handler[h] \in State /\ Honest(h, handler[h])
    BY DEF IInv, StreamsOK, Handlers, HandlerOK, KInv, KStreams
  <2>2. handler'[h] = handler[h] \/ handler'[h] = [handler[h] EXCEPT !.broken = TRUE]
    BY DEF EndStreams
  <2>3. (Msg(handler'[h]) <=> Msg(handler[h])) /\ (Msg(handler[h]) => handler'[h].shutdown = handler[h].shutdown)
    BY <2>1, <2>2, BrokenIsSame DEF Msg
  <2> QED
    BY <2>1, <2>3 DEF Honest
<1> QED
  BY <1>1 DEF HonestAfter, KInv, KStreams, Handlers

\* One handler goes to a state without a message, or with an honest one.
LEMMA OneHonest ==
    ASSUME IInv, KInv, NEW s \in Pair, NEW next, Honest(s, next),
           handler' = [handler EXCEPT ![s] = next],
           \A h \in Pair : \A r \in old'[h] : r \in Handlers(h)
    PROVE  HonestAfter
<1>1. \A h \in Pair : handler'[h] = handler[h] \/ (h = s /\ handler'[h] = next)
  BY DEF IInv, StreamsOK
<1> QED
  BY <1>1 DEF HonestAfter, KInv, KStreams, Handlers

\* A handler goes on.
LEMMA GoesHonest ==
    ASSUME IInv, KInv, NEW h \in Pair, NEW r, NEW next, Goes(h, r, next), Honest(h, next)
    PROVE  HonestAfter
<1>1. ASSUME NEW g \in Pair, NEW x \in {handler'[g]} \cup old'[g]
      PROVE  x \in Handlers(g) \/ (g = h /\ x = next)
  BY <1>1 DEF IInv, StreamsOK, Handlers, Goes
<1> QED
  BY <1>1 DEF HonestAfter, KInv, KStreams

\* A client goes to another place.
LEMMA SetClientKeepsShutdown ==
    ASSUME IInv, NEW c \in Pair, NEW x, SetClient(c, x)
    PROVE  \A d \in Pair : client'[d].shutdown = client[d].shutdown
BY DEF IInv, ClientsOK, SetClient

\* A node that is up fails.
LEMMA FailsMoves ==
    ASSUME IInv, NEW n \in Node, Fails(n), pc[n] # "exited"
    PROVE  \A m \in Node : pc'[m] = pc[m] \/ (pc'[m] = "failed" /\ pc[m] # "exited")
BY DEF IInv, NodesOK, Fails

-----------------------------------------------------------------------------
(* The steps that keep the third invariant.                                *)

\* The clients, apart from Shutdown.
LEMMA ClientKeepsK ==
    ASSUME IInv, KInv, NEW c \in Pair, Connect(c) \/ Send(c) \/ Receive(c) \/ StreamEnds(c)
    PROVE  KInv'
<1>1. PICK s \in Pair : s = Stream(c) /\ Stream(s) = c
  <2>1. Stream(c) \in Pair /\ Stream(c)[1] = c[2] /\ Stream(c)[2] = c[1]
    BY StreamIsPair
  <2>2. c = <<c[1], c[2]>>
    BY DEF Pair
  <2> QED
    BY <2>1, <2>2 DEF Stream
<1>2. c[1] \in Node /\ Up(c[1]) /\ UNCHANGED <<step, hurried, server>>
  BY DEF Pair, Connect, Send, Receive, StreamEnds, nodeUnchanged
<1>3. \A d \in Pair : client'[d].shutdown = client[d].shutdown
  <2>1. \E x : SetClient(c, x)
    BY DEF Connect, Send, Receive, StreamEnds
  <2> QED
    BY <2>1, SetClientKeepsShutdown
<1>4. PICK read : read = [pc |-> "read", broken |-> FALSE] /\ Honest(s, read) /\ Honest(s, NoStream)
  <2>1. PICK read : read = [pc |-> "read", broken |-> FALSE]
    OBVIOUS
  <2>2. read.pc = "read" /\ NoStream.pc = "none"
    BY <2>1 DEF NoStream
  <2>3. ~ Msg(read) /\ ~ Msg(NoStream)
    BY <2>2 DEF Msg
  <2> QED
    BY <2>1, <2>3 DEF Honest
<1>5. PICK msg : /\ msg = [pc |-> "valid", broken |-> FALSE, step |-> step[c[1]],
                           shutdown |-> client[c].shutdown]
                 /\ Honest(s, msg)
  <2>1. PICK msg : msg = [pc |-> "valid", broken |-> FALSE, step |-> step[c[1]],
                          shutdown |-> client[c].shutdown]
    OBVIOUS
  <2>2. msg.shutdown = client[Stream(s)].shutdown
    BY <1>1, <2>1
  <2> QED
    BY <2>1, <2>2 DEF Honest
<1>6. \/ Fails(c[1]) /\ UNCHANGED old
      \/ /\ UNCHANGED pc /\ \A h \in Pair : \A r \in old'[h] : r \in Handlers(h)
         /\ \E next \in {read, msg, NoStream} : handler' = [handler EXCEPT ![s] = next]
  <2>1. CASE Connect(c)
    BY <1>1, <1>4, <2>1 DEF Connect, Handlers
  <2>2. CASE Send(c)
    BY <1>1, <1>5, <2>2 DEF Send, nodeUnchanged, Handlers
  <2>3. CASE Receive(c)
    BY <1>1, <1>4, <2>3 DEF Receive, Handlers
  <2>4. CASE StreamEnds(c)
    <3>1. \/ Fails(c[1]) /\ UNCHANGED old
          \/ /\ UNCHANGED pc /\ handler' = [handler EXCEPT ![s] = NoStream]
             /\ old' = [old EXCEPT ![s] = IF Up(c[2]) THEN @ \cup LeftBehind(handler[s]) ELSE @]
      BY <1>1, <2>4 DEF StreamEnds
    <3>2. LeftBehind(handler[s]) \subseteq {handler[s]}
      BY DEF LeftBehind
    <3> QED
      BY <3>1, <3>2 DEF Handlers, IInv, StreamsOK
  <2> QED
    BY <2>1, <2>2, <2>3, <2>4
<1>7. CASE Fails(c[1]) /\ UNCHANGED old
  <2>1. HonestAfter
    BY <1>2, <1>7, EndHonest DEF Fails
  <2>2. \A m \in Node : pc'[m] = pc[m] \/ (pc'[m] = "failed" /\ pc[m] # "exited")
    BY <1>2, <1>7, FailsMoves DEF Up
  <2> QED
    BY <1>2, <1>3, <2>1, <2>2, QuietKeepsK
<1>8. CASE /\ UNCHANGED pc /\ \A h \in Pair : \A r \in old'[h] : r \in Handlers(h)
           /\ \E next \in {read, msg, NoStream} : handler' = [handler EXCEPT ![s] = next]
  <2>1. HonestAfter
    BY <1>4, <1>5, <1>8, OneHonest
  <2> QED
    BY <1>2, <1>3, <1>8, <2>1, QuietKeepsK
<1> QED
  BY <1>6, <1>7, <1>8

\* The relay, and the failures of nodes.
LEMMA FaultKeepsK ==
    ASSUME IInv, KInv, Fault \/ \E n \in Node : ServerFails(n)
    PROVE  KInv'
<1>1. UNCHANGED <<step, hurried, server, client, old>>
  BY DEF Fault, Reset, Crash, ServerFails
<1>2. ASSUME NEW n \in Node, Fails(n), pc[n] # "exited"
      PROVE  KInv'
  <2>1. HonestAfter
    BY <1>1, <1>2, EndHonest DEF Fails
  <2> QED
    BY <1>1, <1>2, <2>1, FailsMoves, QuietKeepsK
<1>3. ASSUME NEW c \in Pair, Reset(c)
      PROVE  KInv'
  <2>1. PICK s \in Pair : s = Stream(c)
    BY StreamIsPair
  <2>2. PICK next : next = [handler[s] EXCEPT !.broken = TRUE]
    OBVIOUS
  <2>3. handler' = [handler EXCEPT ![s] = next] /\ UNCHANGED pc
    BY <1>3, <2>1, <2>2 DEF Reset
  <2>4. handler[s] \in State /\ Honest(s, handler[s])
    BY DEF IInv, StreamsOK, Handlers, HandlerOK, KInv, KStreams
  <2>5. Honest(s, next)
    BY <2>2, <2>4, BrokenIsSame DEF Honest, Msg
  <2>6. HonestAfter
    BY <1>1, <2>3, <2>5, OneHonest DEF Handlers
  <2> QED
    BY <1>1, <2>3, <2>6, QuietKeepsK
<1> QED
  BY <1>2, <1>3 DEF Fault, Crash, ServerFails

\* validReq, and a read that fails.
LEMMA ValidateKeepsK ==
    ASSUME IInv, KInv, NEW h \in Pair, NEW r \in Handlers(h), Validate(h, r) \/ ReadFails(h, r)
    PROVE  KInv'
<1>1. PICK n \in Node, p \in Node : n = h[1] /\ p = h[2]
  BY DEF Pair
<1>2. UNCHANGED <<step, hurried, pc, client>>
  BY DEF Validate, ReadFails, nodeUnchanged
<1>3. server = [m \in Node |-> server[m]] /\ \A m \in Node : server[m] \in ServerState(m)
  BY DEF IInv, ServersOK
<1>4. \/ server' = [server EXCEPT ![n].err = TRUE]
      \/ server' = [server EXCEPT ![n].connected = @ \cup {p}]
      \/ server' = [server EXCEPT ![n].connected = @ \ {p}]
  BY <1>1 DEF Validate, ReadFails
<1>5. ASSUME NEW m \in Node
      PROVE  server'[m].shutdown = server[m].shutdown
  <2>1. server[m] \in ServerState(m)
    BY <1>3
  <2>2. \/ server'[m] = server[m]
        \/ server'[m] = [server[m] EXCEPT !.err = TRUE]
        \/ server'[m] = [server[m] EXCEPT !.connected = @ \cup {p}]
        \/ server'[m] = [server[m] EXCEPT !.connected = @ \ {p}]
    BY <1>3, <1>4
  <2> QED
    BY <2>1, <2>2 DEF ServerState
<1>6. PICK next : Goes(h, r, next) /\ Honest(h, next)
  <2>1. CASE Validate(h, r)
    <3>1. PICK next : /\ next = [pc |-> "update", broken |-> r.broken, step |-> r.step,
                                 shutdown |-> r.shutdown,
                                 err |-> (h[1] \in misfit) # (h[2] \in misfit)]
                      /\ Goes(h, r, next) /\ r.pc = "valid"
      BY <2>1 DEF Validate
    <3>2. next.shutdown = r.shutdown
      BY <3>1
    <3>3. Honest(h, r) /\ Msg(r)
      BY <3>1 DEF KInv, KStreams, Msg
    <3> QED
      BY <3>1, <3>2, <3>3 DEF Honest
  <2>2. CASE ReadFails(h, r)
    <3>1. PICK next : next = [pc |-> "none", broken |-> TRUE] /\ Goes(h, r, next)
      BY <2>2 DEF ReadFails
    <3>2. next.pc = "none"
      BY <3>1
    <3> QED
      BY <3>1, <3>2 DEF Honest, Msg
  <2> QED
    BY <2>1, <2>2
<1> QED
  BY <1>2, <1>5, <1>6, GoesHonest, QuietKeepsK

\* The response to the last message of a peer, which its client has sent.
LEMMA RespondKeepsK ==
    ASSUME IInv, KInv, NEW h \in Pair, NEW r \in Handlers(h), Respond(h, r)
    PROVE  KInv'
<1>1. PICK n \in Node, p \in Node : n = h[1] /\ p = h[2] /\ p \in Peers(n)
  BY DEF Pair, Peers
<1>2. r.pc = "update" /\ UNCHANGED <<step, hurried, pc, client>>
  BY DEF Respond, nodeUnchanged
<1>3. r \in Answered
  <2>1. HandlerOK(h, r)
    BY DEF IInv, StreamsOK
  <2> QED
    BY <1>2, <2>1 DEF HandlerOK, State, Idle, Requested, Answered
<1>4. HonestAfter
  <2>1. PICK next \in {[r EXCEPT !.pc = "response"], [pc |-> "none", broken |-> r.broken]} :
            Goes(h, r, next)
    BY DEF Respond
  <2>2. next.pc \in {"response", "none"}
    BY <1>3, <2>1 DEF Answered
  <2>3. ~ Msg(next)
    BY <2>2 DEF Msg
  <2> QED
    BY <2>1, <2>3, GoesHonest DEF Honest
<1>5. server = [m \in Node |-> server[m]] /\ server[n] \in ServerState(n)
  BY DEF IInv, ServersOK
<1>6. PICK a, b, c : /\ server' = [server EXCEPT ![n].steps[p] = a, ![n].shutdown = b, ![n].connected = c]
                     /\ \/ b = server[n].shutdown
                        \/ b = server[n].shutdown \cup {p} /\ r.shutdown
  BY <1>1 DEF Respond
<1>7. /\ \A m \in Node \ {n} : server'[m] = server[m]
      /\ server'[n].shutdown = b
  <2>1. /\ \A m \in Node \ {n} : server'[m] = server[m]
        /\ server'[n] = [server[n] EXCEPT !.steps[p] = a, !.shutdown = b, !.connected = c]
    BY <1>5, <1>6
  <2>2. server'[n].shutdown = b
    BY <1>5, <2>1 DEF ServerState
  <2> QED
    BY <2>1, <2>2
<1>8. r.shutdown => client[Stream(h)].shutdown
  <2>1. Honest(h, r) /\ Msg(r)
    BY <1>2 DEF KInv, KStreams, Msg
  <2> QED
    BY <2>1 DEF Honest
<1>9. KServers'
  <2>1. ASSUME NEW g \in Pair, g[2] \in server'[g[1]].shutdown
        PROVE  client[Stream(g)].shutdown
    <3>1. g[1] \in Node /\ (g[1] = n /\ g[2] = p => g = h)
      BY <1>1 DEF Pair
    <3>2. CASE g = h /\ r.shutdown
      BY <1>8, <3>2
    <3>3. CASE g # h \/ ~ r.shutdown
      <4>1. CASE g[1] # n
        BY <1>7, <2>1, <3>1, <4>1 DEF KInv, KServers
      <4>2. CASE g[1] = n
        <5>1. g[2] \in b /\ (g[2] # p \/ ~ r.shutdown)
          BY <1>1, <1>7, <2>1, <3>1, <3>3, <4>2
        <5>2. g[2] \in server[g[1]].shutdown
          BY <1>6, <4>2, <5>1
        <5> QED
          BY <5>2 DEF KInv, KServers
      <4> QED
        BY <4>1, <4>2
    <3> QED
      BY <3>2, <3>3
  <2> QED
    BY <1>2, <2>1 DEF KServers, Stream
<1>10. KNodes'
  <2>1. ASSUME NEW m \in Node, pc[m] = "done"
        PROVE  server'[m].shutdown = Peers(m)
    <3>1. server[m].shutdown = Peers(m)
      BY <2>1 DEF KInv, KNodes
    <3>2. CASE m = n
      <4>1. b = Peers(n) \/ b = Peers(n) \cup {p}
        BY <1>6, <3>1, <3>2
      <4>2. Peers(n) \cup {p} = Peers(n)
        BY <1>1
      <4> QED
        BY <1>7, <3>2, <4>1, <4>2
    <3> QED
      BY <1>7, <3>1, <3>2
  <2> QED
    BY <1>2, <2>1 DEF KInv, KNodes, Stopped, Peers
<1>11. KStreams' /\ KEnd'
  BY <1>2, <1>4 DEF HonestAfter, KStreams, Honest, Handlers, Stream, KInv, KEnd, Finished, Peers
<1> QED
  BY <1>9, <1>10, <1>11 DEF KInv

\* A client is shut down, by a node that has done its last step.
LEMMA ShutdownKeepsK ==
    ASSUME IInv, KInv, NEW c \in Pair, Shutdown(c)
    PROVE  KInv'
<1>1. /\ pc[c[1]] = "stopping" /\ client' = [client EXCEPT ![c].shutdown = TRUE]
      /\ UNCHANGED <<server, handler, old, pc, step, hurried>>
  BY DEF Shutdown, nodeUnchanged
<1>2. client'[c].shutdown /\ \A d \in Pair \ {c} : client'[d] = client[d]
  BY <1>1 DEF IInv, ClientsOK
<1>3. \A d \in Pair : client[d].shutdown => client'[d].shutdown
  BY <1>2
<1>4. Stopped(c[1])
  BY <1>1 DEF KInv, KNodes, Stopped, Pair
<1>5. KNodes'
  <2>1. ASSUME NEW d \in Pair, client'[d].shutdown
        PROVE  Stopped(d[1])
    BY <1>2, <1>4, <2>1 DEF KInv, KNodes
  <2> QED
    BY <1>1, <2>1 DEF KInv, KNodes, Stopped, Peers
<1>6. ASSUME NEW h \in Pair, client[Stream(h)].shutdown
      PROVE  client'[Stream(h)].shutdown
  BY <1>3, <1>6, StreamIsPair
<1>7. KStreams' /\ KServers'
  BY <1>1, <1>6 DEF KInv, KStreams, KServers, Honest, Handlers, Stream
<1>8. KEnd'
  <2>1. ASSUME NEW n \in Node, Finished(n)
        PROVE  Finished(n)'
    <3>1. PICK p \in Peers(n) : client[<<n, p>>].shutdown
      BY <2>1 DEF Finished
    <3>2. <<n, p>> \in Pair
      BY PeerPair
    <3> QED
      BY <1>1, <1>3, <2>1, <3>1, <3>2 DEF Finished, Peers
  <2> QED
    BY <1>1, <2>1 DEF KInv, KEnd
<1> QED
  BY <1>5, <1>7, <1>8 DEF KInv

\* The node n goes to another place, perhaps with its next step; a node that has
\* exited does not move.
LEMMA NodeKeepsK ==
    ASSUME IInv, KInv, NEW n \in Node, UNCHANGED <<client, server, handler, old, hurried>>,
           NEW x, pc' = [pc EXCEPT ![n] = x], NEW st, step' = [step EXCEPT ![n] = st],
           pc[n] # "exited", ~ Stopped(n) \/ (st = step[n] /\ x = "done"),
           x \in {"stopping", "done"} => st = LastStep,
           x = "done" => server[n].shutdown = Peers(n)
    PROVE  KInv'
<1>1. pc \in [Node -> Place] /\ step \in [Node -> Nat]
  BY DEF IInv, NodesOK
<1>2. /\ pc'[n] = x /\ step'[n] = st
      /\ \A m \in Node \ {n} : pc'[m] = pc[m] /\ step'[m] = step[m]
  BY <1>1
<1>3. ASSUME NEW m \in Node, Stopped(m)
      PROVE  Stopped(m)'
  BY <1>2, <1>3 DEF Stopped
<1>4. KNodes'
  <2>1. ASSUME NEW c \in Pair, client[c].shutdown
        PROVE  Stopped(c[1])'
    <3>1. c[1] \in Node /\ Stopped(c[1])
      BY <2>1 DEF KInv, KNodes, Pair
    <3> QED
      BY <1>3, <3>1
  <2> QED
    BY <1>2, <2>1 DEF KInv, KNodes, Peers
<1>5. KStreams' /\ KServers'
  BY DEF KInv, KStreams, KServers, Honest, Handlers, Stream
<1>6. KEnd'
  <2>1. ASSUME NEW m \in Node, Finished(m)
        PROVE  Finished(m)'
    <3>1. PICK p \in Peers(m) : client[<<m, p>>].shutdown
      BY <2>1 DEF Finished
    <3>2. PICK c \in Pair : c = <<m, p>> /\ c[1] = m
      BY PeerPair
    <3>3. Stopped(m)
      BY <3>1, <3>2 DEF KInv, KNodes
    <3>4. step'[m] = LastStep
      BY <1>3, <3>3 DEF Stopped
    <3> QED
      BY <3>1, <3>4 DEF Finished, Peers
  <2>2. ASSUME NEW m \in Node, pc[m] = "exited"
        PROVE  pc'[m] = "exited"
    BY <1>2, <2>2
  <2> QED
    BY <2>1, <2>2 DEF KInv, KEnd
<1> QED
  BY <1>4, <1>5, <1>6 DEF KInv

\* The steps of a node, up to AwaitAllShutdown.
LEMMA NodeStepKeepsK ==
    ASSUME IInv, KInv, \A m \in Node : step[m] <= LastStep, NEW n \in Node,
           \/ AllClientsConnected(n) \/ AwaitAllConnected(n) \/ AwaitAllAtStep(n) \/ StepEnds(n)
           \/ AwaitAllShutdown(n)
    PROVE  KInv'
<1>1. UNCHANGED <<client, server, handler, old, hurried>>
  BY DEF AllClientsConnected, AwaitAllConnected, AwaitAllAtStep, StepEnds, AwaitAllShutdown
<1>2. step = [step EXCEPT ![n] = step[n]] /\ step[n] \in Nat /\ step[n] <= LastStep /\ LastStep \in Nat
  BY StepAssumption DEF IInv, NodesOK
<1>3. CASE AllClientsConnected(n) \/ AwaitAllConnected(n) \/ AwaitAllAtStep(n)
  <2>1. PICK x \in {"connected", "await", "working"}, st \in {1, step[n]} :
            pc' = [pc EXCEPT ![n] = x] /\ step' = [step EXCEPT ![n] = st]
    BY <1>2, <1>3 DEF AllClientsConnected, AwaitAllConnected, AwaitAllAtStep, SetPC
  <2>2. pc[n] \in {"connecting", "connected", "await"}
    BY <1>3 DEF AllClientsConnected, AwaitAllConnected, AwaitAllAtStep
  <2>3. ~ Stopped(n) /\ pc[n] # "exited"
    BY <2>2 DEF Stopped
  <2> QED
    BY <1>1, <2>1, <2>3, NodeKeepsK
<1>4. CASE StepEnds(n)
  <2>1. pc[n] = "working"
    BY <1>4 DEF StepEnds
  <2>2. ~ Stopped(n) /\ pc[n] # "exited"
    BY <2>1 DEF Stopped
  <2>3. PICK x \in {"await", "stopping"}, st \in {step[n], step[n] + 1} :
            /\ pc' = [pc EXCEPT ![n] = x] /\ step' = [step EXCEPT ![n] = st]
            /\ x = "stopping" => st = step[n] /\ ~ (step[n] < LastStep)
    <3>1. CASE step[n] < LastStep
      BY <1>4, <3>1 DEF StepEnds, SetPC
    <3>2. CASE ~ (step[n] < LastStep)
      BY <1>2, <1>4, <3>2 DEF StepEnds, SetPC
    <3> QED
      BY <3>1, <3>2
  <2>4. (x \in {"stopping", "done"} => st = LastStep) /\ x # "done"
    BY <1>2, <2>3
  <2> QED
    BY <1>1, <2>2, <2>3, <2>4, NodeKeepsK
<1>5. CASE AwaitAllShutdown(n)
  <2>1. /\ pc[n] = "stopping" /\ server[n].shutdown = Peers(n)
        /\ pc' = [pc EXCEPT ![n] = "done"] /\ step' = [step EXCEPT ![n] = step[n]]
    BY <1>2, <1>5 DEF AwaitAllShutdown, SetPC
  <2>2. step[n] = LastStep
    BY <2>1 DEF KInv, KNodes
  <2> QED
    BY <1>1, <2>1, <2>2, NodeKeepsK
<1> QED
  BY <1>3, <1>4, <1>5

\* A node exits: all its peers have finished.
LEMMA ExitKeepsK ==
    ASSUME IInv, KInv, NEW n \in Node, Exit(n)
    PROVE  KInv'
<1>1. /\ pc[n] = "done" /\ pc' = [pc EXCEPT ![n] = "exited"] /\ handler' = EndStreams(n)
      /\ UNCHANGED <<step, client, server, old>>
  BY DEF Exit, SetPC
<1>2. pc \in [Node -> Place]
  BY DEF IInv, NodesOK
<1>3. pc'[n] = "exited" /\ \A m \in Node \ {n} : pc'[m] = pc[m]
  BY <1>1, <1>2
<1>4. KNodes'
  <2>1. ASSUME NEW c \in Pair, client[c].shutdown
        PROVE  Stopped(c[1])'
    <3>1. c[1] \in Node /\ Stopped(c[1])
      BY <2>1 DEF KInv, KNodes, Pair
    <3> QED
      BY <1>1, <1>3, <3>1 DEF Stopped
  <2> QED
    BY <1>1, <1>3, <2>1 DEF KInv, KNodes, Peers
<1>5. KStreams' /\ KServers'
  <2>1. HonestAfter
    BY <1>1, EndHonest
  <2> QED
    BY <1>1, <2>1 DEF HonestAfter, KInv, KStreams, KServers, Honest, Handlers, Stream
<1>6. ASSUME NEW p \in Node, p # n
      PROVE  Finished(p)
  <2>1. n \in Peers(p) /\ p \in Peers(n)
    BY <1>6 DEF Peers
  <2>2. PICK h \in Pair : h = <<n, p>> /\ h[1] = n /\ h[2] = p
    BY <2>1, PeerPair
  <2>3. h[2] \in server[h[1]].shutdown
    BY <1>1, <2>1, <2>2 DEF KInv, KNodes
  <2>4. client[<<p, n>>].shutdown
    BY <2>2, <2>3 DEF KInv, KServers, Stream
  <2>5. PICK c \in Pair : c = <<p, n>> /\ c[1] = p
    BY <2>1, PeerPair
  <2>6. Stopped(p)
    BY <2>4, <2>5 DEF KInv, KNodes
  <2> QED
    BY <2>1, <2>4, <2>6 DEF Finished, Stopped
<1>7. KEnd'
  BY <1>1, <1>3, <1>6 DEF KEnd, Finished, Peers
<1> QED
  BY <1>4, <1>5, <1>7 DEF KInv

-----------------------------------------------------------------------------
(* The second theorem.                                                     *)

\* The third invariant holds before the protocol starts.
LEMMA InitIsK == Init => KInv
<1> SUFFICES ASSUME Init PROVE KInv
  OBVIOUS
<1>1. /\ \A n \in Node : pc[n] = "connecting" /\ server[n].shutdown = {}
      /\ \A c \in Pair : ~ client[c].shutdown /\ handler[c] = NoStream /\ old[c] = {}
      /\ ~ hurried
  BY DEF Init
<1>2. ~ Msg(NoStream)
  BY DEF Msg, NoStream
<1>3. \A h \in Pair : h[1] \in Node
  BY DEF Pair
<1> QED
  BY <1>1, <1>2, <1>3 DEF KInv, KNodes, KStreams, KServers, KEnd, Honest, Handlers

\* Every step keeps it.
LEMMA NextKeepsK == IInv /\ JInv /\ KInv /\ [Next]_vars => KInv'
<1> SUFFICES ASSUME IInv, JInv, KInv, [Next]_vars PROVE KInv'
  OBVIOUS
<1>1. \A m \in Node : step[m] <= LastStep
  BY DEF JInv
<1>2. ASSUME NEW c \in Pair, ClientStep(c)
      PROVE  KInv'
  BY <1>2, ClientKeepsK, ShutdownKeepsK DEF ClientStep
<1>3. ASSUME NEW h \in Pair, HandlerStep(h)
      PROVE  KInv'
  BY <1>3, ValidateKeepsK, RespondKeepsK DEF HandlerStep
<1>4. ASSUME NEW n \in Node, NodeStep(n)
      PROVE  KInv'
  BY <1>1, <1>4, NodeStepKeepsK, FaultKeepsK, ExitKeepsK DEF NodeStep
<1>5. CASE Fault
  BY <1>5, FaultKeepsK
<1>6. CASE UNCHANGED vars
  <2>1. UNCHANGED <<pc, step, client, server, handler, old, hurried>>
    BY <1>6 DEF vars
  <2> QED
    BY <2>1, SameHonest, QuietKeepsK
<1> QED
  BY <1>2, <1>3, <1>4, <1>5, <1>6 DEF Next

\* For every number of nodes, steps and resets: resets of streams alone do not
\* fail a ceremony (Client.Run reconnects, and updateStep accepts the step that
\* is then reported), unless a handler is overtaken by the next stream of its
\* peer before the first step is stored.  A node that exits when its shutdown
\* delay is over, although a peer waits for the response to its last message,
\* fails only nodes that have called stopSync after their last step.
THEOREM OnlyFailuresFailHolds == Spec => []OnlyFailuresFail
<1>1. ASSUME JInv, KInv
      PROVE  OnlyFailuresFail
  <2>1. CASE hurried
    BY <1>1, <2>1 DEF KInv, KEnd, OnlyFailuresFail
  <2>2. CASE ~ hurried
    BY <1>1, <2>2 DEF JInv, Good, JOK, Served, OnlyFailuresFail
  <2> QED
    BY <2>1, <2>2
<1>2. JInv /\ KInv => OnlyFailuresFail
  BY <1>1
<1> QED
  BY <1>2, InitIsOK, NextKeepsInv, InitIsJ, NextKeepsJ, InitIsK, NextKeepsK, PTL DEF Spec
=============================================================================
