------------------------------ MODULE Overlay ------------------------------
(***************************************************************************)
(* How the peers find each other: the bootstrap server's registry          *)
(* (cmd/bootstrap/main.go) and the life of a peer process (cmd/peer/main.go*)
(* and internal/peer/peer.go), which registers, opens a connection to each *)
(* peer it is told of, measures the latency of each in a goroutine of its  *)
(* own, and so fills its NetworkGraph.                                     *)
(*                                                                         *)
(* A peer may crash, stop and start again; the bootstrap server may lose   *)
(* its registry in a restart; a registration or a ping may time out.  A    *)
(* request whose client has gone may still be handled.  An address belongs *)
(* to one peer ID, and stands for it.                                      *)
(***************************************************************************)
EXTENDS Integers, FiniteSets

CONSTANTS
  Peers,              \* the peer IDs
  RegisterLimit,      \* how many peers RegisterPeer returns: 3 in the code
  Elapsed,            \* the round-trip times, in ms, that a ping may take
  Asked,              \* the peers that are asked for their graph
  Notified,           \* the pairs <<p, q>> such that p may be told of q
  MaxStarts,          \* bound: how often a peer is started
  MaxFailures         \* bound: how many times a peer crashes, a call to a
                      \* live server times out, a connection cannot be made,
                      \* or the bootstrap server is restarted, all together

NumPings == 3
PingTimeout == 3000

ASSUME OverlayAssumption ==
  /\ IsFiniteSet(Peers)
  /\ RegisterLimit \in Nat \ {0}
  /\ Elapsed \subseteq 0 .. PingTimeout
  /\ Asked \subseteq Peers /\ Notified \subseteq Peers \X Peers
  /\ MaxStarts \in Nat /\ MaxFailures \in Nat

VARIABLES
  registry,   \* BootstrapServer.peers: the IDs registered
  requests,   \* the RegisterPeer requests on their way: <<peer, start>>
  responses,  \* their responses: [to, start, peers]
  state,      \* where each peer's main function is
  starts,     \* how often each peer was started
  dials,      \* dials[p][q]: the goroutine of p's ConnectToPeers for q
  connections,\* PeerNode.connections: the IDs p holds a connection to
  nodes,      \* NetworkGraph.Nodes of each peer
  latency,    \* NetworkGraph.Edges of each peer: latency[p][q] is that of
              \* its edge p -> q, 0 when there is none
  views,      \* the GetNetworkGraph call each peer is serving
  failures    \* the crashes, timeouts, failed dials, stops and bootstrap
              \* restarts so far

bootstrap == <<registry, requests, responses>>
graph == <<nodes, latency>>
vars == <<bootstrap, state, starts, dials, connections, graph, views, failures>>

NoDial == [pc |-> "none", pings |-> 0, total |-> 0]
NoView == [pc |-> "idle", nodes |-> {}, edges |-> {}]

MayFail ==
  failures.crashes + failures.timeouts + failures.errors + failures.restarts
    < MaxFailures

Serving(p) == state[p] \notin {"down", "closing"}

(* The goroutines that ConnectToPeers still waits for. *)
Waiting(p) == {q \in Peers : dials[p][q].pc \notin {"none", "done", "failed"}}

Init ==
  /\ registry = {} /\ requests = {} /\ responses = {}
  /\ state = [p \in Peers |-> "down"]
  /\ starts = [p \in Peers |-> 0]
  /\ dials = [p \in Peers |-> [q \in Peers |-> NoDial]]
  /\ connections = [p \in Peers |-> {}]
  /\ nodes = [p \in Peers |-> {}]
  /\ latency = [p \in Peers |-> [q \in Peers |-> 0]]
  /\ views = [p \in Peers |-> NoView]
  /\ failures = [crashes |-> 0, timeouts |-> 0, errors |-> 0, stops |-> 0,
                 restarts |-> 0]

-----------------------------------------------------------------------------
(* The process starts, with an empty graph, and serves. *)
StartPeer(p) ==
  /\ state[p] = "down"
  /\ starts[p] < MaxStarts
  /\ starts' = [starts EXCEPT ![p] = @ + 1]
  /\ state' = [state EXCEPT ![p] = "up"]
  /\ UNCHANGED <<bootstrap, dials, connections, graph, views, failures>>

(* RegisterWithBootstrap sends its request. *)
Register(p) ==
  /\ state[p] = "up"
  /\ state' = [state EXCEPT ![p] = "registering"]
  /\ requests' = requests \union {<<p, starts[p]>>}
  /\ UNCHANGED <<registry, responses, starts, dials, connections, graph, views,
                 failures>>

(* Mutant of RandomPeers: the list is cut short by one. *)
RandomPeersButOne(p, known) ==
  LET others == known \ {p}
  IN  {S \in SUBSET others :
         Cardinality(S) = IF others = {} THEN 0
                          ELSE IF Cardinality(others) <= RegisterLimit
                            THEN Cardinality(others) - 1
                            ELSE RegisterLimit}

(* getRandomPeers: as many others as there are, up to the limit.           *)
RandomPeers(p, known) ==
  LET others == known \ {p}
  IN  {S \in SUBSET others :
         Cardinality(S) = IF Cardinality(others) < RegisterLimit
                            THEN Cardinality(others)
                            ELSE RegisterLimit}

(* The bootstrap server handles a RegisterPeer, under its lock. *)
RegisterPeer(r) ==
  /\ requests' = requests \ {r}
  /\ registry' = registry \union {r[1]}
  /\ \E S \in RandomPeers(r[1], registry') :
       responses' = responses \union {[to |-> r[1], start |-> r[2], peers |-> S]}
  /\ UNCHANGED <<state, starts, dials, connections, graph, views, failures>>

(* Mutant of GetPeers: the limit is off by one. *)
GetPeersButOne(limit) ==
  LET most == IF limit <= 1 THEN 10 ELSE limit - 1
      all == Cardinality(registry)
  IN  {S \in SUBSET registry : Cardinality(S) = IF all < most THEN all ELSE most}

(* GetPeers: what a call may return.  Nothing in the program calls it. *)
GetPeers(limit) ==
  LET most == IF limit <= 0 THEN 10 ELSE limit
      all == Cardinality(registry)
  IN  {S \in SUBSET registry : Cardinality(S) = IF all < most THEN all ELSE most}

(* The response arrives in time: the peer is a node of its own graph, and  *)
(* ConnectToPeers starts a goroutine for each of the peers but itself.     *)
Registered(p) ==
  /\ state[p] = "registering"
  /\ \E r \in responses :
       /\ r.to = p /\ r.start = starts[p]
       /\ responses' = responses \ {r}
       /\ dials' = [dials EXCEPT ![p] = [q \in Peers |->
                      IF q \in r.peers \ {p} THEN [NoDial EXCEPT !.pc = "store"]
                                             ELSE NoDial]]
  /\ nodes' = [nodes EXCEPT ![p] = @ \union {p}]
  /\ state' = [state EXCEPT ![p] = "connecting"]
  /\ UNCHANGED <<registry, requests, starts, connections, latency, views,
                 failures>>

(* The process is gone, and all it had in memory.  A response to it is of  *)
(* no use to anyone; a request may or may not reach the bootstrap server.  *)
Exit(p) ==
  /\ state' = [state EXCEPT ![p] = "down"]
  /\ dials' = [dials EXCEPT ![p] = [q \in Peers |-> NoDial]]
  /\ connections' = [connections EXCEPT ![p] = {}]
  /\ nodes' = [nodes EXCEPT ![p] = {}]
  /\ latency' = [latency EXCEPT ![p] = [q \in Peers |-> 0]]
  /\ views' = [views EXCEPT ![p] = NoView]
  /\ responses' = {r \in responses : r.to # p}
  /\ requests' \in {requests, {r \in requests : r[1] # p}}
  /\ UNCHANGED <<registry, starts>>

(* RegisterPeer fails, or takes more than 5s: log.Fatalf.  The call fails  *)
(* for sure when the bootstrap server's restart has taken its request or   *)
(* its response.                                                           *)
RegisterTimesOut(p) ==
  /\ state[p] = "registering"
  /\ IF \/ <<p, starts[p]>> \in requests
        \/ \E r \in responses : r.to = p /\ r.start = starts[p]
       THEN /\ MayFail
            /\ failures' = [failures EXCEPT !.timeouts = @ + 1]
       ELSE UNCHANGED failures
  /\ Exit(p)

At(p, q, pc) == state[p] = "connecting" /\ dials[p][q].pc = pc

GoTo(p, q, pc) == dials' = [dials EXCEPT ![p][q].pc = pc]

(* The goroutine stores the connection, which opens at the first call.     *)
StoreConnection(p, q) ==
  /\ At(p, q, "store")
  /\ connections' = [connections EXCEPT ![p] = @ \union {q}]
  /\ GoTo(p, q, "ping")
  /\ UNCHANGED <<bootstrap, state, starts, graph, views, failures>>

(* Mutant of DialFails: the connection is stored before err is looked at. *)
DialFailsStored(p, q) ==
  /\ At(p, q, "store")
  /\ MayFail
  /\ failures' = [failures EXCEPT !.errors = @ + 1]
  /\ connections' = [connections EXCEPT ![p] = @ \union {q}]
  /\ GoTo(p, q, "failed")
  /\ UNCHANGED <<bootstrap, state, starts, graph, views>>

(* grpc.NewClient returns an error: the goroutine ends, and leaves neither *)
(* a connection nor a node.                                                *)
DialFails(p, q) ==
  /\ At(p, q, "store")
  /\ MayFail
  /\ failures' = [failures EXCEPT !.errors = @ + 1]
  /\ GoTo(p, q, "failed")
  /\ UNCHANGED <<bootstrap, state, starts, connections, graph, views>>

(* Mutant of Pinged: the loop goes once more than numPings. *)
PingedOnceMore(p, q) ==
  /\ At(p, q, "ping")
  /\ Serving(q)
  /\ \E ms \in Elapsed :
       LET d == dials[p][q]
       IN  dials' = [dials EXCEPT ![p][q] =
             [pc    |-> IF d.pings = NumPings THEN "addNode" ELSE "ping",
              pings |-> d.pings + 1,
              total |-> d.total + ms]]
  /\ UNCHANGED <<bootstrap, state, starts, connections, graph, views, failures>>

(* A ping of measureLatency is answered. *)
Pinged(p, q) ==
  /\ At(p, q, "ping")
  /\ Serving(q)
  /\ \E ms \in Elapsed :
       LET d == dials[p][q]
       IN  dials' = [dials EXCEPT ![p][q] =
             [pc    |-> IF d.pings + 1 = NumPings THEN "addNode" ELSE "ping",
              pings |-> d.pings + 1,
              total |-> d.total + ms]]
  /\ UNCHANGED <<bootstrap, state, starts, connections, graph, views, failures>>

(* Mutant of PingFails: the goroutine ends without wg.Done. *)
PingFailsForever(p, q) ==
  /\ At(p, q, "ping")
  /\ IF Serving(q)
       THEN /\ MayFail
            /\ failures' = [failures EXCEPT !.timeouts = @ + 1]
       ELSE UNCHANGED failures
  /\ GoTo(p, q, "lost")
  /\ UNCHANGED <<bootstrap, state, starts, connections, graph, views>>

(* Mutant of PingFails: the peer is taken out of the graph. *)
PingFailsForgets(p, q) ==
  /\ At(p, q, "ping")
  /\ IF Serving(q)
       THEN /\ MayFail
            /\ failures' = [failures EXCEPT !.timeouts = @ + 1]
       ELSE UNCHANGED failures
  /\ nodes' = [nodes EXCEPT ![p] = @ \ {q}]
  /\ GoTo(p, q, "done")
  /\ UNCHANGED <<bootstrap, state, starts, connections, latency, views>>

(* A ping fails: the peer is down, or the answer takes more than 3s. *)
PingFails(p, q) ==
  /\ At(p, q, "ping")
  /\ IF Serving(q)
       THEN /\ MayFail
            /\ failures' = [failures EXCEPT !.timeouts = @ + 1]
       ELSE UNCHANGED failures
  /\ GoTo(p, q, "addNodeOnly")
  /\ UNCHANGED <<bootstrap, state, starts, connections, graph, views>>

(* Graph.AddNode, after a measurement or after a failed one. *)
AddNode(p, q) ==
  /\ At(p, q, "addNode") \/ At(p, q, "addNodeOnly")
  /\ nodes' = [nodes EXCEPT ![p] = @ \union {q}]
  /\ GoTo(p, q, IF dials[p][q].pc = "addNode" THEN "addEdge" ELSE "done")
  /\ UNCHANGED <<bootstrap, state, starts, connections, latency, views, failures>>

(* The integer average of the pings, at least 1ms. *)
AverageLatency(total) ==
  IF total \div NumPings = 0 THEN 1 ELSE total \div NumPings

(* Mutant of AddEdge: the edge is added before its node (together with the *)
(* guard of AddNode, the two calls are swapped).                           *)
AddEdgeFirst(p, q) ==
  /\ At(p, q, "addNode") \/ At(p, q, "addEdge")
  /\ latency' = [latency EXCEPT ![p][q] = AverageLatency(dials[p][q].total)]
  /\ GoTo(p, q, IF dials[p][q].pc = "addNode" THEN "addNodeOnly" ELSE "done")
  /\ UNCHANGED <<bootstrap, state, starts, connections, nodes, views, failures>>

(* Graph.AddEdge, by the goroutine that measured the latency. *)
AddEdge(p, q) ==
  /\ At(p, q, "addEdge")
  /\ latency' = [latency EXCEPT ![p][q] = AverageLatency(dials[p][q].total)]
  /\ GoTo(p, q, "done")
  /\ UNCHANGED <<bootstrap, state, starts, connections, nodes, views, failures>>

(* wg.Wait returns; main goes on to wait for a signal. *)
Connected(p) ==
  /\ state[p] = "connecting"
  /\ Waiting(p) = {}
  /\ state' = [state EXCEPT ![p] = "running"]
  /\ UNCHANGED <<bootstrap, starts, dials, connections, graph, views, failures>>

(* NotifyNewPeer, from any client: the program itself never calls it. *)
NotifyNewPeer(p, q) ==
  /\ Serving(p)
  /\ nodes' = [nodes EXCEPT ![p] = @ \union {q}]
  /\ UNCHANGED <<bootstrap, state, starts, dials, connections, latency, views,
                 failures>>

(* GetGraphProto copies the nodes, then the edges, then answers.           *)
ReadNodes(p) ==
  /\ Serving(p) /\ views[p].pc = "idle"
  /\ views' = [views EXCEPT ![p].pc = "edges", ![p].nodes = nodes[p]]
  /\ UNCHANGED <<bootstrap, state, starts, dials, connections, graph, failures>>

ReadEdges(p) ==
  /\ views[p].pc = "edges"
  /\ views' = [views EXCEPT ![p].pc = "reply",
                 ![p].edges = {<<p, q>> : q \in {r \in Peers : latency[p][r] > 0}}]
  /\ UNCHANGED <<bootstrap, state, starts, dials, connections, graph, failures>>

SendView(p) ==
  /\ views[p].pc = "reply"
  /\ views' = [views EXCEPT ![p] = NoView]
  /\ UNCHANGED <<bootstrap, state, starts, dials, connections, graph, failures>>

(* A signal: GracefulStop refuses new calls, ... *)
Stop(p) ==
  /\ state[p] = "running"
  /\ state' = [state EXCEPT ![p] = "closing"]
  /\ failures' = [failures EXCEPT !.stops = @ + 1]
  /\ UNCHANGED <<bootstrap, starts, dials, connections, graph, views>>

(* ... and waits for those in progress; then Close closes the connections, *)
(* and main returns.                                                       *)
Close(p) ==
  /\ state[p] = "closing"
  /\ views[p].pc = "idle"
  /\ Exit(p)
  /\ UNCHANGED failures

CrashPeer(p) ==
  /\ state[p] # "down"
  /\ MayFail
  /\ failures' = [failures EXCEPT !.crashes = @ + 1]
  /\ Exit(p)

(* The bootstrap server starts again with an empty registry; the requests  *)
(* under way fail.                                                         *)
RestartBootstrap ==
  /\ MayFail
  /\ failures' = [failures EXCEPT !.restarts = @ + 1]
  /\ registry' = {} /\ requests' = {} /\ responses' = {}
  /\ UNCHANGED <<state, starts, dials, connections, graph, views>>

(* What main and its goroutines do without anybody's help. *)
MainStep(p) ==
  \/ Register(p) \/ Registered(p) \/ RegisterTimesOut(p)
  \/ \E q \in Peers : \/ StoreConnection(p, q) \/ DialFails(p, q)
                      \/ Pinged(p, q) \/ PingFails(p, q)
                      \/ AddNode(p, q) \/ AddEdge(p, q)
  \/ Connected(p) \/ Close(p)

(* What the goroutine of a GetNetworkGraph call does. *)
ViewStep(p) == ReadEdges(p) \/ SendView(p)

Next ==
  \/ \E p \in Peers : StartPeer(p) \/ MainStep(p) \/ ViewStep(p) \/ Stop(p) \/ CrashPeer(p)
  \/ \E p \in Asked : ReadNodes(p)
  \/ \E pq \in Notified : NotifyNewPeer(pq[1], pq[2])
  \/ \E r \in requests : RegisterPeer(r)
  \/ RestartBootstrap

Spec == Init /\ [][Next]_vars

(* Every process runs, calls end within their timeouts, and the bootstrap  *)
(* server handles what reaches it.  Nobody has to start, stop or crash.    *)
FairSpec ==
  /\ Spec
  /\ \A p \in Peers : WF_vars(MainStep(p)) /\ WF_vars(ViewStep(p))
  /\ WF_vars(\E r \in requests : RegisterPeer(r))

-----------------------------------------------------------------------------
DialStates ==
  [pc : {"none", "store", "failed", "ping", "addNode", "addNodeOnly", "addEdge",
         "done"},
   pings : 0 .. NumPings, total : 0 .. NumPings * PingTimeout]
ViewStates ==
  [pc : {"idle", "edges", "reply"}, nodes : SUBSET Peers,
   edges : SUBSET (Peers \X Peers)]

(* Types of the registry, the messages, and the peers' state and graphs. *)
TypeOK ==
  /\ registry \in SUBSET Peers
  /\ requests \in SUBSET (Peers \X (1 .. MaxStarts))
  /\ responses \in SUBSET [to : Peers, start : 1 .. MaxStarts, peers : SUBSET Peers]
  /\ state \in [Peers -> {"down", "up", "registering", "connecting", "running",
                          "closing"}]
  /\ starts \in [Peers -> 0 .. MaxStarts]
  /\ dials \in [Peers -> [Peers -> DialStates]]
  /\ connections \in [Peers -> SUBSET Peers]
  /\ nodes \in [Peers -> SUBSET Peers]
  /\ latency \in [Peers -> [Peers -> 0 .. PingTimeout]]
  /\ views \in [Peers -> ViewStates]
  /\ failures \in [crashes : Nat, timeouts : Nat, errors : Nat, stops : Nat,
                   restarts : Nat]

(* The graph and the connections of a peer agree at every step of the      *)
(* concurrent goroutines (peer.go:229-264): an edge joins two nodes, over  *)
(* a connection, to another peer; when main goes on, each peer that a      *)
(* connection is stored for is a node, and has an edge of at least 1ms if  *)
(* all pings to it were answered.  A peer that could not be dialled is in  *)
(* neither.                                                                *)
GraphMatchesConnections ==
  \A p \in Peers :
    /\ \A q \in Peers :
         latency[p][q] > 0 =>
           {p, q} \subseteq nodes[p] /\ q \in connections[p] \ {p}
    /\ state[p] = "running" =>
         /\ connections[p] \subseteq nodes[p]
         /\ \A q \in connections[p] :
              dials[p][q].pings = NumPings => latency[p][q] > 0

NoFailure == \A what \in DOMAIN failures : failures[what] = 0

(* Nothing is under way in the overlay. *)
Settled ==
  /\ requests = {} /\ responses = {}
  /\ \A p \in Peers : state[p] \in {"down", "running"}

Linked(p, q) == latency[p][q] > 0 \/ latency[q][p] > 0

(* Peers that join at the same time or one after the other form one        *)
(* network, as long as nothing fails (main.go:38-58, 84-103): RegisterPeer *)
(* is one critical section, so of two newcomers the later one is told of   *)
(* somebody who came before it, be it one peer only.                       *)
OverlayIsConnected ==
  LET running == {p \in Peers : state[p] = "running"}
  IN  Settled /\ NoFailure =>
        \A S \in (SUBSET running) \ {{}, running} :
          \E p \in S, q \in running \ S : Linked(p, q)

(* The graph of a living peer never loses a node, and the latency of an    *)
(* edge is measured once: a cached route (dijkstra.go:37) of such a graph  *)
(* cannot go stale in its latencies.                                       *)
GraphOnlyGrows ==
  [][\A p \in Peers : state[p] # "down" /\ state'[p] # "down" =>
       /\ nodes[p] \subseteq nodes'[p]
       /\ \A q \in Peers : latency[p][q] > 0 => latency'[p][q] = latency[p][q]]_vars

(* A peer that starts comes to its main loop, or exits: neither the        *)
(* registration nor wg.Wait hangs (peer.go:196, 267, 279), whoever dies or *)
(* does not answer.                                                        *)
StartupEnds ==
  \A p \in Peers : state[p] = "up" ~> state[p] \in {"running", "down"}

(* GetPeers with a limit that is large enough returns every peer that has  *)
(* joined and lives, also when others crash, time out and come back, unless*)
(* the bootstrap server was restarted (main.go:38-81).                     *)
GetPeersFindsLivePeers ==
  failures.restarts = 0 =>
    \A S \in GetPeers(Cardinality(Peers)) :
      {p \in Peers : state[p] \in {"connecting", "running", "closing"}} \subseteq S

(* GetNetworkGraph reads nodes and edges apart, so its answer may be no    *)
(* state that the graph was in; but all that it says of the graph is still *)
(* true when it is sent (peer.go:361-388).                                 *)
ViewIsTrue ==
  \A p \in Peers :
    /\ views[p].nodes \subseteq nodes[p]
    /\ \A e \in views[p].edges :
         e[1] = p /\ latency[p][e[2]] > 0 /\ {p, e[2]} \subseteq nodes[p]
=============================================================================
