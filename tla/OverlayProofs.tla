--------------------------- MODULE OverlayProofs ----------------------------
(***************************************************************************)
(* Proofs about module Overlay: a peer's graph, its connections and what   *)
(* it tells of them agree, and peers that join while nothing fails form    *)
(* one network, for any number of peers, restarts and failures.            *)
(*                                                                         *)
(* The argument has two parts.  What a peer knows depends on that peer's   *)
(* own goroutines only, so each step needs to be looked at for the peer    *)
(* that takes it.  And as long as nothing fails, the registry can never be *)
(* cut in two such that nobody on one side was told of anybody on the      *)
(* other: a newcomer is told of somebody, on whichever side.               *)
(***************************************************************************)
EXTENDS Overlay, FiniteSetTheorems, TLAPS

Joined == {"connecting", "running", "closing"}

(* What the goroutine d of a peer p in state st for q says of p's          *)
(* connections cs, nodes ns and the latency l of its edge to q.            *)
DialOK(p, q, st, d, cs, ns, l) ==
  /\ d.pc # "none" => st \in Joined /\ q # p
  /\ d.pc \in {"none", "store", "failed"} <=> q \notin cs
  /\ d.pc \in {"addEdge", "done"} => q \in ns
  /\ d.pings = NumPings => d.pc \in {"addNode", "addEdge", "done"}
  /\ d.pings = NumPings /\ d.pc = "done" => l > 0
  /\ l > 0 => d.pc = "done"
  /\ d.total <= d.pings * PingTimeout
  /\ st \in {"running", "closing"} => d.pc \in {"none", "done", "failed"}

(* What holds of one peer, whatever the others do. *)
PeerOK(p, st, n, ds, cs, ns, ls, v) ==
  /\ st # "down" => n > 0
  /\ st \in Joined => p \in ns
  /\ \A q \in Peers : DialOK(p, q, st, ds[q], cs, ns, ls[q])
  /\ v.nodes \subseteq ns
  /\ \A e \in v.edges : e[1] = p /\ e[2] \in Peers /\ ls[e[2]] > 0

PeersOK ==
  \A p \in Peers : PeerOK(p, state[p], starts[p], dials[p], connections[p],
                          nodes[p], latency[p], views[p])

(* The registry lists who has joined, unless the bootstrap server was      *)
(* restarted.                                                              *)
RegistryOK ==
  failures.restarts = 0 =>
    /\ \A r \in responses : r.to \in registry
    /\ \A p \in Peers : state[p] \in Joined => p \in registry

(* As long as nothing fails, a registration is on its way exactly while    *)
(* its peer waits for it, ...                                              *)
RegistrationOK ==
  /\ \A r \in requests : /\ state[r[1]] = "registering"
                         /\ r[2] = starts[r[1]]
                         /\ r[1] \notin registry
  /\ \A r \in responses : /\ state[r.to] = "registering"
                          /\ r.start = starts[r.to]
                          /\ r.to \notin r.peers
                          /\ r.peers \subseteq registry
  /\ \A r1, r2 \in responses : r1.to = r2.to => r1 = r2
  /\ \A p \in Peers : state[p] = "registering" =>
       \/ <<p, starts[p]>> \in requests
       \/ \E r \in responses : r.to = p /\ r.start = starts[p]
  /\ \A p \in registry : \/ state[p] \in {"connecting", "running"}
                         \/ \E r \in responses : r.to = p
  /\ \A p \in Peers : state[p] # "closing"

(* ... every measurement succeeds, ...                                     *)
MeasurementOK ==
  \A p, q \in Peers :
    /\ dials[p][q].pc # "none" => q \in registry
    /\ dials[p][q].pc \notin {"addNodeOnly", "failed"}
    /\ dials[p][q].pc \in {"addNode", "addEdge", "done"} =>
         dials[p][q].pings = NumPings

(* ... and no cut of the registry parts those who were told of each other. *)
Told(p, q) ==
  \/ \E r \in responses : r.to = p /\ q \in r.peers
  \/ dials[p][q].pc # "none"

NoCut ==
  \A S \in SUBSET registry :
    S # {} /\ S # registry =>
      \E p \in S, q \in registry \ S : Told(p, q) \/ Told(q, p)

JoinOK == NoFailure => RegistrationOK /\ MeasurementOK /\ NoCut

Inv == TypeOK /\ PeersOK /\ RegistryOK /\ JoinOK

-----------------------------------------------------------------------------
(* The actions by what they touch: those of one peer's goroutines, those   *)
(* that end its process, and the bootstrap server's.                       *)
PeerAction(p) ==
  \/ StartPeer(p) \/ Register(p) \/ Registered(p) \/ Connected(p) \/ Stop(p)
  \/ ReadNodes(p) \/ ReadEdges(p) \/ SendView(p)
  \/ \E q \in Peers : \/ StoreConnection(p, q) \/ DialFails(p, q)
                      \/ Pinged(p, q) \/ PingFails(p, q)
                      \/ AddNode(p, q) \/ AddEdge(p, q) \/ NotifyNewPeer(p, q)
ExitAction(p) == RegisterTimesOut(p) \/ Close(p) \/ CrashPeer(p)

LEMMA StepIsAnAction ==
  ASSUME [Next]_vars
  PROVE  \/ \E p \in Peers : PeerAction(p) \/ ExitAction(p)
         \/ \E r \in requests : RegisterPeer(r)
         \/ RestartBootstrap
         \/ UNCHANGED vars
<1>1. ASSUME NEW pq \in Notified, NotifyNewPeer(pq[1], pq[2])
      PROVE  \E p \in Peers : PeerAction(p)
  <2>1. pq[1] \in Peers /\ pq[2] \in Peers
    BY OverlayAssumption
  <2>2. QED
    BY <1>1, <2>1 DEF PeerAction
<1>2. ASSUME NEW p \in Asked, ReadNodes(p)
      PROVE  \E x \in Peers : PeerAction(x)
  BY <1>2, OverlayAssumption DEF PeerAction
<1>3. ASSUME NEW p \in Peers,
             StartPeer(p) \/ MainStep(p) \/ ViewStep(p) \/ Stop(p) \/ CrashPeer(p)
      PROVE  PeerAction(p) \/ ExitAction(p)
  BY <1>3 DEF MainStep, ViewStep, PeerAction, ExitAction
<1>4. QED
  BY <1>1, <1>2, <1>3 DEF Next

-----------------------------------------------------------------------------
(* Another ping takes at most the timeout. *)
LEMMA AnotherPing ==
  ASSUME NEW pings \in 0 .. NumPings - 1, NEW total \in Nat,
         total <= pings * PingTimeout, NEW ms \in 0 .. PingTimeout
  PROVE  /\ pings + 1 \in 0 .. NumPings
         /\ total + ms \in 0 .. NumPings * PingTimeout
         /\ total + ms <= (pings + 1) * PingTimeout
BY DEF NumPings, PingTimeout

(* The latency of an edge is in range, whatever the three pings took. *)
LEMMA AverageInRange ==
  ASSUME NEW total \in 0 .. NumPings * PingTimeout
  PROVE  AverageLatency(total) \in 1 .. PingTimeout
BY DEF AverageLatency, NumPings, PingTimeout

(* The state of a peer's process and its goroutines, apart from messages.  *)
LocalTypes ==
  /\ state \in [Peers -> {"down", "up", "registering"} \union Joined]
  /\ starts \in [Peers -> 0 .. MaxStarts]
  /\ dials \in [Peers -> [Peers -> DialStates]]
  /\ connections \in [Peers -> SUBSET Peers]
  /\ nodes \in [Peers -> SUBSET Peers]
  /\ latency \in [Peers -> [Peers -> 0 .. PingTimeout]]
  /\ views \in [Peers -> ViewStates]
  /\ failures \in [crashes : Nat, timeouts : Nat, errors : Nat, stops : Nat,
                   restarts : Nat]

MessageTypes ==
  /\ registry \in SUBSET Peers
  /\ requests \in SUBSET (Peers \X (1 .. MaxStarts))
  /\ responses \in SUBSET [to : Peers, start : 1 .. MaxStarts, peers : SUBSET Peers]

LEMMA SplitTypes == TypeOK <=> LocalTypes /\ MessageTypes
BY DEF TypeOK, LocalTypes, MessageTypes, Joined

LEMMA SplitTypesNext == LocalTypes' /\ MessageTypes' => TypeOK'
BY DEF TypeOK, LocalTypes, MessageTypes, Joined

LEMMA Constants ==
  /\ NoDial \in DialStates
  /\ NoView \in ViewStates
  /\ [NoDial EXCEPT !.pc = "store"] \in DialStates
BY DEF NoDial, NoView, DialStates, ViewStates, NumPings, PingTimeout

Failures ==
  [crashes : Nat, timeouts : Nat, errors : Nat, stops : Nat, restarts : Nat]

(* A failure is counted, and no count is lost.                             *)
LEMMA FailuresCount ==
  ASSUME NEW f \in Failures
  PROVE  /\ [f EXCEPT !.crashes = @ + 1] \in Failures
         /\ [f EXCEPT !.timeouts = @ + 1] \in Failures
         /\ [f EXCEPT !.errors = @ + 1] \in Failures
         /\ [f EXCEPT !.stops = @ + 1] \in Failures
         /\ [f EXCEPT !.restarts = @ + 1] \in Failures
BY DEF Failures

(* A step of a peer leaves what is known of the others.                    *)
LEMMA OnePeer ==
  ASSUME PeersOK, NEW p \in Peers,
         \A x \in Peers \ {p} :
           /\ state'[x] = state[x] /\ starts'[x] = starts[x]
           /\ dials'[x] = dials[x] /\ connections'[x] = connections[x]
           /\ nodes'[x] = nodes[x] /\ latency'[x] = latency[x]
           /\ views'[x] = views[x],
         PeerOK(p, state'[p], starts'[p], dials'[p], connections'[p],
                nodes'[p], latency'[p], views'[p])
  PROVE  PeersOK'
<1>1. ASSUME NEW x \in Peers, x # p
      PROVE  PeerOK(x, state'[x], starts'[x], dials'[x], connections'[x],
                    nodes'[x], latency'[x], views'[x])
  BY <1>1 DEF PeersOK
<1>2. QED
  BY <1>1 DEF PeersOK

(* The steps before there is any goroutine. *)
LEMMA StartSteps ==
  ASSUME TypeOK, PeersOK, NEW p \in Peers,
         StartPeer(p) \/ Register(p) \/ Registered(p)
  PROVE  TypeOK' /\ PeersOK'
<1>0. LocalTypes /\ MessageTypes
  BY SplitTypes
<1>p. PeerOK(p, state[p], starts[p], dials[p], connections[p], nodes[p],
             latency[p], views[p])
  BY DEF PeersOK
<1>1. CASE StartPeer(p)
  <2>0. starts[p] + 1 \in 0 .. MaxStarts
    BY <1>0, <1>1, OverlayAssumption DEF StartPeer, LocalTypes
  <2>1. TypeOK'
    BY <1>0, <1>1, <2>0, SplitTypesNext DEF StartPeer, LocalTypes, MessageTypes,
      bootstrap, graph, Joined
  <2>2. PeerOK(p, state'[p], starts'[p], dials'[p], connections'[p], nodes'[p],
               latency'[p], views'[p])
    BY <1>0, <1>1, <1>p DEF StartPeer, LocalTypes, PeerOK, DialOK, graph, Joined
  <2>3. QED
    BY <1>0, <1>1, <2>1, <2>2, OnePeer DEF StartPeer, LocalTypes, graph
<1>2. CASE Register(p)
  <2>0. starts[p] \in 1 .. MaxStarts
    BY <1>0, <1>2, <1>p DEF Register, LocalTypes, PeerOK
  <2>1. TypeOK'
    BY <1>0, <1>2, <2>0, SplitTypesNext DEF Register, LocalTypes, MessageTypes, graph,
      Joined
  <2>2. PeerOK(p, state'[p], starts'[p], dials'[p], connections'[p], nodes'[p],
               latency'[p], views'[p])
    BY <1>0, <1>2, <1>p DEF Register, LocalTypes, PeerOK, DialOK, graph, Joined
  <2>3. QED
    BY <1>0, <1>2, <2>1, <2>2, OnePeer DEF Register, LocalTypes, graph
<1>3. CASE Registered(p)
  <2>0. PICK r \in responses :
          /\ responses' = responses \ {r}
          /\ dials' = [dials EXCEPT ![p] = [q \in Peers |->
                         IF q \in r.peers \ {p} THEN [NoDial EXCEPT !.pc = "store"]
                                                ELSE NoDial]]
    BY <1>3 DEF Registered
  <2>1. dials' \in [Peers -> [Peers -> DialStates]]
    BY <1>0, <2>0, Constants DEF LocalTypes
  <2>2. TypeOK'
    <3>1. MessageTypes'
      BY <1>0, <1>3, <2>0 DEF Registered, MessageTypes
    <3>2. nodes' \in [Peers -> SUBSET Peers]
      BY <1>0, <1>3 DEF Registered, LocalTypes
    <3>3. LocalTypes'
      BY <1>0, <1>3, <2>1, <3>2 DEF Registered, LocalTypes, Joined
    <3>4. QED
      BY <3>1, <3>3, SplitTypesNext
  <2>3. /\ nodes'[p] = nodes[p] \union {p} /\ state'[p] = "connecting"
        /\ starts' = starts /\ connections' = connections /\ latency' = latency
        /\ views' = views /\ state[p] = "registering"
    BY <1>0, <1>3 DEF Registered, LocalTypes
  <2>4. ASSUME NEW q \in Peers
        PROVE  DialOK(p, q, state'[p], dials'[p][q], connections'[p], nodes'[p],
                      latency'[p][q])
    <3>1. dials'[p][q] = IF q \in r.peers \ {p} THEN [NoDial EXCEPT !.pc = "store"]
                                                ELSE NoDial
      BY <1>0, <2>0 DEF LocalTypes
    <3>2. /\ dials'[p][q].pings = 0 /\ dials'[p][q].total = 0
          /\ dials'[p][q].pc \in {"none", "store"}
          /\ dials'[p][q].pc = "store" => q # p
      BY <3>1 DEF NoDial
    <3>3. q \notin connections[p] /\ ~ (latency[p][q] > 0)
      BY <1>p, <2>3 DEF PeerOK, DialOK, Joined
    <3>4. QED
      BY <2>3, <3>2, <3>3 DEF DialOK, Joined, NumPings, PingTimeout
  <2>5. PeerOK(p, state'[p], starts'[p], dials'[p], connections'[p], nodes'[p],
               latency'[p], views'[p])
    BY <1>p, <2>3, <2>4 DEF PeerOK
  <2>6. QED
    BY <1>0, <1>3, <2>0, <2>2, <2>5, OnePeer DEF Registered, LocalTypes
<1>4. QED
  BY <1>1, <1>2, <1>3

(* The steps of main once the goroutines are there, and of a view. *)
LEMMA MainSteps ==
  ASSUME TypeOK, PeersOK, NEW p \in Peers,
         \/ Connected(p) \/ Stop(p)
         \/ ReadNodes(p) \/ ReadEdges(p) \/ SendView(p)
  PROVE  TypeOK' /\ PeersOK'
<1>0. LocalTypes /\ MessageTypes
  BY SplitTypes
<1>p. PeerOK(p, state[p], starts[p], dials[p], connections[p], nodes[p],
             latency[p], views[p])
  BY DEF PeersOK
<1>1. CASE Connected(p)
  <2>1. TypeOK'
    BY <1>0, <1>1, SplitTypesNext DEF Connected, LocalTypes, MessageTypes, bootstrap,
      graph, Joined
  <2>2. PeerOK(p, state'[p], starts'[p], dials'[p], connections'[p], nodes'[p],
               latency'[p], views'[p])
    BY <1>0, <1>1, <1>p DEF Connected, Waiting, LocalTypes, PeerOK, DialOK, graph,
      Joined
  <2>3. QED
    BY <1>0, <1>1, <2>1, <2>2, OnePeer DEF Connected, LocalTypes, graph
<1>2. CASE Stop(p)
  <2>0. failures' \in Failures
    BY <1>0, <1>2, FailuresCount DEF Stop, LocalTypes, Failures
  <2>1. TypeOK'
    BY <1>0, <1>2, <2>0, SplitTypesNext DEF Stop, LocalTypes, MessageTypes, bootstrap,
      graph, Joined, Failures
  <2>2. PeerOK(p, state'[p], starts'[p], dials'[p], connections'[p], nodes'[p],
               latency'[p], views'[p])
    BY <1>0, <1>2, <1>p DEF Stop, LocalTypes, PeerOK, DialOK, graph, Joined
  <2>3. QED
    BY <1>0, <1>2, <2>1, <2>2, OnePeer DEF Stop, LocalTypes, graph
<1>3. CASE ReadNodes(p) \/ ReadEdges(p) \/ SendView(p)
  <2>0. UNCHANGED <<bootstrap, state, starts, dials, connections, graph, failures>>
    BY <1>3 DEF ReadNodes, ReadEdges, SendView
  <2>1. views[p] \in ViewStates
    BY <1>0 DEF LocalTypes
  <2>2. /\ views' = [views EXCEPT ![p] = views'[p]]
        /\ views'[p] \in ViewStates
        /\ views'[p].nodes \subseteq nodes[p]
        /\ \A e \in views'[p].edges :
             e[1] = p /\ e[2] \in Peers /\ latency[p][e[2]] > 0
    <3>1. CASE ReadNodes(p)
      BY <1>0, <1>p, <2>1, <3>1 DEF ReadNodes, LocalTypes, ViewStates, PeerOK
    <3>2. CASE ReadEdges(p)
      <4>1. views'[p] = [views[p] EXCEPT !.pc = "reply",
              !.edges = {<<p, q>> : q \in {r \in Peers : latency[p][r] > 0}}]
        BY <1>0, <3>2 DEF ReadEdges, LocalTypes
      <4>2. views' = [views EXCEPT ![p] = views'[p]]
        BY <1>0, <3>2 DEF ReadEdges, LocalTypes
      <4>3. {<<p, q>> : q \in {r \in Peers : latency[p][r] > 0}}
              \in SUBSET (Peers \X Peers)
        OBVIOUS
      <4>4. views'[p] \in ViewStates /\ views'[p].nodes = views[p].nodes
        BY <2>1, <4>1, <4>3 DEF ViewStates
      <4>5. views'[p].edges = {<<p, q>> : q \in {r \in Peers : latency[p][r] > 0}}
        BY <2>1, <4>1 DEF ViewStates
      <4>6. \A e \in views'[p].edges :
              e[1] = p /\ e[2] \in Peers /\ latency[p][e[2]] > 0
        BY <4>5
      <4>7. QED
        BY <1>p, <4>2, <4>4, <4>6 DEF PeerOK
    <3>3. CASE SendView(p)
      BY <1>0, <3>3, Constants DEF SendView, LocalTypes, NoView
    <3>4. QED
      BY <1>3, <3>1, <3>2, <3>3
  <2>3. TypeOK'
    BY <1>0, <2>0, <2>2, SplitTypesNext DEF LocalTypes, MessageTypes, bootstrap, graph
  <2>4. PeerOK(p, state'[p], starts'[p], dials'[p], connections'[p], nodes'[p],
               latency'[p], views'[p])
    BY <1>p, <2>0, <2>2 DEF PeerOK, graph
  <2>5. QED
    BY <1>0, <2>0, <2>2, <2>3, <2>4, OnePeer DEF LocalTypes, graph
<1>4. QED
  BY <1>1, <1>2, <1>3

PCs == {"none", "store", "failed", "ping", "addNode", "addNodeOnly", "addEdge",
        "done"}

(* A goroutine goes on, and no other. *)
LEMMA DialMoves ==
  ASSUME LocalTypes, NEW p \in Peers, NEW q \in Peers, NEW pc \in PCs, GoTo(p, q, pc)
  PROVE  /\ dials' \in [Peers -> [Peers -> DialStates]]
         /\ dials'[p][q].pc = pc
         /\ dials'[p][q].pings = dials[p][q].pings
         /\ dials'[p][q].total = dials[p][q].total
         /\ \A y \in Peers \ {q} : dials'[p][y] = dials[p][y]
         /\ \A x \in Peers \ {p} : dials'[x] = dials[x]
<1>1. dials \in [Peers -> [Peers -> DialStates]]
  BY DEF LocalTypes
<1>2. dials' = [dials EXCEPT ![p][q].pc = pc]
  BY DEF GoTo
<1>3. dials[p][q] \in DialStates /\ [dials[p][q] EXCEPT !.pc = pc] \in DialStates
  <2>1. dials[p][q] \in DialStates
    BY <1>1
  <2>2. QED
    BY <2>1 DEF DialStates, PCs
<1>4. dials'[p] = [dials[p] EXCEPT ![q] = [dials[p][q] EXCEPT !.pc = pc]]
  BY <1>1, <1>2
<1>5. dials' \in [Peers -> [Peers -> DialStates]]
  BY <1>1, <1>2, <1>3
<1>6. dials'[p][q] = [dials[p][q] EXCEPT !.pc = pc]
  BY <1>1, <1>4
<1>7. QED
  BY <1>1, <1>2, <1>3, <1>4, <1>5, <1>6 DEF DialStates

(* What is known of one peer, by its goroutines.                           *)
LEMMA DialsOfPeer ==
  ASSUME PeersOK, NEW p \in Peers, NEW q \in Peers,
         UNCHANGED <<state, starts, views>>,
         nodes[p] \subseteq nodes'[p],
         connections[p] \subseteq connections'[p],
         connections'[p] \subseteq connections[p] \union {q},
         \A y \in Peers \ {q} :
           dials'[p][y] = dials[p][y] /\ latency'[p][y] = latency[p][y],
         latency[p][q] > 0 => latency'[p][q] > 0,
         DialOK(p, q, state'[p], dials'[p][q], connections'[p], nodes'[p],
                latency'[p][q])
  PROVE  PeerOK(p, state'[p], starts'[p], dials'[p], connections'[p], nodes'[p],
                latency'[p], views'[p])
<1>p. PeerOK(p, state[p], starts[p], dials[p], connections[p], nodes[p],
             latency[p], views[p])
  BY DEF PeersOK
<1>1. ASSUME NEW y \in Peers, y # q
      PROVE  DialOK(p, y, state'[p], dials'[p][y], connections'[p], nodes'[p],
                    latency'[p][y])
  <2>1. DialOK(p, y, state[p], dials[p][y], connections[p], nodes[p], latency[p][y])
    BY <1>p DEF PeerOK
  <2>2. QED
    BY <1>1, <2>1 DEF DialOK
<1>2. \A e \in views[p].edges : e[1] = p /\ e[2] \in Peers /\ latency'[p][e[2]] > 0
  BY <1>p DEF PeerOK
<1>3. QED
  BY <1>p, <1>1, <1>2 DEF PeerOK

(* The steps of a goroutine, each with the graph or the connections that   *)
(* it changes.                                                             *)
LEMMA DialSteps ==
  ASSUME TypeOK, PeersOK, NEW p \in Peers, NEW q \in Peers,
         \/ StoreConnection(p, q) \/ DialFails(p, q)
         \/ Pinged(p, q) \/ PingFails(p, q)
         \/ AddNode(p, q) \/ AddEdge(p, q) \/ NotifyNewPeer(p, q)
  PROVE  TypeOK' /\ PeersOK'
<1>0. LocalTypes /\ MessageTypes
  BY SplitTypes
<1>d. dials[p][q] \in DialStates
  BY <1>0 DEF LocalTypes
<1>p. DialOK(p, q, state[p], dials[p][q], connections[p], nodes[p], latency[p][q])
  BY DEF PeersOK, PeerOK
<1>1. CASE StoreConnection(p, q)
  <2>1. GoTo(p, q, "ping") /\ At(p, q, "store")
    BY <1>1 DEF StoreConnection
  <2>2. TypeOK'
    BY <1>0, <1>1, <2>1, DialMoves, SplitTypesNext DEF StoreConnection, LocalTypes,
      MessageTypes, bootstrap, graph, PCs
  <2>3. connections'[p] = connections[p] \union {q}
    BY <1>0, <1>1 DEF StoreConnection, LocalTypes
  <2>4. dials'[p][q].pc = "ping" /\ dials'[p][q].pings = dials[p][q].pings
          /\ dials'[p][q].total = dials[p][q].total
    BY <1>0, <2>1, DialMoves DEF PCs
  <2>5. DialOK(p, q, state'[p], dials'[p][q], connections'[p], nodes'[p],
               latency'[p][q])
    BY <1>1, <1>p, <2>1, <2>3, <2>4 DEF StoreConnection, graph, DialOK, At, Joined
  <2>o. \A y \in Peers \ {q} : dials'[p][y] = dials[p][y]
    BY <1>0, <2>1, DialMoves DEF PCs
  <2>u. UNCHANGED <<state, starts, views, nodes, latency>>
    BY <1>1 DEF StoreConnection, graph
  <2>6. PeerOK(p, state'[p], starts'[p], dials'[p], connections'[p], nodes'[p],
               latency'[p], views'[p])
    BY <2>3, <2>5, <2>o, <2>u, DialsOfPeer
  <2>7. \A x \in Peers \ {p} : dials'[x] = dials[x] /\ connections'[x] = connections[x]
    BY <1>0, <1>1, <2>1, DialMoves DEF StoreConnection, LocalTypes, PCs
  <2>8. QED
    BY <1>1, <2>2, <2>6, <2>7, OnePeer DEF StoreConnection, graph
<1>2. CASE Pinged(p, q)
  <2>0. PICK ms \in Elapsed :
          dials' = [dials EXCEPT ![p][q] =
             [pc    |-> IF dials[p][q].pings + 1 = NumPings THEN "addNode" ELSE "ping",
              pings |-> dials[p][q].pings + 1,
              total |-> dials[p][q].total + ms]]
    BY <1>2 DEF Pinged
  <2>1. At(p, q, "ping")
    BY <1>2 DEF Pinged
  <2>2. /\ dials[p][q].pings \in 0 .. NumPings - 1 /\ dials[p][q].total \in Nat
        /\ dials[p][q].total <= dials[p][q].pings * PingTimeout
        /\ ms \in 0 .. PingTimeout
    BY <1>d, <1>p, <2>1, OverlayAssumption DEF DialOK, At, DialStates, NumPings
  <2> DEFINE d == [pc    |-> IF dials[p][q].pings + 1 = NumPings THEN "addNode"
                                                              ELSE "ping",
                   pings |-> dials[p][q].pings + 1,
                   total |-> dials[p][q].total + ms]
  <2>3. /\ dials[p][q].pings + 1 \in 0 .. NumPings
        /\ dials[p][q].total + ms \in 0 .. NumPings * PingTimeout
        /\ dials[p][q].total + ms <= (dials[p][q].pings + 1) * PingTimeout
    BY <2>2, AnotherPing
  <2>4. d \in DialStates
    BY <2>3 DEF DialStates
  <2>5. /\ dials' \in [Peers -> [Peers -> DialStates]]
        /\ dials'[p][q] = d
        /\ \A y \in Peers \ {q} : dials'[p][y] = dials[p][y]
        /\ \A x \in Peers \ {p} : dials'[x] = dials[x]
    BY <1>0, <2>0, <2>4 DEF LocalTypes
  <2>6. TypeOK'
    BY <1>0, <1>2, <2>5, SplitTypesNext DEF Pinged, LocalTypes, MessageTypes,
      bootstrap, graph
  <2>7. /\ d.pc = IF d.pings = NumPings THEN "addNode" ELSE "ping"
        /\ d.total <= d.pings * PingTimeout
    BY <2>3
  <2>8. DialOK(p, q, state'[p], dials'[p][q], connections'[p], nodes'[p],
               latency'[p][q])
    <3> HIDE DEF d
    <3>1. QED
      BY <1>2, <1>p, <2>1, <2>5, <2>7 DEF Pinged, graph, DialOK, At, Joined
  <2>9. PeerOK(p, state'[p], starts'[p], dials'[p], connections'[p], nodes'[p],
               latency'[p], views'[p])
    BY <1>2, <2>5, <2>8, DialsOfPeer DEF Pinged, graph
  <2>10. QED
    BY <1>2, <2>5, <2>6, <2>9, OnePeer DEF Pinged, graph
<1>3. CASE PingFails(p, q)
  <2>1. GoTo(p, q, "addNodeOnly") /\ At(p, q, "ping")
    BY <1>3 DEF PingFails
  <2>2. failures' \in Failures
    BY <1>0, <1>3, FailuresCount DEF PingFails, LocalTypes, Failures
  <2>3. TypeOK'
    BY <1>0, <1>3, <2>1, <2>2, DialMoves, SplitTypesNext DEF PingFails, LocalTypes,
      MessageTypes, bootstrap, graph, PCs, Failures
  <2>4. dials'[p][q].pc = "addNodeOnly" /\ dials'[p][q].pings = dials[p][q].pings
          /\ dials'[p][q].total = dials[p][q].total
    BY <1>0, <2>1, DialMoves DEF PCs
  <2>5. DialOK(p, q, state'[p], dials'[p][q], connections'[p], nodes'[p],
               latency'[p][q])
    BY <1>3, <1>p, <2>1, <2>4 DEF PingFails, graph, DialOK, At, Joined
  <2>6. PeerOK(p, state'[p], starts'[p], dials'[p], connections'[p], nodes'[p],
               latency'[p], views'[p])
    BY <1>0, <1>3, <2>1, <2>5, DialMoves, DialsOfPeer DEF PingFails, graph, PCs
  <2>7. QED
    BY <1>0, <1>3, <2>1, <2>3, <2>6, DialMoves, OnePeer DEF PingFails, graph, PCs
<1>4. CASE AddNode(p, q)
  <2> DEFINE pc == IF dials[p][q].pc = "addNode" THEN "addEdge" ELSE "done"
  <2>1. GoTo(p, q, pc) /\ (At(p, q, "addNode") \/ At(p, q, "addNodeOnly"))
    BY <1>4 DEF AddNode
  <2>2. pc \in PCs /\ pc \in {"addEdge", "done"}
    BY DEF PCs
  <2>3. dials'[p][q].pc = pc /\ dials'[p][q].pings = dials[p][q].pings
          /\ dials'[p][q].total = dials[p][q].total
    BY <1>0, <2>1, <2>2, DialMoves
  <2>4. nodes' \in [Peers -> SUBSET Peers] /\ nodes'[p] = nodes[p] \union {q}
          /\ \A x \in Peers \ {p} : nodes'[x] = nodes[x]
    BY <1>0, <1>4 DEF AddNode, LocalTypes
  <2>5. TypeOK'
    BY <1>0, <1>4, <2>1, <2>2, <2>4, DialMoves, SplitTypesNext DEF AddNode, LocalTypes,
      MessageTypes, bootstrap
  <2>6. DialOK(p, q, state'[p], dials'[p][q], connections'[p], nodes'[p],
               latency'[p][q])
    BY <1>4, <1>p, <2>1, <2>3, <2>4 DEF AddNode, DialOK, At, Joined
  <2>o. /\ \A y \in Peers \ {q} : dials'[p][y] = dials[p][y]
        /\ \A x \in Peers \ {p} : dials'[x] = dials[x]
    BY <1>0, <2>1, <2>2, DialMoves
  <2>u. UNCHANGED <<state, starts, views, connections, latency>>
    BY <1>4 DEF AddNode
  <2>7. PeerOK(p, state'[p], starts'[p], dials'[p], connections'[p], nodes'[p],
               latency'[p], views'[p])
    BY <2>4, <2>6, <2>o, <2>u, DialsOfPeer
  <2>8. QED
    BY <2>4, <2>5, <2>7, <2>o, <2>u, OnePeer
<1>5. CASE AddEdge(p, q)
  <2>1. GoTo(p, q, "done") /\ At(p, q, "addEdge")
    BY <1>5 DEF AddEdge
  <2>2. AverageLatency(dials[p][q].total) \in 1 .. PingTimeout
    BY <1>d, AverageInRange DEF DialStates
  <2>3. /\ latency' \in [Peers -> [Peers -> 0 .. PingTimeout]]
        /\ latency'[p][q] > 0
        /\ \A y \in Peers \ {q} : latency'[p][y] = latency[p][y]
        /\ \A x \in Peers \ {p} : latency'[x] = latency[x]
    BY <1>0, <1>5, <2>2 DEF AddEdge, LocalTypes
  <2>4. dials'[p][q].pc = "done" /\ dials'[p][q].pings = dials[p][q].pings
          /\ dials'[p][q].total = dials[p][q].total
    BY <1>0, <2>1, DialMoves DEF PCs
  <2>5. TypeOK'
    BY <1>0, <1>5, <2>1, <2>3, DialMoves, SplitTypesNext DEF AddEdge, LocalTypes,
      MessageTypes, bootstrap, PCs
  <2>6. DialOK(p, q, state'[p], dials'[p][q], connections'[p], nodes'[p],
               latency'[p][q])
    BY <1>5, <1>p, <2>1, <2>3, <2>4 DEF AddEdge, DialOK, At, Joined
  <2>o. /\ \A y \in Peers \ {q} : dials'[p][y] = dials[p][y]
        /\ \A x \in Peers \ {p} : dials'[x] = dials[x]
    BY <1>0, <2>1, DialMoves DEF PCs
  <2>u. UNCHANGED <<state, starts, views, connections, nodes>>
    BY <1>5 DEF AddEdge
  <2>7. PeerOK(p, state'[p], starts'[p], dials'[p], connections'[p], nodes'[p],
               latency'[p], views'[p])
    BY <2>3, <2>6, <2>o, <2>u, DialsOfPeer
  <2>8. QED
    BY <2>3, <2>5, <2>7, <2>o, <2>u, OnePeer
<1>6. CASE NotifyNewPeer(p, q)
  <2>1. nodes' \in [Peers -> SUBSET Peers] /\ nodes'[p] = nodes[p] \union {q}
          /\ \A x \in Peers \ {p} : nodes'[x] = nodes[x]
    BY <1>0, <1>6 DEF NotifyNewPeer, LocalTypes
  <2>2. TypeOK'
    BY <1>0, <1>6, <2>1, SplitTypesNext DEF NotifyNewPeer, LocalTypes, MessageTypes,
      bootstrap
  <2>3. DialOK(p, q, state'[p], dials'[p][q], connections'[p], nodes'[p],
               latency'[p][q])
    BY <1>6, <1>p, <2>1 DEF NotifyNewPeer, DialOK
  <2>4. PeerOK(p, state'[p], starts'[p], dials'[p], connections'[p], nodes'[p],
               latency'[p], views'[p])
    BY <1>6, <2>1, <2>3, DialsOfPeer DEF NotifyNewPeer
  <2>5. QED
    BY <1>6, <2>1, <2>2, <2>4, OnePeer DEF NotifyNewPeer
<1>7. CASE DialFails(p, q)
  <2>1. GoTo(p, q, "failed") /\ At(p, q, "store")
    BY <1>7 DEF DialFails
  <2>2. failures' \in Failures
    BY <1>0, <1>7, FailuresCount DEF DialFails, LocalTypes, Failures
  <2>3. TypeOK'
    BY <1>0, <1>7, <2>1, <2>2, DialMoves, SplitTypesNext DEF DialFails, LocalTypes,
      MessageTypes, bootstrap, graph, PCs, Failures
  <2>4. dials'[p][q].pc = "failed" /\ dials'[p][q].pings = dials[p][q].pings
          /\ dials'[p][q].total = dials[p][q].total
    BY <1>0, <2>1, DialMoves DEF PCs
  <2>5. DialOK(p, q, state'[p], dials'[p][q], connections'[p], nodes'[p],
               latency'[p][q])
    BY <1>7, <1>p, <2>1, <2>4 DEF DialFails, graph, DialOK, At, Joined
  <2>6. PeerOK(p, state'[p], starts'[p], dials'[p], connections'[p], nodes'[p],
               latency'[p], views'[p])
    BY <1>0, <1>7, <2>1, <2>5, DialMoves, DialsOfPeer DEF DialFails, graph, PCs
  <2>7. QED
    BY <1>0, <1>7, <2>1, <2>3, <2>6, DialMoves, OnePeer DEF DialFails, graph, PCs
<1>8. QED
  BY <1>1, <1>2, <1>3, <1>4, <1>5, <1>6, <1>7

(* A process that ends leaves nothing behind but its registration.         *)
LEMMA ExitStep ==
  ASSUME TypeOK, PeersOK, NEW p \in Peers, Exit(p), failures' \in Failures
  PROVE  TypeOK' /\ PeersOK'
<1>0. LocalTypes /\ MessageTypes
  BY SplitTypes
<1>1. /\ state' \in [Peers -> {"down", "up", "registering"} \union Joined]
      /\ starts' \in [Peers -> 0 .. MaxStarts]
      /\ connections' \in [Peers -> SUBSET Peers]
      /\ nodes' \in [Peers -> SUBSET Peers]
  BY <1>0 DEF Exit, LocalTypes
<1>2. dials' \in [Peers -> [Peers -> DialStates]]
  BY <1>0, Constants DEF Exit, LocalTypes
<1>3. latency' \in [Peers -> [Peers -> 0 .. PingTimeout]]
  BY <1>0 DEF Exit, LocalTypes, PingTimeout
<1>4. views' \in [Peers -> ViewStates]
  BY <1>0, Constants DEF Exit, LocalTypes
<1>5. MessageTypes'
  BY <1>0 DEF Exit, MessageTypes
<1>6. TypeOK'
  BY <1>1, <1>2, <1>3, <1>4, <1>5, SplitTypesNext DEF LocalTypes, Failures
<1>7. /\ state'[p] = "down" /\ connections'[p] = {} /\ nodes'[p] = {}
      /\ dials'[p] = [q \in Peers |-> NoDial]
      /\ latency'[p] = [q \in Peers |-> 0]
      /\ views'[p] = NoView
  BY <1>0 DEF Exit, LocalTypes
<1>8. PeerOK(p, state'[p], starts'[p], dials'[p], connections'[p], nodes'[p],
             latency'[p], views'[p])
  BY <1>7 DEF PeerOK, DialOK, NoDial, NoView, Joined, NumPings, PingTimeout
<1>9. \A x \in Peers \ {p} :
           /\ state'[x] = state[x] /\ starts'[x] = starts[x]
           /\ dials'[x] = dials[x] /\ connections'[x] = connections[x]
           /\ nodes'[x] = nodes[x] /\ latency'[x] = latency[x]
           /\ views'[x] = views[x]
  BY <1>0 DEF Exit, LocalTypes
<1>10. QED
  BY <1>6, <1>8, <1>9, OnePeer

LEMMA ExitActions ==
  ASSUME TypeOK, PeersOK, NEW p \in Peers, ExitAction(p)
  PROVE  TypeOK' /\ PeersOK' /\ Exit(p)
<1>1. failures \in Failures
  BY DEF TypeOK, Failures
<1>2. Exit(p)
  BY DEF ExitAction, RegisterTimesOut, Close, CrashPeer
<1>3. failures' \in Failures
  BY <1>1, FailuresCount DEF ExitAction, RegisterTimesOut, Close, CrashPeer
<1>4. QED
  BY <1>2, <1>3, ExitStep

(* The steps of the bootstrap server touch no peer. *)
LEMMA BootstrapSteps ==
  ASSUME TypeOK, PeersOK, \/ \E r \in requests : RegisterPeer(r)
                          \/ RestartBootstrap
                          \/ UNCHANGED vars
  PROVE  TypeOK' /\ PeersOK'
<1>0. LocalTypes /\ MessageTypes
  BY SplitTypes
<1>1. UNCHANGED <<state, starts, dials, connections, nodes, latency, views>>
  BY DEF RegisterPeer, RestartBootstrap, vars, graph
<1>2. PeersOK'
  BY <1>1 DEF PeersOK
<1>3. failures' \in Failures
  BY <1>0, FailuresCount DEF RegisterPeer, RestartBootstrap, vars, LocalTypes, Failures
<1>4. MessageTypes'
  <2>1. ASSUME NEW r \in requests, RegisterPeer(r)
        PROVE  MessageTypes'
    <3>1. r[1] \in Peers /\ r[2] \in 1 .. MaxStarts
      BY <1>0 DEF MessageTypes
    <3>2. registry' \in SUBSET Peers /\ requests' \subseteq requests
      BY <1>0, <2>1, <3>1 DEF RegisterPeer, MessageTypes
    <3>3. PICK S \in RandomPeers(r[1], registry') :
            responses' = responses \union {[to |-> r[1], start |-> r[2], peers |-> S]}
      BY <2>1 DEF RegisterPeer
    <3>4. S \in SUBSET Peers
      BY <3>2, <3>3 DEF RandomPeers
    <3>5. QED
      BY <1>0, <3>1, <3>2, <3>3, <3>4 DEF MessageTypes
  <2>2. CASE RestartBootstrap
    BY <2>2 DEF RestartBootstrap, MessageTypes
  <2>3. CASE UNCHANGED vars
    BY <1>0, <2>3 DEF vars, bootstrap, MessageTypes
  <2>4. QED
    BY <2>1, <2>2, <2>3
<1>5. QED
  BY <1>0, <1>1, <1>2, <1>3, <1>4, SplitTypesNext DEF LocalTypes, Failures

(* Every step keeps the types, and what is known of each peer. *)
LEMMA NextPeersOK ==
  ASSUME TypeOK, PeersOK, [Next]_vars
  PROVE  TypeOK' /\ PeersOK'
<1>1. ASSUME NEW p \in Peers, PeerAction(p)
      PROVE  TypeOK' /\ PeersOK'
  BY <1>1, StartSteps, MainSteps, DialSteps DEF PeerAction
<1>2. ASSUME NEW p \in Peers, ExitAction(p)
      PROVE  TypeOK' /\ PeersOK'
  BY <1>2, ExitActions
<1>3. QED
  BY <1>1, <1>2, StepIsAnAction, BootstrapSteps

-----------------------------------------------------------------------------
LEMMA NoFailureMeans ==
  /\ TypeOK => (NoFailure <=> /\ failures.crashes = 0 /\ failures.timeouts = 0
                              /\ failures.errors = 0 /\ failures.stops = 0
                              /\ failures.restarts = 0)
  /\ TypeOK' => (NoFailure' <=> /\ failures'.crashes = 0 /\ failures'.timeouts = 0
                                /\ failures'.errors = 0 /\ failures'.stops = 0
                                /\ failures'.restarts = 0)
<1>1. ASSUME NEW f \in Failures
      PROVE  (\A what \in DOMAIN f : f[what] = 0)
               <=> /\ f.crashes = 0 /\ f.timeouts = 0 /\ f.errors = 0
                   /\ f.stops = 0 /\ f.restarts = 0
  <2>1. DOMAIN f = {"crashes", "timeouts", "errors", "stops", "restarts"}
    BY DEF Failures
  <2>2. QED
    BY <2>1
<1>2. TypeOK => failures \in Failures
  BY DEF TypeOK, Failures
<1>3. TypeOK' => failures' \in Failures
  BY DEF TypeOK, Failures
<1>4. QED
  BY <1>1, <1>2, <1>3 DEF NoFailure

(* A failure is never forgotten. *)
LEMMA FailuresLast ==
  ASSUME TypeOK, [Next]_vars
  PROVE  /\ failures'.restarts = 0 => failures.restarts = 0
         /\ NoFailure' => NoFailure /\ failures' = failures
<1>0. failures \in Failures
  BY DEF TypeOK, Failures
<1>1. \/ failures' = failures
      \/ failures' = [failures EXCEPT !.crashes = @ + 1]
      \/ failures' = [failures EXCEPT !.timeouts = @ + 1]
      \/ failures' = [failures EXCEPT !.errors = @ + 1]
      \/ failures' = [failures EXCEPT !.stops = @ + 1]
      \/ failures' = [failures EXCEPT !.restarts = @ + 1]
  <2>1. ASSUME NEW p \in Peers, PeerAction(p)
        PROVE  \/ failures' = failures
               \/ failures' = [failures EXCEPT !.timeouts = @ + 1]
               \/ failures' = [failures EXCEPT !.errors = @ + 1]
               \/ failures' = [failures EXCEPT !.stops = @ + 1]
    BY <2>1 DEF PeerAction, StartPeer, Register, Registered, Connected, Stop, ReadNodes,
      ReadEdges, SendView, StoreConnection, DialFails, Pinged, PingFails, AddNode,
      AddEdge, NotifyNewPeer
  <2>2. ASSUME NEW p \in Peers, ExitAction(p)
        PROVE  \/ failures' = failures
               \/ failures' = [failures EXCEPT !.crashes = @ + 1]
               \/ failures' = [failures EXCEPT !.timeouts = @ + 1]
    BY <2>2 DEF ExitAction, RegisterTimesOut, Close, CrashPeer
  <2>3. ASSUME NEW r \in requests, RegisterPeer(r)
        PROVE  failures' = failures
    BY <2>3 DEF RegisterPeer
  <2>4. RestartBootstrap => failures' = [failures EXCEPT !.restarts = @ + 1]
    BY DEF RestartBootstrap
  <2>5. UNCHANGED vars => failures' = failures
    BY DEF vars
  <2>6. QED
    BY <2>1, <2>2, <2>3, <2>4, <2>5, StepIsAnAction
<1>2. \/ failures' = failures
      \/ /\ failures' # failures
         /\ failures'.restarts = failures.restarts \/ failures'.restarts > 0
         /\ \/ failures'.crashes > 0 \/ failures'.timeouts > 0
            \/ failures'.errors > 0 \/ failures'.stops > 0
            \/ failures'.restarts > 0
         /\ failures' \in Failures
  BY <1>0, <1>1, FailuresCount DEF Failures
<1>3. CASE failures' = failures
  BY <1>3 DEF NoFailure
<1>4. CASE failures' # failures
  <2>1. ~ NoFailure'
    <3>1. DOMAIN failures' = {"crashes", "timeouts", "errors", "stops", "restarts"}
      BY <1>2, <1>4 DEF Failures
    <3>2. failures' \in Failures
      BY <1>2, <1>4
    <3>3. QED
      BY <1>2, <1>4, <3>1, <3>2 DEF NoFailure
  <2>2. QED
    BY <1>2, <1>4, <2>1
<1>5. QED
  BY <1>3, <1>4

(* The registry lists who has joined. *)
LEMMA NextRegistryOK ==
  ASSUME TypeOK, RegistryOK, [Next]_vars
  PROVE  RegistryOK'
<1> SUFFICES ASSUME failures'.restarts = 0
             PROVE  /\ \A r \in responses' : r.to \in registry'
                    /\ \A p \in Peers : state'[p] \in Joined => p \in registry'
  BY DEF RegistryOK
<1>0. LocalTypes /\ MessageTypes
  BY SplitTypes
<1>1. /\ failures.restarts = 0
      /\ \A r \in responses : r.to \in registry
      /\ \A p \in Peers : state[p] \in Joined => p \in registry
  BY FailuresLast DEF RegistryOK
<1>2. ASSUME NEW p \in Peers, PeerAction(p)
      PROVE  /\ registry' = registry /\ responses' \subseteq responses
             /\ \A x \in Peers : state'[x] \in Joined =>
                  \/ state[x] \in Joined
                  \/ \E r \in responses : r.to = x
  <2>1. CASE StartPeer(p) \/ Register(p) \/ Registered(p) \/ Connected(p) \/ Stop(p)
    <3>1. registry' = registry /\ responses' \subseteq responses
      BY <2>1 DEF StartPeer, Register, Registered, Connected, Stop, bootstrap
    <3>2. /\ \A x \in Peers \ {p} : state'[x] = state[x]
          /\ state'[p] \in Joined => \/ state[p] \in Joined
                                     \/ \E r \in responses : r.to = p
      BY <1>0, <2>1 DEF StartPeer, Register, Registered, Connected, Stop, LocalTypes,
        Joined
    <3>3. QED
      BY <3>1, <3>2
  <2>2. CASE ~ (StartPeer(p) \/ Register(p) \/ Registered(p) \/ Connected(p) \/ Stop(p))
    BY <1>2, <2>2 DEF PeerAction, ReadNodes, ReadEdges, SendView, StoreConnection,
      DialFails, Pinged, PingFails, AddNode, AddEdge, NotifyNewPeer, bootstrap
  <2>3. QED
    BY <2>1, <2>2
<1>3. ASSUME NEW p \in Peers, ExitAction(p)
      PROVE  /\ registry' = registry /\ responses' \subseteq responses
             /\ \A x \in Peers : state'[x] \in Joined => state[x] \in Joined
  <2>1. Exit(p)
    BY <1>3 DEF ExitAction, RegisterTimesOut, Close, CrashPeer
  <2>2. QED
    BY <1>0, <2>1 DEF Exit, LocalTypes, Joined
<1>4. ASSUME NEW r \in requests, RegisterPeer(r)
      PROVE  /\ registry' = registry \union {r[1]} /\ state' = state
             /\ \A s \in responses' : s \in responses \/ s.to = r[1]
  BY <1>4 DEF RegisterPeer
<1>5. ~ RestartBootstrap
  <2>1. failures \in Failures
    BY <1>0 DEF LocalTypes, Failures
  <2>2. QED
    BY <1>1, <2>1 DEF RestartBootstrap, Failures
<1>6. CASE UNCHANGED vars
  BY <1>1, <1>6 DEF vars, bootstrap
<1>7. CASE \E p \in Peers : PeerAction(p) \/ ExitAction(p)
  BY <1>1, <1>2, <1>3, <1>7
<1>8. CASE \E r \in requests : RegisterPeer(r)
  BY <1>1, <1>4, <1>8
<1>9. QED
  BY <1>5, <1>6, <1>7, <1>8, StepIsAnAction

-----------------------------------------------------------------------------
JoinedOK == RegistrationOK /\ MeasurementOK /\ NoCut

(* Whoever was told of somebody is not forgotten, so that no cut appears.  *)
LEMMA CutsStay ==
  ASSUME NoCut, registry' = registry,
         \A p, q \in registry : Told(p, q) => Told(p, q)'
  PROVE  NoCut'
<1> SUFFICES ASSUME NEW S \in SUBSET registry, S # {}, S # registry
             PROVE  \E p \in S, q \in registry \ S : Told(p, q)' \/ Told(q, p)'
  BY DEF NoCut
<1>1. PICK p \in S, q \in registry \ S : Told(p, q) \/ Told(q, p)
  BY DEF NoCut
<1>2. QED
  BY <1>1

(* The steps of a goroutine while nothing fails: no dial and no ping does. *)
LEMMA JoinDialSteps ==
  ASSUME TypeOK, PeersOK, JoinedOK, failures' = failures,
         NEW p \in Peers, NEW q \in Peers,
         \/ StoreConnection(p, q) \/ DialFails(p, q)
         \/ Pinged(p, q) \/ PingFails(p, q)
         \/ AddNode(p, q) \/ AddEdge(p, q)
  PROVE  JoinedOK'
<1>0. LocalTypes /\ MessageTypes
  BY SplitTypes
<1>1. UNCHANGED <<registry, requests, responses, state, starts>>
  BY DEF StoreConnection, DialFails, Pinged, PingFails, AddNode, AddEdge, bootstrap
<1>2. RegistrationOK'
  BY <1>1 DEF JoinedOK, RegistrationOK
<1>3. dials[p][q].pc # "none" /\ q \in registry
  BY DEF JoinedOK, MeasurementOK, StoreConnection, DialFails, Pinged, PingFails, AddNode,
    AddEdge, At
<1>4. ~ PingFails(p, q) /\ ~ DialFails(p, q)
  <2>1. Serving(q)
    BY <1>3 DEF JoinedOK, RegistrationOK, Serving
  <2>2. failures \in Failures
    BY <1>0 DEF LocalTypes, Failures
  <2>3. /\ [failures EXCEPT !.timeouts = @ + 1] # failures
        /\ [failures EXCEPT !.errors = @ + 1] # failures
    BY <2>2 DEF Failures
  <2>4. QED
    BY <2>1, <2>3 DEF PingFails, DialFails
<1>d. dials[p][q] \in DialStates
  BY <1>0 DEF LocalTypes
<1>5. /\ \A x, y \in Peers : ~ (x = p /\ y = q) => dials'[x][y] = dials[x][y]
      /\ dials'[p][q].pc \in {"ping", "addNode", "addEdge", "done"}
      /\ dials'[p][q].pc \in {"addNode", "addEdge", "done"} =>
           dials'[p][q].pings = NumPings
  <2>1. CASE StoreConnection(p, q)
    BY <1>0, <2>1, DialMoves DEF StoreConnection, PCs
  <2>2. CASE Pinged(p, q)
    <3>1. PICK ms \in Elapsed :
            dials' = [dials EXCEPT ![p][q] =
               [pc    |-> IF dials[p][q].pings + 1 = NumPings THEN "addNode" ELSE "ping",
                pings |-> dials[p][q].pings + 1,
                total |-> dials[p][q].total + ms]]
      BY <2>2 DEF Pinged
    <3>2. QED
      BY <1>0, <3>1 DEF LocalTypes
  <2>3. CASE AddNode(p, q)
    <3>1. dials[p][q].pc = "addNode" /\ dials[p][q].pings = NumPings
      BY <2>3 DEF AddNode, At, JoinedOK, MeasurementOK
    <3>2. GoTo(p, q, "addEdge")
      BY <2>3, <3>1 DEF AddNode
    <3>3. QED
      BY <1>0, <3>1, <3>2, DialMoves DEF PCs
  <2>4. CASE AddEdge(p, q)
    <3>1. dials[p][q].pings = NumPings /\ GoTo(p, q, "done")
      BY <2>4 DEF AddEdge, At, JoinedOK, MeasurementOK
    <3>2. QED
      BY <1>0, <3>1, DialMoves DEF PCs
  <2>5. QED
    BY <1>4, <2>1, <2>2, <2>3, <2>4
<1>6. MeasurementOK'
  <2>1. ASSUME NEW x \in Peers, NEW y \in Peers
        PROVE  /\ dials'[x][y].pc # "none" => y \in registry
               /\ dials'[x][y].pc \notin {"addNodeOnly", "failed"}
               /\ dials'[x][y].pc \in {"addNode", "addEdge", "done"} =>
                    dials'[x][y].pings = NumPings
    <3>1. CASE x = p /\ y = q
      BY <1>3, <1>5, <3>1
    <3>2. CASE ~ (x = p /\ y = q)
      BY <1>5, <3>2 DEF JoinedOK, MeasurementOK
    <3>3. QED
      BY <3>1, <3>2
  <2>2. QED
    BY <1>1, <2>1 DEF MeasurementOK
<1>7. \A x, y \in registry : Told(x, y) => Told(x, y)'
  BY <1>0, <1>1, <1>5 DEF Told, MessageTypes
<1>8. QED
  BY <1>1, <1>2, <1>6, <1>7, CutsStay DEF JoinedOK

(* Steps that leave the registry and the goroutines as they are. *)
LEMMA JoinQuietSteps ==
  ASSUME JoinedOK, UNCHANGED <<registry, requests, responses, state, starts, dials>>
  PROVE  JoinedOK'
<1>1. RegistrationOK' /\ MeasurementOK'
  BY DEF JoinedOK, RegistrationOK, MeasurementOK
<1>2. NoCut'
  BY DEF JoinedOK, NoCut, Told
<1>3. QED
  BY <1>1, <1>2 DEF JoinedOK

(* The steps of main while nothing fails. *)
LEMMA JoinMainSteps ==
  ASSUME TypeOK, PeersOK, JoinedOK, NEW p \in Peers,
         StartPeer(p) \/ Register(p) \/ Connected(p)
  PROVE  JoinedOK'
<1>0. LocalTypes /\ MessageTypes
  BY SplitTypes
<1>1. UNCHANGED <<registry, responses, dials>>
  BY DEF StartPeer, Register, Connected, bootstrap
<1>2. \A x \in Peers \ {p} : state'[x] = state[x] /\ starts'[x] = starts[x]
  BY <1>0 DEF StartPeer, Register, Connected, LocalTypes
<1>3. /\ \A r \in requests : r[1] \in Peers
      /\ \A r \in responses : r.to \in Peers
      /\ registry \subseteq Peers
  BY <1>0 DEF MessageTypes
<1>4. RegistrationOK'
  <2>1. CASE StartPeer(p)
    <3>1. state[p] = "down" /\ state'[p] = "up" /\ requests' = requests
      BY <1>0, <2>1 DEF StartPeer, LocalTypes, bootstrap
    <3>2. QED
      BY <1>1, <1>2, <1>3, <3>1 DEF JoinedOK, RegistrationOK
  <2>2. CASE Register(p)
    <3>1. /\ state[p] = "up" /\ state'[p] = "registering" /\ starts' = starts
          /\ requests' = requests \union {<<p, starts[p]>>}
      BY <1>0, <2>2 DEF Register, LocalTypes
    <3>2. p \notin registry
      BY <3>1 DEF JoinedOK, RegistrationOK
    <3>3. \A r \in requests' : /\ state'[r[1]] = "registering"
                               /\ r[2] = starts'[r[1]]
                               /\ r[1] \notin registry'
      BY <1>1, <1>2, <1>3, <3>1, <3>2 DEF JoinedOK, RegistrationOK
    <3>4. \A x \in Peers : state'[x] = "registering" =>
            \/ <<x, starts'[x]>> \in requests'
            \/ \E r \in responses' : r.to = x /\ r.start = starts'[x]
      BY <1>1, <1>2, <3>1 DEF JoinedOK, RegistrationOK
    <3>5. \A r \in responses' : /\ state'[r.to] = "registering"
                                /\ r.start = starts'[r.to]
                                /\ r.to \notin r.peers
                                /\ r.peers \subseteq registry'
      BY <1>1, <1>2, <1>3, <3>1 DEF JoinedOK, RegistrationOK
    <3>6. QED
      BY <1>1, <1>2, <1>3, <3>1, <3>3, <3>4, <3>5 DEF JoinedOK, RegistrationOK
  <2>3. CASE Connected(p)
    <3>1. /\ state[p] = "connecting" /\ state'[p] = "running" /\ requests' = requests
          /\ starts' = starts
      BY <1>0, <2>3 DEF Connected, LocalTypes, bootstrap
    <3>2. QED
      BY <1>1, <1>2, <1>3, <3>1 DEF JoinedOK, RegistrationOK
  <2>4. QED
    BY <2>1, <2>2, <2>3
<1>5. MeasurementOK'
  BY <1>1 DEF JoinedOK, MeasurementOK
<1>6. NoCut'
  BY <1>1 DEF JoinedOK, NoCut, Told
<1>7. QED
  BY <1>4, <1>5, <1>6 DEF JoinedOK

(* A peer learns of the others: what its response said, its goroutines do. *)
LEMMA JoinRegistered ==
  ASSUME TypeOK, PeersOK, RegistryOK, NoFailure, JoinedOK, NEW p \in Peers,
         Registered(p)
  PROVE  JoinedOK'
<1>0. LocalTypes /\ MessageTypes
  BY SplitTypes
<1>1. PICK r \in responses :
        /\ r.to = p
        /\ responses' = responses \ {r}
        /\ dials' = [dials EXCEPT ![p] = [q \in Peers |->
                       IF q \in r.peers \ {p} THEN [NoDial EXCEPT !.pc = "store"]
                                              ELSE NoDial]]
  BY DEF Registered
<1>2. /\ UNCHANGED <<registry, requests, starts>>
      /\ state[p] = "registering" /\ state'[p] = "connecting"
      /\ \A x \in Peers \ {p} : state'[x] = state[x]
  BY <1>0 DEF Registered, LocalTypes
<1>3. /\ \A s \in requests : s[1] \in Peers
      /\ \A s \in responses : s.to \in Peers
      /\ registry \subseteq Peers
      /\ r.peers \subseteq registry /\ p \notin r.peers /\ p \in registry
  <2>1. r.to \in registry
    BY NoFailureMeans DEF RegistryOK
  <2>2. QED
    BY <1>0, <1>1, <2>1 DEF MessageTypes, JoinedOK, RegistrationOK
<1>4. \A s \in responses' : s.to # p
  BY <1>1 DEF JoinedOK, RegistrationOK
<1>5. \A s \in requests : s[1] # p
  BY <1>3 DEF JoinedOK, RegistrationOK
<1>6. RegistrationOK'
  <2>1. \A s \in requests' : /\ state'[s[1]] = "registering"
                             /\ s[2] = starts'[s[1]]
                             /\ s[1] \notin registry'
    BY <1>2, <1>3, <1>5 DEF JoinedOK, RegistrationOK
  <2>2. /\ \A s \in responses' : /\ state'[s.to] = "registering"
                                 /\ s.start = starts'[s.to]
                                 /\ s.to \notin s.peers
                                 /\ s.peers \subseteq registry'
        /\ \A s1, s2 \in responses' : s1.to = s2.to => s1 = s2
    BY <1>1, <1>2, <1>3, <1>4 DEF JoinedOK, RegistrationOK
  <2>3. \A x \in Peers : state'[x] = "registering" =>
          \/ <<x, starts'[x]>> \in requests'
          \/ \E s \in responses' : s.to = x /\ s.start = starts'[x]
    BY <1>1, <1>2 DEF JoinedOK, RegistrationOK
  <2>4. \A x \in registry' : \/ state'[x] \in {"connecting", "running"}
                             \/ \E s \in responses' : s.to = x
    BY <1>1, <1>2, <1>3 DEF JoinedOK, RegistrationOK
  <2>5. \A x \in Peers : state'[x] # "closing"
    BY <1>2 DEF JoinedOK, RegistrationOK
  <2>6. QED
    BY <2>1, <2>2, <2>3, <2>4, <2>5 DEF RegistrationOK
<1>7. /\ \A x \in Peers \ {p} : dials'[x] = dials[x]
      /\ \A q \in Peers : /\ dials'[p][q].pc \in {"none", "store"}
                          /\ dials'[p][q].pc # "none" <=> q \in r.peers \ {p}
  <2>1. \A x \in Peers \ {p} : dials'[x] = dials[x]
    BY <1>0, <1>1 DEF LocalTypes
  <2>2. ASSUME NEW q \in Peers
        PROVE  dials'[p][q] = IF q \in r.peers \ {p}
                                THEN [NoDial EXCEPT !.pc = "store"] ELSE NoDial
    BY <1>0, <1>1 DEF LocalTypes
  <2>3. QED
    BY <2>1, <2>2 DEF NoDial
<1>8. MeasurementOK'
  BY <1>2, <1>3, <1>7 DEF JoinedOK, MeasurementOK
<1>9. ASSUME NEW x \in registry, NEW y \in registry, Told(x, y)
      PROVE  Told(x, y)'
  <2>1. CASE x = p
    <3>1. dials[p][y].pc = "none"
      BY <1>2, <1>3 DEF PeersOK, PeerOK, DialOK, Joined
    <3>2. y \in r.peers \ {p}
      BY <1>1, <1>3, <1>9, <2>1, <3>1 DEF Told, JoinedOK, RegistrationOK
    <3>3. QED
      BY <1>3, <1>7, <2>1, <3>2 DEF Told
  <2>2. CASE x # p
    BY <1>1, <1>3, <1>7, <1>9, <2>2 DEF Told
  <2>3. QED
    BY <2>1, <2>2
<1>10. QED
  BY <1>2, <1>6, <1>8, <1>9, CutsStay DEF JoinedOK

(* The bootstrap server tells a newcomer of somebody, if there is anybody. *)
LEMMA ToldOfSomebody ==
  ASSUME NEW p, NEW known \in SUBSET Peers, NEW S \in RandomPeers(p, known)
  PROVE  /\ S \subseteq known \ {p}
         /\ known \ {p} # {} => S # {}
<1>1. S \subseteq known \ {p}
  BY DEF RandomPeers
<1>2. IsFiniteSet(known \ {p})
  BY OverlayAssumption, FS_Subset
<1>3. ASSUME known \ {p} # {}
      PROVE  S # {}
  <2>1. Cardinality(known \ {p}) \in Nat \ {0}
    BY <1>2, <1>3, FS_CardinalityType, FS_EmptySet
  <2>2. Cardinality(S) # 0
    BY <2>1, OverlayAssumption DEF RandomPeers
  <2>3. QED
    BY <2>2, FS_EmptySet
<1>4. QED
  BY <1>1, <1>3

(* A newcomer is registered: it is told of somebody, on whichever side of  *)
(* a cut it is itself.                                                     *)
LEMMA JoinRegisterPeer ==
  ASSUME TypeOK, RegistryOK, NoFailure, JoinedOK, NEW r \in requests,
         RegisterPeer(r)
  PROVE  JoinedOK'
<1>0. MessageTypes
  BY SplitTypes
<1> DEFINE p == r[1]
<1>1. p \in Peers /\ registry \subseteq Peers /\ p \notin registry
        /\ state[p] = "registering" /\ r[2] = starts[p] /\ r = <<p, starts[p]>>
  <2>1. p \in Peers /\ registry \subseteq Peers /\ r = <<r[1], r[2]>>
    BY <1>0 DEF MessageTypes
  <2>2. QED
    BY <2>1 DEF JoinedOK, RegistrationOK
<1>2. /\ requests' = requests \ {r} /\ registry' = registry \union {p}
      /\ UNCHANGED <<state, starts, dials>>
  BY DEF RegisterPeer
<1>3. PICK S \in RandomPeers(p, registry') :
        responses' = responses \union {[to |-> p, start |-> r[2], peers |-> S]}
  BY DEF RegisterPeer
<1> DEFINE new == [to |-> p, start |-> r[2], peers |-> S]
<1>4. S \subseteq registry /\ p \notin S /\ (registry # {} => S # {})
  <2>1. registry' \in SUBSET Peers /\ registry' \ {p} = registry
    BY <1>1, <1>2
  <2>2. QED
    BY <2>1, ToldOfSomebody
<1>5. /\ responses' = responses \union {new}
      /\ new.to = p /\ new.start = r[2] /\ new.peers = S
  BY <1>3
<1>6. \A s \in responses : s.to # p
  BY <1>1, NoFailureMeans DEF RegistryOK
<1>7. \A s \in requests \ {r} : s[1] # p
  <2>1. ASSUME NEW s \in requests, s[1] = p
        PROVE  s = r
    <3>1. s = <<s[1], s[2]>>
      BY <1>0 DEF MessageTypes
    <3>2. s[2] = starts[p]
      BY <2>1 DEF JoinedOK, RegistrationOK
    <3>3. QED
      BY <1>1, <2>1, <3>1, <3>2
  <2>2. QED
    BY <2>1
<1> HIDE DEF p, new
<1>8. RegistrationOK'
  <2>1. \A s \in requests' : /\ state'[s[1]] = "registering"
                             /\ s[2] = starts'[s[1]]
                             /\ s[1] \notin registry'
    BY <1>2, <1>7 DEF JoinedOK, RegistrationOK
  <2>2. \A s \in responses' : /\ state'[s.to] = "registering"
                              /\ s.start = starts'[s.to]
                              /\ s.to \notin s.peers
                              /\ s.peers \subseteq registry'
    BY <1>1, <1>2, <1>4, <1>5 DEF JoinedOK, RegistrationOK
  <2>3. \A s1, s2 \in responses' : s1.to = s2.to => s1 = s2
    BY <1>5, <1>6 DEF JoinedOK, RegistrationOK
  <2>4. ASSUME NEW x \in Peers, state'[x] = "registering"
        PROVE  \/ <<x, starts'[x]>> \in requests'
               \/ \E s \in responses' : s.to = x /\ s.start = starts'[x]
    <3>1. CASE x = p
      BY <1>1, <1>2, <1>5, <3>1
    <3>2. CASE x # p
      <4>1. <<x, starts[x]>> # r
        BY <1>1, <3>2
      <4>2. QED
        BY <1>2, <1>5, <2>4, <4>1 DEF JoinedOK, RegistrationOK
    <3>3. QED
      BY <3>1, <3>2
  <2>5. \A x \in registry' : \/ state'[x] \in {"connecting", "running"}
                             \/ \E s \in responses' : s.to = x
    BY <1>2, <1>5 DEF JoinedOK, RegistrationOK
  <2>6. \A x \in Peers : state'[x] # "closing"
    BY <1>2 DEF JoinedOK, RegistrationOK
  <2>7. QED
    BY <2>1, <2>2, <2>3, <2>4, <2>5, <2>6 DEF RegistrationOK
<1>9. MeasurementOK'
  BY <1>2 DEF JoinedOK, MeasurementOK
<1>a. NoCut'
  <2> SUFFICES ASSUME NEW C \in SUBSET registry', C # {}, C # registry'
               PROVE  \E x \in C, y \in registry' \ C : Told(x, y)' \/ Told(y, x)'
    BY DEF NoCut
  <2>1. \A x, y \in registry : Told(x, y) => Told(x, y)'
    BY <1>2, <1>5 DEF Told
  <2>2. \A y \in S : Told(p, y)'
    BY <1>5 DEF Told
  <2>3. CASE C \ {p} # {} /\ C \ {p} # registry
    <3>1. C \ {p} \in SUBSET registry
      BY <1>2
    <3>2. PICK x \in C \ {p}, y \in registry \ (C \ {p}) : Told(x, y) \/ Told(y, x)
      BY <2>3, <3>1 DEF JoinedOK, NoCut
    <3>3. x \in registry /\ y # p /\ y \in registry' \ C
      BY <1>1, <1>2, <3>1, <3>2
    <3>4. QED
      BY <2>1, <3>2, <3>3
  <2>4. CASE C \ {p} = {}
    <3>1. C = {p} /\ registry # {}
      BY <1>2, <2>4
    <3>2. PICK y \in S : TRUE
      BY <1>4, <3>1
    <3>3. y \in registry' \ C /\ p \in C
      BY <1>1, <1>2, <1>4, <3>1, <3>2
    <3>4. QED
      BY <2>2, <3>2, <3>3
  <2>5. CASE C \ {p} = registry
    <3>1. p \notin C /\ C = registry /\ registry # {}
      BY <1>1, <1>2, <2>5
    <3>2. PICK y \in S : TRUE
      BY <1>4, <3>1
    <3>3. y \in C /\ p \in registry' \ C
      BY <1>2, <1>4, <3>1, <3>2
    <3>4. QED
      BY <2>2, <3>2, <3>3
  <2>6. QED
    BY <2>3, <2>4, <2>5
<1>b. QED
  BY <1>8, <1>9, <1>a DEF JoinedOK

(* While nothing fails, no process ends. *)
LEMMA NobodyEnds ==
  ASSUME TypeOK, JoinedOK, failures' = failures, NEW p \in Peers
  PROVE  ~ ExitAction(p) /\ ~ Stop(p) /\ ~ RestartBootstrap
<1>1. failures \in Failures
  BY DEF TypeOK, Failures
<1>2. /\ [failures EXCEPT !.crashes = @ + 1] # failures
      /\ [failures EXCEPT !.timeouts = @ + 1] # failures
      /\ [failures EXCEPT !.stops = @ + 1] # failures
      /\ [failures EXCEPT !.restarts = @ + 1] # failures
  BY <1>1 DEF Failures
<1>3. ~ RegisterTimesOut(p)
  BY <1>2 DEF RegisterTimesOut, JoinedOK, RegistrationOK
<1>4. ~ Close(p)
  BY DEF Close, JoinedOK, RegistrationOK
<1>5. ~ CrashPeer(p) /\ ~ Stop(p) /\ ~ RestartBootstrap
  BY <1>2 DEF CrashPeer, Stop, RestartBootstrap
<1>6. QED
  BY <1>3, <1>4, <1>5 DEF ExitAction

LEMMA NextJoinOK ==
  ASSUME Inv, [Next]_vars
  PROVE  JoinOK'
<1> SUFFICES ASSUME NoFailure'
             PROVE  JoinedOK'
  BY DEF JoinOK, JoinedOK
<1>1. NoFailure /\ failures' = failures
  BY FailuresLast DEF Inv
<1>2. TypeOK /\ PeersOK /\ RegistryOK /\ JoinedOK
  BY <1>1 DEF Inv, JoinOK, JoinedOK
<1>3. ASSUME NEW p \in Peers, PeerAction(p)
      PROVE  JoinedOK'
  <2>1. CASE StartPeer(p) \/ Register(p) \/ Connected(p)
    BY <1>2, <2>1, JoinMainSteps
  <2>2. CASE Registered(p)
    BY <1>1, <1>2, <2>2, JoinRegistered
  <2>3. CASE Stop(p)
    BY <1>1, <1>2, <2>3, NobodyEnds
  <2>4. CASE ReadNodes(p) \/ ReadEdges(p) \/ SendView(p)
    BY <1>2, <2>4, JoinQuietSteps DEF ReadNodes, ReadEdges, SendView, bootstrap
  <2>5. ASSUME NEW q \in Peers,
               \/ StoreConnection(p, q) \/ DialFails(p, q)
               \/ Pinged(p, q) \/ PingFails(p, q)
               \/ AddNode(p, q) \/ AddEdge(p, q)
        PROVE  JoinedOK'
    BY <1>1, <1>2, <2>5, JoinDialSteps
  <2>6. ASSUME NEW q \in Peers, NotifyNewPeer(p, q)
        PROVE  JoinedOK'
    BY <1>2, <2>6, JoinQuietSteps DEF NotifyNewPeer, bootstrap
  <2>7. QED
    BY <1>3, <2>1, <2>2, <2>3, <2>4, <2>5, <2>6 DEF PeerAction
<1>4. ASSUME NEW p \in Peers, ExitAction(p)
      PROVE  JoinedOK'
  BY <1>1, <1>2, <1>4, NobodyEnds
<1>5. ASSUME NEW r \in requests, RegisterPeer(r)
      PROVE  JoinedOK'
  BY <1>1, <1>2, <1>5, JoinRegisterPeer
<1>6. ASSUME RestartBootstrap
      PROVE  JoinedOK'
  <2>1. failures \in Failures
    BY <1>2 DEF TypeOK, Failures
  <2>2. [failures EXCEPT !.restarts = @ + 1] # failures
    BY <2>1 DEF Failures
  <2>3. QED
    BY <1>1, <1>6, <2>2 DEF RestartBootstrap
<1>7. CASE UNCHANGED vars
  BY <1>2, <1>7, JoinQuietSteps DEF vars, bootstrap
<1>8. QED
  BY <1>3, <1>4, <1>5, <1>6, <1>7, StepIsAnAction

LEMMA InitInv == Init => Inv
<1> SUFFICES ASSUME Init
             PROVE  Inv
  OBVIOUS
<1>1. LocalTypes
  BY OverlayAssumption, Constants DEF Init, LocalTypes, PingTimeout
<1>2. MessageTypes
  BY DEF Init, MessageTypes
<1>3. PeersOK
  BY DEF Init, PeersOK, PeerOK, DialOK, NoDial, NoView, Joined, NumPings, PingTimeout
<1>4. RegistryOK
  BY DEF Init, RegistryOK, Joined
<1>5. RegistrationOK
  BY DEF Init, RegistrationOK
<1>6. MeasurementOK
  BY DEF Init, MeasurementOK, NoDial
<1>7. NoCut
  BY DEF Init, NoCut
<1>8. QED
  BY <1>1, <1>2, <1>3, <1>4, <1>5, <1>6, <1>7, SplitTypes DEF Inv, JoinOK

(* What a peer knows, what the registry lists and who was told of whom is  *)
(* in order in every state (peer.go:183-310, main.go:37-103).              *)
THEOREM Invariance == Spec => []Inv
<1>1. Init => Inv
  BY InitInv
<1>2. Inv /\ [Next]_vars => Inv'
  BY NextPeersOK, NextRegistryOK, NextJoinOK DEF Inv
<1>3. QED
  BY <1>1, <1>2, PTL DEF Spec

(* Every peer's state has its type: a latency is between 1ms and the       *)
(* timeout of a ping (peer.go:270-310).                                    *)
THEOREM TypeCorrect == Spec => []TypeOK
<1>1. Inv => TypeOK
  BY DEF Inv
<1>2. QED
  BY <1>1, Invariance, PTL

(* An edge joins two nodes over a connection, and once main goes on every  *)
(* peer with a connection is a node, with an edge if its pings were        *)
(* answered (peer.go:229-264).                                             *)
THEOREM GraphsMatchConnections == Spec => []GraphMatchesConnections
<1>1. ASSUME Inv, NEW p \in Peers
      PROVE  /\ \A q \in Peers :
                  latency[p][q] > 0 =>
                    {p, q} \subseteq nodes[p] /\ q \in connections[p] \ {p}
             /\ state[p] = "running" =>
                  /\ connections[p] \subseteq nodes[p]
                  /\ \A q \in connections[p] :
                       dials[p][q].pings = NumPings => latency[p][q] > 0
  <2>1. PeerOK(p, state[p], starts[p], dials[p], connections[p], nodes[p],
               latency[p], views[p])
    BY <1>1 DEF Inv, PeersOK
  <2>2. connections[p] \subseteq Peers
    BY <1>1 DEF Inv, TypeOK
  <2>3. QED
    BY <2>1, <2>2 DEF PeerOK, DialOK
<1>2. Inv => GraphMatchesConnections
  BY <1>1 DEF GraphMatchesConnections
<1>3. QED
  BY <1>2, Invariance, PTL

(* All that GetNetworkGraph's answer says is still true when it is sent    *)
(* (peer.go:361-388).                                                      *)
THEOREM ViewsAreTrue == Spec => []ViewIsTrue
<1>1. ASSUME Inv, NEW p \in Peers
      PROVE  /\ views[p].nodes \subseteq nodes[p]
             /\ \A e \in views[p].edges :
                  e[1] = p /\ latency[p][e[2]] > 0 /\ {p, e[2]} \subseteq nodes[p]
  <2>1. PeerOK(p, state[p], starts[p], dials[p], connections[p], nodes[p],
               latency[p], views[p])
    BY <1>1 DEF Inv, PeersOK
  <2>2. QED
    BY <2>1 DEF PeerOK, DialOK
<1>2. Inv => ViewIsTrue
  BY <1>1 DEF ViewIsTrue
<1>3. QED
  BY <1>2, Invariance, PTL

(* GetPeers with room for all returns every peer that has joined, as long  *)
(* as the bootstrap server lives (main.go:38-81).                          *)
THEOREM GetPeersFindsThem == Spec => []GetPeersFindsLivePeers
<1>1. ASSUME Inv, failures.restarts = 0,
             NEW S \in GetPeers(Cardinality(Peers)), NEW p \in Peers,
             state[p] \in {"connecting", "running", "closing"}
      PROVE  p \in S
  <2>1. p \in registry /\ registry \subseteq Peers
    BY <1>1 DEF Inv, RegistryOK, Joined, TypeOK
  <2>2. /\ IsFiniteSet(Peers) /\ IsFiniteSet(registry)
        /\ Cardinality(registry) \in Nat /\ Cardinality(Peers) \in Nat
        /\ Cardinality(registry) <= Cardinality(Peers)
    BY <2>1, OverlayAssumption, FS_Subset, FS_CardinalityType
  <2>3. Cardinality(registry) # 0
    BY <2>1, <2>2, FS_EmptySet
  <2>4. S \subseteq registry /\ Cardinality(S) = Cardinality(registry)
    BY <1>1, <2>2, <2>3 DEF GetPeers
  <2>5. S = registry
    BY <2>2, <2>4, FS_Subset
  <2>6. QED
    BY <2>1, <2>5
<1>2. Inv => GetPeersFindsLivePeers
  BY <1>1 DEF GetPeersFindsLivePeers
<1>3. QED
  BY <1>2, Invariance, PTL

(* Peers that join in any order form one network, as long as nothing fails,*)
(* even if each is told of one other only (main.go:38-58, 84-103).         *)
THEOREM OverlayAlwaysConnected == Spec => []OverlayIsConnected
<1>1. ASSUME Inv, Settled, NoFailure
      PROVE  \A S \in (SUBSET {p \in Peers : state[p] = "running"})
                        \ {{}, {p \in Peers : state[p] = "running"}} :
               \E p \in S, q \in {x \in Peers : state[x] = "running"} \ S : Linked(p, q)
  <2>1. RegistrationOK /\ MeasurementOK /\ NoCut
    BY <1>1 DEF Inv, JoinOK
  <2>2. {p \in Peers : state[p] = "running"} = registry
    <3>1. registry \subseteq Peers
      BY <1>1 DEF Inv, TypeOK
    <3>2. \A p \in registry : state[p] = "running"
      BY <1>1, <2>1, <3>1 DEF Settled, RegistrationOK
    <3>3. \A p \in Peers : state[p] = "running" => p \in registry
      BY <1>1, NoFailureMeans DEF Inv, RegistryOK, Joined
    <3>4. QED
      BY <3>1, <3>2, <3>3
  <2>3. ASSUME NEW p \in registry, NEW q \in registry, Told(p, q)
        PROVE  latency[p][q] > 0
    <3>1. p \in Peers /\ q \in Peers /\ state[p] = "running"
      BY <2>2
    <3>2. dials[p][q].pc # "none"
      BY <1>1, <2>3 DEF Told, Settled
    <3>3. DialOK(p, q, state[p], dials[p][q], connections[p], nodes[p], latency[p][q])
      BY <1>1, <3>1 DEF Inv, PeersOK, PeerOK
    <3>4. dials[p][q].pc = "done" /\ dials[p][q].pings = NumPings
      BY <2>1, <3>1, <3>2, <3>3 DEF DialOK, MeasurementOK
    <3>5. QED
      BY <3>3, <3>4 DEF DialOK
  <2>4. \A S \in (SUBSET registry) \ {{}, registry} :
          \E p \in S, q \in registry \ S : Linked(p, q)
    BY <2>1, <2>3 DEF NoCut, Linked
  <2>5. QED
    BY <2>2, <2>4
<1>2. Inv => OverlayIsConnected
  BY <1>1 DEF OverlayIsConnected
<1>3. QED
  BY <1>2, Invariance, PTL

(* A living peer's graph loses no node, and no edge's latency changes      *)
(* (peer.go:53-74, 257-261).                                               *)
THEOREM GraphsOnlyGrow == Spec => GraphOnlyGrows
<1> DEFINE Grows(x) == /\ nodes[x] \subseteq nodes'[x]
                       /\ \A y \in Peers : latency[x][y] > 0 =>
                            latency'[x][y] = latency[x][y]
<1>1. ASSUME Inv, NEW p \in Peers, PeerAction(p)
      PROVE  \A x \in Peers : Grows(x)
  <2>0. LocalTypes
    BY <1>1, SplitTypes DEF Inv
  <2>1. CASE Registered(p)
    BY <2>0, <2>1 DEF Registered, LocalTypes
  <2>2. ASSUME NEW q \in Peers, AddNode(p, q) \/ NotifyNewPeer(p, q)
        PROVE  \A x \in Peers : Grows(x)
    BY <2>0, <2>2 DEF AddNode, NotifyNewPeer, LocalTypes
  <2>3. ASSUME NEW q \in Peers, AddEdge(p, q)
        PROVE  \A x \in Peers : Grows(x)
    <3>1. ~ (latency[p][q] > 0)
      BY <1>1, <2>3 DEF Inv, PeersOK, PeerOK, DialOK, AddEdge, At
    <3>2. /\ nodes' = nodes
          /\ \A x, y \in Peers : ~ (x = p /\ y = q) => latency'[x][y] = latency[x][y]
      BY <2>0, <2>3 DEF AddEdge, LocalTypes
    <3>3. QED
      BY <3>1, <3>2
  <2>4. CASE UNCHANGED graph
    BY <2>4 DEF graph
  <2>5. QED
    BY <1>1, <2>1, <2>2, <2>3, <2>4 DEF PeerAction, StartPeer, Register, Connected, Stop,
      ReadNodes, ReadEdges, SendView, StoreConnection, DialFails, Pinged, PingFails
<1>2. ASSUME Inv, NEW p \in Peers, ExitAction(p)
      PROVE  \A x \in Peers : state'[x] # "down" => Grows(x)
  <2>1. LocalTypes /\ Exit(p)
    BY <1>2, SplitTypes DEF Inv, ExitAction, RegisterTimesOut, Close, CrashPeer
  <2>2. state'[p] = "down"
    BY <2>1 DEF Exit, LocalTypes
  <2>3. \A x \in Peers \ {p} : nodes'[x] = nodes[x] /\ latency'[x] = latency[x]
    BY <2>1 DEF Exit, LocalTypes
  <2>4. QED
    BY <2>2, <2>3
<1>3. ASSUME \/ \E r \in requests : RegisterPeer(r)
             \/ RestartBootstrap
             \/ UNCHANGED vars
      PROVE  \A x \in Peers : Grows(x)
  BY <1>3 DEF RegisterPeer, RestartBootstrap, vars, graph
<1>4. Inv /\ [Next]_vars => \A x \in Peers : state'[x] # "down" => Grows(x)
  BY <1>1, <1>2, <1>3, StepIsAnAction
<1>5. Inv /\ [Next]_vars =>
        [\A p \in Peers : state[p] # "down" /\ state'[p] # "down" =>
           /\ nodes[p] \subseteq nodes'[p]
           /\ \A q \in Peers : latency[p][q] > 0 => latency'[p][q] = latency[p][q]]_vars
  BY <1>4
<1>6. QED
  BY <1>5, Invariance, PTL DEF Spec, GraphOnlyGrows
=============================================================================
