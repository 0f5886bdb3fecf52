--------------------------- MODULE DijkstraProofs ---------------------------
(***************************************************************************)
(* Proofs about Dijkstra, for every graph, every latency and every pair of *)
(* endpoints.  The theorems suppose that no peer has the ID -1: with such  *)
(* a peer they are false (MCDijkstraMinusOne.cfg).                         *)
(***************************************************************************)
EXTENDS Dijkstra, Induction, TLAPS

(* What TypeOK and the assumptions say of the values the proofs handle. *)
LEMMA TypeFacts ==
  ASSUME TypeOK
  PROVE  /\ \A n \in nodes : distances[n] = Inf \/ distances[n] \in Nat
         /\ \A e \in DOMAIN edges : /\ e \in Links
                                    /\ e = <<e[1], e[2]>>
                                    /\ e[1] # e[2]
                                    /\ edges[e] \in Nat \ {0}
         /\ unvisited \subseteq nodes
         /\ Inf \notin Int
<1>1. \A n \in nodes : distances[n] = Inf \/ distances[n] \in Nat
  BY DEF TypeOK, Distance
<1>2. PICK E \in SUBSET Links : edges \in [E -> Latencies]
  BY DEF TypeOK, Graphs
<1>3. \A e \in DOMAIN edges : e \in Links /\ edges[e] \in Nat \ {0}
  BY <1>2, GraphAssumption
<1>4. \A e \in Links : e = <<e[1], e[2]>> /\ e[1] # e[2]
  BY GraphAssumption
<1> QED
  BY <1>1, <1>3, <1>4, InfAssumption DEF TypeOK

(* The initial state: nothing is settled, nothing is reached. *)
LEMMA InitInv ==
  Init => DijkstraInv
<1> SUFFICES ASSUME Init PROVE DijkstraInv
  OBVIOUS
<1>1. TypeOK
  <2>1. << >> \in Seq(nodes)
    OBVIOUS
  <2> QED
    BY <2>1 DEF Init, TypeOK, Distance
<1>2. settled = {}
  BY DEF Init, settled
<1>3. EndpointsInPlace /\ WalkFollowsPrevious /\ MapsFilled
  BY DEF Init, MapsFilled, EndpointsInPlace, WalkFollowsPrevious
<1>4. ReachedByAnEdge
  BY DEF Init, ReachedByAnEdge
<1>5. SettledIsRelaxed /\ SettledIsCloser
  BY <1>2 DEF SettledIsRelaxed, SettledIsCloser
<1> QED
  BY <1>1, <1>3, <1>4, <1>5 DEF DijkstraInv

(* CheckEndpoints puts Source at distance 0; everything else stays as the  *)
(* maps were filled, with nothing settled.                                 *)
LEMMA CheckEndpointsInv ==
  ASSUME DijkstraInv, CheckEndpoints
  PROVE  DijkstraInv'
<1> USE DEF DijkstraInv
<1>0. pc = "check" /\ pc' # "check"
  BY DEF CheckEndpoints
<1>1. TypeOK'
  BY DEF CheckEndpoints, TypeOK, Distance, snapshot
<1>2. /\ settled' = {}
      /\ \A n \in nodes' : distances'[n] # Inf => n = Source
  BY <1>0 DEF CheckEndpoints, MapsFilled, settled, snapshot, TypeOK
<1>3. MapsFilled' /\ SettledIsRelaxed' /\ SettledIsCloser'
  BY <1>0, <1>2 DEF MapsFilled, SettledIsRelaxed, SettledIsCloser
<1>4. EndpointsInPlace'
  BY <1>0, EndpointsAssumption
  DEF CheckEndpoints, EndpointsInPlace, MapsFilled, snapshot, TypeOK
<1>5. ReachedByAnEdge'
  BY <1>2 DEF ReachedByAnEdge
<1>6. WalkFollowsPrevious'
  BY DEF CheckEndpoints, WalkFollowsPrevious
<1> QED
  BY <1>1, <1>3, <1>4, <1>5, <1>6

(* What one iteration of the main loop does to the maps: a distance only   *)
(* gets smaller, never below that of the node being settled, and neither   *)
(* a settled node nor Source is touched.                                   *)
LEMMA SettleMaps ==
  ASSUME DijkstraInv, NEW n \in nodes, Settle(n)
  PROVE  /\ n \in unvisited /\ n # Target /\ n # NoPeer
         /\ distances[n] \in Nat
         /\ settled' = settled \union {n}
         /\ nodes' = nodes /\ edges' = edges /\ pc' = pc /\ pc = "scan"
         /\ current' = current /\ path' = path
         /\ unvisited' = unvisited \ {n}
         /\ \A m \in nodes :
              \/ /\ Relaxes(n, m)
                 /\ distances'[m] = distances[n] + edges[<<n, m>>]
                 /\ distances'[m] \in Nat
                 /\ distances[n] < distances'[m]
                 /\ previous'[m] = n
                 /\ m # Source
              \/ /\ ~ Relaxes(n, m)
                 /\ distances'[m] = distances[m]
                 /\ previous'[m] = previous[m]
         /\ distances' \in [nodes -> Distance]
         /\ previous' \in [nodes -> nodes \union {NoPeer}]
<1> USE DEF DijkstraInv
<1>1. /\ n \in unvisited /\ n # Target /\ n # NoPeer
      /\ distances[n] # Inf
      /\ unvisited' = unvisited \ {n}
      /\ nodes' = nodes /\ edges' = edges /\ pc' = pc /\ pc = "scan"
      /\ current' = current /\ path' = path
  BY DEF Settle, Closest, snapshot
<1>2. distances[n] \in Nat
  BY <1>1, TypeFacts
<1>3. settled' = settled \union {n}
  BY <1>1 DEF settled
<1>4. ASSUME NEW m \in nodes, Relaxes(n, m)
      PROVE  /\ distances'[m] = distances[n] + edges[<<n, m>>]
             /\ distances'[m] \in Nat
             /\ distances[n] < distances'[m]
             /\ previous'[m] = n
             /\ m # Source
  <2>1. distances'[m] = distances[n] + edges[<<n, m>>] /\ previous'[m] = n
    BY <1>4 DEF Settle
  <2>2. edges[<<n, m>>] \in Nat \ {0}
    BY <1>4, TypeFacts DEF Relaxes
  <2>3. m # Source
    BY <1>1, <1>2, <1>4, <2>2, TypeFacts
    DEF Relaxes, Closer, EndpointsInPlace
  <2> QED
    BY <2>1, <2>2, <2>3, <1>2
<1>5. ASSUME NEW m \in nodes, ~ Relaxes(n, m)
      PROVE  distances'[m] = distances[m] /\ previous'[m] = previous[m]
  BY <1>5 DEF Settle
<1>6. distances' \in [nodes -> Distance]
  <2>1. distances' = [m \in nodes |-> distances'[m]]
    BY DEF Settle
  <2>2. \A m \in nodes : distances'[m] \in Distance
    BY <1>4, <1>5 DEF TypeOK, Distance
  <2> QED
    BY <2>1, <2>2
<1>7. previous' \in [nodes -> nodes \union {NoPeer}]
  BY DEF Settle, TypeOK
<1> QED
  BY <1>1, <1>2, <1>3, <1>4, <1>5, <1>6, <1>7

(* The five parts of the invariant after one iteration of the main loop. *)
LEMMA SettleInv ==
  ASSUME DijkstraInv, NEW n \in nodes, Settle(n)
  PROVE  DijkstraInv'
<1> USE SettleMaps DEF DijkstraInv
<1>1. TypeOK'
  <2>1. settled' \subseteq nodes'
    BY DEF settled
  <2> QED
    BY <2>1 DEF TypeOK
<1>2. MapsFilled'
  BY DEF MapsFilled
<1>3. EndpointsInPlace'
  BY DEF EndpointsInPlace
<1>4. \A s \in settled : s \in nodes /\ ~ Relaxes(n, s)
                        /\ distances'[s] = distances[s]
  BY DEF settled, Relaxes
<1>5. ~ Relaxes(n, n) /\ distances'[n] = distances[n]
  BY DEF Relaxes
<1>6. ReachedByAnEdge'
  <2> SUFFICES ASSUME NEW m \in nodes, distances'[m] # Inf, m # Source
               PROVE  /\ previous'[m] \in settled'
                      /\ <<previous'[m], m>> \in DOMAIN edges
                      /\ distances'[m] = distances'[previous'[m]]
                                          + edges[<<previous'[m], m>>]
    BY DEF ReachedByAnEdge
  <2>1. CASE Relaxes(n, m)
    <3>1. previous'[m] = n /\ distances'[m] = distances[n] + edges[<<n, m>>]
      BY <2>1
    <3>2. <<n, m>> \in DOMAIN edges
      BY <2>1 DEF Relaxes
    <3> QED
      BY <3>1, <3>2, <1>5
  <2>2. CASE ~ Relaxes(n, m)
    <3>1. previous'[m] = previous[m] /\ distances'[m] = distances[m]
      BY <2>2
    <3>2. /\ previous[m] \in settled
          /\ <<previous[m], m>> \in DOMAIN edges
          /\ distances[m] = distances[previous[m]] + edges[<<previous[m], m>>]
      BY <3>1 DEF ReachedByAnEdge
    <3> QED
      BY <3>1, <3>2, <1>4
  <2> QED
    BY <2>1, <2>2
<1>7. SettledIsRelaxed'
  <2> SUFFICES ASSUME NEW s \in settled'
               PROVE  /\ distances'[s] # Inf
                      /\ \A m \in nodes : <<s, m>> \in DOMAIN edges =>
                           ~ Closer(distances'[s] + edges[<<s, m>>],
                                    distances'[m])
    BY DEF SettledIsRelaxed
  <2>1. distances'[s] # Inf
    BY <1>4, <1>5, InfAssumption DEF SettledIsRelaxed
  <2> SUFFICES ASSUME NEW m \in nodes, <<s, m>> \in DOMAIN edges
               PROVE  ~ Closer(distances'[s] + edges[<<s, m>>], distances'[m])
    BY <2>1
  <2>2. edges[<<s, m>>] \in Nat \ {0} /\ s # m
    BY TypeFacts
  <2>3. CASE s = n
    <3>1. CASE Relaxes(n, m)
      BY <2>3, <3>1, <1>5, <2>2 DEF Closer
    <3>2. CASE ~ Relaxes(n, m) /\ m \in unvisited
      BY <2>3, <3>2, <1>5, <2>2 DEF Relaxes
    <3>3. CASE m \in settled
      <4>1. ~ Closer(distances[n], distances[m])
        BY <3>3 DEF SettledIsCloser
      <4> QED
        BY <4>1, <3>3, <2>3, <1>4, <1>5, <2>2, TypeFacts DEF Closer
    <3> QED
      BY <3>1, <3>2, <3>3 DEF settled
  <2>4. CASE s \in settled
    <3>1. ~ Closer(distances[s] + edges[<<s, m>>], distances[m])
      BY <2>4 DEF SettledIsRelaxed
    <3>2. distances[s] # Inf
      BY <2>4 DEF SettledIsRelaxed
    <3>3. distances[s] \in Nat /\ distances'[s] = distances[s]
      BY <3>2, <2>4, <1>4, TypeFacts
    <3>4. CASE Relaxes(n, m)
      BY <3>1, <3>3, <3>4, <2>2, TypeFacts DEF Closer, Relaxes
    <3>5. CASE ~ Relaxes(n, m)
      BY <3>1, <3>3, <3>5
    <3> QED
      BY <3>4, <3>5
  <2> QED
    BY <2>3, <2>4
<1>8. SettledIsCloser'
  <2> SUFFICES ASSUME NEW s \in settled', NEW m \in unvisited'
               PROVE  ~ Closer(distances'[m], distances'[s])
    BY DEF SettledIsCloser
  <2>0. m \in nodes /\ m \in unvisited
    BY TypeFacts
  <2>1. ~ Closer(distances[m], distances[s]) /\ ~ Closer(distances[n], distances[s])
    <3>1. CASE s \in settled
      BY <3>1, <2>0 DEF SettledIsCloser
    <3>2. CASE s = n
      BY <3>2, <2>0 DEF Settle, Closest, Closer
    <3> QED
      BY <3>1, <3>2
  <2>2. distances'[s] = distances[s] /\ distances[s] \in Nat
    BY <1>4, <1>5, TypeFacts DEF SettledIsRelaxed
  <2>3. CASE Relaxes(n, m)
    <3>1. /\ distances'[m] \in Nat /\ distances[n] \in Nat
          /\ distances[n] < distances'[m]
      BY <2>0, <2>3
    <3> QED
      BY <3>1, <2>1, <2>2, InfAssumption DEF Closer
  <2>4. CASE ~ Relaxes(n, m)
    BY <2>0, <2>1, <2>2, <2>4
  <2> QED
    BY <2>3, <2>4
<1>9. WalkFollowsPrevious'
  BY DEF WalkFollowsPrevious
<1> QED
  BY <1>1, <1>2, <1>3, <1>6, <1>7, <1>8, <1>9

(* The loop ends at Target, unless nothing unvisited is reachable. *)
LEMMA StopScanInv ==
  ASSUME NoPeer \notin PeerIDs, DijkstraInv, StopScan
  PROVE  DijkstraInv'
<1> USE DEF DijkstraInv
<1>1. /\ pc = "scan" /\ Target \in unvisited
      /\ UNCHANGED <<nodes, edges, distances, previous, unvisited, path>>
      /\ NoPeer \notin nodes
  BY DEF StopScan, snapshot, EndpointsInPlace, TypeOK
<1>2. CASE distances[Target] = Inf
  <2>1. \A n \in unvisited : distances[n] = Inf
    BY <1>1, <1>2 DEF StopScan, Closest, TypeOK
  <2> QED
    BY <1>1, <1>2, <2>1
    DEF StopScan, TypeOK, MapsFilled, EndpointsInPlace, ReachedByAnEdge,
        SettledIsRelaxed, SettledIsCloser, WalkFollowsPrevious, settled, Closer
<1>3. CASE distances[Target] # Inf
  <2>1. Target \in Closest
    BY <1>1, <1>3 DEF StopScan, Closest, TypeOK
  <2> QED
    BY <1>1, <1>3, <2>1
    DEF StopScan, TypeOK, MapsFilled, EndpointsInPlace, ReachedByAnEdge,
        SettledIsRelaxed, SettledIsCloser, WalkFollowsPrevious, settled,
        Closer, Closest
<1> QED
  BY <1>2, <1>3

(* One iteration of the walk prepends the predecessor chain's next peer.   *)
LEMMA WalkBackInv ==
  ASSUME NoPeer \notin PeerIDs, DijkstraInv, WalkBack
  PROVE  DijkstraInv'
<1> USE DEF DijkstraInv
<1>1. /\ pc = "walk"
      /\ UNCHANGED <<nodes, edges, distances, previous, unvisited>>
      /\ NoPeer \notin nodes /\ Target \in nodes /\ Source \in nodes
      /\ previous[Source] = NoPeer
      /\ path \in Seq(nodes)
      /\ current \in nodes \union {NoPeer}
  BY DEF WalkBack, snapshot, EndpointsInPlace, TypeOK
<1>2. CASE current = NoPeer
  <2>1. pc' = "done" /\ UNCHANGED <<current, path>>
    BY <1>2 DEF WalkBack
  <2>2. WalkFollowsPrevious'
    BY <1>1, <1>2, <2>1 DEF WalkFollowsPrevious
  <2> QED
    BY <1>1, <2>1, <2>2
    DEF TypeOK, MapsFilled, EndpointsInPlace, ReachedByAnEdge,
        SettledIsRelaxed, SettledIsCloser, settled
<1>3. CASE current # NoPeer
  <2>1. /\ path' = <<current>> \o path
        /\ current' = previous[current]
        /\ pc' = pc
        /\ current \in nodes
    BY <1>1, <1>3 DEF WalkBack
  <2>2. /\ path' \in Seq(nodes)
        /\ Len(path') = Len(path) + 1
        /\ path'[1] = current
        /\ \A i \in 1 .. Len(path) : path'[i + 1] = path[i]
    BY <1>1, <2>1
  <2>3. TypeOK'
    BY <1>1, <2>1, <2>2 DEF TypeOK
  <2>4. distances[current] # Inf
    <3>1. CASE path = << >>
      BY <1>1, <3>1 DEF WalkFollowsPrevious
    <3>2. CASE path # << >>
      <4>1. /\ path[1] \in nodes /\ distances[path[1]] # Inf
            /\ current = previous[path[1]]
        BY <1>1, <3>2 DEF WalkFollowsPrevious
      <4>2. path[1] # Source
        BY <4>1, <1>1, <1>3
      <4> QED
        BY <4>1, <4>2 DEF ReachedByAnEdge, SettledIsRelaxed
    <3> QED
      BY <3>1, <3>2
  <2>5. \A i \in 1 .. Len(path') : distances[path'[i]] # Inf
    <3> SUFFICES ASSUME NEW i \in 1 .. Len(path')
                 PROVE  distances[path'[i]] # Inf
      OBVIOUS
    <3>1. CASE i = 1
      BY <3>1, <2>2, <2>4
    <3>2. CASE i # 1
      <4>1. i - 1 \in 1 .. Len(path) /\ i = (i - 1) + 1
        BY <3>2, <2>2, <1>1
      <4>2. path'[i] = path[i - 1]
        BY <4>1, <2>2
      <4> QED
        BY <4>1, <4>2, <1>1 DEF WalkFollowsPrevious
    <3> QED
      BY <3>1, <3>2
  <2>6. \A i \in 1 .. Len(path') - 1 : path'[i] = previous[path'[i + 1]]
    <3> SUFFICES ASSUME NEW i \in 1 .. Len(path') - 1
                 PROVE  path'[i] = previous[path'[i + 1]]
      OBVIOUS
    <3>1. i \in 1 .. Len(path) /\ path'[i + 1] = path[i] /\ path # << >>
      BY <2>2, <1>1
    <3>2. CASE i = 1
      BY <3>1, <3>2, <1>1, <2>2 DEF WalkFollowsPrevious
    <3>3. CASE i # 1
      <4>1. /\ i - 1 \in 1 .. Len(path) - 1
            /\ i = (i - 1) + 1
            /\ i - 1 \in 1 .. Len(path)
        BY <3>1, <3>3, <1>1
      <4>2. path'[i] = path[i - 1]
        BY <4>1, <2>2
      <4>3. path[i - 1] = previous[path[(i - 1) + 1]]
        BY <4>1, <1>1 DEF WalkFollowsPrevious
      <4> QED
        BY <3>1, <4>1, <4>2, <4>3
    <3> QED
      BY <3>2, <3>3
  <2>7. path' # << >> /\ path'[Len(path')] = Target
    <3>1. CASE path = << >>
      <4>1. Len(path') = 1 /\ path'[1] = current
        BY <3>1, <2>2
      <4>2. current = Target
        BY <3>1, <1>1 DEF WalkFollowsPrevious
      <4>3. path' # << >>
        BY <4>1
      <4> QED
        BY <4>1, <4>2, <4>3
    <3>2. CASE path # << >>
      <4>1. Len(path) \in 1 .. Len(path)
        BY <3>2, <1>1
      <4> QED
        BY <4>1, <3>2, <1>1, <2>2 DEF WalkFollowsPrevious
    <3> QED
      BY <3>1, <3>2
  <2>8. WalkFollowsPrevious'
    BY <1>1, <2>1, <2>2, <2>5, <2>6, <2>7 DEF WalkFollowsPrevious
  <2> QED
    BY <1>1, <2>1, <2>3, <2>8
    DEF MapsFilled, EndpointsInPlace, ReachedByAnEdge,
        SettledIsRelaxed, SettledIsCloser, settled
<1> QED
  BY <1>2, <1>3

-----------------------------------------------------------------------------

(* In every reachable state of a call, on every graph without a peer -1,   *)
(* the maps of dijkstra satisfy the inductive invariant (dijkstra.go:      *)
(* 67-150).                                                                *)
THEOREM Invariance ==
  ASSUME NoPeer \notin PeerIDs
  PROVE  Spec => []DijkstraInv
<1>1. DijkstraInv /\ [Next]_vars => DijkstraInv'
  <2> SUFFICES ASSUME DijkstraInv, [Next]_vars
               PROVE  DijkstraInv'
    OBVIOUS
  <2>1. CASE CheckEndpoints
    BY <2>1, CheckEndpointsInv
  <2>2. CASE \E n \in nodes : Settle(n)
    BY <2>2, SettleInv
  <2>3. CASE StopScan
    BY <2>3, StopScanInv
  <2>4. CASE WalkBack
    BY <2>4, WalkBackInv
  <2>5. CASE UNCHANGED vars
    BY <2>5
    DEF vars, DijkstraInv, TypeOK, MapsFilled, EndpointsInPlace,
        ReachedByAnEdge, SettledIsRelaxed, SettledIsCloser,
        WalkFollowsPrevious, settled
  <2> QED
    BY <2>1, <2>2, <2>3, <2>4, <2>5 DEF Next
<1> QED
  BY <1>1, InitInv, PTL DEF Spec

(* The types of the call's variables, for every graph (TypeOK).            *)
THEOREM TypeCorrect ==
  ASSUME NoPeer \notin PeerIDs
  PROVE  Spec => []TypeOK
<1>1. DijkstraInv => TypeOK
  BY DEF DijkstraInv
<1> QED
  BY <1>1, Invariance, PTL

(* The walk back from Target has come to Source, over edges that account   *)
(* for the distances.                                                      *)
LEMMA PathIsAccountedFor ==
  ASSUME NoPeer \notin PeerIDs, DijkstraInv, pc = "done"
  PROVE  /\ RouteIsComplete
         /\ \A i \in 1 .. Len(path) - 1 :
              /\ <<path[i], path[i + 1]>> \in DOMAIN edges
              /\ distances[path[i + 1]] =
                   distances[path[i]] + edges[<<path[i], path[i + 1]>>]
<1> USE DEF DijkstraInv
<1>1. /\ path \in Seq(nodes) /\ path # << >>
      /\ NoPeer \notin nodes /\ current = NoPeer
      /\ current = previous[path[1]] /\ path[Len(path)] = Target
      /\ previous[Source] = NoPeer
  BY DEF WalkFollowsPrevious, TypeOK, EndpointsInPlace
<1>2. path[1] = Source
  <2>1. path[1] \in nodes /\ distances[path[1]] # Inf
    BY <1>1 DEF WalkFollowsPrevious
  <2> QED
    BY <1>1, <2>1 DEF ReachedByAnEdge, settled
<1>3. ASSUME NEW i \in 1 .. Len(path) - 1
      PROVE  /\ <<path[i], path[i + 1]>> \in DOMAIN edges
             /\ distances[path[i + 1]] =
                  distances[path[i]] + edges[<<path[i], path[i + 1]>>]
  <2>1. /\ path[i] \in nodes /\ path[i + 1] \in nodes
        /\ i + 1 \in 1 .. Len(path)
    BY <1>1
  <2>2. path[i] = previous[path[i + 1]] /\ distances[path[i + 1]] # Inf
    BY <2>1 DEF WalkFollowsPrevious
  <2>3. path[i + 1] # Source
    BY <1>1, <2>1, <2>2
  <2> QED
    BY <2>1, <2>2, <2>3 DEF ReachedByAnEdge
<1> QED
  BY <1>1, <1>2, <1>3 DEF RouteIsComplete

(* Potential is a feasible potential when a route is returned: it grows by *)
(* at most an edge's latency along every edge.                             *)
LEMMA PotentialIsFeasible ==
  ASSUME NoPeer \notin PeerIDs, DijkstraInv, pc = "done"
  PROVE  /\ Potential(Source) = 0
         /\ Potential(Target) = distances[Target]
         /\ \A e \in DOMAIN edges : {e[1], e[2]} \subseteq nodes =>
              Potential(e[2]) <= Potential(e[1]) + edges[e]
<1> USE DEF DijkstraInv
<1>1. /\ Source \in nodes /\ distances[Source] = 0 /\ previous[Source] = NoPeer
      /\ Target \in nodes /\ Target \in unvisited
      /\ distances[Target] \in Nat
      /\ \A n \in unvisited : ~ Closer(distances[n], distances[Target])
  BY TypeFacts DEF WalkFollowsPrevious, EndpointsInPlace
<1>2. distances[Target] # 0
  <2>1. /\ previous[Target] \in settled
        /\ <<previous[Target], Target>> \in DOMAIN edges
        /\ distances[Target] = distances[previous[Target]]
                               + edges[<<previous[Target], Target>>]
    BY <1>1, EndpointsAssumption, InfAssumption DEF ReachedByAnEdge
  <2>2. distances[previous[Target]] \in Nat
    BY <2>1, TypeFacts DEF SettledIsRelaxed, settled
  <2> QED
    BY <2>1, <2>2, TypeFacts
<1>3. Potential(Source) = 0 /\ Potential(Target) = distances[Target]
  BY <1>1, <1>2, InfAssumption DEF Potential, Closer
<1>4. \A n : Potential(n) \in Nat /\ Potential(n) <= distances[Target]
  BY <1>1, TypeFacts DEF Potential, Closer
<1>5. ASSUME NEW e \in DOMAIN edges, {e[1], e[2]} \subseteq nodes
      PROVE  Potential(e[2]) <= Potential(e[1]) + edges[e]
  <2>1. e = <<e[1], e[2]>> /\ edges[e] \in Nat \ {0}
    BY TypeFacts
  <2>2. CASE Potential(e[1]) = distances[Target]
    BY <2>1, <2>2, <1>1, <1>4
  <2>3. CASE Potential(e[1]) # distances[Target]
    <3>1. /\ Closer(distances[e[1]], distances[Target])
          /\ Potential(e[1]) = distances[e[1]]
      BY <2>3 DEF Potential
    <3>2. e[1] \in settled /\ distances[e[1]] \in Nat
      BY <3>1, <1>1, <1>5, TypeFacts DEF settled, Closer
    <3>3. ~ Closer(distances[e[1]] + edges[e], distances[e[2]])
      BY <2>1, <3>2, <1>5 DEF SettledIsRelaxed
    <3>4. /\ distances[e[2]] \in Nat
          /\ distances[e[2]] <= distances[e[1]] + edges[e]
      BY <2>1, <3>2, <3>3, <1>5, TypeFacts DEF Closer
    <3>5. Potential(e[2]) <= distances[e[2]]
      BY <3>4, <1>1, <1>5, InfAssumption DEF Potential, Closer
    <3> QED
      BY <2>1, <3>1, <3>2, <3>4, <3>5, <1>4
  <2> QED
    BY <2>2, <2>3
<1> QED
  BY <1>3, <1>5

(* CalculateRoute's answer is right on every graph without a peer -1: a    *)
(* route it returns is complete and no route is shorter, and when it says  *)
(* that there is no path there is none (AnswerIsCertified).                *)
THEOREM AnswersAreCertified ==
  ASSUME NoPeer \notin PeerIDs
  PROVE  Spec => []AnswerIsCertified
<1>1. DijkstraInv => AnswerIsCertified
  <2> SUFFICES ASSUME DijkstraInv
               PROVE  AnswerIsCertified
    OBVIOUS
  <2> USE DEF DijkstraInv
  <2>1. ASSUME pc = "noPath"
        PROVE  \E R \in SUBSET nodes :
                 /\ Source \in R /\ Target \notin R
                 /\ \A e \in DOMAIN edges :
                      e[1] \in R /\ e[2] \in nodes => e[2] \in R
    <3>1. Source \in settled /\ Target \notin settled
      BY <2>1, InfAssumption
      DEF settled, EndpointsInPlace, WalkFollowsPrevious
    <3>2. ASSUME NEW e \in DOMAIN edges, e[1] \in settled, e[2] \in nodes
          PROVE  e[2] \in settled
      <4>1. e = <<e[1], e[2]>> /\ edges[e] \in Nat
        BY TypeFacts
      <4>2. ~ Closer(distances[e[1]] + edges[e], distances[e[2]])
        BY <4>1, <3>2 DEF SettledIsRelaxed
      <4>3. distances[e[1]] \in Nat
        BY <3>2, TypeFacts DEF SettledIsRelaxed, settled
      <4>4. distances[e[2]] # Inf
        BY <4>1, <4>2, <4>3, InfAssumption DEF Closer
      <4> QED
        BY <4>4, <2>1, <3>2 DEF WalkFollowsPrevious, settled
    <3> QED
      BY <3>1, <3>2 DEF settled
  <2>2. CASE pc = "done"
    BY <2>2, PathIsAccountedFor, PotentialIsFeasible DEF AnswerIsCertified
  <2>3. CASE pc # "done"
    BY <2>1, <2>3 DEF AnswerIsCertified, RouteIsComplete
  <2> QED
    BY <2>2, <2>3
<1> QED
  BY <1>1, Invariance, PTL

-----------------------------------------------------------------------------
(* The path that is returned is a route, at the cost reported.             *)

(* The nodes of the snapshot are finitely many. *)
LEMMA NodesAreFinite ==
  ASSUME TypeOK
  PROVE  IsFiniteSet(nodes) /\ Cardinality(nodes) \in Nat
BY GraphAssumption, FS_Subset, FS_CardinalityType DEF TypeOK

(* The distances grow along the path from 0 at Source, by the latency of   *)
(* each edge.                                                              *)
LEMMA DistancesGrow ==
  ASSUME NoPeer \notin PeerIDs, DijkstraInv, pc = "done"
  PROVE  /\ path \in Seq(nodes) /\ Len(path) \in Nat \ {0}
         /\ path[1] = Source /\ distances[Source] = 0
         /\ \A i \in 1 .. Len(path) :
              path[i] \in nodes /\ distances[path[i]] \in Nat
         /\ \A i \in 1 .. Len(path) - 1 :
              /\ i + 1 \in 1 .. Len(path)
              /\ <<path[i], path[i + 1]>> \in DOMAIN edges
              /\ edges[<<path[i], path[i + 1]>>] \in Nat \ {0}
              /\ distances[path[i + 1]] =
                   distances[path[i]] + edges[<<path[i], path[i + 1]>>]
<1> USE DEF DijkstraInv
<1>1. path \in Seq(nodes) /\ path # << >> /\ path[1] = Source
  BY PathIsAccountedFor DEF RouteIsComplete, TypeOK
<1>2. Len(path) \in Nat \ {0} /\ \A i \in 1 .. Len(path) : path[i] \in nodes
  BY <1>1
<1>3. \A i \in 1 .. Len(path) : distances[path[i]] \in Nat
  BY <1>2, TypeFacts DEF WalkFollowsPrevious
<1>4. distances[Source] = 0
  BY DEF EndpointsInPlace
<1>5. \A i \in 1 .. Len(path) - 1 : i + 1 \in 1 .. Len(path)
  BY <1>2
<1> QED
  BY <1>1, <1>2, <1>3, <1>4, <1>5, PathIsAccountedFor, TypeFacts

(* A later peer of the path is farther from Source. *)
LEMMA PathGoesAway ==
  ASSUME NoPeer \notin PeerIDs, DijkstraInv, pc = "done"
  PROVE  \A i, j \in 1 .. Len(path) :
           i < j => distances[path[i]] < distances[path[j]]
<1> DEFINE d(i) == distances[path[i]]
           n == Len(path)
           S == {k \in Nat : \A i \in 1 .. n : i + k + 1 <= n => d(i) < d(i + k + 1)}
<1>1. n \in Nat /\ \A i \in 1 .. n : d(i) \in Nat
  BY DistancesGrow
<1>2. \A i \in 1 .. n - 1 : i + 1 \in 1 .. n /\ d(i) < d(i + 1)
  <2> SUFFICES ASSUME NEW i \in 1 .. n - 1
               PROVE  i + 1 \in 1 .. n /\ d(i) < d(i + 1)
    OBVIOUS
  <2>1. /\ i + 1 \in 1 .. n /\ i \in 1 .. n
        /\ edges[<<path[i], path[i + 1]>>] \in Nat \ {0}
        /\ d(i + 1) = d(i) + edges[<<path[i], path[i + 1]>>]
    BY <1>1, DistancesGrow
  <2>2. d(i) \in Nat
    BY <1>1, <2>1
  <2> HIDE DEF d, n
  <2> QED
    BY <2>1, <2>2
<1> HIDE DEF d, n
<1>3. 0 \in S
  <2> SUFFICES ASSUME NEW i \in 1 .. n, i + 0 + 1 <= n
               PROVE  d(i) < d(i + 0 + 1)
    OBVIOUS
  <2>1. i \in 1 .. n - 1 /\ i + 0 + 1 = i + 1
    BY <1>1
  <2> QED
    BY <1>2, <2>1
<1>4. ASSUME NEW k \in Nat, k \in S PROVE k + 1 \in S
  <2> SUFFICES ASSUME NEW i \in 1 .. n, i + (k + 1) + 1 <= n
               PROVE  d(i) < d(i + (k + 1) + 1)
    OBVIOUS
  <2>1. /\ i + k + 1 <= n /\ i + k + 1 \in 1 .. n - 1
        /\ i + (k + 1) + 1 = (i + k + 1) + 1
        /\ i + k + 1 \in 1 .. n /\ (i + k + 1) + 1 \in 1 .. n
    BY <1>1
  <2>2. d(i) < d(i + k + 1)
    BY <1>4, <2>1
  <2>3. d(i + k + 1) < d((i + k + 1) + 1)
    BY <1>2, <2>1
  <2>4. d(i) \in Nat /\ d(i + k + 1) \in Nat /\ d((i + k + 1) + 1) \in Nat
    BY <1>1, <2>1
  <2> QED
    BY <2>1, <2>2, <2>3, <2>4
<1> HIDE DEF S
<1>5. \A k \in Nat : k \in S
  BY <1>3, <1>4, NumberInduction
<1>6. ASSUME NEW i \in 1 .. n, NEW j \in 1 .. n, i < j
      PROVE  d(i) < d(j)
  <2>1. j - i - 1 \in Nat /\ i + (j - i - 1) + 1 = j /\ j <= n
    BY <1>1, <1>6
  <2>2. j - i - 1 \in S
    BY <1>5, <2>1
  <2> QED
    BY <2>1, <2>2 DEF S
<1> QED
  BY <1>6 DEF d, n

(* No peer is on the path twice, so the path is no longer than nodes. *)
LEMMA PathHasNoLoop ==
  ASSUME NoPeer \notin PeerIDs, DijkstraInv, pc = "done"
  PROVE  /\ \A i, j \in 1 .. Len(path) : path[i] = path[j] => i = j
         /\ Len(path) <= Cardinality(nodes)
<1>1. \A i, j \in 1 .. Len(path) : path[i] = path[j] => i = j
  <2> SUFFICES ASSUME NEW i \in 1 .. Len(path), NEW j \in 1 .. Len(path),
                      path[i] = path[j], i # j
               PROVE  FALSE
    OBVIOUS
  <2>1. distances[path[i]] \in Nat
    BY DistancesGrow
  <2>2. i < j \/ j < i
    BY DistancesGrow
  <2>3. distances[path[i]] < distances[path[i]]
    BY <2>2, PathGoesAway
  <2> QED
    BY <2>1, <2>3
<1>2. path \in [1 .. Len(path) -> nodes]
  BY DistancesGrow
<1>3. path \in Injection(1 .. Len(path), nodes)
  BY <1>1, <1>2 DEF Injection, IsInjective
<1>4. IsFiniteSet(nodes)
  BY NodesAreFinite DEF DijkstraInv
<1>5. Cardinality(1 .. Len(path)) <= Cardinality(nodes)
  BY <1>3, <1>4, FS_Injection
<1>6. Cardinality(1 .. Len(path)) = Len(path)
  BY DistancesGrow, FS_Interval
<1> QED
  BY <1>1, <1>5, <1>6

(* f is the function upTo of Cost(path). *)
SumsUpTo(f) ==
  f = [i \in 1 .. Len(path) |->
         IF i = 1 THEN 0 ELSE f[i - 1] + edges[<<path[i - 1], path[i]>>]]

(* The latencies along the path add up to the distance of Target. *)
LEMMA PathCostIs ==
  ASSUME NoPeer \notin PeerIDs, DijkstraInv, pc = "done"
  PROVE  distances[Target] = Promise!Cost(path)
<1> DEFINE n == Len(path)
           g == [i \in 1 .. n |-> distances[path[i]]]
           c == CHOOSE f : SumsUpTo(f)
<1>0. path[n] = Target /\ n \in Nat \ {0}
  BY DistancesGrow, PathIsAccountedFor DEF RouteIsComplete
<1>1. SumsUpTo(g)
  <2>1. ASSUME NEW i \in 1 .. n
        PROVE  g[i] = IF i = 1 THEN 0
                      ELSE g[i - 1] + edges[<<path[i - 1], path[i]>>]
    <3>1. CASE i = 1
      BY <3>1, DistancesGrow
    <3>2. CASE i # 1
      <4>1. i - 1 \in 1 .. n - 1 /\ (i - 1) + 1 = i /\ i - 1 \in 1 .. n
        BY <1>0, <3>2
      <4>2. distances[path[i]] =
              distances[path[i - 1]] + edges[<<path[i - 1], path[i]>>]
        BY <4>1, DistancesGrow
      <4> QED
        BY <3>2, <4>1, <4>2
    <3> QED
      BY <3>1, <3>2
  <2> QED
    BY <2>1 DEF SumsUpTo
<1>2. SumsUpTo(c)
  BY <1>1
<1>3. Promise!Cost(path) = c[n]
  BY DEF Promise!Cost, SumsUpTo
<1> DEFINE S == {k \in Nat : k + 1 <= n => c[k + 1] = distances[path[k + 1]]}
<1> HIDE DEF c, n, g
<1>4. 0 \in S
  <2>1. 1 \in 1 .. n
    BY <1>0
  <2>2. c[1] = 0
    BY <1>2, <2>1 DEF SumsUpTo, n
  <2>3. distances[path[1]] = 0
    BY DistancesGrow
  <2> QED
    BY <2>2, <2>3
<1>5. ASSUME NEW k \in Nat, k \in S PROVE k + 1 \in S
  <2> SUFFICES ASSUME (k + 1) + 1 <= n
               PROVE  c[(k + 1) + 1] = distances[path[(k + 1) + 1]]
    OBVIOUS
  <2>1. /\ (k + 1) + 1 \in 1 .. n /\ (k + 1) + 1 # 1
        /\ ((k + 1) + 1) - 1 = k + 1 /\ k + 1 \in 1 .. n - 1 /\ k + 1 <= n
    BY <1>0
  <2>2. c[(k + 1) + 1] =
          c[k + 1] + edges[<<path[k + 1], path[(k + 1) + 1]>>]
    BY <1>2, <2>1 DEF SumsUpTo, n
  <2>3. c[k + 1] = distances[path[k + 1]]
    BY <1>5, <2>1
  <2>4. distances[path[(k + 1) + 1]] =
          distances[path[k + 1]] + edges[<<path[k + 1], path[(k + 1) + 1]>>]
    BY <2>1, DistancesGrow DEF n
  <2> QED
    BY <2>2, <2>3, <2>4
<1> HIDE DEF S
<1>6. \A k \in Nat : k \in S
  BY <1>4, <1>5, NumberInduction
<1>7. n - 1 \in Nat /\ (n - 1) + 1 = n /\ n <= n
  BY <1>0
<1>8. c[n] = distances[path[n]]
  <2>1. n - 1 \in S
    BY <1>6, <1>7
  <2> QED
    BY <1>7, <2>1 DEF S
<1> QED
  BY <1>0, <1>3, <1>8

-----------------------------------------------------------------------------
(* What module Router supposes of the search.                              *)

(* f is the function upTo of Cost(q). *)
CostsAlong(f, q) ==
  f = [i \in 1 .. Len(q) |->
         IF i = 1 THEN 0 ELSE f[i - 1] + edges[<<q[i - 1], q[i]>>]]

(* The recursion of Cost defines a function, up to any peer of the path. *)
LEMMA CostsAlongExist ==
  ASSUME NEW q, Len(q) \in Nat
  PROVE  \E f : CostsAlong(f, q)
<1> DEFINE e(i) == edges[<<q[i - 1], q[i]>>]
           G(f, m) == f = [i \in 1 .. m |-> IF i = 1 THEN 0 ELSE f[i - 1] + e(i)]
           S == {m \in Nat : \E f : G(f, m)}
<1> HIDE DEF e
<1>1. 0 \in S
  <2> DEFINE f == [i \in 1 .. 0 |-> 0]
  <2>1. \A i \in 1 .. 0 : FALSE
    OBVIOUS
  <2>2. G(f, 0)
    BY <2>1
  <2> HIDE DEF f, G
  <2> QED
    BY <2>2
<1>2. ASSUME NEW m \in Nat, m \in S PROVE m + 1 \in S
  <2>1. PICK f : G(f, m)
    BY <1>2
  <2> DEFINE g == [i \in 1 .. m + 1 |->
                     IF i = 1 THEN 0 ELSE f[i - 1] + e(i)]
  <2>2. \A i \in 1 .. m : i \in 1 .. m + 1 /\ g[i] = f[i]
    <3>1. \A i \in 1 .. m : /\ i \in 1 .. m + 1
                            /\ f[i] = IF i = 1 THEN 0 ELSE f[i - 1] + e(i)
      BY <2>1
    <3> QED
      BY <3>1
  <2>3. ASSUME NEW i \in 1 .. m + 1
        PROVE  g[i] = IF i = 1 THEN 0 ELSE g[i - 1] + e(i)
    <3>1. CASE i = 1
      BY <3>1
    <3>2. CASE i # 1
      <4>1. i - 1 \in 1 .. m
        BY <3>2
      <4>2. g[i] = f[i - 1] + e(i) /\ g[i - 1] = f[i - 1]
        BY <3>2, <4>1, <2>2
      <4> HIDE DEF g
      <4> QED
        BY <3>2, <4>2
    <3> QED
      BY <3>1, <3>2
  <2>4. g = [i \in 1 .. m + 1 |-> g[i]]
    OBVIOUS
  <2> HIDE DEF g
  <2>5. G(g, m + 1)
    BY <2>3, <2>4
  <2> HIDE DEF G
  <2> QED
    BY <2>5
<1>3. \A m \in Nat : m \in S
  <2> HIDE DEF S
  <2> QED
    BY <1>1, <1>2, NumberInduction
<1>4. PICK f : G(f, Len(q))
  BY <1>3
<1> QED
  BY <1>4 DEF CostsAlong, e

(* The instance has its own copy of FiniteSets. *)
LEMMA SameCardinality ==
  Promise!Cardinality(PeerIDs) = Cardinality(PeerIDs)
BY DEF Promise!Cardinality, Cardinality

(* What a route of Paths is: its peers are nodes and its steps are edges. *)
LEMMA PathsFacts ==
  ASSUME NEW k, NEW q \in Promise!Paths(nodes, DOMAIN edges, k)
  PROVE  /\ Len(q) \in Nat \ {0}
         /\ \A i \in 1 .. Len(q) : q[i] \in nodes
         /\ q[1] = k[1] /\ q[Len(q)] = k[2]
         /\ \A i \in 1 .. Len(q) - 1 : <<q[i], q[i + 1]>> \in DOMAIN edges
<1>1. PICK n \in 1 .. Cardinality(PeerIDs) : q \in [1 .. n -> nodes]
  BY SameCardinality DEF Promise!Paths
<1>2. \A m \in 1 .. Cardinality(PeerIDs) : m \in Nat \ {0}
  OBVIOUS
<1>3. n \in Nat \ {0}
  BY <1>2
<1>4. q \in Seq(nodes) /\ Len(q) = n
  BY <1>1, <1>3
<1> QED
  BY <1>1, <1>3, <1>4 DEF Promise!Paths

(* No route costs less than Potential says. *)
LEMMA PathsCostPotential ==
  ASSUME NoPeer \notin PeerIDs, DijkstraInv, pc = "done",
         NEW q \in Promise!Paths(nodes, DOMAIN edges, <<Source, Target>>)
  PROVE  distances[Target] <= Promise!Cost(q)
<1> DEFINE n == Len(q)
           c == CHOOSE f : CostsAlong(f, q)
           S == {m \in Nat : m + 1 <= n =>
                   c[m + 1] \in Nat /\ Potential(q[m + 1]) <= c[m + 1]}
<1>1. /\ n \in Nat \ {0} /\ \A i \in 1 .. n : q[i] \in nodes
      /\ q[1] = Source /\ q[n] = Target
      /\ \A i \in 1 .. n - 1 : <<q[i], q[i + 1]>> \in DOMAIN edges
  BY PathsFacts
<1>2. CostsAlong(c, q)
  BY <1>1, CostsAlongExist
<1>3. Promise!Cost(q) = c[n]
  BY DEF Promise!Cost, CostsAlong
<1> HIDE DEF c
<1>4. \A x \in nodes : Potential(x) \in Nat
  BY TypeFacts
  DEF DijkstraInv, Potential, Closer, WalkFollowsPrevious, EndpointsInPlace
<1>5. c[1] = 0 /\ \A i \in 2 .. n : c[i] = c[i - 1] + edges[<<q[i - 1], q[i]>>]
  <2>1. 1 \in 1 .. n /\ \A i \in 2 .. n : i \in 1 .. n /\ i # 1
    BY <1>1
  <2> QED
    BY <1>2, <2>1 DEF CostsAlong
<1> HIDE DEF n
<1>6. 0 \in S
  BY <1>1, <1>5, PotentialIsFeasible
<1>7. ASSUME NEW m \in Nat, m \in S PROVE m + 1 \in S
  <2> SUFFICES ASSUME (m + 1) + 1 <= n
               PROVE  /\ c[(m + 1) + 1] \in Nat
                      /\ Potential(q[(m + 1) + 1]) <= c[(m + 1) + 1]
    OBVIOUS
  <2> DEFINE x == q[m + 1]
             y == q[(m + 1) + 1]
             e == <<x, y>>
  <2>1. /\ m + 1 \in 1 .. n - 1 /\ m + 1 \in 1 .. n /\ m + 1 <= n
        /\ (m + 1) + 1 \in 2 .. n /\ (m + 1) + 1 \in 1 .. n
        /\ ((m + 1) + 1) - 1 = m + 1
    BY <1>1
  <2>2. e \in DOMAIN edges /\ x \in nodes /\ y \in nodes
    BY <1>1, <2>1
  <2>3. c[(m + 1) + 1] = c[m + 1] + edges[e]
    BY <1>5, <2>1
  <2>4. c[m + 1] \in Nat /\ Potential(x) <= c[m + 1]
    BY <1>7, <2>1
  <2>5. edges[e] \in Nat
    BY <2>2, TypeFacts DEF DijkstraInv
  <2>6. Potential(y) <= Potential(x) + edges[e]
    <3>1. e[1] = x /\ e[2] = y
      OBVIOUS
    <3> QED
      BY <2>2, <3>1, PotentialIsFeasible
  <2>7. Potential(x) \in Nat /\ Potential(y) \in Nat
    BY <1>4, <2>2
  <2> HIDE DEF x, y, e
  <2> QED
    BY <2>3, <2>4, <2>5, <2>6, <2>7 DEF y
<1> HIDE DEF S
<1>8. \A m \in Nat : m \in S
  BY <1>6, <1>7, NumberInduction
<1>9. n - 1 \in Nat /\ (n - 1) + 1 = n /\ n <= n
  BY <1>1
<1>10. Potential(q[n]) <= c[n]
  BY <1>8, <1>9 DEF S
<1> QED
  BY <1>1, <1>3, <1>10, PotentialIsFeasible DEF n

(* Without a route, the peers of a path from Source are all settled. *)
LEMMA PathsStaySettled ==
  ASSUME DijkstraInv, pc = "noPath"
  PROVE  Promise!Paths(nodes, DOMAIN edges, <<Source, Target>>) = {}
<1> SUFFICES ASSUME NEW q \in Promise!Paths(nodes, DOMAIN edges,
                                            <<Source, Target>>)
             PROVE  FALSE
  OBVIOUS
<1> DEFINE n == Len(q)
           S == {m \in Nat : m + 1 <= n => q[m + 1] \in settled}
<1>1. /\ n \in Nat \ {0} /\ \A i \in 1 .. n : q[i] \in nodes
      /\ q[1] = Source /\ q[n] = Target
      /\ \A i \in 1 .. n - 1 : <<q[i], q[i + 1]>> \in DOMAIN edges
  BY PathsFacts
<1>2. Source \in settled /\ Target \notin settled
  BY InfAssumption
  DEF DijkstraInv, settled, EndpointsInPlace, WalkFollowsPrevious
<1>3. ASSUME NEW x \in settled, NEW y \in nodes, <<x, y>> \in DOMAIN edges
      PROVE  y \in settled
  <2>1. edges[<<x, y>>] \in Nat
    BY <1>3, TypeFacts DEF DijkstraInv
  <2>2. ~ Closer(distances[x] + edges[<<x, y>>], distances[y])
    BY <1>3 DEF DijkstraInv, SettledIsRelaxed
  <2>3. distances[x] \in Nat
    BY TypeFacts DEF DijkstraInv, SettledIsRelaxed, settled
  <2>4. distances[y] # Inf
    BY <2>1, <2>2, <2>3, InfAssumption DEF Closer
  <2> QED
    BY <2>4 DEF DijkstraInv, WalkFollowsPrevious, settled
<1> HIDE DEF n
<1>4. 0 \in S
  BY <1>1, <1>2
<1>5. ASSUME NEW m \in Nat, m \in S PROVE m + 1 \in S
  <2> SUFFICES ASSUME (m + 1) + 1 <= n
               PROVE  q[(m + 1) + 1] \in settled
    OBVIOUS
  <2>1. m + 1 \in 1 .. n - 1 /\ m + 1 <= n /\ (m + 1) + 1 \in 1 .. n
    BY <1>1
  <2> QED
    BY <1>1, <1>3, <1>5, <2>1
<1> HIDE DEF S
<1>6. \A m \in Nat : m \in S
  BY <1>4, <1>5, NumberInduction
<1>7. n - 1 \in Nat /\ (n - 1) + 1 = n /\ n <= n
  BY <1>1
<1> QED
  BY <1>1, <1>2, <1>6, <1>7 DEF S

(* The path returned is a route of Paths, at the cost reported. *)
LEMMA PathIsARoute ==
  ASSUME NoPeer \notin PeerIDs, DijkstraInv, pc = "done"
  PROVE  /\ path \in Promise!Paths(nodes, DOMAIN edges, <<Source, Target>>)
         /\ distances[Target] = Promise!Cost(path)
<1> DEFINE n == Len(path)
<1>1. path \in [1 .. n -> nodes] /\ n \in Nat \ {0} /\ path[1] = Source
  BY DistancesGrow
<1>2. path[n] = Target
  BY PathIsAccountedFor DEF RouteIsComplete
<1>3. \A i \in 1 .. n - 1 : <<path[i], path[i + 1]>> \in DOMAIN edges
  BY DistancesGrow
<1>4. n \in 1 .. Cardinality(PeerIDs)
  <2>1. n <= Cardinality(nodes)
    BY PathHasNoLoop
  <2>2. Cardinality(nodes) <= Cardinality(PeerIDs) /\ Cardinality(PeerIDs) \in Nat
    BY GraphAssumption, FS_Subset, FS_CardinalityType DEF DijkstraInv, TypeOK
  <2>3. Cardinality(nodes) \in Nat
    BY NodesAreFinite DEF DijkstraInv
  <2> HIDE DEF n
  <2> QED
    BY <1>1, <2>1, <2>2, <2>3
<1>5. path \in Promise!Paths(nodes, DOMAIN edges, <<Source, Target>>)
  BY <1>1, <1>2, <1>3, <1>4, SameCardinality DEF Promise!Paths
<1> QED
  BY <1>5, PathCostIs

(* The call says that an endpoint is missing only if it is. *)
EndpointIsMissing ==
  pc = "notFound" => ~ ({Source, Target} \subseteq nodes)

LEMMA EndpointIsMissingStep ==
  EndpointIsMissing /\ [Next]_vars => EndpointIsMissing'
<1> SUFFICES ASSUME EndpointIsMissing, [Next]_vars
             PROVE  EndpointIsMissing'
  OBVIOUS
<1>1. CASE CheckEndpoints
  BY <1>1 DEF CheckEndpoints, EndpointIsMissing, snapshot
<1>2. ASSUME NEW n \in nodes, Settle(n)
      PROVE  EndpointIsMissing'
  BY <1>2 DEF Settle, EndpointIsMissing
<1>3. CASE StopScan
  BY <1>3 DEF StopScan, EndpointIsMissing
<1>4. CASE WalkBack
  BY <1>4 DEF WalkBack, EndpointIsMissing
<1>5. CASE UNCHANGED vars
  BY <1>5 DEF vars, EndpointIsMissing
<1> QED
  BY <1>1, <1>2, <1>3, <1>4, <1>5 DEF Next

(* The search keeps the promise that module Router relies on, on every     *)
(* graph without a peer -1: it returns one of ShortestPaths, and an error  *)
(* only if there is no route (ReturnsShortestPath).                        *)
THEOREM SearchKeepsItsPromise ==
  ASSUME NoPeer \notin PeerIDs
  PROVE  Spec => []ReturnsShortestPath
<1> DEFINE P == Promise!Paths(nodes, DOMAIN edges, <<Source, Target>>)
<1>1. DijkstraInv /\ EndpointIsMissing => ReturnsShortestPath
  <2> SUFFICES ASSUME DijkstraInv, EndpointIsMissing
               PROVE  ReturnsShortestPath
    OBVIOUS
  <2>1. ASSUME pc = "done"
        PROVE  /\ path \in Promise!ShortestPaths(nodes, DOMAIN edges,
                                                 <<Source, Target>>)
               /\ distances[Target] = Promise!Cost(path)
    <3>1. path \in P /\ distances[Target] = Promise!Cost(path)
      BY <2>1, PathIsARoute
    <3>2. \A q \in P : Promise!Cost(path) <= Promise!Cost(q)
      BY <2>1, <3>1, PathsCostPotential
    <3> QED
      BY <3>1, <3>2 DEF Promise!ShortestPaths
  <2>2. ASSUME pc = "noPath"
        PROVE  P = {}
    BY <2>2, PathsStaySettled
  <2>3. ASSUME pc = "notFound"
        PROVE  P = {}
    <3> SUFFICES ASSUME NEW q \in P PROVE FALSE
      OBVIOUS
    <3>1. /\ Len(q) \in Nat \ {0} /\ \A i \in 1 .. Len(q) : q[i] \in nodes
          /\ q[1] = Source /\ q[Len(q)] = Target
      BY PathsFacts
    <3>2. Source \in nodes /\ Target \in nodes
      BY <3>1
    <3> QED
      BY <2>3, <3>2 DEF EndpointIsMissing
  <2> QED
    BY <2>1, <2>2, <2>3 DEF ReturnsShortestPath
<1>2. Init => EndpointIsMissing
  BY DEF Init, EndpointIsMissing
<1> QED
  BY <1>1, <1>2, EndpointIsMissingStep, Invariance, PTL DEF Spec
=============================================================================
