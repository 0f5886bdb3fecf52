------------------------------ MODULE Dijkstra ------------------------------
(***************************************************************************)
(* One call of DijkstraRouter.dijkstra (internal/routing/dijkstra.go).     *)
(*                                                                         *)
(* The call works on two snapshots, GetNodeList and then GetEdgeList, that *)
(* the graph takes in two separate critical sections: the graph may grow   *)
(* in between, so the edges may mention peers that the nodes do not.  Init *)
(* therefore starts from any set of nodes and any set of edges.            *)
(*                                                                         *)
(* Everything after the snapshots is local to the call, so one iteration   *)
(* of the main loop is one step.  Go iterates over a map in random order:  *)
(* which of several closest nodes is settled first is not determined.      *)
(***************************************************************************)
EXTENDS Integers, Sequences, FiniteSets

CONSTANTS
  PeerIDs,     \* the peer IDs (int32) that a graph may mention
  Links,       \* the pairs <<from, to>> that may be edges of a graph
  Latencies,   \* the latencies, in ms, that an edge may carry
  Source,      \* the fromID of the call
  Target,      \* the toID of the call
  Inf          \* math.MaxInt64: the distance of a node not reached yet

(* A peer ID is an int32.  measureLatency returns at least 1ms, and        *)
(* ConnectToPeers never connects a peer to itself.  CalculateRoute answers *)
(* fromID = toID without a call.                                           *)
ASSUME GraphAssumption ==
  /\ IsFiniteSet(PeerIDs)
  /\ PeerIDs \subseteq Int
  /\ Links \subseteq {l \in PeerIDs \X PeerIDs : l[1] # l[2]}
  /\ Latencies \subseteq Nat \ {0}

ASSUME EndpointsAssumption ==
  /\ Source \in PeerIDs
  /\ Target \in PeerIDs
  /\ Source # Target

(* A distance is below 2^31 hops of at most 3000ms, the timeout of a ping: *)
(* no sum of latencies comes near math.MaxInt64.                           *)
ASSUME InfAssumption == Inf \notin Int

(* The int32 -1: "no predecessor" in previous, "none found" in the scan. *)
NoPeer == -1

VARIABLES
  nodes,       \* the IDs of the node list
  edges,       \* the edge list: <<from, to>> |-> latency in ms
  distances,   \* distances[id]: the best latency found from Source to id
  previous,    \* previous[id]: the peer before id on that route
  unvisited,   \* the nodes not settled yet
  current,     \* the peer the walk back from Target has come to
  path,        \* the part of the route the walk back has prepended so far
  pc           \* where the call is, or how it returned

snapshot == <<nodes, edges>>
vars == <<nodes, edges, distances, previous, unvisited, current, path, pc>>

Distance == Nat \union {Inf}

(* The int64 comparison a < b, with Inf above every other distance. *)
Closer(a, b) == a # Inf /\ (b = Inf \/ a < b)

Graphs == UNION {[E -> Latencies] : E \in SUBSET Links}

-----------------------------------------------------------------------------

(* The snapshots are taken and the maps filled. *)
Init ==
  /\ nodes \in SUBSET PeerIDs
  /\ edges \in Graphs
  /\ distances = [n \in nodes |-> Inf]
  /\ previous = [n \in nodes |-> NoPeer]
  /\ unvisited = nodes
  /\ current = NoPeer
  /\ path = << >>
  /\ pc = "check"

(* Source and target must be nodes of the graph. *)
CheckEndpoints ==
  /\ pc = "check"
  /\ IF {Source, Target} \subseteq nodes
       THEN /\ pc' = "scan"
            /\ distances' = [distances EXCEPT ![Source] = 0]
       ELSE /\ pc' = "notFound"
            /\ UNCHANGED distances
  /\ UNCHANGED <<snapshot, previous, unvisited, current, path>>

(* Mutant of Closest: the scan keeps the first reachable node it sees. *)
ClosestIsFirstSeen == {n \in unvisited : distances[n] # Inf}

(* Among the unvisited nodes reached so far, those with the least distance. *)
Closest == {n \in unvisited :
              /\ distances[n] # Inf
              /\ \A m \in unvisited : ~ Closer(distances[m], distances[n])}

(* The edge n -> m improves the distance of m, which is not settled; n     *)
(* itself has just been deleted from unvisited.                            *)
Relaxes(n, m) ==
  /\ <<n, m>> \in DOMAIN edges
  /\ m \in unvisited \ {n}
  /\ Closer(distances[n] + edges[<<n, m>>], distances[m])

(* Mutant of Settle: delete(unvisited, currentID) is missing. *)
SettleKeepsUnvisited(n) ==
  /\ pc = "scan"
  /\ n \in Closest \ {NoPeer, Target}
  /\ distances' = [m \in nodes |-> IF Relaxes(n, m)
                                     THEN distances[n] + edges[<<n, m>>]
                                     ELSE distances[m]]
  /\ previous' = [m \in nodes |-> IF Relaxes(n, m) THEN n ELSE previous[m]]
  /\ UNCHANGED <<snapshot, unvisited, current, path, pc>>

(* One iteration of the main loop: the node n that the scan found is       *)
(* settled and its edges are relaxed.  A node whose ID is -1 reads as      *)
(* "none found" (see StopScan).                                            *)
Settle(n) ==
  /\ pc = "scan"
  /\ n \in Closest \ {NoPeer, Target}
  /\ unvisited' = unvisited \ {n}
  /\ distances' = [m \in nodes |-> IF Relaxes(n, m)
                                     THEN distances[n] + edges[<<n, m>>]
                                     ELSE distances[m]]
  /\ previous' = [m \in nodes |-> IF Relaxes(n, m) THEN n ELSE previous[m]]
  /\ UNCHANGED <<snapshot, current, path, pc>>

(* Mutant of StopScan: the loop breaks once Target has been reached. *)
StopScanEarly ==
  /\ pc = "scan"
  /\ \/ \A n \in unvisited : distances[n] = Inf
     \/ distances[Target] # Inf
  /\ IF distances[Target] = Inf
       THEN /\ pc' = "noPath"
            /\ UNCHANGED current
       ELSE /\ pc' = "walk"
            /\ current' = Target
  /\ UNCHANGED <<snapshot, distances, previous, unvisited, path>>

(* The loop breaks when the scan finds no reachable node, or Target.  The  *)
(* call fails if Target was not reached, else it walks back from it.       *)
StopScan ==
  /\ pc = "scan"
  /\ \/ \A n \in unvisited : distances[n] = Inf
     \/ Closest \cap {NoPeer, Target} # {}
  /\ IF distances[Target] = Inf
       THEN /\ pc' = "noPath"
            /\ UNCHANGED current
       ELSE /\ pc' = "walk"
            /\ current' = Target
  /\ UNCHANGED <<snapshot, distances, previous, unvisited, path>>

(* Mutant of WalkBack: the walk prepends before it tests for the end. *)
WalkBackTooFar ==
  /\ pc = "walk"
  /\ path' = <<current>> \o path
  /\ IF current = NoPeer
       THEN pc' = "done" /\ UNCHANGED current
       ELSE current' = previous[current] /\ UNCHANGED pc
  /\ UNCHANGED <<snapshot, distances, previous, unvisited>>

(* Mutant of WalkBack: the walk appends, so the route is reversed. *)
WalkBackReversed ==
  /\ pc = "walk"
  /\ IF current = NoPeer
       THEN /\ pc' = "done"
            /\ UNCHANGED <<current, path>>
       ELSE /\ path' = path \o <<current>>
            /\ current' = previous[current]
            /\ UNCHANGED pc
  /\ UNCHANGED <<snapshot, distances, previous, unvisited>>

(* One iteration of the walk along previous, and the return at its end. *)
WalkBack ==
  /\ pc = "walk"
  /\ IF current = NoPeer
       THEN /\ pc' = "done"
            /\ UNCHANGED <<current, path>>
       ELSE /\ path' = <<current>> \o path
            /\ current' = previous[current]
            /\ UNCHANGED pc
  /\ UNCHANGED <<snapshot, distances, previous, unvisited>>

Next ==
  \/ CheckEndpoints
  \/ \E n \in nodes : Settle(n)
  \/ StopScan
  \/ WalkBack

Spec == Init /\ [][Next]_vars

(* The call runs in one goroutine and never blocks: it takes its steps. *)
FairSpec == Spec /\ WF_vars(Next)

-----------------------------------------------------------------------------
(* Types of the call's variables. *)
TypeOK ==
  /\ nodes \in SUBSET PeerIDs
  /\ edges \in Graphs
  /\ distances \in [nodes -> Distance]
  /\ previous \in [nodes -> nodes \union {NoPeer}]
  /\ unvisited \in SUBSET nodes
  /\ current \in nodes \union {NoPeer}
  /\ path \in Seq(nodes)
  /\ pc \in {"check", "scan", "walk", "notFound", "noPath", "done"}

settled == nodes \ unvisited

(* Until the endpoints are checked, the maps are as they were filled. *)
MapsFilled ==
  pc = "check" =>
    /\ unvisited = nodes
    /\ \A n \in nodes : distances[n] = Inf /\ previous[n] = NoPeer

(* Once the endpoints are checked, Target is a node that is never settled  *)
(* and Source, at distance 0, has no predecessor.                          *)
EndpointsInPlace ==
  pc \notin {"check", "notFound"} =>
    /\ Source \in nodes /\ distances[Source] = 0 /\ previous[Source] = NoPeer
    /\ Target \in unvisited

(* A node other than Source is reached through an edge from a settled      *)
(* node, and its distance is the one of that node plus the edge's latency. *)
ReachedByAnEdge ==
  \A n \in nodes : distances[n] # Inf /\ n # Source =>
    /\ previous[n] \in settled
    /\ <<previous[n], n>> \in DOMAIN edges
    /\ distances[n] = distances[previous[n]] + edges[<<previous[n], n>>]

(* A settled node was reached, and none of its edges improves a distance. *)
SettledIsRelaxed ==
  \A n \in settled :
    /\ distances[n] # Inf
    /\ \A m \in nodes : <<n, m>> \in DOMAIN edges =>
         ~ Closer(distances[n] + edges[<<n, m>>], distances[m])

(* No unvisited node is closer to Source than a settled one. *)
SettledIsCloser ==
  \A n \in settled, m \in unvisited : ~ Closer(distances[m], distances[n])

(* The walk starts when Target has a final distance; what it has prepended *)
(* so far is a chain of predecessors that ends in Target.                  *)
WalkFollowsPrevious ==
  /\ pc \notin {"walk", "done"} => path = << >> /\ current = NoPeer
  /\ pc \in {"walk", "done"} =>
       /\ distances[Target] # Inf
       /\ \A n \in unvisited : ~ Closer(distances[n], distances[Target])
       /\ \A i \in 1 .. Len(path) : distances[path[i]] # Inf
       /\ \A i \in 1 .. Len(path) - 1 : path[i] = previous[path[i + 1]]
       /\ path = << >> => current = Target /\ pc = "walk"
       /\ path # << >> => /\ path[Len(path)] = Target
                          /\ current = previous[path[1]]
  /\ pc = "done" => current = NoPeer
  /\ pc = "noPath" => \A n \in unvisited : distances[n] = Inf

(* The inductive invariant of the algorithm (dijkstra.go:99-147), for      *)
(* graphs without a peer whose ID is -1.                                   *)
DijkstraInv ==
  /\ TypeOK
  /\ MapsFilled
  /\ EndpointsInPlace
  /\ ReachedByAnEdge
  /\ SettledIsRelaxed
  /\ SettledIsCloser
  /\ WalkFollowsPrevious

(* min(distances[n], distances[Target]); a peer that only the edge list    *)
(* mentions counts as not reached.                                         *)
Potential(n) ==
  IF n \in nodes /\ Closer(distances[n], distances[Target])
    THEN distances[n]
    ELSE distances[Target]

(* types.go:40: a Route is "a complete shortest path from source to         *)
(* destination"; this is the "complete" part of it.                        *)
RouteIsComplete ==
  pc = "done" => /\ path # << >>
                 /\ path[1] = Source
                 /\ path[Len(path)] = Target

(* What CalculateRoute returns carries its own proof (dijkstra.go:136-149, *)
(* types.go:40 "a complete shortest path from source to destination"):     *)
(*   - the path leads from Source to Target over edges whose latencies     *)
(*     add up, step by step, to the total latency;                         *)
(*   - Potential grows by at most an edge's latency along every edge, from *)
(*     0 at Source to the total latency at Target: no route is shorter;    *)
(*   - "no path found" leaves a set of nodes that holds Source, not        *)
(*     Target, and that no edge leaves.                                    *)
AnswerIsCertified ==
  /\ RouteIsComplete
  /\ pc = "done" =>
       /\ \A i \in 1 .. Len(path) - 1 :
            /\ <<path[i], path[i + 1]>> \in DOMAIN edges
            /\ distances[path[i + 1]] =
                 distances[path[i]] + edges[<<path[i], path[i + 1]>>]
       /\ Potential(Source) = 0
       /\ Potential(Target) = distances[Target]
       /\ \A e \in DOMAIN edges : {e[1], e[2]} \subseteq nodes =>
            Potential(e[2]) <= Potential(e[1]) + edges[e]
  /\ pc = "noPath" =>
       \E R \in SUBSET nodes :
         /\ Source \in R /\ Target \notin R
         /\ \A e \in DOMAIN edges :
              e[1] \in R /\ e[2] \in nodes => e[2] \in R

Promise == INSTANCE Routes WITH Latency <- edges

(* What module Router supposes of the search within CalculateRoute         *)
(* (dijkstra.go:43-57): of the two snapshots it is given, it returns one   *)
(* of the shortest routes, with its latency, and it returns an error only  *)
(* if there is no route.                                                   *)
ReturnsShortestPath ==
  LET pair == <<Source, Target>>
      links == DOMAIN edges
  IN  /\ pc = "done" => /\ path \in Promise!ShortestPaths(nodes, links, pair)
                        /\ distances[Target] = Promise!Cost(path)
      /\ pc \in {"notFound", "noPath"} => Promise!Paths(nodes, links, pair) = {}

(* Both loops end: the call returns, on every graph (dijkstra.go:100-147). *)
CallReturns == <>(pc \in {"notFound", "noPath", "done"})
=============================================================================
