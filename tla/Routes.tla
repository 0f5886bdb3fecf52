------------------------------- MODULE Routes -------------------------------
(***************************************************************************)
(* What DijkstraRouter.dijkstra promises (internal/routing/dijkstra.go): a *)
(* route from one peer to another over the nodes and edges it is given,    *)
(* none of which takes less time.  Module Router uses the promise for the  *)
(* search inside CalculateRoute; module Dijkstra is the search.            *)
(***************************************************************************)
EXTENDS Integers, Sequences, FiniteSets

CONSTANTS
  PeerIDs,   \* the peer IDs
  Latency    \* Latency[l]: the latency of the link l, in ms

(* The routes from k[1] to k[2] over the edges E between the nodes N.  A   *)
(* shortest one visits no peer twice, so this many peers suffice.          *)
Paths(N, E, k) ==
  {p \in UNION {[1 .. n -> N] : n \in 1 .. Cardinality(PeerIDs)} :
     /\ p[1] = k[1] /\ p[Len(p)] = k[2]
     /\ \A i \in 1 .. Len(p) - 1 : <<p[i], p[i + 1]>> \in E}

(* TotalLatency: the sum of the latencies along p. *)
Cost(p) ==
  LET upTo[i \in 1 .. Len(p)] ==
        IF i = 1 THEN 0 ELSE upTo[i - 1] + Latency[<<p[i - 1], p[i]>>]
  IN  upTo[Len(p)]

(* What dijkstra may return: which one, if there are several, depends on   *)
(* the order of a map.                                                     *)
ShortestPaths(N, E, k) ==
  {p \in Paths(N, E, k) : \A q \in Paths(N, E, k) : Cost(p) <= Cost(q)}
=============================================================================
