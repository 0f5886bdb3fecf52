------------------------------ MODULE Analyzer ------------------------------
(***************************************************************************)
(* What reads the graph and the route cache of a peer while module Router  *)
(* changes them: GraphAnalyzer (internal/routing/graph.go), and the list   *)
(* of cached routes that GetRouteCache gives (types.go, grpc_server.go).   *)
(* Readers change nothing that the router has: a behaviour of this module  *)
(* is one of Router with reads in between.                                 *)
(***************************************************************************)
EXTENDS Router, FiniteSetsExt

CONSTANTS
  Analysts,   \* the goroutines that may be in a GetNetworkMetrics
  Thresholds  \* the thresholdMs of FindBottlenecks

ASSUME AnalyzerAssumption == Thresholds \subseteq Nat

VARIABLE reports  \* the GetNetworkMetrics each goroutine has in progress

allVars == <<vars, reports>>

-----------------------------------------------------------------------------
TotalLatency(E) == MapThenSumSet(LAMBDA l : Latency[l], E)
Latencies(E) == {Latency[l] : l \in E}

(* Mutant of AnalyzeNetwork: the average over the peers. *)
AnalyzePerPeer(N, E) ==
  LET possible == Cardinality(N) * (Cardinality(N) - 1)
  IN  IF E = {} \/ N = {}
        THEN [peers |-> Cardinality(N), edges |-> 0,
              avg |-> 0, max |-> 0, min |-> 0, possible |-> 0]
        ELSE [peers |-> Cardinality(N), edges |-> Cardinality(E),
              avg |-> TotalLatency(E) \div Cardinality(N),
              max |-> Max(Latencies(E)), min |-> Min(Latencies(E)),
              possible |-> possible]

(* AnalyzeNetwork of the nodes N and the edges E.  NetworkDensity is edges *)
(* of the possible ones, and 0 if there are none possible.                 *)
AnalyzeNetwork(N, E) ==
  LET possible == Cardinality(N) * (Cardinality(N) - 1)
  IN  IF E = {}
        THEN [peers |-> Cardinality(N), edges |-> 0,
              avg |-> 0, max |-> 0, min |-> 0, possible |-> 0]
        ELSE [peers |-> Cardinality(N), edges |-> Cardinality(E),
              avg |-> TotalLatency(E) \div Cardinality(E),
              max |-> Max(Latencies(E)), min |-> Min(Latencies(E)),
              possible |-> possible]

(* The edges that count for n: those that leave it or reach it. *)
Incident(n, E) == {l \in E : n \in {l[1], l[2]}}

(* Mutant of FindBottlenecks: an edge is counted at its start only. *)
FindBottlenecksLeaving(E, threshold) ==
  {n \in PeerIDs :
     LET degree == Cardinality({l \in E : n = l[1]})
     IN  degree > 0 /\ TotalLatency(Incident(n, E)) \div degree > threshold}

(* The peers whose average latency, rounded down, is over the threshold. *)
FindBottlenecks(E, threshold) ==
  {n \in PeerIDs :
     LET degree == Cardinality(Incident(n, E))
     IN  degree > 0 /\ TotalLatency(Incident(n, E)) \div degree > threshold}

(* Mutant of Entries: also the entries that have expired. *)
AllEntries == DOMAIN routes

(* The pairs whose routes Entries returns. *)
Entries == {k \in DOMAIN routes : now < routes[k].expiresAt}

(* GetRouteCache: the entries, each with the TTL of the cache. *)
GetRouteCache ==
  [k \in Entries |-> [path |-> routes[k].path, total |-> routes[k].total,
                      ttl |-> TTL]]

-----------------------------------------------------------------------------
(* nodes and edges are the two snapshots; size, the Route Cache Size.      *)
(* History: known, the edges when the call began.                          *)
NoReport == [pc |-> "idle", nodes |-> {}, edges |-> {}, size |-> 0, known |-> {}]

AnalyzerInit == Init /\ reports = [a \in Analysts |-> NoReport]

Report(a, r) == reports' = [reports EXCEPT ![a] = r] /\ UNCHANGED vars

(* AnalyzeNetwork calls GetNodeList ... *)
CountPeers(a) ==
  /\ reports[a].pc = "idle"
  /\ Report(a, [NoReport EXCEPT !.pc = "edges", !.nodes = nodes, !.known = edges])

(* ... then GetEdgeList, and computes its statistics ... *)
MeasureEdges(a) ==
  /\ reports[a].pc = "edges"
  /\ Report(a, [reports[a] EXCEPT !.pc = "size", !.edges = edges])

(* ... and GetNetworkMetrics asks the cache for its Size and prints. *)
ReadCacheSize(a) ==
  /\ reports[a].pc = "size"
  /\ Report(a, [reports[a] EXCEPT !.pc = "done", !.size = Cardinality(DOMAIN routes)])

Printed(a) ==
  /\ reports[a].pc = "done"
  /\ Report(a, NoReport)

AnalyzerNext ==
  \/ Next /\ UNCHANGED reports
  \/ \E a \in Analysts :
       CountPeers(a) \/ MeasureEdges(a) \/ ReadCacheSize(a) \/ Printed(a)

AnalyzerSpec == AnalyzerInit /\ [][AnalyzerNext]_allVars

-----------------------------------------------------------------------------
(* The two snapshots of AnalyzeNetwork are not one, but its numbers are    *)
(* between those of the graph when it was called and of the graph now: it  *)
(* counts each edge that was there, its average is between its minimum and *)
(* its maximum, which no known edge is outside of, and the density is over *)
(* 100% only if an edge was added in between that leads to a peer which it *)
(* did not count (graph.go:28-65).                                         *)
AnalysisIsBracketed ==
  \A a \in Analysts : reports[a].pc \in {"size", "done"} =>
    LET r == reports[a]
        stats == AnalyzeNetwork(r.nodes, r.edges)
    IN  /\ Cardinality(r.known) <= stats.edges
        /\ stats.edges <= Cardinality(edges)
        /\ stats.peers <= Cardinality(nodes)
        /\ stats.min <= stats.avg /\ stats.avg <= stats.max
        /\ \A l \in r.known : Latency[l] \in stats.min .. stats.max
        /\ stats.edges > stats.possible =>
             \E l \in r.edges \ r.known : ~ {l[1], l[2]} \subseteq r.nodes

(* AnalyzeNetwork and FindBottlenecks do not contradict each other, though *)
(* each rounds its averages down and an edge counts once for the one and   *)
(* at both of its ends for the other: when the average latency of the      *)
(* network exceeds a threshold, some peer is a bottleneck; and there is no *)
(* bottleneck when not even the slowest edge exceeds it (graph.go:43-64,   *)
(* 71-91).                                                                 *)
BottlenecksMatchAverage ==
  \A threshold \in Thresholds :
    LET stats == AnalyzeNetwork(nodes, edges)
        slow == FindBottlenecks(edges, threshold)
    IN  /\ stats.avg > threshold => slow # {}
        /\ slow # {} => stats.max > threshold

(* A route that GetRouteCache lists is one that CalculateRoute would answer *)
(* with at that moment, is a route of the graph as it is, and expires      *)
(* within the TTL that is listed with it; and each route that CalculateRoute*)
(* would answer with is listed, but for the instant at which it expires    *)
(* (types.go:99, 151, grpc_server.go:74-96).                               *)
ListedIsServed ==
  LET listed == GetRouteCache
  IN  /\ \A k \in DOMAIN listed :
           /\ Cached(k)
           /\ listed[k].path \in Paths(nodes, edges, k)
           /\ listed[k].total = Cost(listed[k].path)
           /\ routes[k].expiresAt <= now + listed[k].ttl
      /\ \A k \in DOMAIN routes :
           Cached(k) => k \in DOMAIN listed \/ now = routes[k].expiresAt
=============================================================================
