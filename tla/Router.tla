------------------------------- MODULE Router -------------------------------
(***************************************************************************)
(* The router of one peer process: DijkstraRouter.CalculateRoute (internal *)
(* /routing/dijkstra.go) with its RouteCache (types.go), called from any   *)
(* number of goroutines at once, over a NetworkGraph (internal/peer        *)
(* /peer.go) that grows meanwhile, in a clock's time.                      *)
(*                                                                         *)
(* A step of a call is one critical section of RouteCache.mu or of         *)
(* NetworkGraph.mu.  What the search makes of its two snapshots is local   *)
(* to the call and part of the step that takes the second: it finds one    *)
(* of ShortestPaths, or that there is none, as module Dijkstra shows of    *)
(* every graph in which no peer has the ID -1 (ReturnsShortestPath).       *)
(*                                                                         *)
(* What calls AddNode and AddEdge is module Overlay: both ends of an edge  *)
(* are nodes before it is added, nothing is ever removed, and a link is    *)
(* measured once.  (There, all edges leave the peer itself; the router     *)
(* takes any graph, and is called on others by cmd/benchmark.)             *)
(***************************************************************************)
EXTENDS Routes

CONSTANTS
  Calls,     \* the goroutines that may be in a CalculateRoute
  Links,     \* the pairs <<from, to>> that may become edges
  Requests,  \* the pairs <<fromID, toID>> that calls ask for
  TTL,       \* the time that a route stays in the cache
  MaxTime    \* bound of the clock

(* Latency[l] is what measureLatency finds for the link l: at least 1ms. *)
ASSUME RouterAssumption ==
  /\ IsFiniteSet(PeerIDs)
  /\ PeerIDs \subseteq Int \ {-1}
  /\ Links \subseteq {l \in PeerIDs \X PeerIDs : l[1] # l[2]}
  /\ Latency \in [Links -> Nat \ {0}]
  /\ Requests \subseteq PeerIDs \X PeerIDs
  /\ TTL \in Nat /\ MaxTime \in Nat

VARIABLES
  nodes,   \* NetworkGraph.Nodes: the set of its keys
  edges,   \* NetworkGraph.Edges: the set of its links
  now,     \* time.Now()
  routes,  \* RouteCache.routes: a map from pairs to cached routes
  calls,   \* the call each goroutine has in progress
  since    \* history: when each link became an edge

graph == <<nodes, edges, since>>
vars == <<graph, now, routes, calls>>

(* pc is the step that the call takes next; nodes, its first snapshot;     *)
(* path and total, the route it has found, and << >> if none.  History:    *)
(* begun, when it called Get, and known, the edges at that time; hit, that *)
(* its route is from the cache; lag, how long the search for that route    *)
(* took.                                                                   *)
Idle == [pc |-> "idle", pair |-> << >>, nodes |-> {}, path |-> << >>,
         total |-> 0, begun |-> 0, known |-> {}, hit |-> FALSE, lag |-> 0]

Init ==
  /\ nodes = {} /\ edges = {} /\ since = [l \in Links |-> 0]
  /\ now = 0
  /\ routes = << >>
  /\ calls = [c \in Calls |-> Idle]

Put(f, k, v) == [j \in DOMAIN f \union {k} |-> IF j = k THEN v ELSE f[j]]
Without(f, K) == [j \in DOMAIN f \ K |-> f[j]]

-----------------------------------------------------------------------------
AddNode(n) ==
  /\ nodes' = nodes \union {n}
  /\ UNCHANGED <<edges, since, now, routes, calls>>

(* Mutant of AddEdge: the edge may be added before its nodes. *)
AddEdgeEarly(l) ==
  /\ l \notin edges
  /\ edges' = edges \union {l}
  /\ since' = [since EXCEPT ![l] = now]
  /\ UNCHANGED <<nodes, now, routes, calls>>

AddEdge(l) ==
  /\ l \notin edges
  /\ {l[1], l[2]} \subseteq nodes
  /\ edges' = edges \union {l}
  /\ since' = [since EXCEPT ![l] = now]
  /\ UNCHANGED <<nodes, now, routes, calls>>

(* Mutant of Cached: Get does not look at ExpiresAt. *)
CachedForever(k) == k \in DOMAIN routes

(* Get finds a route for k, and now is not after its ExpiresAt. *)
Cached(k) == k \in DOMAIN routes /\ now <= routes[k].expiresAt

Begin(k) == [Idle EXCEPT !.pair = k, !.begun = now, !.known = edges]

(* CalculateRoute of a peer to itself. *)
AnswerItself(c, k) ==
  /\ calls[c].pc = "idle"
  /\ k[1] = k[2]
  /\ calls' = [calls EXCEPT ![c] =
                 [Begin(k) EXCEPT !.pc = "reply", !.path = <<k[1]>>]]
  /\ UNCHANGED <<graph, now, routes>>

CacheHit(c, k) ==
  /\ calls[c].pc = "idle"
  /\ k[1] # k[2]
  /\ Cached(k)
  /\ calls' = [calls EXCEPT ![c] =
                 [Begin(k) EXCEPT !.pc = "reply", !.path = routes[k].path,
                                  !.total = routes[k].total,
                                  !.hit = TRUE, !.lag = routes[k].lag]]
  /\ UNCHANGED <<graph, now, routes>>

CacheMiss(c, k) ==
  /\ calls[c].pc = "idle"
  /\ k[1] # k[2]
  /\ ~ Cached(k)
  /\ calls' = [calls EXCEPT ![c] = [Begin(k) EXCEPT !.pc = "nodes"]]
  /\ UNCHANGED <<graph, now, routes>>

(* dijkstra: GetNodeList ... *)
ReadNodes(c) ==
  /\ calls[c].pc = "nodes"
  /\ calls' = [calls EXCEPT ![c].pc = "edges", ![c].nodes = nodes]
  /\ UNCHANGED <<graph, now, routes>>

(* Mutant of Search: the fewest hops, as a breadth-first search finds. *)
SearchFewestHops(c) ==
  /\ calls[c].pc = "edges"
  /\ LET found == Paths(calls[c].nodes, edges, calls[c].pair)
     IN  \E p \in {q \in found : \A r \in found : Len(q) <= Len(r)} :
           calls' = [calls EXCEPT ![c].pc = "set", ![c].path = p,
                                  ![c].total = Cost(p)]
  /\ UNCHANGED <<graph, now, routes>>

(* ... then GetEdgeList, and the search: it finds a shortest route ... *)
Search(c) ==
  /\ calls[c].pc = "edges"
  /\ \E p \in ShortestPaths(calls[c].nodes, edges, calls[c].pair) :
       calls' = [calls EXCEPT ![c].pc = "set", ![c].path = p,
                              ![c].total = Cost(p)]
  /\ UNCHANGED <<graph, now, routes>>

(* ... or returns an error, which is not cached. *)
SearchFails(c) ==
  /\ calls[c].pc = "edges"
  /\ Paths(calls[c].nodes, edges, calls[c].pair) = {}
  /\ calls' = [calls EXCEPT ![c].pc = "reply"]
  /\ UNCHANGED <<graph, now, routes>>

(* Mutant of Entry: the number of hops instead of the latency. *)
EntryHops(c) == [path |-> calls[c].path, total |-> Len(calls[c].path) - 1,
                 expiresAt |-> now + TTL, lag |-> now - calls[c].begun]

(* Mutant of Entry: the TTL is added twice. *)
EntryTwice(c) == [path |-> calls[c].path, total |-> calls[c].total,
                  expiresAt |-> now + 2 * TTL, lag |-> now - calls[c].begun]

(* The CachedRoute that Set makes of the route that c has found. *)
Entry(c) == [path |-> calls[c].path, total |-> calls[c].total,
             expiresAt |-> now + TTL, lag |-> now - calls[c].begun]

(* RouteCache.Set replaces what is there, be it newer. *)
Set(c) ==
  /\ calls[c].pc = "set"
  /\ routes' = Put(routes, calls[c].pair, Entry(c))
  /\ calls' = [calls EXCEPT ![c].pc = "reply"]
  /\ UNCHANGED <<graph, now>>

(* The caller has its route, or the error. *)
Return(c) ==
  /\ calls[c].pc = "reply"
  /\ calls' = [calls EXCEPT ![c] = Idle]
  /\ UNCHANGED <<graph, now, routes>>

(* InvalidateRouteCache. *)
Invalidate ==
  /\ routes' = << >>
  /\ UNCHANGED <<graph, now, calls>>

(* InvalidatePeerRoutes: the routes through n go. *)
InvalidatePeer(n) ==
  /\ routes' = Without(routes, {k \in DOMAIN routes :
                 \E i \in DOMAIN routes[k].path : routes[k].path[i] = n})
  /\ UNCHANGED <<graph, now, calls>>

Tick ==
  /\ now < MaxTime
  /\ now' = now + 1
  /\ UNCHANGED <<graph, routes, calls>>

Step(c) ==
  \/ ReadNodes(c) \/ Search(c) \/ SearchFails(c) \/ Set(c) \/ Return(c)

Start(c, k) == AnswerItself(c, k) \/ CacheHit(c, k) \/ CacheMiss(c, k)

Next ==
  \/ \E n \in PeerIDs : AddNode(n) \/ InvalidatePeer(n)
  \/ \E l \in Links : AddEdge(l)
  \/ \E c \in Calls : Step(c) \/ \E k \in Requests : Start(c, k)
  \/ Invalidate
  \/ Tick

Spec == Init /\ [][Next]_vars

-----------------------------------------------------------------------------
(* What a TotalLatency may be. *)
Totals == {0} \union UNION {{Cost(p) : p \in Paths(PeerIDs, Links, k)} :
                              k \in Requests}

CallStates ==
  [pc : {"idle", "nodes", "edges", "set", "reply"},
   pair : Requests \union {<< >>}, nodes : SUBSET PeerIDs,
   path : Seq(PeerIDs), total : Totals, begun : 0 .. MaxTime,
   known : SUBSET Links, hit : BOOLEAN, lag : 0 .. MaxTime]

CachedRoutes == [path : Seq(PeerIDs), total : Totals,
                 expiresAt : 0 .. MaxTime + TTL, lag : 0 .. MaxTime]

(* Types of the graph, the clock, the cache and the calls. *)
TypeOK ==
  /\ nodes \in SUBSET PeerIDs
  /\ edges \in SUBSET Links
  /\ since \in [Links -> 0 .. MaxTime]
  /\ now \in 0 .. MaxTime
  /\ DOMAIN routes \subseteq Requests
  /\ routes = [k \in DOMAIN routes |-> routes[k]]
  /\ \A k \in DOMAIN routes : routes[k] \in CachedRoutes
  /\ calls \in [Calls -> CallStates]

(* Nothing removes a route from the cache when the graph changes, and Set  *)
(* may come long after the snapshots: all the same, a route that is cached *)
(* or answered leads from the one peer asked for to the other over edges   *)
(* of the graph as it is now, and its latencies add up (types.go:40        *)
(* "complete", :44 "sum of edge weights").                                 *)
RoutesExist ==
  /\ \A k \in DOMAIN routes :
       /\ routes[k].path \in Paths(nodes, edges, k)
       /\ routes[k].total = Cost(routes[k].path)
  /\ \A c \in Calls : LET k == calls[c].pair IN
       calls[c].pc \in {"set", "reply"} /\ calls[c].path # << >>
         /\ k[1] # k[2] =>
           /\ calls[c].path \in Paths(nodes, edges, k)
           /\ calls[c].total = Cost(calls[c].path)

(* A call that is not answered from the cache never misses a route that    *)
(* was there when it began, whatever is added between its two snapshots:   *)
(* it returns an error only if there was none, and else a route that is no *)
(* longer (dijkstra.go:22-23, 68-69).                                      *)
SearchMissesNoRoute ==
  \A c \in Calls : LET k == calls[c].pair IN
    calls[c].pc \in {"set", "reply"} /\ ~ calls[c].hit /\ k[1] # k[2] =>
      \A p \in Paths(PeerIDs, calls[c].known, k) :
        calls[c].path # << >> /\ calls[c].total <= Cost(p)

(* The edges that were there before t. *)
EdgesBefore(t) == {l \in edges : since[l] < t}

(* A route out of the cache may be stale, but not by more than the TTL and *)
(* the time that the call took which put it there: a shorter route, if any *)
(* exists, came later (types.go:53 "with time-based expiration").          *)
StaleByTTLAtMost ==
  \A c \in Calls : calls[c].hit =>
    \A p \in Paths(PeerIDs,
                   EdgesBefore(calls[c].begun - TTL - calls[c].lag),
                   calls[c].pair) :
      calls[c].total <= Cost(p)

(* Both ends of an edge are nodes, also in the snapshots of a call, at     *)
(* least for the edges that it must not miss.                              *)
EdgesHaveNodes ==
  /\ \A l \in edges : {l[1], l[2]} \subseteq nodes
  /\ \A c \in Calls : calls[c].pc = "edges" =>
       \A l \in calls[c].known : {l[1], l[2]} \subseteq calls[c].nodes

(* What a call has, from the step at which it is. *)
CallsInOrder ==
  \A c \in Calls :
    /\ calls[c].known \subseteq edges /\ calls[c].nodes \subseteq nodes
    /\ calls[c].begun <= now
    /\ calls[c].pc # "idle" =>
         /\ calls[c].pair \in Requests
         /\ EdgesBefore(calls[c].begun) \subseteq calls[c].known
    /\ calls[c].pc \in {"nodes", "edges", "set"} =>
         ~ calls[c].hit /\ calls[c].pair[1] # calls[c].pair[2]
    /\ calls[c].pc \in {"nodes", "edges"} => calls[c].path = << >>
    /\ calls[c].pc = "set" => calls[c].path # << >>
    /\ calls[c].hit => calls[c].pc = "reply" /\ calls[c].path # << >>
                         /\ calls[c].pair[1] # calls[c].pair[2]

(* A cached route was the shortest when the call began that found it. *)
CacheIsInOrder ==
  \A k \in DOMAIN routes :
    LET begun == routes[k].expiresAt - TTL - routes[k].lag IN
    /\ begun \in 0 .. now
    /\ k[1] # k[2] /\ routes[k].path # << >>
    /\ \A p \in Paths(PeerIDs, EdgesBefore(begun), k) :
         routes[k].total <= Cost(p)

(* The inductive invariant of the proofs (dijkstra.go:22-61).              *)
RouterInv ==
  /\ TypeOK
  /\ EdgesHaveNodes
  /\ CallsInOrder
  /\ CacheIsInOrder
  /\ RoutesExist
  /\ SearchMissesNoRoute
  /\ StaleByTTLAtMost
=============================================================================
