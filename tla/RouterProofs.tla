---------------------------- MODULE RouterProofs ----------------------------
(***************************************************************************)
(* Theorems about module Router, for any number of concurrent calls, every *)
(* set of peers and links, all latencies, any TTL and any run of the clock.*)
(***************************************************************************)
EXTENDS Router, TLAPS

(* More nodes and more edges leave every route where it is. *)
LEMMA PathsGrow ==
  ASSUME NEW N, NEW M, NEW E, NEW F, NEW k, N \subseteq M, E \subseteq F
  PROVE  Paths(N, E, k) \subseteq Paths(M, F, k)
<1>1. SUFFICES ASSUME NEW p \in Paths(N, E, k)
               PROVE  p \in Paths(M, F, k)
  OBVIOUS
<1>2. PICK n \in 1 .. Cardinality(PeerIDs) : p \in [1 .. n -> N]
  BY DEF Paths
<1>3. p \in [1 .. n -> M]
  BY <1>2
<1>4. QED
  BY <1>2, <1>3 DEF Paths

(* A route between two peers visits only peers that are ends of its edges. *)
LEMMA PathsByEdges ==
  ASSUME NEW N, NEW M, NEW E, NEW k, k[1] # k[2],
         \A l \in E : {l[1], l[2]} \subseteq M
  PROVE  Paths(N, E, k) \subseteq Paths(M, E, k)
<1>1. SUFFICES ASSUME NEW p \in Paths(N, E, k)
               PROVE  p \in Paths(M, E, k)
  OBVIOUS
<1>c. \A n \in 1 .. Cardinality(PeerIDs) : n \in Nat \ {0}
  OBVIOUS
<1>2. PICK n \in 1 .. Cardinality(PeerIDs) : p \in [1 .. n -> N]
  BY DEF Paths
<1>3. p \in Seq(N) /\ Len(p) = n /\ n \in Nat \ {0}
  BY <1>2, <1>c
<1>4. p[1] # p[n] /\ \A i \in 1 .. n - 1 : <<p[i], p[i + 1]>> \in E
  BY <1>3 DEF Paths
<1>5. ASSUME NEW i \in 1 .. n
      PROVE  p[i] \in M
  <2>1. CASE i < n
    <3>1. <<p[i], p[i + 1]>> \in E
      BY <1>3, <1>4, <2>1
    <3>2. <<p[i], p[i + 1]>>[1] \in M
      BY <3>1
    <3>3. QED
      BY <3>2
  <2>2. CASE i = n
    <3>1. n # 1
      BY <1>4
    <3>2. n - 1 \in 1 .. n - 1 /\ n - 1 + 1 = n
      BY <1>3, <3>1
    <3>3. <<p[n - 1], p[n]>> \in E
      BY <1>4, <3>2
    <3>4. <<p[n - 1], p[n]>>[2] \in M
      BY <3>3
    <3>5. QED
      BY <3>4, <2>2
  <2>3. QED
    BY <1>3, <2>1, <2>2
<1>6. p \in [1 .. n -> M]
  BY <1>2, <1>5
<1>7. QED
  BY <1>1, <1>2, <1>6 DEF Paths

(* What a route is. *)
LEMMA PathFacts ==
  ASSUME NEW N \in SUBSET PeerIDs, NEW E, NEW k, NEW p \in Paths(N, E, k)
  PROVE  p \in Seq(PeerIDs) /\ p # << >>
<1>1. PICK n \in 1 .. Cardinality(PeerIDs) : p \in [1 .. n -> N]
  BY DEF Paths
<1>2. n \in Nat \ {0} /\ p \in [1 .. n -> PeerIDs]
  BY <1>1
<1>3. p \in Seq(PeerIDs) /\ Len(p) = n
  BY <1>2
<1>4. QED
  BY <1>2, <1>3

LEMMA TotalFacts ==
  /\ 0 \in Totals
  /\ \A N \in SUBSET PeerIDs, E \in SUBSET Links, k \in Requests :
       \A p \in Paths(N, E, k) : Cost(p) \in Totals
<1>1. 0 \in Totals
  BY DEF Totals
<1>2. ASSUME NEW N \in SUBSET PeerIDs, NEW E \in SUBSET Links,
             NEW k \in Requests, NEW p \in Paths(N, E, k)
      PROVE  Cost(p) \in Totals
  <2>1. p \in Paths(PeerIDs, Links, k)
    BY PathsGrow
  <2>2. QED
    BY <2>1 DEF Totals
<1>3. QED
  BY <1>1, <1>2

-----------------------------------------------------------------------------
(* RouterInv again, as predicates of one call and of one cached route in a *)
(* graph with nodes N, edges E since S, at time t: what a step leaves      *)
(* alone is then the same term before and after it.                        *)
Before(E, S, t) == {l \in E : S[l] < t}

GraphOK(N, E, S, t) ==
  /\ N \in SUBSET PeerIDs
  /\ E \in SUBSET Links
  /\ S \in [Links -> 0 .. MaxTime]
  /\ t \in 0 .. MaxTime
  /\ \A l \in E : {l[1], l[2]} \subseteq N

(* EdgesHaveNodes and CallsInOrder. *)
CallInOrder(x, N, E, S, t) ==
  /\ x \in CallStates
  /\ x.pc = "edges" => \A l \in x.known : {l[1], l[2]} \subseteq x.nodes
  /\ x.known \subseteq E /\ x.nodes \subseteq N
  /\ x.begun <= t
  /\ x.pc # "idle" => /\ x.pair \in Requests
                      /\ Before(E, S, x.begun) \subseteq x.known
  /\ x.pc \in {"nodes", "edges", "set"} => ~ x.hit /\ x.pair[1] # x.pair[2]
  /\ x.pc \in {"nodes", "edges"} => x.path = << >>
  /\ x.pc = "set" => x.path # << >>
  /\ x.hit => x.pc = "reply" /\ x.path # << >> /\ x.pair[1] # x.pair[2]

(* RoutesExist, SearchMissesNoRoute and StaleByTTLAtMost. *)
AnswerOK(x, N, E, S) ==
  /\ x.pc \in {"set", "reply"} /\ x.path # << >> /\ x.pair[1] # x.pair[2] =>
       x.path \in Paths(N, E, x.pair) /\ x.total = Cost(x.path)
  /\ x.pc \in {"set", "reply"} /\ ~ x.hit /\ x.pair[1] # x.pair[2] =>
       \A p \in Paths(PeerIDs, x.known, x.pair) :
         x.path # << >> /\ x.total <= Cost(p)
  /\ x.hit =>
       \A p \in Paths(PeerIDs, Before(E, S, x.begun - TTL - x.lag), x.pair) :
         x.total <= Cost(p)

CallOK(x, N, E, S, t) == CallInOrder(x, N, E, S, t) /\ AnswerOK(x, N, E, S)

(* CacheIsInOrder and RoutesExist. *)
RouteOK(r, k, N, E, S, t) ==
  LET begun == r.expiresAt - TTL - r.lag IN
  /\ k \in Requests /\ r \in CachedRoutes
  /\ begun \in 0 .. t
  /\ k[1] # k[2] /\ r.path # << >>
  /\ \A p \in Paths(PeerIDs, Before(E, S, begun), k) : r.total <= Cost(p)
  /\ r.path \in Paths(N, E, k) /\ r.total = Cost(r.path)

AllOK(N, E, S, t, rs, cs) ==
  /\ GraphOK(N, E, S, t)
  /\ rs = [k \in DOMAIN rs |-> rs[k]]
  /\ \A k \in DOMAIN rs : RouteOK(rs[k], k, N, E, S, t)
  /\ cs = [c \in Calls |-> cs[c]]
  /\ \A c \in Calls : CallOK(cs[c], N, E, S, t)

LEMMA SplitInv == RouterInv => AllOK(nodes, edges, since, now, routes, calls)
<1> SUFFICES ASSUME RouterInv
             PROVE  AllOK(nodes, edges, since, now, routes, calls)
  OBVIOUS
<1>1. GraphOK(nodes, edges, since, now)
  BY DEF RouterInv, TypeOK, EdgesHaveNodes, GraphOK
<1>2. routes = [k \in DOMAIN routes |-> routes[k]]
      /\ calls = [c \in Calls |-> calls[c]]
  BY DEF RouterInv, TypeOK
<1>3. ASSUME NEW k \in DOMAIN routes
      PROVE  RouteOK(routes[k], k, nodes, edges, since, now)
  BY DEF RouterInv, TypeOK, CacheIsInOrder, RoutesExist, RouteOK, Before,
         EdgesBefore
<1>4. ASSUME NEW c \in Calls
      PROVE  CallOK(calls[c], nodes, edges, since, now)
  <2>1. CallInOrder(calls[c], nodes, edges, since, now)
    BY DEF RouterInv, TypeOK, EdgesHaveNodes, CallsInOrder, CallInOrder,
           Before, EdgesBefore
  <2>2. AnswerOK(calls[c], nodes, edges, since)
    BY DEF RouterInv, RoutesExist, SearchMissesNoRoute, StaleByTTLAtMost,
           AnswerOK, Before, EdgesBefore
  <2>3. QED
    BY <2>1, <2>2 DEF CallOK
<1>5. QED
  BY <1>1, <1>2, <1>3, <1>4 DEF AllOK

LEMMA JoinInv == AllOK(nodes, edges, since, now, routes, calls) => RouterInv
<1> SUFFICES ASSUME AllOK(nodes, edges, since, now, routes, calls)
             PROVE  RouterInv
  OBVIOUS
<1>a. \A c \in Calls : /\ CallInOrder(calls[c], nodes, edges, since, now)
                       /\ AnswerOK(calls[c], nodes, edges, since)
  BY DEF AllOK, CallOK
<1>1. TypeOK
  <2>1. calls \in [Calls -> CallStates]
    BY <1>a DEF AllOK, CallInOrder
  <2>2. QED
    BY <2>1 DEF AllOK, GraphOK, RouteOK, TypeOK
<1>2. EdgesHaveNodes
  BY <1>a DEF AllOK, GraphOK, CallInOrder, EdgesHaveNodes
<1>3. CallsInOrder
  BY <1>a DEF CallInOrder, CallsInOrder, Before, EdgesBefore
<1>4. CacheIsInOrder
  BY DEF AllOK, RouteOK, CacheIsInOrder, Before, EdgesBefore
<1>5. RoutesExist
  BY <1>a DEF AllOK, RouteOK, AnswerOK, RoutesExist
<1>6. SearchMissesNoRoute
  BY <1>a DEF AnswerOK, SearchMissesNoRoute
<1>7. StaleByTTLAtMost
  BY <1>a DEF AnswerOK, StaleByTTLAtMost, Before, EdgesBefore
<1>8. QED
  BY <1>1, <1>2, <1>3, <1>4, <1>5, <1>6, <1>7 DEF RouterInv

LEMMA JoinInvNext ==
  AllOK(nodes', edges', since', now', routes', calls') => RouterInv'
<1>1. (AllOK(nodes, edges, since, now, routes, calls))' => RouterInv'
  BY JoinInv, PTL
<1>2. QED
  BY <1>1

(* As the graph grows and time goes on, the edges of the past stay the     *)
(* same, and so what is right of a call or of a cached route stays right.  *)
LEMMA Growth ==
  ASSUME NEW N, NEW E, NEW S, NEW t, NEW M, NEW F, NEW R, NEW u,
         GraphOK(N, E, S, t), GraphOK(M, F, R, u),
         N \subseteq M, E \subseteq F, t <= u,
         \A l \in E : R[l] = S[l],
         \A l \in F \ E : t <= R[l]
  PROVE  /\ \A x : CallOK(x, N, E, S, t) => CallOK(x, M, F, R, u)
         /\ \A r, k : RouteOK(r, k, N, E, S, t) => RouteOK(r, k, M, F, R, u)
<1>0. TTL \in Nat /\ MaxTime \in Nat /\ t \in Nat /\ u \in Nat
  BY RouterAssumption DEF GraphOK
<1>1. \A s \in Int : s <= t => Before(F, R, s) = Before(E, S, s)
  <2>1. SUFFICES ASSUME NEW s \in Int, s <= t, NEW l \in F \ E
                 PROVE  ~ (R[l] < s)
    BY DEF Before
  <2>2. R[l] \in Nat /\ t <= R[l]
    BY DEF GraphOK
  <2>3. QED
    BY <1>0, <2>1, <2>2
<1>2. ASSUME NEW x, CallOK(x, N, E, S, t)
      PROVE  CallOK(x, M, F, R, u)
  <2>0. CallInOrder(x, N, E, S, t) /\ AnswerOK(x, N, E, S)
    BY <1>2 DEF CallOK
  <2>1. x.begun \in Nat /\ x.begun <= t /\ x.lag \in Nat
    BY <2>0 DEF CallInOrder, CallStates
  <2>2. Before(F, R, x.begun) = Before(E, S, x.begun)
    BY <1>1, <2>1
  <2>3. x.begun - TTL - x.lag \in Int /\ x.begun - TTL - x.lag <= t
    BY <1>0, <2>1
  <2>4. Before(F, R, x.begun - TTL - x.lag) = Before(E, S, x.begun - TTL - x.lag)
    BY <1>1, <2>3
  <2>5. CallInOrder(x, M, F, R, u)
    BY <1>0, <2>0, <2>1, <2>2 DEF CallInOrder
  <2>6. Paths(N, E, x.pair) \subseteq Paths(M, F, x.pair)
    BY PathsGrow
  <2>7. AnswerOK(x, M, F, R)
    BY <2>0, <2>4, <2>6 DEF AnswerOK
  <2>8. QED
    BY <2>5, <2>7 DEF CallOK
<1>3. ASSUME NEW r, NEW k, RouteOK(r, k, N, E, S, t)
      PROVE  RouteOK(r, k, M, F, R, u)
  <2>1. r.expiresAt - TTL - r.lag \in 0 .. t
    BY <1>3 DEF RouteOK
  <2>2. /\ r.expiresAt - TTL - r.lag \in 0 .. u
        /\ Before(F, R, r.expiresAt - TTL - r.lag)
             = Before(E, S, r.expiresAt - TTL - r.lag)
    BY <1>0, <1>1, <2>1
  <2>3. Paths(N, E, k) \subseteq Paths(M, F, k)
    BY PathsGrow
  <2>4. QED
    BY <1>3, <2>2, <2>3 DEF RouteOK
<1>4. QED
  BY <1>2, <1>3

(* A step that only grows the graph or lets time pass. *)
LEMMA GrowthStep ==
  ASSUME AllOK(nodes, edges, since, now, routes, calls),
         GraphOK(nodes', edges', since', now'),
         nodes \subseteq nodes', edges \subseteq edges', now <= now',
         \A l \in edges : since'[l] = since[l],
         \A l \in edges' \ edges : now <= since'[l],
         UNCHANGED <<routes, calls>>
  PROVE  AllOK(nodes', edges', since', now', routes', calls')
<1>1. /\ \A x : CallOK(x, nodes, edges, since, now)
                  => CallOK(x, nodes', edges', since', now')
      /\ \A r, k : RouteOK(r, k, nodes, edges, since, now)
                     => RouteOK(r, k, nodes', edges', since', now')
  BY Growth DEF AllOK
<1>2. QED
  BY <1>1 DEF AllOK

(* A step of one call that leaves the rest alone. *)
LEMMA CallStep ==
  ASSUME AllOK(nodes, edges, since, now, routes, calls),
         UNCHANGED <<nodes, edges, since, now, routes>>,
         NEW c \in Calls, NEW x, CallOK(x, nodes, edges, since, now),
         calls' = [calls EXCEPT ![c] = x]
  PROVE  AllOK(nodes', edges', since', now', routes', calls')
<1>1. calls' = [d \in Calls |-> IF d = c THEN x ELSE calls[d]]
  BY DEF AllOK
<1>2. \A d \in Calls : CallOK(calls'[d], nodes, edges, since, now)
  BY <1>1 DEF AllOK
<1>3. QED
  BY <1>1, <1>2 DEF AllOK

-----------------------------------------------------------------------------
(* One lemma per action, or two actions that change the same. *)
LEMMA GraphActions ==
  ASSUME AllOK(nodes, edges, since, now, routes, calls),
         \/ \E n \in PeerIDs : AddNode(n)
         \/ \E l \in Links : AddEdge(l)
         \/ Tick
  PROVE  AllOK(nodes', edges', since', now', routes', calls')
<1>0. GraphOK(nodes, edges, since, now) /\ MaxTime \in Nat
  BY RouterAssumption DEF AllOK
<1>1. CASE \E n \in PeerIDs : AddNode(n)
  <2>1. GraphOK(nodes', edges', since', now')
    BY <1>0, <1>1 DEF AddNode, GraphOK
  <2>2. QED
    BY <1>0, <1>1, <2>1, GrowthStep DEF AddNode, GraphOK
<1>2. ASSUME NEW l \in Links, AddEdge(l)
      PROVE  AllOK(nodes', edges', since', now', routes', calls')
  <2>1. /\ since' = [since EXCEPT ![l] = now]
        /\ edges' = edges \union {l} /\ l \notin edges
        /\ UNCHANGED <<nodes, now, routes, calls>>
    BY <1>2 DEF AddEdge
  <2>2. GraphOK(nodes', edges', since', now')
    BY <1>0, <1>2, <2>1 DEF AddEdge, GraphOK
  <2>3. \A m \in edges : since'[m] = since[m]
    BY <1>0, <2>1 DEF GraphOK
  <2>4. \A m \in edges' \ edges : now <= since'[m]
    BY <1>0, <2>1 DEF GraphOK
  <2>5. QED
    BY <1>0, <2>1, <2>2, <2>3, <2>4, GrowthStep DEF GraphOK
<1>3. CASE Tick
  <2>1. GraphOK(nodes', edges', since', now')
    BY <1>0, <1>3 DEF Tick, graph, GraphOK
  <2>2. QED
    BY <1>0, <1>3, <2>1, GrowthStep DEF Tick, graph, GraphOK
<1>4. QED
  BY <1>1, <1>2, <1>3

BeginFields(k) ==
  /\ Begin(k).pair = k /\ Begin(k).begun = now /\ Begin(k).known = edges
  /\ Begin(k).nodes = {} /\ Begin(k).path = << >> /\ Begin(k).total = 0
  /\ ~ Begin(k).hit /\ Begin(k).lag = 0

LEMMA BeginIsACall ==
  ASSUME AllOK(nodes, edges, since, now, routes, calls),
         NEW k \in Requests
  PROVE  /\ Begin(k) \in CallStates
         /\ BeginFields(k)
         /\ Before(edges, since, now) \subseteq edges
         /\ now \in Nat
<1>2. << >> \in Seq(PeerIDs) /\ 0 \in Totals /\ 0 \in 0 .. MaxTime
  BY TotalFacts, RouterAssumption
<1>3. now \in 0 .. MaxTime /\ edges \in SUBSET Links
  BY DEF AllOK, GraphOK
<1>4. Idle \in CallStates
  BY <1>2 DEF CallStates, Idle
<1>5. /\ Idle.nodes = {} /\ Idle.path = << >> /\ Idle.total = 0
      /\ Idle.hit = FALSE /\ Idle.lag = 0
  BY DEF Idle
<1>6. Begin(k) \in CallStates
  BY <1>3, <1>4 DEF CallStates, Begin
<1>7. BeginFields(k)
  BY <1>4, <1>5 DEF CallStates, Begin, BeginFields
<1>8. QED
  BY <1>3, <1>6, <1>7 DEF Before

LEMMA StartActions ==
  ASSUME AllOK(nodes, edges, since, now, routes, calls),
         NEW c \in Calls, NEW k \in Requests, Start(c, k)
  PROVE  AllOK(nodes', edges', since', now', routes', calls')
<1>1. /\ Begin(k) \in CallStates
      /\ BeginFields(k)
      /\ Before(edges, since, now) \subseteq edges
      /\ now \in Nat
  BY BeginIsACall
<1>2. UNCHANGED <<nodes, edges, since, now, routes>>
  BY DEF Start, AnswerItself, CacheHit, CacheMiss, graph
<1>3. CASE AnswerItself(c, k)
  <2> DEFINE x == [Begin(k) EXCEPT !.pc = "reply", !.path = <<k[1]>>]
  <2>1. k[1] \in PeerIDs /\ k[1] = k[2]
    BY <1>3, RouterAssumption DEF AnswerItself
  <2>2. <<k[1]>> \in Seq(PeerIDs)
    BY <2>1
  <2>3. x \in CallStates
    BY <1>1, <2>2 DEF CallStates
  <2>4. CallInOrder(x, nodes, edges, since, now)
    BY <1>1, <2>3 DEF CallInOrder, BeginFields, CallStates
  <2>5. AnswerOK(x, nodes, edges, since)
    BY <1>1, <2>1 DEF AnswerOK, BeginFields, CallStates
  <2>6. CallOK(x, nodes, edges, since, now)
    BY <2>4, <2>5 DEF CallOK
  <2>7. calls' = [calls EXCEPT ![c] = x]
    BY <1>3 DEF AnswerItself
  <2>8. QED
    BY <1>2, <2>6, <2>7, CallStep
<1>4. CASE CacheHit(c, k)
  <2> DEFINE r == routes[k]
             x == [Begin(k) EXCEPT !.pc = "reply", !.path = r.path,
                                   !.total = r.total, !.hit = TRUE,
                                   !.lag = r.lag]
             old == r.expiresAt - TTL - r.lag
  <2>1. k \in DOMAIN routes /\ now <= r.expiresAt /\ k[1] # k[2]
    BY <1>4 DEF CacheHit, Cached
  <2>2. RouteOK(r, k, nodes, edges, since, now)
    BY <2>1 DEF AllOK
  <2>3. r \in CachedRoutes
    BY <2>2 DEF RouteOK
  <2>4. /\ x.pc = "reply" /\ x.pair = k /\ x.nodes = {} /\ x.path = r.path
        /\ x.total = r.total /\ x.begun = now /\ x.known = edges
        /\ x.hit /\ x.lag = r.lag
    BY <1>1 DEF BeginFields, CallStates
  <2>5. x \in CallStates
    BY <1>1, <2>3 DEF CallStates, CachedRoutes
  <2>6. CallInOrder(x, nodes, edges, since, now)
    BY <1>1, <2>1, <2>2, <2>4, <2>5 DEF CallInOrder, RouteOK
  <2>7. Before(edges, since, now - TTL - r.lag)
          \subseteq Before(edges, since, old)
    <3>1. TTL \in Nat /\ r.lag \in Nat /\ r.expiresAt \in Nat
      BY <2>3, RouterAssumption DEF CachedRoutes
    <3>2. \A l \in edges : since[l] \in Nat
      BY DEF AllOK, GraphOK
    <3>3. QED
      BY <1>1, <2>1, <3>1, <3>2 DEF Before
  <2>8. Paths(PeerIDs, Before(edges, since, now - TTL - r.lag), k)
          \subseteq Paths(PeerIDs, Before(edges, since, old), k)
    BY <2>7, PathsGrow
  <2>9. AnswerOK(x, nodes, edges, since)
    BY <2>2, <2>4, <2>8 DEF AnswerOK, RouteOK
  <2>10. CallOK(x, nodes, edges, since, now)
    BY <2>6, <2>9 DEF CallOK
  <2>11. calls' = [calls EXCEPT ![c] = x]
    BY <1>4 DEF CacheHit
  <2>12. QED
    BY <1>2, <2>10, <2>11, CallStep
<1>5. CASE CacheMiss(c, k)
  <2> DEFINE x == [Begin(k) EXCEPT !.pc = "nodes"]
  <2>1. x \in CallStates
    BY <1>1 DEF CallStates
  <2>2. CallOK(x, nodes, edges, since, now)
    BY <1>1, <1>5, <2>1 DEF CallOK, CallInOrder, AnswerOK, CacheMiss,
                            BeginFields, CallStates
  <2>3. calls' = [calls EXCEPT ![c] = x]
    BY <1>5 DEF CacheMiss
  <2>4. QED
    BY <1>2, <2>2, <2>3, CallStep
<1>6. QED
  BY <1>3, <1>4, <1>5 DEF Start

LEMMA SearchActions ==
  ASSUME AllOK(nodes, edges, since, now, routes, calls),
         NEW c \in Calls, ReadNodes(c) \/ Search(c) \/ SearchFails(c)
  PROVE  AllOK(nodes', edges', since', now', routes', calls')
<1> DEFINE x == calls[c]
<1>0. /\ GraphOK(nodes, edges, since, now)
      /\ CallOK(x, nodes, edges, since, now)
      /\ CallInOrder(x, nodes, edges, since, now)
      /\ AnswerOK(x, nodes, edges, since)
      /\ x \in CallStates
  BY DEF AllOK, CallOK, CallInOrder
<1>1. UNCHANGED <<nodes, edges, since, now, routes>>
  BY DEF ReadNodes, Search, SearchFails, graph
<1>2. CASE ReadNodes(c)
  <2> DEFINE y == [x EXCEPT !.pc = "edges", !.nodes = nodes]
  <2>1. x.pc = "nodes" /\ calls' = [calls EXCEPT ![c] = y]
    BY <1>2 DEF ReadNodes
  <2>2. y \in CallStates /\ y.pc = "edges" /\ y.nodes = nodes
        /\ y.known = x.known /\ y.pair = x.pair /\ y.hit = x.hit
        /\ y.path = x.path /\ y.begun = x.begun
    BY <1>0 DEF CallStates, GraphOK
  <2>3. CallInOrder(y, nodes, edges, since, now)
    BY <1>0, <2>1, <2>2 DEF CallInOrder, GraphOK
  <2>4. AnswerOK(y, nodes, edges, since)
    BY <2>2, <2>3 DEF AnswerOK, CallInOrder
  <2>5. QED
    BY <1>1, <2>1, <2>3, <2>4, CallStep DEF CallOK
<1>3. CASE Search(c)
  <2>1. PICK p \in ShortestPaths(x.nodes, edges, x.pair) :
          calls' = [calls EXCEPT ![c].pc = "set", ![c].path = p,
                                 ![c].total = Cost(p)]
    BY <1>3 DEF Search
  <2> DEFINE y == [x EXCEPT !.pc = "set", !.path = p, !.total = Cost(p)]
  <2>2. x.pc = "edges" /\ calls' = [calls EXCEPT ![c] = y]
    BY <1>3, <2>1 DEF Search
  <2>3. /\ x.nodes \in SUBSET nodes /\ nodes \in SUBSET PeerIDs
        /\ edges \in SUBSET Links /\ x.known \subseteq edges
        /\ x.pair \in Requests /\ ~ x.hit /\ x.pair[1] # x.pair[2]
        /\ \A l \in x.known : {l[1], l[2]} \subseteq x.nodes
    BY <1>0, <2>2 DEF CallInOrder, GraphOK
  <2>4. /\ p \in Paths(x.nodes, edges, x.pair)
        /\ \A q \in Paths(x.nodes, edges, x.pair) : Cost(p) <= Cost(q)
    BY DEF ShortestPaths
  <2>5. p \in Seq(PeerIDs) /\ p # << >> /\ Cost(p) \in Totals
    <3>1. x.nodes \in SUBSET PeerIDs
      BY <2>3
    <3>2. QED
      BY <2>3, <2>4, <3>1, PathFacts, TotalFacts
  <2>6. /\ y \in CallStates /\ y.pc = "set" /\ y.nodes = x.nodes
        /\ y.known = x.known /\ y.pair = x.pair /\ y.hit = x.hit
        /\ y.path = p /\ y.total = Cost(p) /\ y.begun = x.begun
    BY <1>0, <2>5 DEF CallStates
  <2>7. CallInOrder(y, nodes, edges, since, now)
    BY <1>0, <2>2, <2>5, <2>6 DEF CallInOrder
  <2>8. p \in Paths(nodes, edges, x.pair)
    BY <2>3, <2>4, PathsGrow
  <2>9. ASSUME NEW q \in Paths(PeerIDs, x.known, x.pair)
        PROVE  Cost(p) <= Cost(q)
    <3>1. q \in Paths(x.nodes, x.known, x.pair)
      BY <2>3, PathsByEdges
    <3>2. q \in Paths(x.nodes, edges, x.pair)
      BY <2>3, <3>1, PathsGrow
    <3>3. QED
      BY <2>4, <3>2
  <2>10. AnswerOK(y, nodes, edges, since)
    BY <2>3, <2>5, <2>6, <2>8, <2>9 DEF AnswerOK
  <2>11. QED
    BY <1>1, <2>2, <2>7, <2>10, CallStep DEF CallOK
<1>4. CASE SearchFails(c)
  <2> DEFINE y == [x EXCEPT !.pc = "reply"]
  <2>1. /\ x.pc = "edges" /\ calls' = [calls EXCEPT ![c] = y]
        /\ Paths(x.nodes, edges, x.pair) = {}
    BY <1>4 DEF SearchFails
  <2>2. /\ y \in CallStates /\ y.pc = "reply" /\ y.nodes = x.nodes
        /\ y.known = x.known /\ y.pair = x.pair /\ y.hit = x.hit
        /\ y.path = x.path /\ y.begun = x.begun
    BY <1>0 DEF CallStates
  <2>3. /\ x.known \subseteq edges /\ ~ x.hit /\ x.pair[1] # x.pair[2]
        /\ \A l \in x.known : {l[1], l[2]} \subseteq x.nodes
        /\ x.path = << >>
    BY <1>0, <2>1 DEF CallInOrder
  <2>4. Paths(PeerIDs, x.known, x.pair) = {}
    <3>1. Paths(PeerIDs, x.known, x.pair) \subseteq Paths(x.nodes, x.known, x.pair)
      BY <2>3, PathsByEdges
    <3>2. Paths(x.nodes, x.known, x.pair) \subseteq Paths(x.nodes, edges, x.pair)
      BY <2>3, PathsGrow
    <3>3. QED
      BY <2>1, <3>1, <3>2
  <2>5. CallInOrder(y, nodes, edges, since, now)
    BY <1>0, <2>1, <2>2, <2>3 DEF CallInOrder
  <2>6. AnswerOK(y, nodes, edges, since)
    BY <2>2, <2>3, <2>4 DEF AnswerOK
  <2>7. QED
    BY <1>1, <2>1, <2>5, <2>6, CallStep DEF CallOK
<1>5. QED
  BY <1>2, <1>3, <1>4

LEMMA SetAction ==
  ASSUME AllOK(nodes, edges, since, now, routes, calls),
         NEW c \in Calls, Set(c)
  PROVE  AllOK(nodes', edges', since', now', routes', calls')
<1> DEFINE x == calls[c]
           y == [x EXCEPT !.pc = "reply"]
           r == Entry(c)
<1>0. /\ GraphOK(nodes, edges, since, now)
      /\ CallInOrder(x, nodes, edges, since, now)
      /\ AnswerOK(x, nodes, edges, since)
      /\ x \in CallStates
  BY DEF AllOK, CallOK, CallInOrder
<1>1. /\ x.pc = "set" /\ calls' = [calls EXCEPT ![c] = y]
      /\ routes' = Put(routes, x.pair, r)
      /\ UNCHANGED <<nodes, edges, since, now>>
  BY DEF Set, graph
<1>2. /\ x.pair \in Requests /\ ~ x.hit /\ x.pair[1] # x.pair[2]
      /\ x.path # << >> /\ x.begun <= now
      /\ Before(edges, since, x.begun) \subseteq x.known
  BY <1>0, <1>1 DEF CallInOrder
<1>3. /\ y \in CallStates /\ y.pc = "reply" /\ y.nodes = x.nodes
      /\ y.known = x.known /\ y.pair = x.pair /\ y.hit = x.hit
      /\ y.path = x.path /\ y.total = x.total /\ y.begun = x.begun
  BY <1>0 DEF CallStates
<1>4. CallOK(y, nodes, edges, since, now)
  <2>1. CallInOrder(y, nodes, edges, since, now)
    BY <1>0, <1>2, <1>3 DEF CallInOrder
  <2>2. AnswerOK(y, nodes, edges, since)
    BY <1>0, <1>1, <1>2, <1>3 DEF AnswerOK
  <2>3. QED
    BY <2>1, <2>2 DEF CallOK
<1>5. RouteOK(r, x.pair, nodes, edges, since, now)
  <2>1. /\ r.path = x.path /\ r.total = x.total
        /\ r.expiresAt = now + TTL /\ r.lag = now - x.begun
    BY DEF Entry
  <2>2. TTL \in Nat /\ MaxTime \in Nat /\ now \in 0 .. MaxTime
        /\ x.begun \in Nat
    BY <1>0, RouterAssumption DEF GraphOK, CallStates
  <2>3. r \in CachedRoutes
    BY <1>0, <1>2, <2>2 DEF Entry, CachedRoutes, CallStates
  <2>4. r.expiresAt - TTL - r.lag = x.begun /\ x.begun \in 0 .. now
    BY <1>2, <2>1, <2>2
  <2>5. x.path \in Paths(nodes, edges, x.pair) /\ x.total = Cost(x.path)
    BY <1>0, <1>1, <1>2 DEF AnswerOK
  <2>6. \A p \in Paths(PeerIDs, Before(edges, since, x.begun), x.pair) :
          x.total <= Cost(p)
    <3>1. Paths(PeerIDs, Before(edges, since, x.begun), x.pair)
            \subseteq Paths(PeerIDs, x.known, x.pair)
      BY <1>2, PathsGrow
    <3>2. QED
      BY <1>0, <1>1, <1>2, <3>1 DEF AnswerOK
  <2>7. QED
    BY <1>2, <2>1, <2>3, <2>4, <2>5, <2>6 DEF RouteOK
<1>6. /\ DOMAIN routes' = DOMAIN routes \union {x.pair}
      /\ routes' = [k \in DOMAIN routes' |-> routes'[k]]
      /\ \A k \in DOMAIN routes' :
           routes'[k] = IF k = x.pair THEN r ELSE routes[k]
  BY <1>1 DEF Put
<1>7. \A k \in DOMAIN routes' : RouteOK(routes'[k], k, nodes, edges, since, now)
  BY <1>5, <1>6 DEF AllOK
<1>8. /\ calls' = [d \in Calls |-> calls'[d]]
      /\ \A d \in Calls : CallOK(calls'[d], nodes, edges, since, now)
  BY <1>1, <1>4 DEF AllOK
<1>9. QED
  BY <1>0, <1>1, <1>6, <1>7, <1>8 DEF AllOK

LEMMA ReturnAction ==
  ASSUME AllOK(nodes, edges, since, now, routes, calls),
         NEW c \in Calls, Return(c)
  PROVE  AllOK(nodes', edges', since', now', routes', calls')
<1>1. CallOK(Idle, nodes, edges, since, now)
  <2>1. MaxTime \in Nat /\ now \in 0 .. MaxTime
    BY RouterAssumption DEF AllOK, GraphOK
  <2>2. Idle \in CallStates
    BY <2>1, TotalFacts DEF CallStates, Idle
  <2>3. Idle.pc = "idle" /\ Idle.hit = FALSE /\ Idle.known = {}
        /\ Idle.nodes = {} /\ Idle.begun = 0
    BY DEF Idle
  <2>4. QED
    BY <2>1, <2>2, <2>3 DEF CallOK, CallInOrder, AnswerOK
<1>2. UNCHANGED <<nodes, edges, since, now, routes>>
      /\ calls' = [calls EXCEPT ![c] = Idle]
  BY DEF Return, graph
<1>3. QED
  BY <1>1, <1>2, CallStep

LEMMA InvalidateActions ==
  ASSUME AllOK(nodes, edges, since, now, routes, calls),
         Invalidate \/ \E n \in PeerIDs : InvalidatePeer(n)
  PROVE  AllOK(nodes', edges', since', now', routes', calls')
<1>1. UNCHANGED <<nodes, edges, since, now, calls>>
  BY DEF Invalidate, InvalidatePeer, graph
<1>2. /\ DOMAIN routes' \subseteq DOMAIN routes
      /\ routes' = [k \in DOMAIN routes' |-> routes'[k]]
      /\ \A k \in DOMAIN routes' : routes'[k] = routes[k]
  <2>1. CASE Invalidate
    BY <2>1 DEF Invalidate
  <2>2. CASE \E n \in PeerIDs : InvalidatePeer(n)
    BY <2>2 DEF InvalidatePeer, Without
  <2>3. QED
    BY <2>1, <2>2
<1>3. QED
  BY <1>1, <1>2 DEF AllOK

LEMMA InitInv == Init => RouterInv
<1> SUFFICES ASSUME Init
             PROVE  AllOK(nodes, edges, since, now, routes, calls)
  BY JoinInv
<1>1. GraphOK(nodes, edges, since, now)
  BY RouterAssumption DEF Init, GraphOK
<1>2. CallOK(Idle, nodes, edges, since, now)
  <2>1. MaxTime \in Nat /\ now = 0
    BY RouterAssumption DEF Init
  <2>2. Idle \in CallStates
    BY <2>1, TotalFacts DEF CallStates, Idle
  <2>3. Idle.pc = "idle" /\ Idle.hit = FALSE /\ Idle.known = {}
        /\ Idle.nodes = {} /\ Idle.begun = 0
    BY DEF Idle
  <2>4. QED
    BY <2>1, <2>2, <2>3 DEF CallOK, CallInOrder, AnswerOK
<1>3. DOMAIN routes = {} /\ routes = [k \in DOMAIN routes |-> routes[k]]
  BY DEF Init
<1>4. QED
  BY <1>1, <1>2, <1>3 DEF Init, AllOK

LEMMA NextInv == RouterInv /\ [Next]_vars => RouterInv'
<1> SUFFICES ASSUME RouterInv, [Next]_vars
             PROVE  RouterInv'
  OBVIOUS
<1>0. AllOK(nodes, edges, since, now, routes, calls)
  BY SplitInv
<1>1. AllOK(nodes', edges', since', now', routes', calls')
  <2>1. CASE \/ \E n \in PeerIDs : AddNode(n)
             \/ \E l \in Links : AddEdge(l)
             \/ Tick
    BY <1>0, <2>1, GraphActions
  <2>2. ASSUME NEW c \in Calls, NEW k \in Requests, Start(c, k)
        PROVE  AllOK(nodes', edges', since', now', routes', calls')
    BY <1>0, <2>2, StartActions
  <2>3. ASSUME NEW c \in Calls, Step(c)
        PROVE  AllOK(nodes', edges', since', now', routes', calls')
    <3>1. CASE ReadNodes(c) \/ Search(c) \/ SearchFails(c)
      BY <1>0, <3>1, SearchActions
    <3>2. CASE Set(c)
      BY <1>0, <3>2, SetAction
    <3>3. CASE Return(c)
      BY <1>0, <3>3, ReturnAction
    <3>4. QED
      BY <2>3, <3>1, <3>2, <3>3 DEF Step
  <2>4. CASE Invalidate \/ \E n \in PeerIDs : InvalidatePeer(n)
    BY <1>0, <2>4, InvalidateActions
  <2>5. CASE UNCHANGED vars
    BY <1>0, <2>5 DEF vars, graph
  <2>6. QED
    BY <2>1, <2>2, <2>3, <2>4, <2>5 DEF Next
<1>2. QED
  BY <1>1, JoinInvNext

(* The invariant of the router holds in every state (dijkstra.go:22-61,    *)
(* types.go:76-134).                                                       *)
THEOREM Invariance == Spec => []RouterInv
<1>1. Init => RouterInv
  BY InitInv
<1>2. RouterInv /\ [Next]_vars => RouterInv'
  BY NextInv
<1>3. QED
  BY <1>1, <1>2, PTL DEF Spec

(* The graph, the cache and the calls have their types in every state:     *)
(* what Set stores and what a call answers are well-formed routes          *)
(* (types.go:40-60, dijkstra.go:22-61).                                    *)
THEOREM TypeCorrect == Spec => []TypeOK
<1>1. RouterInv => TypeOK
  BY DEF RouterInv
<1>2. QED
  BY <1>1, Invariance, PTL

(* What is cached, and what is answered, is a route of the graph as it is  *)
(* now (types.go:40).                                                      *)
THEOREM RoutesAlwaysExist == Spec => []RoutesExist
<1>1. RouterInv => RoutesExist
  BY DEF RouterInv
<1>2. QED
  BY <1>1, Invariance, PTL

(* The two snapshots of a search do not make it miss a route               *)
(* (dijkstra.go:68-69).                                                    *)
THEOREM SearchesMissNoRoute == Spec => []SearchMissesNoRoute
<1>1. RouterInv => SearchMissesNoRoute
  BY DEF RouterInv
<1>2. QED
  BY <1>1, Invariance, PTL

(* A route out of the cache is stale by the TTL and the time of its search *)
(* at most (types.go:76-104).                                              *)
THEOREM StalenessIsBounded == Spec => []StaleByTTLAtMost
<1>1. RouterInv => StaleByTTLAtMost
  BY DEF RouterInv
<1>2. QED
  BY <1>1, Invariance, PTL
=============================================================================
