# Verification of the P2P file-sharing system with smart routing

TLA+ modules, TLC configurations and TLAPS proofs for the Go program under
`src/`: a bootstrap server, peers that find each other through it and build a
graph of measured latencies, a router that answers with shortest routes, and a
chunk store with a Bloom filter.

## 1. The system

| Part | Source | State | Operations |
|---|---|---|---|
| Bootstrap server | `cmd/bootstrap/main.go` | `peers` (the registry), in memory, under `mu` | `RegisterPeer`, `GetPeers` |
| Peer process | `cmd/peer/main.go` | where `main` is | serve, register, connect, wait for a signal, stop |
| Peer node | `internal/peer/peer.go` | `connections` under `mu`; the `NetworkGraph` (`Nodes`, `Edges`) under a lock of its own | `RegisterWithBootstrap`, `ConnectToPeers` (one goroutine per peer), `measureLatency`, `Close`, `GetGraphProto` |
| RPC handlers | `internal/network/grpc_server.go` | none | `Ping`, `GetNetworkGraph`, `NotifyNewPeer`, `CalculateRoute`, `GetRouteCache`, `InvalidateRouteCache`, `HasChunk`, `GetBloomFilter`, `DownloadChunk`, `UploadFile` |
| Search | `internal/routing/dijkstra.go` | local to a call | `dijkstra` |
| Router and cache | `internal/routing/types.go`, `dijkstra.go` | `routes` with expiry times, under `mu` | `CalculateRoute`, `Get`, `Set`, `Invalidate`, `InvalidatePeer`, `Entries` |
| Analyzer | `internal/routing/graph.go` | none | `AnalyzeNetwork`, `FindBottlenecks`, `GetNetworkMetrics` |
| Storage manager and chunk store | `internal/storage/manager.go`, `chunk.go` | `chunks`, `files` under `mu`; the directory on disk | `UploadFile` (`SplitFile`), `HasChunk`, `GetChunk`, `ReceiveChunk`, `AssembleFile` |
| Bloom filter | `internal/storage/bloom.go` | `bitArray`, `itemCount` under `mu` | `Add`, `MightContain`, `Serialize`, `DeserializeBloomFilter`, `Merge`, `Stats` |
| Hashes | `internal/storage/hash.go` | none | `ComputeHash`, `VerifyChunk`, `BuildMerkleTree`, `RootHash`, `VerifyFileIntegrity` |

How they interact: a peer calls the bootstrap server once, at its start, and
then pings each peer it was told of; every RPC handler runs in a goroutine of
its own and calls the peer node, the router or the storage manager; the router
reads the graph through two snapshots, `GetNodeList` and `GetEdgeList`; the
storage manager calls the store and then the filter, which have separate locks.

What is hard, and what makes each part correct:

* **Search.** The two snapshots are not one; ties are broken by Go's random map
  order; -1 is both a legal peer ID and the sentinel; the walk back must end.
  Correct: the answer is a shortest route of the snapshot, or there is none.
* **Storage.** Handlers interleave between the store's lock, the filter's lock
  and the disk, which has none; a write may fail between two chunks; the process
  may die in the middle of a write and come back with an empty memory on the old
  directory. Correct: what was acknowledged is found, whole and durable, and no
  call hangs.
* **Overlay.** Peers join at the same time, cannot be dialled, die between two
  pings, time out, and come back; the bootstrap server forgets. Correct: each peer's
  graph agrees with its connections at every step, start-up always ends, and without
  failures the peers form one network.
* **Router.** The graph grows between the two snapshots of a search and after a
  route is cached; searches of the same pair end in any order; `Set` may follow
  an `Invalidate` that should have removed the route. Correct: each answer is a
  route that is there, no search misses one that was there when it was asked,
  and a cached answer is stale for a bounded time.
* **Filter.** It is copied over the network as bytes and three bare numbers;
  `Merge` holds one filter's lock while it waits for another's; `Stats` reads the
  count twice, once without the lock. Correct: a filter, or a copy of one, never denies
  what was added to it, and calls return.
* **Chunk arithmetic and Merkle tree.** Sizes at, below and above a multiple of the
  chunk size; odd levels, promoted once or several times. Correct: the chunks
  partition the file, every chunk counts in the root, and a download that
  `VerifyFileIntegrity` accepts is the file.
* **Analyzer.** It reads a graph that grows in two critical sections. Correct: its
  numbers lie between those of the graph before and after, and its averages and
  bottlenecks do not contradict each other.

`PROJECT.json` lists the hazards, each at its line.

## 2. Modules

| Module | What it is |
|---|---|
| `Dijkstra` | one call of `dijkstra`, an iteration of a loop per step |
| `Routes` | what the search promises: paths, their cost, the shortest ones; used by `Router`, kept by `Dijkstra` |
| `Router` | `CalculateRoute` with its cache: concurrent calls, a growing graph, time |
| `Analyzer` | extends `Router` by what only reads: `AnalyzeNetwork`, `FindBottlenecks`, `GetNetworkMetrics`, `GetRouteCache` |
| `Storage` | one peer's storage: concurrent calls, disk, errors, crashes, restarts |
| `ChunkService` | what the storage promises its clients: the abstract specification that `Storage` implements |
| `Bloom` | Bloom filters of several peers: concurrent calls, copies, merges |
| `Integrity` | one file, byte by byte: chunks, Merkle tree, download, verification |
| `Overlay` | bootstrap server, peer processes, their goroutines and graphs |
| `DijkstraProofs`, `RouterProofs`, `AnalyzerProofs`, `StorageProofs`, `BloomProofs`, `IntegrityProofs`, `OverlayProofs` | the theorems about these modules |
| `Induction` | induction over numbers and finite sets, for the proofs about recursive functions and folds |
| `MCDijkstra`, `MCRouter`, `MCAnalyzer`, `MCStorage`, `MCBloom`, `MCIntegrity`, `MCOverlay` | values of the constants for TLC |

How they fit together: `Overlay` shows how a peer's graph grows, which is what
`Router` assumes of it; `Dijkstra` shows that a search returns one of the
`ShortestPaths` of module `Routes`, which is what `Router`'s `Search` picks
(`ReturnsShortestPath`); `Analyzer` is `Router` with readers; `Bloom` shows what
a filter answers, whatever the positions of the keys, which is the constant
`Positions` of `Storage`; `Integrity` has the data that `Storage` abstracts to
`"whole"` and `"torn"`.

### Dijkstra

`nodes` and `edges` are the two snapshots. `Init` starts from *any* set of nodes
and *any* edges: that is what two critical sections with growth in between can
give, and more. `distances`, `previous`, `unvisited`, `current` and `path` are
the variables of the same names. `Settle(n)` is one iteration of the main loop,
for any `n` that the scan may have chosen (`Closest`, all the nearest nodes:
the map's order is random). `StopScan` is the end of the loop with the test that
follows it, `WalkBack` one iteration of the walk. `math.MaxInt64` is the constant
`Inf`, which is no integer: 2^31 hops of at most 3 s do not come near it.

### Router

A step of a call is one critical section: `Get` (`CacheHit`, `CacheMiss`),
`GetNodeList` (`ReadNodes`), `GetEdgeList` (`Search`, `SearchFails`), `Set`. The
search itself is local to the call: `Search` picks any shortest route of the two
snapshots, which is what `Dijkstra` shows that it returns, and `SearchFails`
stands for the errors. The cache is a partial function from pairs to routes with
their `expiresAt`, `now` is the clock. `AddNode` and `AddEdge` are the two
operations that change the graph, in the order in which `Overlay` calls them:
nodes before edges, a link measured once, so that `Latency` is a constant. In a
running peer all edges leave the peer itself; the model, like the code, takes
any graph. `begun`, `known`, `hit`, `lag` and `since` are history: no guard reads
them. `Entries`, `Size` and `TTL`, which change nothing, are in `Analyzer`.

### Analyzer

A behaviour is one of `Router` with reads in between. `CountPeers` and
`MeasureEdges` are the two critical sections of `AnalyzeNetwork`, `ReadCacheSize`
the call of `Size` that follows in `GetNetworkMetrics`; the statistics are an
operator over the two snapshots. The density, a float in the code, is kept as its
numerator and denominator. `FindBottlenecks` and `GetRouteCache` read once and
are operators over the state. `known` is history.

### Storage

A step is one critical section of `ChunkStore.mu` or `BloomFilter.mu`, or one
file operation. `SplitFile` holds `ChunkStore.mu` through all of its steps, which
is the variable `lock`; the steps of other calls that need that lock are guarded
by `lock = {}`. `os.WriteFile` is two steps, since it truncates first: between
them the file is `"torn"`. An error may end either step (`WriteFails`). A chunk's
bytes are `"whole"` or `"torn"`, a hash is the data itself (SHA-256 taken as
injective). `StoreDownloadedChunk` compares the data with the hash that its caller
expects, whatever that is: the callers' hashes are the constant `ExpectedHashes`.
`TrueHashes` says that they are those of the whole chunks, as the metadata of a file
gives them; every claim about what `ReceiveChunk` leaves behind is made under it, and
the runs set the constant so (without it a caller may store anything that matches
its own hash; what verification with the right hash is worth is in `Integrity`).
`Crash` and the panic in `UploadReturns` clear all that is in memory,
`Restart` is `NewStorageManager` on the directory as it is. Keys are pairs,
`Positions[k]` the bits of a key, whatever the hash functions make of it.

A client can only ask for a fileID that it knows: one of another peer, or one
that an `UploadFile` has returned (`published`). `ReceiveChunk` and
`AssembleFile` have no caller in the repository yet; they are modelled as the
operations that the storage manager and the store offer. `acked`, `everAcked`,
`contested` and the field `before` are history variables: no guard reads them.

`ChunkService` has the set of acknowledged chunks (`held`), the questions that
clients have asked (`asked`) and whether the process is up. It knows nothing of
memory, disk, filter or locks. A chunk that was held when a question was asked
must be found; the end of the process takes back every promise. `Storage`
implements it with `held <- acked`, `up <- status = "up"` and `asked <- Asked`,
which reads a `HasChunk` or `DownloadChunk` in progress as an open question.

### Bloom

A step is one critical section of some filter's `mu`. Only `Merge` keeps a lock
while it waits for another, so a filter is locked exactly while a `Merge` into it is
at `"merging"`. `bitArray` is the set of its 1 bits as pairs of byte and bit, the
positions are computed as in the code (`h1 + i * h2` in words that wrap, then modulo
`numBits`); the two FNV hashes of a key are constants. What `optimalNumBits` and
`optimalNumHashes` compute is a set of sizes: they are floating-point formulas.
`Serialize`, the response of `GetBloomFilter`, which may be lost, and
`DeserializeBloomFilter` are three steps. `Stats` reads `itemCount` without the lock
(`ReadCount`) and calls `EstimatedFalsePositiveRate`, which reads it with the lock
(`EstimateRate`), in one composite literal: Go leaves their order open, so either
comes first. The unlocked read races with `Add`, so it returns any value that
`itemCount` had since the last one that the goroutine has certainly seen. `holds`,
`merged` and `least` are history. The model has `Merge` and `Stats` called from any
goroutine; in the program `Merge` has no caller yet.

### Integrity

A file is a sequence of bytes, a hash is a tuple of what was hashed (SHA-256 taken
as injective; a chunk and a pair of hex hashes are told apart). `SplitNextChunk`
is one iteration of `SplitFile`'s loop, `PairNodes` one of `BuildMerkleTree`'s outer
loop, and `RootHash` the same loop as a function, as `VerifyFileIntegrity` calls
it. Then another peer downloads: each `ReceiveChunk` is verified either against the
hash in the metadata or against the hash that came with the data, which shows
nothing, and what arrives may be any chunk of the file or junk. `from` and `to` of
a node are history: the leaves under it.

### Overlay

`RegisterPeer` is one step, as it is one critical section; its request and its
response travel separately, and either may outlive the peer. `dials[p][q]` is the
goroutine of `ConnectToPeers` for `q`: dial, which may fail and then ends the
goroutine (`DialFails`), store the connection, three pings, then
`AddNode` and `AddEdge` as separate steps, since each locks for itself; after a
failed ping `AddNode` only. A ping is one step that needs the other peer to
serve, or fails. `views` is the `GetNetworkGraph` call in progress, with the two
critical sections of `GetGraphProto`. `Exit` is the end of a process, with all it
had in memory. Only edges from the peer itself are ever added, so `latency[p][q]`
is the edge `p -> q` of `p`'s graph.

## 3. Runs

| Run | Configuration | Shows |
|---|---|---|
| `dijkstra` | 4 peers, every graph of up to 7 edges with latencies 1 and 3, every set of nodes; 124,560 states | types; the invariant of the proofs; answers carry a certificate of optimality; they are what `Router` supposes of the search; the call returns |
| `dijkstra_minus_one` | peers -1, 1, 2 | **violated**: the route to peer -1 is empty, without an error |
| `router` | 2 concurrent calls, 3 peers, a long link and a shorter detour that appear in any order, TTL 1, clock 0..3; 1,695,331 states | types; the invariant of the proofs; cached and answered routes exist; a search misses no route; staleness is bounded |
| `analyzer` | 1 `GetNetworkMetrics` beside 1 `CalculateRoute`, the graph of `router`; 973,196 states | statistics lie between those of the graph before and after; they and the bottlenecks do not contradict each other; `GetRouteCache` lists what `CalculateRoute` serves |
| `storage` | 2 concurrent calls of any sort, an upload of 0 or 2 chunks, a foreign chunk, 1 crash, 1 write error; fair; 408,116 states | types; acknowledged chunks are found, served whole, durable; a known file is complete; `AssembleFile` returns it whole; a whole file is only ever rewritten; `ChunkService` is implemented; every call returns |
| `storage_forgets` | one call at a time, 1 crash | **violated**: after a restart `HasChunk` denies a whole chunk that `DownloadChunk` serves |
| `storage_torn` | one call at a time, 1 crash | **violated**: a half-written file is served as the chunk |
| `storage_panic` | one call at a time | **violated**: the upload of an empty file kills the process |
| `bloom` | 2 calls, 2 filters of sizes (9, 2), (9, 1) and (10, 2), 1 key, words of 4 bits; fair; 312,695 states | types with the bounds of `bitArray`; no false negatives; the count covers the bits unless there was a merge; what `Stats` reads is not older than its call; every call returns unless merges wait in a circle |
| `integrity` | every file of up to 9 bytes (of 2 values) in chunks of 2, up to 2 wrong chunks; fair; 198,582 states | chunks partition the file; every leaf counts; the tree is the one of its definition; a verified download is the original; the upload ends |
| `overlay` | 4 peers, each told of up to 2 others, no failure, stops allowed; 1,723,121 states | the peers form one network; graph and connections agree while a peer connects to two others in two goroutines |
| `overlay_restarts` | 2 peers, 2 starts each, any one of a crash, a failed dial, a timeout and a bootstrap restart, `NotifyNewPeer` and `GetNetworkGraph` calls; fair; 283,977 states | types; graph and connections agree; `GetNetworkGraph` says nothing untrue; `GetPeers` misses no live peer; a graph only grows; start-up ends |

Every property of a passing run has a mutant of the code in its module (the
definitions with a comment "Mutant of ..."), which violates it.

### Bounds

* Four peers are enough for the search to improve a distance twice, to tie, to
  have nodes that are not reachable, and edges to peers that are no nodes; the
  theorems cover the rest. Latencies 1 and 3 make a route of two hops shorter
  than one of one hop.
* Two calls are enough for the router: one races another, or the growth of the
  graph. A route is found over the long link or the detour, cached, and the other
  appears; the clock runs past the TTL and on, so that a
  late `Set` outlives the first entry. The theorems cover the rest. One call is
  enough for `analyzer`: what it reads is the graph and the cache, whoever changed
  them.
* Two calls are enough for every race in the store: each property is about one
  chunk, and all but `SplitFile` hold a lock for one step only. Two chunks let
  an upload fail between them; the foreign chunk shares its bits with them, so
  the filter errs. `MaxCrashes` and `MaxWriteErrors` are 1.
* For filters: two of different `numBits` (a merge fails), of the same `numBits` and
  different `numHashes`, and alike; two calls, so that merges form a circle of two
  or of one. One key that is added to one filter and reaches the other by a copy
  or a merge; `MaxItems` stops `Add` once the filter counts it. That several keys
  do not disturb each other is left to the theorem.
* Files of 0 to 9 bytes in chunks of 2 have 0 to 5 chunks: full and partial last
  chunks, and five leaves, of which the last is promoted twice. `MaxWrong` 2 lets
  two chunks be swapped.
* The connectivity of the overlay is checked with a `RegisterLimit` of 2 instead of
  3 and four peers: the fourth is told of some of the others only, and a peer dials
  two others at the same time. The theorem covers every limit. `MaxStarts` lets a
  peer come back under its old registration; `MaxFailures` bounds crashes, failed
  dials, timeouts and bootstrap restarts together. Three peers are the fewest of
  which one dials two at once.
* Symmetry is used in safety runs only, over calls and over peers that no
  constant distinguishes.

### Fairness

* `Dijkstra`: weak fairness of the call's steps. It runs in one goroutine and
  never blocks.
* `Storage`: weak fairness of the steps of each call in progress. The Go scheduler
  runs every goroutine, a disk operation returns, and `SplitFile` ends. Nothing is
  assumed of clients, crashes or restarts.
* `Bloom`: strong fairness of the steps of each call in progress: a lock may be free
  and taken again many times while a call waits, and `sync.RWMutex` lets no waiter
  starve. A response either arrives or is lost.
* `Integrity`: weak fairness of the upload's steps, loops in one goroutine. Nobody
  has to download.
* `Overlay`: weak fairness of each process's main path and goroutines, of a
  `GetNetworkGraph` call in progress, and of the bootstrap server's handling of
  what has arrived. Timeouts of 3 s and 5 s make calls end. Starting, stopping
  and crashing are not assumed to happen.

`CHECK_DEADLOCK FALSE` is set where the system may stop: a search returns, a file
has been downloaded, filters merged in a circle wait for good, and a bounded
number of peers come and go. The storage, router and analyzer runs keep the
deadlock check.

## 4. Proofs

`DijkstraProofs` proves, for every set of peer IDs, every graph, all latencies of
at least 1 and all endpoints, provided that -1 is no peer ID (with it, the run
`dijkstra_minus_one` shows the claim false):

* `Invariance`: `Spec => []DijkstraInv`;
* `TypeCorrect`: `Spec => []TypeOK`;
* `AnswersAreCertified`: `Spec => []AnswerIsCertified`. A route that is returned
  leads from source to target over edges whose latencies add up to the total,
  and there is a potential (`Potential`, the distances capped at the target's)
  that grows by no more than the latency along every edge, from 0 at the source to
  the total at the target, so no route is shorter; and "no path" is only said
  when a set of nodes with the source and without the target has no edge out;
* `SearchKeepsItsPromise`: `Spec => []ReturnsShortestPath`. `Router` replaces the
  search by a choice from `ShortestPaths` of the two snapshots, or an error if there
  are none: that is what the search does.

`AnswerIsCertified` is not inductive: that a route is shortest depends on what the
loop has kept true of the distances. `DijkstraInv` says so: a settled node's
edges improve nothing (`SettledIsRelaxed`), no unvisited node is closer than a
settled one (`SettledIsCloser`), each reached node hangs on a settled one by an
edge that accounts for its distance (`ReachedByAnEdge`), the source hangs on
nothing and the target is never settled (`EndpointsInPlace`), and the walk follows
`previous` (`WalkFollowsPrevious`). There is one lemma per action; the one of
`Settle` rests on `SettleMaps`, which says that a step lowers distances of
unvisited nodes only and never below that of the node it settles.

From the certificate to `ShortestPaths` is an induction along each path: `Potential`
of its end is at most its cost (`PathsCostPotential`), and without a route every path
stays among the settled nodes (`PathsStaySettled`). The other way, the distances grow
strictly along the path returned (`PathGoesAway`), so no peer is on it twice
(`PathHasNoLoop`), and it is one of the `Paths` (`PathIsARoute`).

The proofs use the assumptions `GraphAssumption` (peer IDs are finitely many, being
`int32`; latencies are at least 1, as `measureLatency` makes them; `Overlay`'s
`GraphMatchesConnections` checks the bound there), `EndpointsAssumption`
(`CalculateRoute` answers `from = to` itself) and `InfAssumption`.

`RouterProofs` proves, for any number of concurrent calls, every finite set of
peers without -1, all links and latencies, every TTL and clock:

* `Invariance`: `Spec => []RouterInv`;
* `TypeCorrect`: `Spec => []TypeOK`;
* `RoutesAlwaysExist`: `Spec => []RoutesExist`;
* `SearchesMissNoRoute`: `Spec => []SearchMissesNoRoute`;
* `StalenessIsBounded`: `Spec => []StaleByTTLAtMost`.

None of the three properties is inductive. What they lack is in `RouterInv`: an
edge's ends are nodes, in the graph and, for the edges known when the call began,
in its snapshot of the nodes (`EdgesHaveNodes`), so that taking the nodes first
loses no route; what was an edge before the call began is among those
(`CallsInOrder`); and a cached route was shortest when its search began, which
can be told from its `expiresAt` (`CacheIsInOrder`). The argument has two parts.
`Growth`: more nodes, edges and time leave a call's and a cached route's part of
the invariant true, since the edges of the past do not change. `CallStep`: a step
of one call need only show its own part. Two lemmas about routes carry the rest:
`PathsGrow` (more nodes and edges leave every route) and `PathsByEdges` (a route
visits only ends of its edges). `Cost` is never expanded. The assumption
`RouterAssumption` and the shape of `AddNode` and `AddEdge` are what `Overlay`
shows of the graph (`GraphMatchesConnections`, `GraphOnlyGrows`).

`StorageProofs` proves, for any number of concurrent calls, files, chunks, crashes
and write errors, and whatever bits the keys share in the filter, provided that whoever
calls `ReceiveChunk` knows the true hash (`TrueHashes`, a premise of each theorem:
`TrueHashes /\ Spec => ...`):

* `Invariance` (`Inv`); `TypeCorrect` (`TypeOK`);
* `KnownFilesAreComplete`, `AcknowledgedIsFound`, `AcknowledgedIsDurable`,
  `AssembledFilesAreWhole`: the invariants of the run of (nearly) the same names;
* `WholeFilesAreOnlyRewritten` (`WholeFileIsOnlyRewritten`), an action property;
* `StorageImplementsService` (`ImplementsService`), the refinement of `ChunkService`.

None of these is inductive, since each depends on what a call did several steps
ago: an upload acknowledges after its last `Add`, what it wrote long before. The
argument: while the process runs, the chunks in memory, in the filter and for good
on disk (whole, or contested) only grow (`Grown`). So what a call has found out
stays true until it ends, whatever the others do; `UploadOK`, `ReceiveOK`, `AskOK`
and `AssembleOK` say what that is at each `pc`. A step has to be looked at for its
own call only, plus that it is growth; a crash empties calls and memory
together. For the refinement, an acknowledging step is `Acknowledge`, the first
and last steps of a question are `Ask`, `Answer` and `Done`, the rest stutters.
For the action property, `Fresh` says that an upload about to write a chunk has a
fileID of its own, so that the file it truncates cannot be whole already, and that
two uploads never share one. Assumption: `StorageAssumption`.

`OverlayProofs` proves, for any finite set of peers, any `RegisterLimit` of at
least 1, and any number of restarts and failures:

* `Invariance`: `Spec => []Inv`; `TypeCorrect`: `Spec => []TypeOK`;
* `GraphsMatchConnections`, `ViewsAreTrue`, `GetPeersFindsThem`: the invariants
  `GraphMatchesConnections`, `ViewIsTrue` and `GetPeersFindsLivePeers`;
* `OverlayAlwaysConnected`: `Spec => []OverlayIsConnected`;
* `GraphsOnlyGrow`: `Spec => GraphOnlyGrows`, an action property.

The invariant has two parts. What one peer knows depends on its own goroutines:
`DialOK` ties where a goroutine is to its connection, node, edge, and the pings it
has counted. And while nothing fails, `NoCut`: however the registry is cut in two,
somebody on one side was told of somebody on the other. A newcomer keeps it true,
since it is told of at least one registered peer, on whichever side of the cut;
`RegistrationOK` (a registration is on its way exactly while its peer waits for it)
and `MeasurementOK` (every measurement succeeds) carry "was told of" to "has an
edge" once nothing is under way. No induction over the order of registrations is
needed. `RegistryOK` is what `GetPeers` rests on. `Inv` was also checked by TLC with
the constants of `overlay_restarts`. Assumption: `OverlayAssumption`.

`BloomProofs` proves, for any number of goroutines, filters and keys, all hashes and
sizes:

* `TypeCorrect`: `Spec => []TypeOK`, which includes that no bit is out of `bitArray`;
* `FalseNegativesAreImpossible`: `Spec => []NoFalseNegatives`;
* `CountIsEnough`: `Spec => []CountCoversBits`;
* `StatsAreAlwaysOfTheCall`: `Spec => []StatsAreOfTheCall`.

A filter is `Sound` if its bits are in bounds, it contains what it holds, and its
count covers its bits; each way to make a filter (new, add, copy, union) makes a
sound one of sound ones, and a response under way carries one. An `Add` sets at most
`numHashes` bits and counts one item. This bounds the bits, not the estimated rate,
which is a floating-point formula of the count and may be above or below the share of
bits that are set. For `Stats`, the invariant adds, for each of the two reads, that it
lies between the count at the call and the count now, since no step lowers a count.
Assumption: `BloomAssumption`.

`IntegrityProofs` proves, for every file and chunk size:

* `ChunksAlwaysPartition`: `Spec => []ChunksPartitionData`;
* `EveryLeafAlwaysCounts`: `Spec => []EveryLeafCounts`;
* `RootAlwaysMatchesReference`: `Spec => []RootMatchesReference`;
* `IntegrityAlwaysMeansOriginal`: `Spec => []IntegrityMeansOriginal`.

The loop's invariant says that chunk `i` starts at `(i - 1) * ChunkSize`, inside the
file; the rest is arithmetic of rounding up (`NumChunksFacts`). For the tree,
`NextLevel` of a level that covers `1 .. n` in order covers it too, promoted node or
not. That the root built from below is the one of `ReferenceRoot`, which splits the
leaves from above at the largest power of two below their number, is an induction
over the levels: node `i` of level `a` is the reference tree of the leaves
`(i - 1) * 2^a + 1 .. i * 2^a`, or of as many of them as there are (`LevelOK`), and
after enough levels one node is left (`LevelsExist`, `LevelLength`). Two lists of as
many hashes with the same root are the same (`RootIsInjective`): so a download that
`VerifyFileIntegrity` accepts has the chunks of the file, and these put together are
the file (`ChunksMakeTheFile`). Assumption: `IntegrityAssumption`.

`AnalyzerProofs` proves, for any number of readers beside any number of calls, on
every graph, for all latencies and every threshold:

* `ReadersChangeNothing`: `AnalyzerSpec => Spec`, so that what is proved of `Router`
  holds beside readers as well;
* `AnalyzerInvariance`: `AnalyzerSpec => []AnalyzerInv`;
* `AnalysesAreBracketed`, `BottlenecksAlwaysMatchAverage`, `ListedIsAlwaysServed`: the
  invariants `AnalysisIsBracketed`, `BottlenecksMatchAverage` and `ListedIsServed`.

`AnalyzerInv` says of a `GetNetworkMetrics` in progress that what it has read is a
part of the graph, and that its nodes have both ends of each edge that was there when
it began; with `PossibleEdges` (n peers have at most n(n - 1) edges) this bounds the
density. The sum of the latencies is a fold over a set; `TotalIsBetween` bounds it by
an induction over the size of the set. That the bottlenecks match the average is a
count of the edges at both of their ends (`CountedAtBothEnds`): if no peer's average
reaches a number, neither does the average of all edges; it is an induction over the
peers, which needs that totals add up (`TotalsAdd`), in whatever order the fold takes
the edges (`TotalLatencyWithout`). Rounding down is of no matter to it
(`QuotientBelow`). `ListedIsServed` does not follow from
`RouterInv`, which bounds the age of an entry but not the time it has left:
`ExpiresInTime` is proved beside it. `AnalyzerInv` and `ExpiresInTime` were also
checked by TLC with the constants of `analyzer`. Assumptions: `RouterAssumption`,
`AnalyzerAssumption`.

`Induction` is what the proofs about recursive functions rest on. The library's
induction theorems take a predicate as a parameter, which the installed provers cannot
instantiate; `Induction` states them for a *set* of numbers (`NumberInduction`,
`StrongInduction`) or of sets (`SubsetInduction`) instead, and derives them from the
library's theorem that `<` is well-founded on `Nat`. That a recursive definition
defines a function at all is proved the same way each time: there is one on
`0 .. m` for every `m` (`CostsExist`, `SumsExist`, `TreesExist`, ...).

Only model-checked: liveness (`CallReturns`, both `CallsReturn`, `UploadEnds`,
`StartupEnds`), which needs reasoning about fairness and `ENABLED` that the prover does
not have. Every invariant and every action property of a passing run is also a theorem.

## 5. Findings

The violated runs, in the order of their weight for a user of the program: an empty
upload kills the peer (`manager.go:50`); after a restart `HasChunk` denies all that
the peer has on disk (`chunk.go:46`); a crash can leave a part of a chunk that is
then served as the chunk (`chunk.go:116`); a peer with ID -1 breaks the routes to it
(`dijkstra.go:102`).
`PROJECT.json` quotes what the code's comments say instead.

`HasChunkIsGroundTruth` and `DownloadIsWhole` have a second cause each, which the
same models show with other bounds: a write error with no crash (the chunk stays
in memory, is not in the filter, and is served), and a `DownloadChunk` that races
a `ReceiveChunk` of the same chunk with two calls and no failure at all.

Behaviours that the models have, and that the properties bound rather than forbid:

* `GetPeers`, "returns a list of active peers" (`cmd/bootstrap/main.go:60`), also
  returns peers that have stopped: nothing leaves the registry.
  `GetPeersFindsLivePeers` is the half that holds, and `StartupEnds` says that
  newcomers cope with the dead.
* `GetNetworkGraph` may answer with an edge whose node it does not list, if the
  edge came between its two reads (`peer.go:363`). Each thing it says is true
  (`ViewIsTrue`), the whole may be no state that the graph was in.
* `AnalyzeNetwork` may report a density over 100% for the same reason;
  `AnalysisIsBracketed` says when.
* `FindBottlenecks` rounds an average down before it compares it: a peer whose edges take
  2.5 ms on average is not reported for a threshold of 2 ms, though its comment
  (`graph.go:67`) says "exceeds the threshold". Reported on the same scale, in whole
  milliseconds, averages and bottlenecks agree (`BottlenecksMatchAverage`).
* `Stats` may return a count and a rate of different moments (`StatsAreOfTheCall`).
* `GetRouteCache` no longer lists a route at the instant at which it expires,
  `CalculateRoute` still answers with it (`ListedIsServed`).
* `Merge` requires "same numBits and numHashes" and checks only `numBits`: after a
  merge of filters with different `numHashes` the keys of the other may be denied.
  It does not count the items of the other: `EstimatedFalsePositiveRate`, "based on
  how full the filter is" (`bloom.go:113`), computes the rate from the count alone
  and gives 0 for a filter that got its bits by a merge; `CountCoversBits` is about
  filters without one. Two filters merged into each other at the same time, or one
  into itself, wait forever, and with them every later call on these filters. It has
  no caller yet.
* `DownloadChunk` sends the hash of what it sends, so a caller that passes this hash
  to `ReceiveChunk` verifies nothing; and the response of `UploadFile` does not
  carry the `RootHash` with which the whole could be verified
  (`IntegrityMeansOriginal` shows that it would be enough). A caller that passes the
  hash of wrong bytes together with them stores them: `TrueHashes` excludes it. A
  root does not bind the number of chunks by itself: `VerifyFileIntegrity` is given
  as many hashes as the metadata says.
* Nothing tells an earlier peer of a later one (`NotifyNewPeer` has no caller), so
  edges point from later to earlier peers and the first peer finds no route:
  `OverlayIsConnected` is about the undirected graph.
* A restart of the bootstrap server splits later peers from earlier ones.

## 6. Not modelled

* `cmd/benchmark`: it times the router on random graphs and has no logic of its own.
* The protocol definitions and the code generated from them (more than half of the
  lines of the repository): message types and marshalling.
* The test programs and scripts; they were read for what they claim.
* Printing and logging, among it `PrintGraph`, `PrintStats` beyond the reads of
  `Stats`, and the demonstration route of `cmd/peer`, which is a `CalculateRoute`
  as `Router` has it.
* The bodies of the hash functions: SHA-256 is injective, FNV a constant function.
  The floating-point formulas for a filter's size and false-positive rate.
* Two peers with the same ID, and a peer that comes back under another address.
* Corruption of files on disk other than by an interrupted write.
