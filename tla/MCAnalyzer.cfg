\* One GetNetworkMetrics beside one CalculateRoute, over the graph of the router.
CONSTANTS
  Calls = {c1}
  Analysts = {a1}
  Thresholds = {1, 2, 3}
  PeerIDs <- MCPeerIDs
  Links <- MCLinks
  Latency <- MCLatency
  Requests <- MCRequests
  TTL = 1
  MaxTime = 2
SPECIFICATION AnalyzerSpec
INVARIANTS
  AnalysisIsBracketed
  BottlenecksMatchAverage
  ListedIsServed
