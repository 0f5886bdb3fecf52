\* Two calls, three peers, a TTL of one unit of a clock that runs for three.
CONSTANTS
  c1 = c1
  c2 = c2
  Calls = {c1, c2}
  PeerIDs <- MCPeerIDs
  Links <- MCLinks
  Latency <- MCLatency
  Requests <- MCRequests
  TTL = 1
  MaxTime = 3
SPECIFICATION Spec
SYMMETRY CallSymmetry
INVARIANTS
  TypeOK
  RouterInv
  RoutesExist
  SearchMissesNoRoute
  StaleByTTLAtMost
