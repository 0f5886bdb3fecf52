\* Four peers, every graph of up to seven edges between them.
CONSTANTS
  PeerIDs <- MCPeerIDs
  Links <- MCLinks
  Latencies <- MCLatencies
  Source = 1
  Target = 4
  Inf = Inf
SPECIFICATION FairSpec
INVARIANTS
  TypeOK
  DijkstraInv
  AnswerIsCertified
  ReturnsShortestPath
PROPERTY CallReturns
\* The call returns.
CHECK_DEADLOCK FALSE
