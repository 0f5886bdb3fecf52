\* A peer whose ID is -1, the value that dijkstra uses for "no peer".
CONSTANTS
  PeerIDs <- MCMinusOne
  Links <- MCMinusOneLinks
  Latencies <- MCLatencies
  Source = 1
  Target <- MCMinusOneTarget
  Inf = Inf
SPECIFICATION Spec
INVARIANT RouteIsComplete
\* The call returns.
CHECK_DEADLOCK FALSE
