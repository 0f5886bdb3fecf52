\* Two peers: restarts, a crash, a timeout, a restart of the bootstrap server.
CONSTANTS
  p1 = p1
  p2 = p2
  p3 = p3
  p4 = p4
  Peers = {p1, p2}
  RegisterLimit = 3
  Elapsed = {0}
  Asked = {p1}
  Notified <- MCNotified
  MaxStarts = 2
  MaxFailures = 1
SPECIFICATION FairSpec
INVARIANTS
  TypeOK
  GraphMatchesConnections
  GetPeersFindsLivePeers
  ViewIsTrue
PROPERTIES
  GraphOnlyGrows
  StartupEnds
CHECK_DEADLOCK FALSE
