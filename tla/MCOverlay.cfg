\* Four peers that join once and are told of up to two others, which a peer dials at
\* the same time; no failure but a stop.
CONSTANTS
  p1 = p1
  p2 = p2
  p3 = p3
  p4 = p4
  Peers = {p1, p2, p3, p4}
  RegisterLimit = 2
  Elapsed = {2}
  Asked = {}
  Notified = {}
  MaxStarts = 1
  MaxFailures = 0
SPECIFICATION Spec
SYMMETRY PeerSymmetry
INVARIANTS
  GraphMatchesConnections
  OverlayIsConnected
CHECK_DEADLOCK FALSE
