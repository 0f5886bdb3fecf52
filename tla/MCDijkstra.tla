----------------------------- MODULE MCDijkstra -----------------------------
(* Instances of Dijkstra for TLC.  Peer 1 asks for a route to peer 4; the  *)
(* edges into 1 and out of 4 are left out where they only add graphs on    *)
(* which the search behaves the same.                                      *)
EXTENDS Dijkstra

MCPeerIDs == 1 .. 4
MCLinks == {l \in MCPeerIDs \X MCPeerIDs : l[1] # l[2] /\ l[1] # 4 /\ l[2] # 1}
MCLatencies == {1, 3}

(* A peer started with --id=-1, next to peers 1 and 2. *)
MCMinusOne == {-1, 1, 2}
MCMinusOneLinks == {l \in MCMinusOne \X MCMinusOne : l[1] # l[2]}
MCMinusOneTarget == -1
=============================================================================
