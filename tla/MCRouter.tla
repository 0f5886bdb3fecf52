------------------------------ MODULE MCRouter ------------------------------
(* Instances of Router for TLC: three peers, with a long link from 1 to 3  *)
(* and a detour over 2 that is shorter and may appear later.               *)
EXTENDS Router, TLC

MCPeerIDs == 1 .. 3
MCLinks == {<<1, 2>>, <<2, 3>>, <<1, 3>>}
MCLatency == [l \in MCLinks |-> IF l = <<1, 3>> THEN 3 ELSE 1]
MCRequests == {<<1, 3>>, <<1, 1>>}

CallSymmetry == Permutations(Calls)
=============================================================================
