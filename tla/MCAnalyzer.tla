----------------------------- MODULE MCAnalyzer -----------------------------
(* An instance of Analyzer for TLC, over the graph of MCRouter.            *)
EXTENDS Analyzer

MCPeerIDs == 1 .. 3
MCLinks == {<<1, 2>>, <<2, 3>>, <<1, 3>>}
MCLatency == [l \in MCLinks |-> IF l = <<1, 3>> THEN 4 ELSE 1]
MCRequests == {<<1, 3>>}
=============================================================================
