----------------------------- MODULE MCOverlay -----------------------------
(* Instances of Overlay for TLC.                                           *)
EXTENDS Overlay, TLC

CONSTANTS p1, p2, p3, p4

PeerSymmetry == Permutations(Peers)

(* One peer is told of another by a client. *)
MCNotified == {<<p1, p2>>}
=============================================================================
