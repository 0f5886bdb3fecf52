---------------------------- MODULE MCIntegrity -----------------------------
(* An instance of Integrity for TLC.                                       *)
EXTENDS Integrity

MCJunk == {<<0>>}
=============================================================================
