------------------------------ MODULE MCBloom -------------------------------
(* Instances of Bloom for TLC: words of 4 bits, so that hashes wrap around, *)
(* and filters of 9 and 10 bits, which take two bytes.                     *)
EXTENDS Bloom

MCSizes == {<<9, 2>>, <<9, 1>>, <<10, 2>>}
MCHash1 == [k \in Keys |-> 13]
MCHash2 == [k \in Keys |-> 11]
=============================================================================
