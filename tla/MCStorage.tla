----------------------------- MODULE MCStorage -----------------------------
(* Instances of Storage for TLC.                                           *)
EXTENDS Storage

CONSTANTS c1, c2, u1, r1

(* An upload has up to two chunks; requests are about its chunks and about *)
(* one chunk of a file from another peer.                                  *)
MCIndexes == {0, 1}
MCRequested == {<<u1, 0>>, <<u1, 1>>, <<r1, 0>>}

(* One chunk of the upload, one of the other file. *)
MCOneOfEach == {<<u1, 0>>, <<r1, 0>>}

(* The chunks of the upload cover the bits of the other file's chunk: the  *)
(* filter says "maybe" of a chunk the peer does not have.                  *)
MCBits == {"b1", "b2", "b3"}
MCPositions ==
  [k \in Keys |-> CASE k = <<u1, 0>> -> {"b1", "b2"}
                    [] k = <<u1, 1>> -> {"b2", "b3"}
                    [] OTHER         -> {"b1", "b3"}]
=============================================================================
