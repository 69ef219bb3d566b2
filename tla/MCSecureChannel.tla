--------------------------- MODULE MCSecureChannel ---------------------------
(* Instances of SecureChannel for TLC. *)
EXTENDS SecureChannel, TLC
Symmetry == Permutations(Nonces)
=============================================================================
