--------------------------- MODULE MCReplayGuard ---------------------------
(* Instances of ReplayGuard for TLC. *)
EXTENDS ReplayGuard, TLC
Symmetry == Permutations(Nonces)
=============================================================================
