--------------------------- MODULE MCAccessToken ---------------------------
(* Instances of AccessToken for TLC. *)
EXTENDS AccessToken
=============================================================================
