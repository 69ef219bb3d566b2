--------------------------- MODULE MCManualServer ---------------------------
(* Instances of ManualServer for TLC. *)
EXTENDS ManualServer
=============================================================================
