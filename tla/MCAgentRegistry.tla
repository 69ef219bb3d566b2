--------------------------- MODULE MCAgentRegistry ---------------------------
(* Instances of AgentRegistry for TLC. *)
EXTENDS AgentRegistry, TLC

CONSTANTS a1, a2, p1, p2

\* Two agents that share a project; the first may come back with a shorter list.
ChangingLists == (a1 :> {{p1, p2}, {p1}} @@ a2 :> {{p2}})

=============================================================================
