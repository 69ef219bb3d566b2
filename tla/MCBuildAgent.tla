---------------------------- MODULE MCBuildAgent ----------------------------
(* Instances of BuildAgent for TLC. *)
EXTENDS BuildAgent, TLC

CONSTANTS b1, b2, b3, i1, i2

\* A retried issue and another one.
RetriedIssue == (b1 :> i1) @@ (b2 :> i1) @@ (b3 :> i2)

\* The other issue's build is one of another job, whose numbers coincide.
TwoJobs == (b1 :> 1) @@ (b2 :> 2) @@ (b3 :> 1)

=============================================================================
