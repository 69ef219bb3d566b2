--------------------------- MODULE MCApprovalFlow ---------------------------
(* Instances of ApprovalFlow for TLC. *)
EXTENDS ApprovalFlow, TLC

\* What one task at a time may be asked to do, a first decision that the caller
\* records included, and BUILD_TRIGGERs sent past it.
SerialOperations == AllOperations \ {"second_result"}

\* What overlapping tasks may be asked to do: everything but a first decision that
\* the caller records, revocations and direct BUILD_TRIGGERs.
ConcurrentOperations == AllOperations \ {"approval_result", "revoke", "trigger_api"}

\* Two reviews of an order.
ReviewOperations == {"submit", "sensitive"}

Symmetry == Permutations(Instances) \cup Permutations(Workers)

=============================================================================
