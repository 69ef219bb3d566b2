--------------------------- MODULE WorkOrderStates ---------------------------
(***************************************************************************)
(* The work order state machine of forwarder/app/state.py: its ten states, *)
(* the table of legal transitions, and the three functions over the table. *)
(***************************************************************************)

WorkOrderState ==
    {"DRAFT", "PENDING_APPROVAL", "APPROVED", "BUILDING", "SUCCESS", "FAILED",
     "CLOSED", "PENDING_SECOND_REVIEW", "SECOND_APPROVED", "SECOND_REJECTED"}

\* The dictionary TRANSITIONS as a set of pairs <<current, target>>.
TRANSITIONS ==
    {<<"DRAFT", "PENDING_APPROVAL">>,
     <<"DRAFT", "CLOSED">>,
     <<"PENDING_APPROVAL", "APPROVED">>,
     <<"PENDING_APPROVAL", "CLOSED">>,
     <<"APPROVED", "BUILDING">>,
     <<"APPROVED", "PENDING_SECOND_REVIEW">>,
     <<"APPROVED", "CLOSED">>,
     <<"BUILDING", "SUCCESS">>,
     <<"BUILDING", "FAILED">>,
     <<"SUCCESS", "CLOSED">>,
     <<"FAILED", "BUILDING">>,
     <<"FAILED", "CLOSED">>,
     <<"PENDING_SECOND_REVIEW", "SECOND_APPROVED">>,
     <<"PENDING_SECOND_REVIEW", "SECOND_REJECTED">>,
     <<"SECOND_APPROVED", "BUILDING">>,
     <<"SECOND_APPROVED", "CLOSED">>,
     <<"SECOND_REJECTED", "CLOSED">>}

\* transition(current, target) returns target when this holds and raises
\* StateError otherwise.
can_transition(current, target) == <<current, target>> \in TRANSITIONS

=============================================================================
