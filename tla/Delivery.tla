------------------------------ MODULE Delivery ------------------------------
(***************************************************************************)
(* What the secure channel promises, without keys, clocks, caches,         *)
(* connections or envelopes: a message is posted once, it reaches its      *)
(* addressee and nobody else, and at most once, and its receipt may post   *)
(* an answer.  A message may stay under way for ever, and it may be        *)
(* dropped (its connection has ended at the other side), even when it is   *)
(* posted; what is dropped does not come back.                             *)
(***************************************************************************)
EXTENDS Naturals

CONSTANTS Messages, Peers

VARIABLES
    posted,    \* messages posted so far
    inflight,  \* <<message, addressee>> under way
    delivered  \* how often each message reached its addressee

vars == <<posted, inflight, delivered>>

Init ==
    /\ posted = {}
    /\ inflight = {}
    /\ delivered = [m \in Messages |-> 0]

Post(m, to) ==
    /\ m \notin posted
    /\ posted' = posted \cup {m}
    /\ inflight' \in {inflight, inflight \cup {<<m, to>>}}
    /\ UNCHANGED delivered

Deliver(m, to) ==
    /\ <<m, to>> \in inflight
    /\ delivered' = [delivered EXCEPT ![m] = @ + 1]
    /\ \/ inflight' = inflight \ {<<m, to>>} /\ UNCHANGED posted
       \/ \E answer \in Messages \ posted, back \in Peers \ {to} :
            /\ posted' = posted \cup {answer}
            /\ inflight' \in {inflight \ {<<m, to>>},
                              (inflight \ {<<m, to>>}) \cup {<<answer, back>>}}

Drop == inflight' \subseteq inflight /\ UNCHANGED <<posted, delivered>>

Next ==
    \/ \E m \in Messages, p \in Peers : Post(m, p) \/ Deliver(m, p)
    \/ Drop

Spec == Init /\ [][Next]_vars

=============================================================================
