---------------------------- MODULE SecureChannel ----------------------------
(***************************************************************************)
(* The encrypted link between Forwarder and Agent: CryptoCodec at both     *)
(* ends (forwarder/app/crypto/codec.py, agent/crypto/src/crypto_codec.cpp),*)
(* the receive loops (agent_handler.py, ws_client.cpp) with their automatic*)
(* ACKs, and reconnection.  Each connection has a session key and, at each *)
(* end, a codec with a ReplayGuard of its own.  The Agent has one at a     *)
(* time; the Forwarder's handler of an old connection, with its codec, may *)
(* outlive the Agent's end and go on beside that of the new one.           *)
(*                                                                         *)
(* The network may lose, delay, reorder, repeat and alter envelopes.       *)
(* Signatures and AES-GCM are perfect: a signature verifies exactly when   *)
(* the signed fields are as the peer signed them, a ciphertext opens       *)
(* exactly with the key of its session.  Nonces do not collide.            *)
(***************************************************************************)
EXTENDS ReplayGuardOps

CONSTANTS
    MaxTime,     \* bound on the wall clocks
    MaxAltered,  \* bound on envelopes altered on the way
    MaxSession   \* bound on the number of connections

ASSUME ChannelBoundsAssumption == MaxTime \in Nat /\ MaxSession \in Nat /\ MaxAltered \in Nat

Peers == {"forwarder", "agent"}
Sessions == 1 .. MaxSession  \* connections in the order of their handshakes

\* Message types, SENSITIVE_REVIEW_REQ and SECOND_REVIEW_RESULT being received
\* exactly like BUILD_RESULT.
MessageType == {"BUILD_TRIGGER", "BUILD_RESULT", "HEARTBEAT", "ACK"}

\* An envelope, known by its nonce (and msg_id).  intact: the signed fields are
\* those that were signed.
CryptoEnvelope == [nonce : Nonces, from : Peers, timestamp : Nat, type : MessageType,
                   session : Sessions, intact : BOOLEAN]

VARIABLES
    clock,       \* now_ms() of each peer; wall clocks drift and may be set back
    opened,      \* handshakes completed so far
    live,        \* the connections for which each peer has a codec
    cache,       \* the ReplayGuard of each of those codecs
    sent,        \* envelopes produced by encrypt
    altered,     \* envelopes changed on the way
    accepted,    \* how often decrypt returned ok for each nonce
    log          \* <<envelope, session in which it was accepted>>

vars == <<clock, opened, live, cache, sent, altered, accepted, log>>

TypeOK ==
    /\ clock \in [Peers -> Nat]
    /\ opened \in 0 .. MaxSession
    /\ live \in [Peers -> SUBSET (1 .. opened)]
    /\ cache \in [Peers -> [Sessions -> Caches]]
    /\ sent \subseteq CryptoEnvelope
    /\ altered \subseteq CryptoEnvelope
    /\ accepted \in [Nonces -> Nat]
    /\ log \subseteq (CryptoEnvelope \X Sessions)

Init ==
    /\ clock \in [Peers -> 0 .. MaxTime]
    /\ opened = 0
    /\ live = [p \in Peers |-> {}]
    /\ cache = [p \in Peers |-> [s \in Sessions |-> EmptyCache]]
    /\ sent = {}
    /\ altered = {}
    /\ accepted = [n \in Nonces |-> 0]
    /\ log = {}

Used == {e.nonce : e \in sent}

-----------------------------------------------------------------------------
(* CryptoCodec                                                             *)

\* Faulty variant of verify: a peer's own signature passes too.
verify_either_key(q, e) == e.intact

\* EcdsaSigner.verify under the other peer's public key, over all fields.
verify(q, e) == e.intact /\ e.from # q

\* AesGcmCipher.decrypt under the key of connection s.
gcm_decrypt(e, s) == e.session = s

encrypt(p, n, type, s) ==
    [nonce |-> n, from |-> p, timestamp |-> clock[p], type |-> type,
     session |-> s, intact |-> TRUE]

\* Faulty variants of refused: the nonce is not looked up; the session key does
\* not matter.
refused_without_lookup(q, e, s) ==
    \/ ~ is_within_window(e.timestamp, clock[q])
    \/ ~ verify(q, e)
    \/ ~ gcm_decrypt(e, s)
refused_any_session(q, e, s) ==
    \/ ~ is_within_window(e.timestamp, clock[q])
    \/ is_replay(cache[q][s], e.nonce)
    \/ ~ verify(q, e)

\* The checks in their order: window, nonce, signature by the peer's key, AES-GCM
\* under the session key.  None of them changes anything.
refused(q, e, s) ==
    \/ ~ is_within_window(e.timestamp, clock[q])
    \/ is_replay(cache[q][s], e.nonce)
    \/ ~ verify(q, e)
    \/ ~ gcm_decrypt(e, s)

Refusal(q, s) == [ok |-> FALSE, cache |-> cache[q][s]]

\* Faulty variant of decrypt: the nonce is recorded before signature and
\* ciphertext are checked.
decrypt_recording_early(q, e, s) ==
    IF \/ ~ is_within_window(e.timestamp, clock[q])
       \/ is_replay(cache[q][s], e.nonce)
    THEN Refusal(q, s)
    ELSE [ok |-> ~ refused(q, e, s), cache |-> record_nonce(cache[q][s], e.nonce, clock[q])]

\* The nonce is recorded once every check has passed.
decrypt(q, e, s) ==
    IF refused(q, e, s)
    THEN Refusal(q, s)
    ELSE [ok |-> TRUE, cache |-> record_nonce(cache[q][s], e.nonce, clock[q])]

-----------------------------------------------------------------------------
(* The peers                                                               *)

\* Triggers go to the Agent and results to the Forwarder.  The protocol has
\* heartbeats both ways, and both loops answer them.
Sends(p) == {"HEARTBEAT", IF p = "forwarder" THEN "BUILD_TRIGGER" ELSE "BUILD_RESULT"}

Send(p, n, type, s) ==
    /\ s \in live[p]
    /\ n \notin Used
    /\ type \in Sends(p)
    /\ sent' = sent \cup {encrypt(p, n, type, s)}
    /\ UNCHANGED <<clock, opened, live, cache, altered, accepted, log>>

\* Faulty variant of Answered: an ACK is answered with an ACK.
AnsweredWithAcks(type) == type \in {"HEARTBEAT", "BUILD_TRIGGER", "ACK"}

\* HEARTBEAT and BUILD_TRIGGER are answered with an ACK.
Answered(type) == type \in {"HEARTBEAT", "BUILD_TRIGGER"}

\* One turn of the receive loop of connection s.  A rejected envelope is logged
\* and skipped.  The ACK goes out before the dispatch and may fail to be sent; the
\* dispatch to message_cb, of all types but ACK and HEARTBEAT, ends in other modules.
Receive(q, e, s) ==
    LET r == decrypt(q, e, s) IN
    /\ s \in live[q]
    /\ cache' = [cache EXCEPT ![q][s] = r.cache]
    /\ IF r.ok
       THEN /\ accepted' = [accepted EXCEPT ![e.nonce] = @ + 1]
            /\ log' = log \cup {<<e, s>>}
            /\ \/ sent' = sent
               \/ /\ Answered(e.type)
                  /\ \E n \in Nonces \ Used : sent' = sent \cup {encrypt(q, n, "ACK", s)}
       ELSE UNCHANGED <<sent, accepted, log>>
    /\ UNCHANGED <<clock, opened, live, altered>>

\* The Agent's WsClient, which has no connection, and a new handler of the
\* Forwarder complete a handshake: a new key, and a new codec at both ends.  The
\* Agent's end comes a little later; until then it does nothing.
Connect ==
    /\ opened < MaxSession
    /\ live["agent"] = {}
    /\ opened' = opened + 1
    /\ live' = [p \in Peers |-> live[p] \cup {opened + 1}]
    /\ cache' = [p \in Peers |-> [cache[p] EXCEPT ![opened + 1] = EmptyCache]]
    /\ UNCHANGED <<clock, sent, altered, accepted, log>>

\* A peer sees the end of connection s, or gives it up, and drops its codec.
Disconnect(p, s) ==
    /\ s \in live[p]
    /\ live' = [live EXCEPT ![p] = @ \ {s}]
    /\ cache' = [cache EXCEPT ![p][s] = EmptyCache]
    /\ UNCHANGED <<clock, opened, sent, altered, accepted, log>>

-----------------------------------------------------------------------------
(* The environment                                                         *)

Alter(e) ==
    /\ Cardinality(altered) < MaxAltered
    /\ altered' = altered \cup {[e EXCEPT !.intact = FALSE]}
    /\ UNCHANGED <<clock, opened, live, cache, sent, accepted, log>>

ClockMoves(p) ==
    /\ \E t \in {clock[p] - 1, clock[p] + 1} \cap (0 .. MaxTime) :
         clock' = [clock EXCEPT ![p] = t]
    /\ UNCHANGED <<opened, live, cache, sent, altered, accepted, log>>

Next ==
    \/ \E p \in Peers, n \in Nonces, type \in MessageType, s \in Sessions : Send(p, n, type, s)
    \/ \E q \in Peers, e \in sent \cup altered, s \in Sessions : Receive(q, e, s)
    \/ \E e \in sent : Alter(e)
    \/ \E p \in Peers : ClockMoves(p)
    \/ Connect
    \/ \E p \in Peers, s \in Sessions : Disconnect(p, s)

Spec == Init /\ [][Next]_vars

-----------------------------------------------------------------------------
(* Properties                                                              *)

\* No message is accepted twice: not when it is repeated, not when clocks are
\* set back, not by the codec of a new connection, whose nonce cache is empty
\* (codec.py:128-165, crypto_codec.cpp:72-115).
AcceptedOnce == \A n \in Nonces : accepted[n] <= 1

\* What is accepted is what the peer sent, in the session it was sent in
\* (codec.py:142-162).
AcceptedAsSent ==
    \A a \in log : a[1] \in sent /\ a[1].session = a[2]

\* The codec of a connection has cached exactly the nonces it accepted: a copy
\* that was altered on the way, or arrived out of the window or on another
\* connection, does not use up the nonce of the message itself
\* (crypto-spec.md 4.4, codec.py:164-165).
NonceNotUsedUp ==
    \A q \in Peers : \A s \in live[q] :
        Cached(cache[q][s]) =
            {n \in Nonces : \E a \in log : a[1].nonce = n /\ a[2] = s /\ a[1].from # q}

\* The inductive strengthening of the three invariants above: a nonce names one
\* envelope, altered copies are recognised, and what was accepted is on record.
ChannelInv ==
    /\ TypeOK
    /\ \A e \in sent : e.intact /\ e.session <= opened
    /\ \A e \in altered : ~ e.intact
    /\ \A e, f \in sent : e.nonce = f.nonce => e = f
    /\ \A n \in Nonces : accepted[n] > 0 => \E a \in log : a[1].nonce = n
    /\ AcceptedOnce
    /\ AcceptedAsSent
    /\ NonceNotUsedUp

\* Each peer sends at most one ACK per heartbeat or trigger it accepted: ACKs
\* are not answered, and a repeated message is not acknowledged again
\* (agent_handler.py:128-147, ws_client.cpp:211-231).
AcksAnswerMessages ==
    \A q \in Peers :
        Cardinality({e \in sent : e.from = q /\ e.type = "ACK"}) <=
            Cardinality({a \in log : a[1].from # q /\ a[1].type \in {"HEARTBEAT", "BUILD_TRIGGER"}})

\* The messages that their addressee can still accept: sent to it over a
\* connection it has not dropped, and not accepted yet.
InFlight ==
    {d \in Nonces \X Peers :
        /\ accepted[d[1]] = 0
        /\ \E e \in sent : e.nonce = d[1] /\ e.from # d[2] /\ e.session \in live[d[2]]}

Abstract ==
    INSTANCE Delivery WITH Messages <- Nonces, posted <- Used, inflight <- InFlight,
                           delivered <- accepted

\* Window, nonce cache, signature and session key together make the link a
\* channel that delivers each message at most once, to its addressee, over the
\* connection it was sent on, whatever the network does (codec.py:106-170,
\* agent_handler.py:104-157, ws_client.cpp:189-240).
ImplementsDelivery == Abstract!Spec

=============================================================================
