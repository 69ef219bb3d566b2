------------------------- MODULE SecureChannelProofs -------------------------
(* Theorems about SecureChannel, for any window and any messages, sessions  *)
(* and movements of the clocks.                                             *)
EXTENDS SecureChannel, FiniteSetTheorems, TLAPS

\* The parts of ChannelInv about what is on the wire.
Wire ==
    /\ \A e \in sent : e.intact /\ e.session <= opened
    /\ \A e \in altered : ~ e.intact
    /\ \A e, f \in sent : e.nonce = f.nonce => e = f

\* The parts of ChannelInv about what was accepted.
Records ==
    /\ \A n \in Nonces : accepted[n] > 0 => \E a \in log : a[1].nonce = n
    /\ AcceptedOnce
    /\ AcceptedAsSent
    /\ NonceNotUsedUp

\* ChannelInv in these parts.
LEMMA ChannelInvParts == ChannelInv <=> (TypeOK /\ Wire /\ Records)
  BY DEF ChannelInv, Wire, Records

\* A channel without messages satisfies the invariant.
LEMMA InitChannelInv == Init => ChannelInv
  <1> SUFFICES ASSUME Init PROVE ChannelInv
    OBVIOUS
  <1> USE ChannelBoundsAssumption
  <1>1. TypeOK
    BY DEF Init, TypeOK, EmptyCache, Caches, Absent
  <1>2. NonceNotUsedUp
    BY DEF Init, NonceNotUsedUp, Cached, EmptyCache
  <1> QED
    BY <1>1, <1>2 DEF Init, ChannelInv, AcceptedOnce, AcceptedAsSent

\* A peer has codecs only for connections that were opened.
LEMMA LiveSessions ==
  ASSUME TypeOK, NEW p \in Peers, NEW s \in live[p]
  PROVE  s \in Sessions /\ s <= opened
  BY ChannelBoundsAssumption DEF TypeOK, Sessions

\* What encrypt makes is an envelope of its connection.
LEMMA EncryptType ==
  ASSUME TypeOK, NEW p \in Peers, NEW n \in Nonces, NEW type \in MessageType, NEW s \in Sessions
  PROVE  /\ encrypt(p, n, type, s) \in CryptoEnvelope
         /\ encrypt(p, n, type, s).nonce = n
         /\ encrypt(p, n, type, s).intact
         /\ encrypt(p, n, type, s).session = s
  BY DEF TypeOK, encrypt, CryptoEnvelope

\* An envelope with an unused nonce leaves the wire in order.
LEMMA WireGrows ==
  ASSUME TypeOK, Wire, NEW p \in Peers, NEW n \in Nonces \ Used, NEW type \in MessageType,
         NEW s \in live[p], sent' = sent \cup {encrypt(p, n, type, s)}, UNCHANGED <<opened, altered>>
  PROVE  Wire' /\ sent' \subseteq CryptoEnvelope
  <1> DEFINE new == encrypt(p, n, type, s)
  <1>0. s \in Sessions /\ s <= opened
    BY LiveSessions
  <1>1. /\ new \in CryptoEnvelope
        /\ new.nonce = n /\ new.intact /\ new.session = s
    BY <1>0, EncryptType
  <1>2. \A e \in sent : e.nonce # n
    BY DEF Used
  <1>3. sent \subseteq CryptoEnvelope
    BY DEF TypeOK
  <1> HIDE DEF new
  <1>4. sent' = sent \cup {new}
    BY DEF new
  <1> QED
    BY <1>0, <1>1, <1>2, <1>3, <1>4 DEF Wire

\* Every envelope that passes the checks is one the other peer sent over this
\* connection, and it was not accepted before.
LEMMA AcceptedIsNew ==
  ASSUME ChannelInv, NEW q \in Peers, NEW e \in sent \cup altered, NEW s \in live[q],
         ~ refused(q, e, s)
  PROVE  /\ e \in sent /\ e.from # q /\ e.session = s
         /\ e.nonce \in Nonces
         /\ cache[q][s][e.nonce] = Absent
         /\ accepted[e.nonce] = 0
         /\ \A a \in log : a[1].nonce # e.nonce
  <1>1. /\ e.intact /\ e.from # q /\ e.session = s
        /\ cache[q][s][e.nonce] = Absent
    BY DEF refused, verify, gcm_decrypt, is_replay
  <1>2. e \in sent
    BY <1>1 DEF ChannelInv
  <1>3. e.nonce \in Nonces /\ accepted[e.nonce] \in Nat
    BY <1>2 DEF ChannelInv, TypeOK, CryptoEnvelope
  <1>4. ASSUME NEW a \in log, a[1].nonce = e.nonce PROVE FALSE
    <2>1. a[1] = e /\ a[2] = s
      BY <1>1, <1>2, <1>4 DEF ChannelInv, AcceptedAsSent
    <2>2. e.nonce \in Cached(cache[q][s])
      BY <1>1, <1>3, <1>4, <2>1 DEF ChannelInv, NonceNotUsedUp
    <2> QED
      BY <1>1, <2>2 DEF Cached
  <1> QED
    BY <1>1, <1>2, <1>3, <1>4 DEF ChannelInv

\* A step that changes nothing keeps the invariant.
LEMMA StutterStep ==
  ASSUME ChannelInv, UNCHANGED vars
  PROVE  ChannelInv'
  <1> USE DEF vars
  <1>1. TypeOK'
    BY DEF ChannelInv, TypeOK
  <1>2. NonceNotUsedUp'
    BY DEF ChannelInv, NonceNotUsedUp
  <1>3. AcceptedOnce' /\ AcceptedAsSent'
    BY DEF ChannelInv, AcceptedOnce, AcceptedAsSent
  <1> QED
    BY <1>1, <1>2, <1>3 DEF ChannelInv

\* Receiving keeps the invariant: a refused envelope changes nothing, and an
\* accepted one is recorded in the cache and in the log at once.
LEMMA ReceiveStep ==
  ASSUME ChannelInv, NEW q \in Peers, NEW e \in sent \cup altered, NEW s \in Sessions, Receive(q, e, s)
  PROVE  ChannelInv'
  <1> USE WindowAssumption
  <1>1. TypeOK /\ Wire /\ Records /\ s \in live[q]
    BY ChannelInvParts DEF Receive
  <1>2. CASE refused(q, e, s)
    <2>1. decrypt(q, e, s) = [ok |-> FALSE, cache |-> cache[q][s]]
      BY <1>2 DEF decrypt, Refusal
    <2>2. cache' = [cache EXCEPT ![q][s] = cache[q][s]]
      BY <2>1 DEF Receive
    <2>3. cache' = cache
      BY <1>1, <2>2 DEF TypeOK
    <2>4. UNCHANGED vars
      BY <2>1, <2>3 DEF Receive, vars
    <2> QED
      BY <2>4, StutterStep
  <1>3. CASE ~ refused(q, e, s)
    <2> DEFINE n == e.nonce
    <2>1. /\ e \in sent /\ e.from # q /\ e.session = s /\ n \in Nonces
          /\ cache[q][s][n] = Absent /\ accepted[n] = 0
      BY <1>1, <1>3, AcceptedIsNew
    <2>2. decrypt(q, e, s) = [ok |-> TRUE, cache |-> record_nonce(cache[q][s], n, clock[q])]
      BY <1>3 DEF decrypt
    <2>3. /\ cache' = [cache EXCEPT ![q][s] = [cache[q][s] EXCEPT ![n] = clock[q] + Window]]
          /\ accepted' = [accepted EXCEPT ![n] = @ + 1]
          /\ log' = log \cup {<<e, s>>}
          /\ \/ sent' = sent
             \/ \E m \in Nonces \ Used : sent' = sent \cup {encrypt(q, m, "ACK", s)}
          /\ UNCHANGED <<clock, opened, live, altered>>
      BY <2>2 DEF Receive, record_nonce
    <2>4. Wire' /\ sent' \subseteq CryptoEnvelope /\ sent \subseteq sent'
      <3>1. CASE sent' = sent
        BY <1>1, <2>3, <3>1 DEF Wire, TypeOK
      <3>2. ASSUME NEW m \in Nonces \ Used, sent' = sent \cup {encrypt(q, m, "ACK", s)}
            PROVE  Wire' /\ sent' \subseteq CryptoEnvelope /\ sent \subseteq sent'
        BY <1>1, <2>3, <3>2, WireGrows DEF MessageType
      <3> QED
        BY <2>3, <3>1, <3>2
    <2>5. TypeOK'
      <3>1. e \in CryptoEnvelope /\ clock[q] \in Nat
        BY <1>1, <2>1 DEF TypeOK
      <3>2. cache' \in [Peers -> [Sessions -> Caches]]
        BY <1>1, <2>1, <2>3, <3>1 DEF TypeOK, Caches
      <3>3. accepted' \in [Nonces -> Nat]
        BY <1>1, <2>1, <2>3 DEF TypeOK
      <3>4. log' \subseteq (CryptoEnvelope \X Sessions)
        BY <1>1, <2>3, <3>1 DEF TypeOK
      <3> QED
        BY <1>1, <2>3, <2>4, <3>2, <3>3, <3>4 DEF TypeOK
    <2>6. AcceptedOnce' /\ \A m \in Nonces : accepted'[m] > 0 => \E a \in log' : a[1].nonce = m
      <3>1. <<e, s>> \in log' /\ <<e, s>>[1] = e /\ log \subseteq log'
        BY <2>3
      <3>2. /\ accepted'[n] = 1
            /\ \A m \in Nonces \ {n} : accepted'[m] = accepted[m]
        BY <1>1, <2>1, <2>3 DEF TypeOK
      <3> QED
        BY <1>1, <3>1, <3>2 DEF Records, AcceptedOnce
    <2>7. AcceptedAsSent'
      <3> SUFFICES ASSUME NEW a \in log' PROVE a[1] \in sent' /\ a[1].session = a[2]
        BY DEF AcceptedAsSent
      <3>1. CASE a \in log
        BY <1>1, <2>4, <3>1 DEF Records, AcceptedAsSent
      <3>2. CASE a = <<e, s>>
        BY <2>1, <2>4, <3>2
      <3> QED
        BY <2>3, <3>1, <3>2
    <2>8. NonceNotUsedUp'
      <3> SUFFICES ASSUME NEW p \in Peers, NEW t \in live[p], NEW m \in Nonces
                   PROVE  cache'[p][t][m] # Absent <=>
                            \E a \in log' : a[1].nonce = m /\ a[2] = t /\ a[1].from # p
        BY <2>3 DEF NonceNotUsedUp, Cached
      <3>1. cache[p][t][m] # Absent <=>
              \E a \in log : a[1].nonce = m /\ a[2] = t /\ a[1].from # p
        BY <1>1 DEF Records, NonceNotUsedUp, Cached
      <3>2. <<e, s>>[1] = e /\ <<e, s>>[2] = s
        OBVIOUS
      <3>3. CASE p = q /\ t = s /\ m = n
        <4>1. cache'[p][t][m] = clock[q] + Window
          BY <1>1, <2>1, <2>3, <3>3 DEF TypeOK, Caches
        <4>2. cache'[p][t][m] # Absent
          BY <1>1, <4>1 DEF TypeOK, Absent
        <4> QED
          BY <2>1, <2>3, <3>2, <3>3, <4>2
      <3>4. CASE p = q /\ (t # s \/ m # n)
        <4>1. cache'[p][t][m] = cache[p][t][m]
          BY <1>1, <2>1, <2>3, <3>4, LiveSessions DEF TypeOK, Caches
        <4> QED
          BY <2>3, <3>1, <3>2, <3>4, <4>1
      <3>5. CASE p # q
        <4>1. e.from = p
          BY <1>1, <2>1, <3>5 DEF TypeOK, CryptoEnvelope, Peers
        <4>2. cache'[p][t][m] = cache[p][t][m]
          BY <1>1, <2>3, <3>5 DEF TypeOK
        <4> QED
          BY <2>3, <3>1, <3>2, <4>1, <4>2
      <3> QED
        BY <3>3, <3>4, <3>5
    <2> QED
      BY <2>4, <2>5, <2>6, <2>7, <2>8 DEF ChannelInv, Wire
  <1> QED
    BY <1>2, <1>3

\* Every step keeps the invariant.
LEMMA StepChannelInv == ChannelInv /\ [Next]_vars => ChannelInv'
  <1> SUFFICES ASSUME ChannelInv, [Next]_vars PROVE ChannelInv'
    OBVIOUS
  <1>0. TypeOK /\ Wire /\ Records
    BY ChannelInvParts
  <1>1. ASSUME NEW p \in Peers, NEW n \in Nonces, NEW type \in MessageType,
               NEW s \in Sessions, Send(p, n, type, s)
        PROVE  ChannelInv'
    <2>1. Wire' /\ sent' \subseteq CryptoEnvelope /\ sent \subseteq sent'
      BY <1>0, <1>1, WireGrows DEF Send
    <2>2. TypeOK'
      BY <1>0, <1>1, <2>1 DEF Send, TypeOK
    <2>3. AcceptedOnce' /\ AcceptedAsSent' /\ NonceNotUsedUp'
      BY <1>0, <1>1, <2>1 DEF Send, Records, AcceptedOnce, AcceptedAsSent, NonceNotUsedUp
    <2> QED
      BY <1>0, <1>1, <2>1, <2>2, <2>3 DEF Send, ChannelInv, Wire, Records
  <1>2. ASSUME NEW q \in Peers, NEW e \in sent \cup altered, NEW s \in Sessions,
               Receive(q, e, s)
        PROVE  ChannelInv'
    BY <1>2, ReceiveStep
  <1>3. ASSUME NEW e \in sent, Alter(e) PROVE ChannelInv'
    <2>1. [e EXCEPT !.intact = FALSE] \in CryptoEnvelope /\ ~ [e EXCEPT !.intact = FALSE].intact
      BY <1>0 DEF TypeOK, CryptoEnvelope
    <2>2. TypeOK' /\ Wire'
      BY <1>0, <1>3, <2>1 DEF Alter, TypeOK, Wire
    <2>3. Records'
      BY <1>0, <1>3 DEF Alter, Records, AcceptedOnce, AcceptedAsSent, NonceNotUsedUp
    <2> QED
      BY <2>2, <2>3 DEF ChannelInv, Wire, Records
  <1>4. ASSUME NEW p \in Peers, ClockMoves(p) PROVE ChannelInv'
    <2>1. TypeOK'
      BY <1>0, <1>4, ChannelBoundsAssumption DEF ClockMoves, TypeOK
    <2>2. Wire' /\ Records'
      BY <1>0, <1>4 DEF ClockMoves, Wire, Records, AcceptedOnce, AcceptedAsSent, NonceNotUsedUp
    <2> QED
      BY <2>1, <2>2 DEF ChannelInv, Wire, Records
  <1>5. ASSUME Connect PROVE ChannelInv'
    <2>1. TypeOK'
      <3>1. opened' \in 0 .. MaxSession /\ 1 .. opened \subseteq 1 .. opened' /\ opened' \in 1 .. opened'
        BY <1>0, <1>5, ChannelBoundsAssumption DEF Connect, TypeOK
      <3>2. live' \in [Peers -> SUBSET (1 .. opened')]
        BY <1>0, <1>5, <3>1 DEF Connect, TypeOK
      <3>3. cache' \in [Peers -> [Sessions -> Caches]]
        BY <1>0, <1>5 DEF Connect, TypeOK, EmptyCache, Caches
      <3> QED
        BY <1>0, <1>5, <3>1, <3>2, <3>3 DEF Connect, TypeOK
    <2>2. Wire'
      BY <1>0, <1>5, ChannelBoundsAssumption DEF Connect, Wire, TypeOK, CryptoEnvelope, Sessions
    <2>3. \A a \in log : a[2] # opened + 1
      BY <1>0, ChannelBoundsAssumption
      DEF Records, AcceptedAsSent, Wire, TypeOK, CryptoEnvelope, Sessions
    <2>4. NonceNotUsedUp'
      <3> SUFFICES ASSUME NEW q \in Peers, NEW t \in live'[q], NEW m \in Nonces
                   PROVE  cache'[q][t][m] # Absent <=>
                            \E a \in log : a[1].nonce = m /\ a[2] = t /\ a[1].from # q
        BY <1>5 DEF Connect, NonceNotUsedUp, Cached
      <3>1. t \in live[q] \/ t = opened + 1
        BY <1>0, <1>5 DEF Connect, TypeOK
      <3>2. CASE t = opened + 1
        <4>1. t \in Sessions
          BY <1>0, <1>5, <3>2, ChannelBoundsAssumption DEF Connect, TypeOK, Sessions
        <4>2. cache'[q][t][m] = Absent
          BY <1>0, <1>5, <3>2, <4>1 DEF Connect, TypeOK, EmptyCache
        <4> QED
          BY <2>3, <3>2, <4>2
      <3>3. CASE t \in live[q] /\ t # opened + 1
        <4>1. cache'[q][t] = cache[q][t]
          BY <1>0, <1>5, <3>3, LiveSessions DEF Connect, TypeOK
        <4> QED
          BY <1>0, <3>3, <4>1 DEF Records, NonceNotUsedUp, Cached
      <3> QED
        BY <3>1, <3>2, <3>3
    <2>5. AcceptedOnce' /\ AcceptedAsSent'
      BY <1>0, <1>5 DEF Connect, Records, AcceptedOnce, AcceptedAsSent
    <2> QED
      BY <1>0, <1>5, <2>1, <2>2, <2>4, <2>5 DEF Connect, ChannelInv, Wire, Records
  <1>7. ASSUME NEW p \in Peers, NEW s \in Sessions, Disconnect(p, s) PROVE ChannelInv'
    <2>1. TypeOK'
      BY <1>0, <1>7 DEF Disconnect, TypeOK, EmptyCache, Caches
    <2>2. \A q \in Peers : \A t \in live'[q] : t \in live[q] /\ cache'[q][t] = cache[q][t]
      BY <1>0, <1>7, LiveSessions DEF Disconnect, TypeOK
    <2>3. NonceNotUsedUp'
      BY <1>0, <1>7, <2>2 DEF Disconnect, Records, NonceNotUsedUp, Cached
    <2>4. Wire' /\ AcceptedOnce' /\ AcceptedAsSent'
      BY <1>0, <1>7 DEF Disconnect, Wire, Records, AcceptedOnce, AcceptedAsSent
    <2> QED
      BY <1>0, <1>7, <2>1, <2>3, <2>4 DEF Disconnect, ChannelInv, Wire, Records
  <1>6. CASE UNCHANGED vars
    BY <1>6, StutterStep
  <1> QED
    BY <1>1, <1>2, <1>3, <1>4, <1>5, <1>6, <1>7 DEF Next

\* The invariant holds throughout.
LEMMA ChannelInvariant == Spec => []ChannelInv
  BY InitChannelInv, StepChannelInv, PTL DEF Spec

\* No message is accepted twice by decrypt, whatever is repeated, delayed or
\* altered, however the clocks move and however often the Agent reconnects; the
\* state stays well typed.
THEOREM MessagesAcceptedOnce == Spec => [](TypeOK /\ AcceptedOnce)
  <1>1. ChannelInv => TypeOK /\ AcceptedOnce
    BY DEF ChannelInv
  <1> QED
    BY <1>1, ChannelInvariant, PTL

\* What decrypt accepts is what the peer encrypted, unaltered and in the session
\* of its key.
THEOREM MessagesAcceptedAsSent == Spec => []AcceptedAsSent
  <1>1. ChannelInv => AcceptedAsSent
    BY DEF ChannelInv
  <1> QED
    BY <1>1, ChannelInvariant, PTL

\* decrypt records exactly the nonces it accepts: no refused envelope uses up
\* the nonce of a message that is still to come.
THEOREM RefusalsUseUpNothing == Spec => []NonceNotUsedUp
  <1>1. ChannelInv => NonceNotUsedUp
    BY DEF ChannelInv
  <1> QED
    BY <1>1, ChannelInvariant, PTL

\* Two peers: the sender of an envelope is the one that is not its addressee.
LEMMA OtherPeer ==
  ASSUME NEW p \in Peers, NEW q \in Peers, NEW r \in Peers, p # q, r # q
  PROVE  p = r
  BY DEF Peers

\* A new envelope puts its message under way, unless the addressee has dropped
\* the connection, and takes none away.
LEMMA EncryptPosts ==
  ASSUME ChannelInv, NEW p \in Peers, NEW q \in Peers, p # q,
         NEW n \in Nonces \ Used, NEW type \in MessageType, NEW s \in Sessions,
         sent' = sent \cup {encrypt(p, n, type, s)}, live' = live
  PROVE  /\ Used' = Used \cup {n}
         /\ accepted[n] = 0
         /\ \A m \in Nonces, r \in Peers :
              (\E e \in sent' : e.nonce = m /\ e.from # r /\ e.session \in live[r]) <=>
              \/ \E e \in sent : e.nonce = m /\ e.from # r /\ e.session \in live[r]
              \/ m = n /\ r = q /\ s \in live[q]
  <1> DEFINE new == encrypt(p, n, type, s)
  <1>1. new.nonce = n /\ new.from = p /\ new.session = s
    BY DEF encrypt
  <1>2. sent' = sent \cup {new}
    OBVIOUS
  <1>3. \A e \in sent : e.nonce # n
    BY DEF Used
  <1> HIDE DEF new
  <1>4. Used' = Used \cup {n}
    BY <1>1, <1>2 DEF Used
  <1>5. accepted[n] = 0
    BY <1>3 DEF ChannelInv, TypeOK, AcceptedAsSent
  <1>6. \A r \in Peers : p # r <=> r = q
    BY OtherPeer
  <1>7. \A m \in Nonces, r \in Peers :
          (\E e \in sent' : e.nonce = m /\ e.from # r /\ e.session \in live[r]) <=>
          \/ \E e \in sent : e.nonce = m /\ e.from # r /\ e.session \in live[r]
          \/ m = n /\ r = q /\ s \in live[q]
    BY <1>1, <1>2, <1>6
  <1> QED
    BY <1>4, <1>5, <1>7

\* An envelope that decrypt accepts is a message under way to its receiver; the
\* step takes it off and may post the ACK.
LEMMA ReceiveDelivers ==
  ASSUME ChannelInv, NEW q \in Peers, NEW e \in sent \cup altered, NEW s \in Sessions,
         Receive(q, e, s), ~ refused(q, e, s)
  PROVE  Abstract!Deliver(e.nonce, q)
  <1> DEFINE n == e.nonce
  <1>0. s \in live[q]
    BY DEF Receive
  <1>1. /\ e \in sent /\ e.from # q /\ e.session = s /\ n \in Nonces
        /\ accepted[n] = 0
    BY <1>0, AcceptedIsNew
  <1>2. decrypt(q, e, s).ok
    BY DEF decrypt
  <1>3. /\ accepted' = [accepted EXCEPT ![n] = @ + 1]
        /\ live' = live
        /\ \/ sent' = sent
           \/ \E m \in Nonces \ Used : sent' = sent \cup {encrypt(q, m, "ACK", s)}
    BY <1>2 DEF Receive
  <1>4. <<n, q>> \in InFlight
    BY <1>0, <1>1 DEF InFlight
  <1>5. accepted \in [Nonces -> Nat] /\ e.from \in Peers /\ sent \subseteq CryptoEnvelope
    BY <1>1 DEF ChannelInv, TypeOK, CryptoEnvelope
  <1>6. accepted'[n] = 1 /\ \A m \in Nonces \ {n} : accepted'[m] = accepted[m]
    BY <1>1, <1>3, <1>5
  <1>7. \A r \in Peers :
          (\E f \in sent : f.nonce = n /\ f.from # r /\ f.session \in live[r]) <=> r = q
    <2>1. \A f \in sent : f.nonce = n => f = e
      BY <1>1 DEF ChannelInv
    <2>2. \A r \in Peers : e.from # r <=> r = q
      BY <1>1, <1>5, OtherPeer
    <2> QED
      BY <1>0, <1>1, <2>1, <2>2
  <1>8. InFlight' \subseteq Nonces \X Peers /\ InFlight \subseteq Nonces \X Peers
    BY DEF InFlight
  <1>9. CASE sent' = sent
    <2>1. \A m \in Nonces, r \in Peers :
            <<m, r>> \in InFlight' <=> (<<m, r>> \in InFlight /\ ~ (m = n /\ r = q))
      BY <1>1, <1>3, <1>6, <1>7, <1>9 DEF InFlight
    <2>2. InFlight' = InFlight \ {<<n, q>>}
      BY <1>8, <2>1
    <2>3. Used' = Used
      BY <1>9 DEF Used
    <2> QED
      BY <1>3, <1>4, <2>2, <2>3 DEF Abstract!Deliver
  <1>10. ASSUME NEW m \in Nonces \ Used, sent' = sent \cup {encrypt(q, m, "ACK", s)}
         PROVE  Abstract!Deliver(n, q)
    <2> DEFINE p == e.from
    <2>1. p \in Peers \ {q}
      BY <1>1, <1>5
    <2>2. /\ Used' = Used \cup {m}
          /\ accepted[m] = 0
          /\ \A k \in Nonces, r \in Peers :
               (\E f \in sent' : f.nonce = k /\ f.from # r /\ f.session \in live[r]) <=>
               \/ \E f \in sent : f.nonce = k /\ f.from # r /\ f.session \in live[r]
               \/ k = m /\ r = p /\ s \in live[p]
      BY <1>3, <1>10, <2>1, EncryptPosts DEF MessageType
    <2>3. m # n
      BY <1>1 DEF Used
    <2> HIDE DEF p
    <2>4. \A k \in Nonces, r \in Peers :
            <<k, r>> \in InFlight' <=>
              ((<<k, r>> \in InFlight /\ ~ (k = n /\ r = q)) \/ (k = m /\ r = p /\ s \in live[p]))
      BY <1>1, <1>3, <1>6, <1>7, <2>2, <2>3 DEF InFlight
    <2>5. InFlight' \in {InFlight \ {<<n, q>>}, (InFlight \ {<<n, q>>}) \cup {<<m, p>>}}
      <3>1. CASE s \in live[p]
        BY <1>8, <2>1, <2>4, <3>1
      <3>2. CASE s \notin live[p]
        BY <1>8, <2>1, <2>4, <3>2
      <3> QED
        BY <3>1, <3>2
    <2> QED
      BY <1>3, <1>4, <2>1, <2>2, <2>5 DEF Abstract!Deliver
  <1> QED
    BY <1>3, <1>9, <1>10

\* Every step of the channel is a step of Delivery, or leaves it as it is.
LEMMA StepImplements ==
  ChannelInv /\ [Next]_vars => [Abstract!Next]_(Abstract!vars)
  <1> SUFFICES ASSUME ChannelInv, [Next]_vars PROVE [Abstract!Next]_(Abstract!vars)
    OBVIOUS
  <1> USE DEF Abstract!Next
  <1>0. ASSUME UNCHANGED <<sent, live, accepted>> PROVE UNCHANGED Abstract!vars
    BY <1>0 DEF Abstract!vars, Used, InFlight
  <1>1. ASSUME NEW p \in Peers, NEW n \in Nonces, NEW type \in MessageType, NEW s \in Sessions,
               Send(p, n, type, s)
        PROVE  Abstract!Next
    <2>1. PICK q \in Peers : p # q
      BY DEF Peers
    <2>2. /\ n \in Nonces \ Used /\ accepted' = accepted /\ live' = live
          /\ sent' = sent \cup {encrypt(p, n, type, s)}
      BY <1>1 DEF Send
    <2>3. /\ Used' = Used \cup {n}
          /\ accepted[n] = 0
          /\ \A m \in Nonces, r \in Peers :
               (\E e \in sent' : e.nonce = m /\ e.from # r /\ e.session \in live[r]) <=>
               \/ \E e \in sent : e.nonce = m /\ e.from # r /\ e.session \in live[r]
               \/ m = n /\ r = q /\ s \in live[q]
      BY <2>1, <2>2, EncryptPosts
    <2>4. \A m \in Nonces, r \in Peers :
            <<m, r>> \in InFlight' <=>
              (<<m, r>> \in InFlight \/ (m = n /\ r = q /\ s \in live[q]))
      BY <2>2, <2>3 DEF InFlight
    <2>5. InFlight' \subseteq Nonces \X Peers /\ InFlight \subseteq Nonces \X Peers
      BY DEF InFlight
    <2>6. InFlight' \in {InFlight, InFlight \cup {<<n, q>>}}
      <3>1. CASE s \in live[q]
        BY <2>4, <2>5, <3>1
      <3>2. CASE s \notin live[q]
        BY <2>4, <2>5, <3>2, SMTT(30)
      <3> QED
        BY <3>1, <3>2
    <2> QED
      BY <2>1, <2>2, <2>3, <2>6 DEF Abstract!Post
  <1>2. ASSUME NEW q \in Peers, NEW e \in sent \cup altered, NEW s \in Sessions, Receive(q, e, s)
        PROVE  Abstract!Next \/ UNCHANGED Abstract!vars
    <2>1. CASE refused(q, e, s)
      <3>1. UNCHANGED <<sent, live, accepted>>
        BY <1>2, <2>1 DEF Receive, decrypt, Refusal
      <3> QED
        BY <1>0, <3>1
    <2>2. CASE ~ refused(q, e, s)
      <3>1. e.nonce \in Nonces
        BY <1>2, <2>2, AcceptedIsNew DEF Receive
      <3> QED
        BY <1>2, <2>2, <3>1, ReceiveDelivers
    <2> QED
      BY <2>1, <2>2
  <1>3. ASSUME NEW e \in sent, Alter(e) PROVE UNCHANGED Abstract!vars
    BY <1>0, <1>3 DEF Alter
  <1>4. ASSUME NEW p \in Peers, ClockMoves(p) PROVE UNCHANGED Abstract!vars
    BY <1>0, <1>4 DEF ClockMoves
  <1>5. ASSUME Connect PROVE Abstract!Next
    <2>1. \A e \in sent : e.session # opened + 1
      BY ChannelBoundsAssumption DEF ChannelInv, TypeOK, CryptoEnvelope, Sessions
    <2>2. \A r \in Peers : live'[r] = live[r] \cup {opened + 1}
      BY <1>5 DEF Connect
    <2>3. InFlight' = InFlight
      BY <1>5, <2>1, <2>2 DEF Connect, InFlight
    <2>4. UNCHANGED <<Used, accepted>>
      BY <1>5 DEF Connect, Used
    <2> QED
      BY <2>3, <2>4 DEF Abstract!Drop
  <1>7. ASSUME NEW p \in Peers, NEW s \in Sessions, Disconnect(p, s) PROVE Abstract!Next
    <2>1. \A r \in Peers : live'[r] \subseteq live[r]
      BY <1>7 DEF Disconnect, ChannelInv, TypeOK
    <2>2. InFlight' \subseteq InFlight
      BY <1>7, <2>1 DEF Disconnect, InFlight
    <2>3. UNCHANGED <<Used, accepted>>
      BY <1>7 DEF Disconnect, Used
    <2> QED
      BY <2>2, <2>3 DEF Abstract!Drop
  <1>6. CASE UNCHANGED vars
    BY <1>0, <1>6 DEF vars
  <1> QED
    BY <1>1, <1>2, <1>3, <1>4, <1>5, <1>6, <1>7 DEF Next

\* The secure channel implements Delivery: whatever the network repeats, delays,
\* reorders or alters, each message is delivered at most once, to the peer it
\* was encrypted for and over the connection it was encrypted on.
THEOREM ChannelImplementsDelivery == Spec => ImplementsDelivery
  <1>1. Init => Abstract!Init
    BY DEF Init, Abstract!Init, Used, InFlight
  <1>2. Spec => Abstract!Spec
    BY <1>1, ChannelInvariant, StepImplements, PTL DEF Spec, Abstract!Spec
  <1> QED
    BY <1>2 DEF ImplementsDelivery

-----------------------------------------------------------------------------
(* ACKs                                                                      *)

\* The ACKs peer q sent, and what it accepted that calls for one.
Acks(q) == {e \in sent : e.from = q /\ e.type = "ACK"}
Calls(q) == {a \in log : a[1].from # q /\ a[1].type \in {"HEARTBEAT", "BUILD_TRIGGER"}}

\* Both sets are finite, and the ACKs are at most as many.
AckInv ==
    /\ ChannelInv
    /\ IsFiniteSet(sent) /\ IsFiniteSet(log)
    /\ \A q \in Peers : Cardinality(Acks(q)) <= Cardinality(Calls(q))

\* The sets that are counted are finite when the wire and the log are.
LEMMA CountedAreFinite ==
  ASSUME IsFiniteSet(sent), IsFiniteSet(log), NEW q
  PROVE  /\ IsFiniteSet(Acks(q)) /\ Cardinality(Acks(q)) \in Nat
         /\ IsFiniteSet(Calls(q)) /\ Cardinality(Calls(q)) \in Nat
  <1>1. Acks(q) \subseteq sent /\ Calls(q) \subseteq log
    BY DEF Acks, Calls
  <1>2. IsFiniteSet(Acks(q)) /\ IsFiniteSet(Calls(q))
    BY <1>1, FS_Subset
  <1> QED
    BY <1>2, FS_CardinalityType

\* A set with one more element.
LEMMA OneMore ==
  ASSUME NEW S, NEW T, NEW x, IsFiniteSet(S), T = S \cup {x}
  PROVE  /\ Cardinality(S) \in Nat /\ Cardinality(T) \in Nat
         /\ Cardinality(T) <= Cardinality(S) + 1
         /\ x \notin S => Cardinality(T) = Cardinality(S) + 1
  <1>1. Cardinality(S) \in Nat
    BY FS_CardinalityType
  <1>2. Cardinality(T) = IF x \in S THEN Cardinality(S) ELSE Cardinality(S) + 1
    BY FS_AddElement
  <1> QED
    BY <1>1, <1>2

\* The ACKs and what they answer stay as they are when no ACK is sent and
\* nothing is logged.
LEMMA CountsStay ==
  ASSUME \A q \in Peers : Cardinality(Acks(q)) <= Cardinality(Calls(q)), log' = log,
         \A e : e.type = "ACK" => (e \in sent' <=> e \in sent)
  PROVE  \A q \in Peers : (Cardinality(Acks(q)) <= Cardinality(Calls(q)))'
  <1>1. \A q \in Peers : Acks(q)' = Acks(q) /\ Calls(q)' = Calls(q)
    BY DEF Acks, Calls
  <1> QED
    BY <1>1

\* Accepting a message answers it with one ACK at most, and what was accepted was
\* not counted before.
LEMMA ReceiveCounts ==
  ASSUME AckInv, NEW q \in Peers, NEW e \in sent \cup altered, NEW s \in Sessions,
         Receive(q, e, s), ~ refused(q, e, s)
  PROVE  /\ IsFiniteSet(sent') /\ IsFiniteSet(log')
         /\ \A p \in Peers : (Cardinality(Acks(p)) <= Cardinality(Calls(p)))'
  <1>0. ChannelInv /\ IsFiniteSet(sent) /\ IsFiniteSet(log) /\ s \in live[q]
    BY DEF AckInv, Receive
  <1>1. e \in sent /\ e.from # q /\ \A a \in log : a[1].nonce # e.nonce
    BY <1>0, AcceptedIsNew
  <1>2. decrypt(q, e, s).ok
    BY DEF decrypt
  <1>3. /\ log' = log \cup {<<e, s>>}
        /\ \/ sent' = sent
           \/ /\ Answered(e.type)
              /\ \E n \in Nonces \ Used : sent' = sent \cup {encrypt(q, n, "ACK", s)}
    BY <1>2 DEF Receive
  <1>4. IsFiniteSet(log')
    BY <1>0, <1>3, FS_AddElement
  <1>5. IsFiniteSet(sent')
    BY <1>0, <1>3, FS_AddElement
  <1>6. ASSUME NEW p \in Peers PROVE (Cardinality(Acks(p)) <= Cardinality(Calls(p)))'
    <2>1. /\ IsFiniteSet(Acks(p)) /\ Cardinality(Acks(p)) \in Nat
          /\ IsFiniteSet(Calls(p)) /\ Cardinality(Calls(p)) \in Nat
      BY <1>0, CountedAreFinite
    <2>2. IsFiniteSet(Calls(p)') /\ Cardinality(Calls(p)') \in Nat
      <3>1. Calls(p)' \subseteq log'
        BY DEF Calls
      <3>2. IsFiniteSet(Calls(p)')
        BY <1>4, <3>1, FS_Subset
      <3> QED
        BY <3>2, FS_CardinalityType
    <2>3. Cardinality(Acks(p)) <= Cardinality(Calls(p))
      BY DEF AckInv
    <2>4. Calls(p) \subseteq Calls(p)'
      BY <1>3 DEF Calls
    <2>5. Cardinality(Calls(p)) <= Cardinality(Calls(p)')
      BY <2>2, <2>4, FS_Subset
    <2>6. CASE Acks(p)' = Acks(p)
      BY <2>1, <2>2, <2>3, <2>5, <2>6
    <2>7. CASE Acks(p)' # Acks(p)
      <3>1. PICK n \in Nonces \ Used : sent' = sent \cup {encrypt(q, n, "ACK", s)}
        BY <1>3, <2>7 DEF Acks
      <3> DEFINE new == encrypt(q, n, "ACK", s)
      <3>2. new.from = q /\ new.type = "ACK"
        BY DEF encrypt
      <3>3. sent' = sent \cup {new}
        BY <3>1
      <3> HIDE DEF new
      <3>4. p = q /\ Acks(p)' = Acks(p) \cup {new}
        BY <2>7, <3>2, <3>3 DEF Acks
      <3>5. Answered(e.type)
        BY <1>3, <2>7 DEF Acks
      <3>6. <<e, s>> \notin Calls(p) /\ Calls(p)' = Calls(p) \cup {<<e, s>>}
        <4>1. <<e, s>>[1] = e
          OBVIOUS
        <4>2. <<e, s>> \notin log
          BY <1>1, <4>1
        <4> QED
          BY <1>1, <1>3, <3>4, <3>5, <4>1, <4>2 DEF Calls, Answered
      <3>7. Cardinality(Calls(p)') = Cardinality(Calls(p)) + 1
        BY <2>1, <3>6, OneMore
      <3>8. Cardinality(Acks(p)') <= Cardinality(Acks(p)) + 1 /\ Cardinality(Acks(p)') \in Nat
        BY <2>1, <3>4, OneMore
      <3> QED
        BY <2>1, <2>3, <3>7, <3>8
    <2> QED
      BY <2>6, <2>7
  <1> QED
    BY <1>4, <1>5, <1>6

\* Every step keeps the count.
LEMMA StepAckInv == AckInv /\ [Next]_vars => AckInv'
  <1> SUFFICES ASSUME AckInv, [Next]_vars PROVE AckInv'
    OBVIOUS
  <1> DEFINE Counted == \A q \in Peers : Cardinality(Acks(q)) <= Cardinality(Calls(q))
  <1>0. ChannelInv /\ IsFiniteSet(sent) /\ IsFiniteSet(log) /\ Counted
    BY DEF AckInv
  <1>i. ChannelInv'
    BY <1>0, StepChannelInv
  <1>u. ASSUME UNCHANGED <<sent, log>> PROVE AckInv'
    BY <1>0, <1>i, <1>u, CountsStay DEF AckInv
  <1>1. ASSUME NEW p \in Peers, NEW n \in Nonces, NEW type \in MessageType,
               NEW s \in Sessions, Send(p, n, type, s)
        PROVE  AckInv'
    <2> DEFINE new == encrypt(p, n, type, s)
    <2>1. sent' = sent \cup {new} /\ log' = log /\ type \in Sends(p)
      BY <1>1 DEF Send
    <2>2. new.type = type /\ type # "ACK"
      BY <2>1 DEF encrypt, Sends
    <2> HIDE DEF new
    <2>3. IsFiniteSet(sent')
      BY <1>0, <2>1, FS_AddElement
    <2>4. \A e : e.type = "ACK" => (e \in sent' <=> e \in sent)
      BY <2>1, <2>2
    <2>5. \A q \in Peers : (Cardinality(Acks(q)) <= Cardinality(Calls(q)))'
      BY <1>0, <2>1, <2>4, CountsStay
    <2> QED
      BY <1>0, <1>i, <2>1, <2>3, <2>5 DEF AckInv
  <1>2. ASSUME NEW q \in Peers, NEW e \in sent \cup altered, NEW s \in Sessions, Receive(q, e, s)
        PROVE  AckInv'
    <2>1. CASE refused(q, e, s)
      BY <1>2, <1>u, <2>1 DEF Receive, decrypt, Refusal
    <2>2. CASE ~ refused(q, e, s)
      BY <1>2, <1>i, <2>2, ReceiveCounts DEF AckInv
    <2> QED
      BY <2>1, <2>2
  <1>3. ASSUME NEW e \in sent, Alter(e) PROVE AckInv'
    BY <1>3, <1>u DEF Alter
  <1>4. ASSUME NEW p \in Peers, ClockMoves(p) PROVE AckInv'
    BY <1>4, <1>u DEF ClockMoves
  <1>5. ASSUME Connect PROVE AckInv'
    BY <1>5, <1>u DEF Connect
  <1>6. ASSUME NEW p \in Peers, NEW s \in Sessions, Disconnect(p, s) PROVE AckInv'
    BY <1>6, <1>u DEF Disconnect
  <1>7. CASE UNCHANGED vars
    BY <1>7, <1>u DEF vars
  <1> QED
    BY <1>1, <1>2, <1>3, <1>4, <1>5, <1>6, <1>7 DEF Next

\* Each peer sends at most one ACK per heartbeat or trigger it accepted, so that
\* ACKs never breed ACKs (agent_handler.py:128-147, ws_client.cpp:211-231), for
\* any number of messages, repetitions and connections.
THEOREM AcksAnswerMessagesHolds == Spec => []AcksAnswerMessages
  <1>1. Init => AckInv
    <2> SUFFICES ASSUME Init PROVE AckInv
      OBVIOUS
    <2>1. sent = {} /\ log = {}
      BY DEF Init
    <2>2. \A q \in Peers : Acks(q) = {} /\ Calls(q) = {}
      BY <2>1 DEF Acks, Calls
    <2> QED
      BY <2>1, <2>2, InitChannelInv, FS_EmptySet DEF AckInv
  <1>2. AckInv => AcksAnswerMessages
    BY DEF AckInv, AcksAnswerMessages, Acks, Calls
  <1> QED
    BY <1>1, <1>2, StepAckInv, PTL DEF Spec

=============================================================================
