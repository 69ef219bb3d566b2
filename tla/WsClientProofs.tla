--------------------------- MODULE WsClientProofs ---------------------------
(***************************************************************************)
(* Proofs about WsClient: the flag that send() tests covers the pointers   *)
(* it is about to use, at the moment of the test.                          *)
(***************************************************************************)
EXTENDS WsClient, TLAPS

\* The client as start() leaves it.
LEMMA InitWsInv == Init => WsInv
  <1> SUFFICES ASSUME Init PROVE WsInv
    OBVIOUS
  <1>1. sender \in [Senders -> {"idle", "checked", "encrypted"}]
    BY DEF Init
  <1>2. backoff \in 1 .. MaxBackoff
    BY WsBoundsAssumption DEF Init
  <1>3. running \in BOOLEAN /\ connected \in BOOLEAN /\ ~ connected
    BY Zenon DEF Init
  <1>4. /\ ws \in Nat /\ codec \in Nat /\ made \in Nat /\ faults \in Nat
        /\ stops \in 0 .. 2
    BY DEF Init
  <1>5. TypeOK
    BY <1>1, <1>2, <1>3, <1>4, Zenon DEF Init, TypeOK
  <1> QED
    BY <1>3, <1>5 DEF Init, WsInv

\* The next pause is within bounds (ws_client.cpp:106).
LEMMA LongerType ==
  ASSUME NEW b \in 1 .. MaxBackoff
  PROVE  Longer(b) \in 1 .. MaxBackoff
  BY WsBoundsAssumption DEF Longer

\* A step that leaves the I/O thread, the flag, the stream and the codec alone
\* keeps what relates them.
LEMMA PointersUntouched ==
  ASSUME WsInv, TypeOK', UNCHANGED <<connected, io, ws, codec, made>>
  PROVE  WsInv'
  BY DEF WsInv

\* Every step keeps the strengthened invariant.
LEMMA StepWsInv == WsInv /\ [Next]_vars => WsInv'
  <1> SUFFICES ASSUME WsInv, [Next]_vars PROVE WsInv'
    OBVIOUS
  <1>t. TypeOK
    BY DEF WsInv
  <1> USE DEF connection, stopping
  \* The I/O thread.
  <1>1. CASE RunTop
    BY <1>1, <1>t DEF RunTop, IoGoes, WsInv, TypeOK
  <1>2. CASE ConnectTcp
    BY <1>2, <1>t DEF ConnectTcp, WsInv, TypeOK
  <1>3. CASE ConnectFails \/ HandshakeFails
    BY <1>3, <1>t DEF ConnectFails, HandshakeFails, Fault, WsInv, TypeOK
  <1>4. CASE HandshakeDone
    BY <1>4, <1>t DEF HandshakeDone, WsInv, TypeOK
  <1>5. CASE Opened
    BY <1>5, <1>t, WsBoundsAssumption DEF Opened, WsInv, TypeOK
  <1>6. CASE LoopTop
    BY <1>6, <1>t DEF LoopTop, LeaveLoop, IoGoes, WsInv, TypeOK
  <1>7. CASE ReadMessage \/ ReadBadFrame
    BY <1>7, <1>t DEF ReadMessage, ReadBadFrame, IoGoes, WsInv, TypeOK
  <1>8. CASE ReadError
    BY <1>8, <1>t DEF ReadError, LeaveLoop, WsInv, TypeOK
  <1>9. CASE Reset
    BY <1>9, <1>t DEF Reset, AfterReset, WsInv, TypeOK
  <1>10. CASE WaitCheck \/ WaitParks \/ WaitTimesOut
    BY <1>10, <1>t DEF WaitCheck, WaitParks, WaitTimesOut, IoGoes, WsInv, TypeOK
  <1>11. CASE Woken
    <2>1. backoff' \in 1 .. MaxBackoff
      BY <1>11, <1>t, LongerType DEF Woken, TypeOK
    <2>2. TypeOK'
      BY <1>11, <1>t, <2>1 DEF Woken, TypeOK
    <2> QED
      BY <1>11, <2>2 DEF Woken, WsInv
  \* The main thread.
  <1>12. CASE StopNotify
    BY <1>12, <1>t DEF StopNotify, WsInv, TypeOK
  <1>13. CASE StopFlag \/ StopTestsSocket \/ StopClosesSocket \/ Join
    <2>1. TypeOK'
      <3>1. CASE StopFlag
        <4>1. running' \in BOOLEAN
          BY <3>1, Zenon DEF StopFlag
        <4>2. stops' \in 0 .. 2 /\ stop' = "flagged"
          BY <3>1, <1>t DEF StopFlag, TypeOK
        <4> QED
          BY <3>1, <1>t, <4>1, <4>2 DEF StopFlag, TypeOK
      <3>2. CASE StopTestsSocket \/ StopClosesSocket \/ Join
        BY <3>2, <1>t DEF StopTestsSocket, StopClosesSocket, Join, TypeOK
      <3> QED
        BY <1>13, <3>1, <3>2
    <2>2. UNCHANGED <<connected, io, ws, codec, made>>
      BY <1>13 DEF StopFlag, StopTestsSocket, StopClosesSocket, Join
    <2> QED
      BY <2>1, <2>2, PointersUntouched
  \* The senders.
  <1>14. ASSUME NEW x \in Senders, SendTests(x) \/ SendEncrypts(x) \/ SendWrites(x)
         PROVE  WsInv'
    <2>1. sender' \in [Senders -> {"idle", "checked", "encrypted"}]
      BY <1>14, <1>t DEF SendTests, SendEncrypts, SendWrites, TypeOK
    <2>2. crashed' \in {"nobody", "send", "stop"}
      BY <1>14, <1>t DEF SendTests, SendEncrypts, SendWrites, TypeOK
    <2>3. UNCHANGED <<connected, io, backoff, connection, stopping, faults>>
      BY <1>14 DEF SendTests, SendEncrypts, SendWrites
    <2>4. TypeOK'
      BY <1>t, <2>1, <2>2, <2>3 DEF TypeOK
    <2> QED
      BY <2>3, <2>4, PointersUntouched
  <1>15. CASE LinkBreaks
    <2>1. TypeOK'
      BY <1>15, <1>t DEF LinkBreaks, Fault, TypeOK
    <2> QED
      BY <1>15, <2>1, PointersUntouched DEF LinkBreaks
  <1>16. CASE UNCHANGED vars
    BY <1>16, <1>t DEF vars, WsInv, TypeOK
  <1> QED
    BY <1>1, <1>2, <1>3, <1>4, <1>5, <1>6, <1>7, <1>8, <1>9, <1>10, <1>11, <1>12, <1>13,
       <1>14, <1>15, <1>16 DEF Next, IoStep, StopStep

\* Whenever connected_ is set, ws_ and codec_ exist and belong together, for any
\* number of sender threads, failures and connections; and the pause between two
\* attempts stays within its bounds.
THEOREM FlagIsReliable == Spec => [](TypeOK /\ FlagCoversPointers)
  <1>1. WsInv => TypeOK /\ FlagCoversPointers
    BY DEF WsInv, FlagCoversPointers
  <1> QED
    BY <1>1, InitWsInv, StepWsInv, PTL DEF Spec

=============================================================================
