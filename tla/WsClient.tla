------------------------------ MODULE WsClient ------------------------------
(***************************************************************************)
(* The Agent's WebSocket client (agent/ws_client/src/ws_client.cpp): the   *)
(* I/O thread that connects, reads and reconnects, the threads that call   *)
(* send, and the main thread that calls stop and destroys the client.      *)
(*                                                                         *)
(* running_ and connected_ are atomics, ws_ and codec_ are plain pointers  *)
(* that the I/O thread sets and resets without a lock.  Using one after it *)
(* was reset is undefined: the process crashes, or the call fails.         *)
(***************************************************************************)
EXTENDS Naturals, FiniteSets

CONSTANTS
    Senders,      \* threads other than the I/O thread that call send
    MaxFaults,    \* bound on failures of the network and of handshakes
    MaxBackoff    \* longest pause between two attempts (30 s)

ASSUME WsBoundsAssumption == MaxFaults \in Nat /\ MaxBackoff \in Nat \ {0}

VARIABLES
    running,    \* running_
    connected,  \* connected_
    ws,         \* ws_: the number of the connection, 0 for null
    codec,      \* codec_: the connection whose key it holds, 0 for null
    link,       \* the socket behind ws_; silent: the peer is gone and nothing tells
    io,         \* where the I/O thread is
    backoff,
    made,       \* connections made so far
    stop,       \* where the main thread is in stop()
    stops,      \* calls of stop() begun: by main and by the destructor
    sender,     \* where each sender is in send()
    crashed,    \* the thread that used a null pointer and brought the process down
    faults

connection == <<ws, codec, link, made>>
stopping == <<running, stop, stops>>
vars == <<connected, io, backoff, connection, stopping, sender, crashed, faults>>

Alive == crashed = "nobody" /\ io # "terminated"

TypeOK ==
    /\ running \in BOOLEAN /\ connected \in BOOLEAN
    /\ ws \in Nat /\ codec \in Nat /\ made \in Nat /\ faults \in Nat
    /\ link \in {"up", "silent", "down"}
    /\ io \in {"top", "connect", "handshake", "opened", "loop", "read", "reset",
               "check", "parking", "waiting", "woken", "done", "terminated"}
    /\ backoff \in 1 .. MaxBackoff
    /\ stop \in {"idle", "flagged", "notified", "closing", "returned", "joined"}
    /\ stops \in 0 .. 2
    /\ sender \in [Senders -> {"idle", "checked", "encrypted"}]
    /\ crashed \in {"nobody", "send", "stop"}

\* After start().
Init ==
    /\ running = TRUE /\ connected = FALSE
    /\ ws = 0 /\ codec = 0 /\ link = "down"
    /\ io = "top" /\ backoff = 1 /\ made = 0
    /\ stop = "idle" /\ stops = 0
    /\ sender = [x \in Senders |-> "idle"]
    /\ crashed = "nobody" /\ faults = 0

Fault == faults < MaxFaults /\ faults' = faults + 1

-----------------------------------------------------------------------------
(* The I/O thread: run, connect_and_handshake, io_loop                     *)

\* A step from one place to another that changes nothing else.
IoGoes(from, to) ==
    /\ io = from /\ io' = to
    /\ UNCHANGED <<connected, backoff, connection, stopping, sender, crashed, faults>>

RunTop == IoGoes("top", IF running THEN "connect" ELSE "done")

\* Resolve, connect, and make the stream.
ConnectTcp ==
    /\ io = "connect" /\ io' = "handshake"
    /\ made' = made + 1 /\ ws' = made + 1 /\ link' = "up"
    /\ UNCHANGED <<connected, codec, backoff, stopping, sender, crashed, faults>>

ConnectFails ==
    /\ io = "connect" /\ io' = "reset"
    /\ Fault
    /\ UNCHANGED <<connected, backoff, connection, stopping, sender, crashed>>

\* The upgrade, HandshakeInit, HandshakeAck and its verification; the codec is
\* assembled last.
HandshakeDone ==
    /\ io = "handshake" /\ io' = "opened"
    /\ link = "up"
    /\ codec' = ws
    /\ UNCHANGED <<connected, ws, link, made, backoff, stopping, sender, crashed, faults>>

\* The peer rejects the handshake or cannot be verified, or the link is gone.
HandshakeFails ==
    /\ io = "handshake" /\ io' = "reset"
    /\ \/ link = "up" /\ Fault
       \/ link = "down" /\ UNCHANGED faults
    /\ UNCHANGED <<connected, backoff, connection, stopping, sender, crashed>>

Opened ==
    /\ io = "opened" /\ io' = "loop"
    /\ connected' = TRUE /\ backoff' = 1
    /\ UNCHANGED <<connection, stopping, sender, crashed, faults>>

\* Faulty variant of LeaveLoop: connected_ is still set when the pointers go.
LeaveLoopConnected ==
    io' = "reset" /\ UNCHANGED <<connected, backoff, connection, stopping, sender, crashed, faults>>

LeaveLoop ==
    /\ io' = "reset" /\ connected' = FALSE
    /\ UNCHANGED <<backoff, connection, stopping, sender, crashed, faults>>

LoopTop == IF running THEN IoGoes("loop", "read") ELSE io = "loop" /\ LeaveLoop

\* A message, acknowledged and dispatched, or one that does not decrypt.
ReadMessage == link = "up" /\ IoGoes("read", "loop")

ReadError == io = "read" /\ link = "down" /\ LeaveLoop

\* A frame that is not an envelope of a known type: from_json or
\* parse_message_type throws; nothing above io_loop catches it.
ReadBadFrame == link = "up" /\ IoGoes("read", "terminated")

\* Faulty variant of AfterReset: the thread ends with its connection.
AfterResetEnd == "done"

AfterReset == IF running THEN "check" ELSE "done"

Reset ==
    /\ io = "reset" /\ io' = AfterReset
    /\ ws' = 0 /\ codec' = 0 /\ link' = "down"
    /\ UNCHANGED <<connected, made, backoff, stopping, sender, crashed, faults>>

\* wait_for: the predicate, and then the wait.  stop() does not hold cv_mutex_,
\* so its notification may come between the two and be lost.
WaitCheck == IoGoes("check", IF running THEN "parking" ELSE "woken")

WaitParks == IoGoes("parking", "waiting")

\* Faulty variant of WaitTimesOut: wait instead of wait_for.
WaitForever == IoGoes("waiting", "waiting")

WaitTimesOut == IoGoes("waiting", "woken")

Longer(b) == IF 2 * b < MaxBackoff THEN 2 * b ELSE MaxBackoff

Woken ==
    /\ io = "woken" /\ io' = "top"
    /\ backoff' = Longer(backoff)
    /\ UNCHANGED <<connected, connection, stopping, sender, crashed, faults>>

-----------------------------------------------------------------------------
(* stop(), by main and then by the destructor, which joins the thread      *)

StopFlag ==
    /\ stop \in {"idle", "returned"} /\ stops < 2
    /\ running' = FALSE
    /\ stop' = "flagged" /\ stops' = stops + 1
    /\ UNCHANGED <<connected, io, backoff, connection, sender, crashed, faults>>

StopNotify ==
    /\ stop = "flagged" /\ stop' = "notified"
    /\ io' = IF io = "waiting" THEN "woken" ELSE io
    /\ UNCHANGED <<connected, backoff, connection, running, stops, sender, crashed, faults>>

\* close_connection tests ws_ ...
StopTestsSocket ==
    /\ stop = "notified"
    /\ stop' = IF ws # 0 THEN "closing" ELSE "returned"
    /\ UNCHANGED <<connected, io, backoff, connection, running, stops, sender, crashed, faults>>

\* ... and uses it.
StopClosesSocket ==
    /\ stop = "closing" /\ stop' = "returned"
    /\ IF ws # 0 THEN link' = "down" /\ UNCHANGED crashed
                 ELSE crashed' \in {"nobody", "stop"} /\ UNCHANGED link
    /\ UNCHANGED <<connected, io, backoff, ws, codec, made, running, stops, sender, faults>>

Join ==
    /\ stop = "returned" /\ stops = 2 /\ stop' = "joined"
    /\ io = "done"
    /\ UNCHANGED <<connected, io, backoff, connection, running, stops, sender, crashed, faults>>

-----------------------------------------------------------------------------
(* send(), in three steps between which the I/O thread may run             *)

SendTests(x) ==
    /\ sender[x] = "idle"
    /\ connected /\ running /\ codec # 0 /\ ws # 0
    /\ sender' = [sender EXCEPT ![x] = "checked"]
    /\ UNCHANGED <<connected, io, backoff, connection, stopping, crashed, faults>>

SendEncrypts(x) ==
    /\ sender[x] = "checked"
    /\ IF codec # 0
       THEN /\ sender' = [sender EXCEPT ![x] = "encrypted"]
            /\ UNCHANGED crashed
       ELSE /\ sender' = [sender EXCEPT ![x] = "idle"]
            /\ crashed' \in {"nobody", "send"}
    /\ UNCHANGED <<connected, io, backoff, connection, stopping, faults>>

\* Under write_mutex_, which the I/O thread does not take to reset ws_.
SendWrites(x) ==
    /\ sender[x] = "encrypted"
    /\ sender' = [sender EXCEPT ![x] = "idle"]
    /\ crashed' \in IF ws # 0 THEN {crashed} ELSE {"nobody", "send"}
    /\ UNCHANGED <<connected, io, backoff, connection, stopping, faults>>

-----------------------------------------------------------------------------
\* The network, external.
LinkBreaks ==
    /\ link = "up"
    /\ Fault
    /\ link' \in {"down", "silent"}
    /\ UNCHANGED <<connected, io, backoff, ws, codec, made, stopping, sender, crashed>>

IoStep ==
    \/ RunTop \/ ConnectTcp \/ ConnectFails \/ HandshakeDone \/ HandshakeFails \/ Opened
    \/ LoopTop \/ ReadMessage \/ ReadError \/ ReadBadFrame \/ Reset
    \/ WaitCheck \/ WaitParks \/ WaitTimesOut \/ Woken

StopStep == StopFlag \/ StopNotify \/ StopTestsSocket \/ StopClosesSocket \/ Join

Next ==
    /\ Alive
    /\ \/ IoStep
       \/ StopStep
       \/ \E x \in Senders : SendTests(x) \/ SendEncrypts(x) \/ SendWrites(x)
       \/ LinkBreaks

Spec == Init /\ [][Next]_vars

\* The threads run; the peer, unless it is silent, answers or its link breaks.
\* Whether main ever calls stop() is open; once it has, it goes on to the end.
Fairness ==
    /\ WF_vars(Alive /\ IoStep)
    /\ WF_vars(Alive /\ stops > 0 /\ StopStep)

FairSpec == Spec /\ Fairness

-----------------------------------------------------------------------------
(* Properties                                                              *)

\* connected_ brackets the pointers: whenever a thread sees it set, the stream
\* and the codec exist and belong to the same connection (ws_client.cpp:83-98).
\* This is all that send()'s test can rely on.
FlagCoversPointers == connected => ws # 0 /\ codec = ws

\* Why: the I/O thread's place determines the pointers, and bounds the flag.
WsInv ==
    /\ TypeOK
    /\ connected => io \in {"loop", "read", "terminated"}
    /\ ws = 0 \/ ws = made
    /\ io \in {"top", "connect", "check", "parking", "waiting", "woken", "done"} =>
          ws = 0 /\ codec = 0
    /\ io \in {"handshake", "opened", "loop", "read", "terminated"} => ws # 0
    /\ io = "handshake" => codec = 0
    /\ io \in {"opened", "loop", "read", "terminated"} => codec = ws

\* Once stop() has been called the I/O thread ends and the destructor's join
\* returns, in whatever phase the call finds it; a lost notification costs one
\* pause, not the shutdown (ws_client.cpp:41-59, 95-107).  Only a peer that has
\* vanished silently holds the thread up, because reads have no timeout.
StopEndsThread == (stops > 0) ~> (stop = "joined" \/ ~ Alive \/ link = "silent")

\* Exponential-backoff auto-reconnect (ws_client.h:32): a client that is not
\* stopped gets connected again once the network lets it, unless its peer has
\* vanished silently.
Reconnects == (~ connected) ~> (connected \/ ~ running \/ ~ Alive \/ link = "silent")

\* send() is thread-safe (ws_client.h:65): it never uses a pointer that the I/O
\* thread has reset.
SendIsSafe == crashed # "send"

=============================================================================
