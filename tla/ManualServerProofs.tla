------------------------- MODULE ManualServerProofs -------------------------
(***************************************************************************)
(* Theorems about ManualServer, for any number of agents and connections   *)
(* and with the loop starting late, stopping early or never running; and,  *)
(* in the second half, about the frames it and RawWebSocket read and write *)
(* (WsFrames), for any sizes, any frames of the client and however TCP     *)
(* cuts the stream.                                                        *)
(***************************************************************************)
EXTENDS ManualServer, WsFrames, SequenceTheorems, WellFoundedInduction, TLAPS

\* What run_coroutine_threadsafe leaves on the loop: the old queue, and the
\* coroutine of thread s behind it.
LEMMA ScheduleAppends ==
  ASSUME TypeOK, NEW op \in {"add", "remove"}, NEW s \in Sessions, who[s] \in Agents,
         Schedules(op, s)
  PROVE  /\ queue' \in Seq(Coroutines)
         /\ DOMAIN queue \subseteq DOMAIN queue'
         /\ \A k \in DOMAIN queue : queue'[k] = queue[k]
         /\ Len(queue) + 1 \in DOMAIN queue'
         /\ \A k \in DOMAIN queue' : k \in DOMAIN queue \/ k = Len(queue) + 1
         /\ \A k \in DOMAIN queue : k < Len(queue) + 1
         /\ queue'[Len(queue) + 1].op = op
         /\ queue'[Len(queue) + 1].agent = who[s]
         /\ queue'[Len(queue) + 1].session = s
  <1> DEFINE c == [op |-> op, agent |-> who[s], session |-> s]
  <1>1. queue \in Seq(Coroutines) /\ c \in Coroutines /\ queue' = Append(queue, c)
    BY DEF TypeOK, Coroutines, Schedules
  <1> HIDE DEF c
  <1>2. /\ queue' \in Seq(Coroutines)
        /\ Len(queue') = Len(queue) + 1
        /\ \A k \in 1 .. Len(queue) : queue'[k] = queue[k]
        /\ queue'[Len(queue) + 1] = c
    BY <1>1, AppendProperties
  <1>3. /\ Len(queue) \in Nat /\ DOMAIN queue = 1 .. Len(queue)
        /\ DOMAIN queue' = 1 .. Len(queue')
    BY <1>1, <1>2, LenProperties
  <1>4. c.op = op /\ c.agent = who[s] /\ c.session = s
    BY DEF c
  <1> QED
    BY <1>2, <1>3, <1>4

\* What is left on the loop when it has taken the coroutine at the head.
LEMMA TailShifts ==
  ASSUME TypeOK, queue # <<>>, queue' = Tail(queue)
  PROVE  /\ queue' \in Seq(Coroutines)
         /\ 1 \in DOMAIN queue /\ Head(queue) = queue[1] /\ Head(queue) \in Coroutines
         /\ \A k \in DOMAIN queue' : k + 1 \in DOMAIN queue /\ queue'[k] = queue[k + 1]
         /\ \A k \in DOMAIN queue : k # 1 => k - 1 \in DOMAIN queue' /\ queue'[k - 1] = queue[k]
         /\ DOMAIN queue \subseteq Nat \ {0} /\ DOMAIN queue' \subseteq Nat
  <1>1. queue \in Seq(Coroutines)
    BY DEF TypeOK
  <1>2. /\ Head(queue) \in Coroutines /\ queue' \in Seq(Coroutines)
        /\ Len(queue') = Len(queue) - 1
        /\ \A k \in 1 .. Len(queue') : queue'[k] = queue[k + 1]
    BY <1>1, HeadTailProperties
  <1>3. /\ Len(queue) \in Nat /\ DOMAIN queue = 1 .. Len(queue)
        /\ Len(queue') \in Nat /\ DOMAIN queue' = 1 .. Len(queue')
    BY <1>1, <1>2, LenProperties
  <1>4. Head(queue) = queue[1]
    BY <1>1
  <1> QED
    BY <1>2, <1>3, <1>4

\* Nobody has connected at the start.
LEMMA InitServerInv == Init => ServerInv
  <1> SUFFICES ASSUME Init PROVE ServerInv
    OBVIOUS
  <1>1. queue = <<>> /\ DOMAIN queue = {} /\ queue \in Seq(Coroutines)
    BY EmptySeq DEF Init
  <1>2. TypeOK
    BY <1>1 DEF Init, TypeOK
  <1> QED
    BY <1>1, <1>2 DEF Init, ServerInv, ThreadsAreNamed, WorkIsOfItsThread, LateAddIsUndone,
                     EntryHasThread

\* A step that moves one thread on, and neither into nor out of the part of its
\* life the invariant is about, disturbs nothing.
LEMMA ThreadMoves ==
  ASSUME ServerInv, NEW s \in Sessions,
         NEW pc \in {"handshake", "loop", "leaving", "gone"},
         conn' = [conn EXCEPT ![s] = pc],
         \/ conn[s] \in {"adding", "loop", "verified"} /\ pc \in {"loop", "leaving"}
         \/ conn[s] \in {"new", "handshake"} /\ pc \in {"handshake", "gone"}
         \/ conn[s] = "leaving" /\ pc = "gone" /\ (s \notin scheduled \/ who[s] \in Unnamed),
         UNCHANGED <<server, who, scheduled, queue, by_agent, added>>
  PROVE  ServerInv'
  <1>t. TypeOK /\ TypeOK'
    BY DEF ServerInv, TypeOK, server
  <1>1. /\ conn'[s] = pc
        /\ \A r \in Sessions : r # s => conn'[r] = conn[r]
    BY <1>t DEF TypeOK
  <1>2. ThreadsAreNamed'
    BY <1>1, <1>t DEF ServerInv, ThreadsAreNamed, TypeOK
  <1>3. WorkIsOfItsThread'
    BY DEF ServerInv, WorkIsOfItsThread
  <1>4. \A r \in scheduled : who[r] \notin Unnamed /\ conn'[r] = "gone" => conn[r] = "gone"
    BY <1>1, <1>t DEF ServerInv, ThreadsAreNamed, TypeOK
  <1>5. LateAddIsUndone'
    BY <1>4 DEF ServerInv, LateAddIsUndone, WorkIsOfItsThread
  <1>6. EntryHasThread'
    BY <1>4 DEF ServerInv, EntryHasThread, WorkIsOfItsThread
  <1> QED
    BY <1>t, <1>2, <1>3, <1>5, <1>6 DEF ServerInv

\* The loop runs the coroutine at the head: a removal forgets the agent, and a
\* registration that comes too late has its removal further on.
LEMMA LoopRunsStep == ASSUME ServerInv, LoopRuns PROVE ServerInv'
  <1> DEFINE c == Head(queue)
  <1>1. /\ queue # <<>> /\ queue' = Tail(queue)
        /\ by_agent' = [by_agent EXCEPT ![c.agent] = IF c.op = "add" THEN c.session ELSE None]
        /\ added' = IF c.op = "add" THEN added \cup {c.session} ELSE added
        /\ UNCHANGED <<server, conn, who, scheduled>>
    BY DEF LoopRuns
  <1>t. TypeOK
    BY DEF ServerInv
  <1>2. /\ queue' \in Seq(Coroutines)
        /\ 1 \in DOMAIN queue /\ c = queue[1] /\ c \in Coroutines
        /\ \A k \in DOMAIN queue' : k + 1 \in DOMAIN queue /\ queue'[k] = queue[k + 1]
        /\ \A k \in DOMAIN queue : k # 1 => k - 1 \in DOMAIN queue' /\ queue'[k - 1] = queue[k]
        /\ DOMAIN queue \subseteq Nat \ {0} /\ DOMAIN queue' \subseteq Nat
    BY <1>1, <1>t, TailShifts
  <1> HIDE DEF c
  <1>3. c.op \in {"add", "remove"} /\ c.agent \in Agents /\ c.session \in Sessions
    BY <1>2 DEF Coroutines
  <1>4. c.session \in scheduled /\ c.agent = who[c.session]
    BY <1>2 DEF ServerInv, WorkIsOfItsThread
  <1>5. TypeOK'
    BY <1>1, <1>2, <1>3, <1>t DEF TypeOK, server
  <1>6. /\ by_agent'[c.agent] = IF c.op = "add" THEN c.session ELSE None
        /\ \A a \in Agents : a # c.agent => by_agent'[a] = by_agent[a]
    BY <1>1, <1>3, <1>t DEF TypeOK
  <1>7. ThreadsAreNamed'
    BY <1>1 DEF ServerInv, ThreadsAreNamed
  <1>8. WorkIsOfItsThread'
    <2>1. \A k \in DOMAIN queue' : /\ queue'[k].session \in scheduled'
                                   /\ queue'[k].agent = who'[queue'[k].session]
      BY <1>1, <1>2 DEF ServerInv, WorkIsOfItsThread
    <2>2. \A a \in Agents : by_agent'[a] # None => /\ by_agent'[a] \in scheduled'
                                                   /\ who'[by_agent'[a]] = a
      BY <1>1, <1>4, <1>6 DEF ServerInv, WorkIsOfItsThread
    <2> QED
      BY <2>1, <2>2 DEF WorkIsOfItsThread
  <1>9. LateAddIsUndone'
    <2> SUFFICES ASSUME NEW k \in DOMAIN queue', queue'[k].op = "add",
                        queue'[k].agent \notin Unnamed, conn'[queue'[k].session] = "gone"
                 PROVE  \E l \in DOMAIN queue' : /\ l > k /\ queue'[l].op = "remove"
                                                 /\ queue'[l].agent = queue'[k].agent
      BY DEF LateAddIsUndone
    <2>1. k \in Nat /\ k + 1 \in DOMAIN queue /\ queue'[k] = queue[k + 1]
      BY <1>2
    <2>2. PICK l \in DOMAIN queue : /\ l > k + 1 /\ queue[l].op = "remove"
                                    /\ queue[l].agent = queue[k + 1].agent
      BY <1>1, <2>1 DEF ServerInv, LateAddIsUndone
    <2>3. l \in Nat /\ l # 1
      BY <1>2, <2>1, <2>2
    <2>4. l - 1 \in DOMAIN queue' /\ queue'[l - 1] = queue[l] /\ l - 1 > k
      BY <1>2, <2>1, <2>2, <2>3
    <2> QED
      BY <2>1, <2>2, <2>4
  <1>10. EntryHasThread'
    <2> SUFFICES ASSUME NEW a \in Agents \ Unnamed, by_agent'[a] # None, conn'[by_agent'[a]] = "gone"
                 PROVE  \E k \in DOMAIN queue' : queue'[k].op = "remove" /\ queue'[k].agent = a
      BY DEF EntryHasThread
    <2>1. PICK l \in DOMAIN queue : l # 1 /\ queue[l].op = "remove" /\ queue[l].agent = a
      <3>1. CASE a = c.agent
        <4>1. c.op = "add" /\ by_agent'[a] = c.session
          BY <1>3, <1>6, <3>1
        <4>2. /\ 1 \in DOMAIN queue /\ queue[1].op = "add"
              /\ queue[1].agent \notin Unnamed /\ conn[queue[1].session] = "gone"
          BY <1>1, <1>2, <3>1, <4>1
        <4>3. PICK l \in DOMAIN queue : l > 1 /\ queue[l].op = "remove" /\ queue[l].agent = c.agent
          BY <1>1, <1>2, <4>2 DEF ServerInv, LateAddIsUndone
        <4> QED
          BY <1>2, <3>1, <4>3
      <3>2. CASE a # c.agent
        BY <1>1, <1>2, <1>6, <3>2 DEF ServerInv, EntryHasThread
      <3> QED
        BY <3>1, <3>2
    <2>2. l - 1 \in DOMAIN queue' /\ queue'[l - 1] = queue[l]
      BY <1>2, <2>1
    <2> QED
      BY <2>1, <2>2
  <1> QED
    BY <1>5, <1>7, <1>8, <1>9, <1>10 DEF ServerInv

\* A thread that finds a loop puts its registration behind everything else.
LEMMA RegisterStep == ASSUME ServerInv, NEW s \in Sessions, Register(s) PROVE ServerInv'
  <1>t. TypeOK
    BY DEF ServerInv
  <1>1. conn[s] = "verified" /\ who[s] \in Agents /\ s \notin scheduled
    BY DEF Register, ServerInv, ThreadsAreNamed
  <1>2. CASE loop = "unset"
    <2>1. /\ conn' = [conn EXCEPT ![s] = "loop"]
          /\ UNCHANGED <<server, who, scheduled, queue, by_agent, added>>
      BY <1>2 DEF Register
    <2> QED
      BY <1>1, <2>1, ThreadMoves
  <1>3. CASE loop # "unset"
    <2>1. /\ conn' = [conn EXCEPT ![s] = "adding"]
          /\ scheduled' = scheduled \cup {s}
          /\ Schedules("add", s)
          /\ UNCHANGED <<server, who, by_agent, added>>
      BY <1>3 DEF Register
    <2> DEFINE n == Len(queue) + 1
    <2>2. /\ queue' \in Seq(Coroutines)
          /\ DOMAIN queue \subseteq DOMAIN queue'
          /\ \A k \in DOMAIN queue : queue'[k] = queue[k]
          /\ \A k \in DOMAIN queue' : k \in DOMAIN queue \/ k = n
          /\ queue'[n].agent = who[s] /\ queue'[n].session = s
      BY <1>t, <1>1, <2>1, ScheduleAppends
    <2> HIDE DEF n
    <2>3. TypeOK'
      BY <1>t, <2>1, <2>2 DEF TypeOK, server
    <2>4. conn'[s] = "adding" /\ \A r \in Sessions : r # s => conn'[r] = conn[r]
      BY <1>t, <2>1 DEF TypeOK
    <2>5. ThreadsAreNamed'
      BY <1>t, <1>1, <2>1, <2>4 DEF ServerInv, ThreadsAreNamed, TypeOK
    <2>6. WorkIsOfItsThread'
      BY <2>1, <2>2 DEF ServerInv, WorkIsOfItsThread
    <2>7. LateAddIsUndone'
      <3> SUFFICES ASSUME NEW k \in DOMAIN queue', queue'[k].op = "add",
                          queue'[k].agent \notin Unnamed, conn'[queue'[k].session] = "gone"
                   PROVE  \E l \in DOMAIN queue' : /\ l > k /\ queue'[l].op = "remove"
                                                   /\ queue'[l].agent = queue'[k].agent
        BY DEF LateAddIsUndone
      <3>1. k \in DOMAIN queue /\ queue'[k] = queue[k]
        BY <2>2, <2>4
      <3>2. conn[queue[k].session] = "gone"
        BY <1>t, <2>4, <3>1 DEF ServerInv, WorkIsOfItsThread, TypeOK
      <3> QED
        BY <2>2, <3>1, <3>2 DEF ServerInv, LateAddIsUndone
    <2>8. EntryHasThread'
      <3>1. \A a \in Agents : by_agent[a] # None => by_agent[a] # s /\ by_agent[a] \in Sessions
        BY <1>t, <1>1 DEF ServerInv, WorkIsOfItsThread, TypeOK
      <3> QED
        BY <2>1, <2>2, <2>4, <3>1 DEF ServerInv, EntryHasThread
    <2> QED
      BY <2>3, <2>5, <2>6, <2>7, <2>8 DEF ServerInv
  <1> QED
    BY <1>2, <1>3

\* The last step of a thread: whatever it registered, or is still to be registered
\* for it, has a removal behind it from now on.
LEMMA LeavesStep == ASSUME ServerInv, NEW s \in Sessions, Leaves(s) PROVE ServerInv'
  <1>t. TypeOK
    BY DEF ServerInv
  <1>1. conn[s] = "leaving" /\ who[s] \in Agents
    BY DEF Leaves, ServerInv, ThreadsAreNamed
  <1>2. CASE s \notin scheduled \/ who[s] \in Unnamed
    <2>1. /\ conn' = [conn EXCEPT ![s] = "gone"]
          /\ UNCHANGED <<server, who, scheduled, queue, by_agent, added>>
      BY <1>2 DEF Leaves
    <2> QED
      BY <1>1, <1>2, <2>1, ThreadMoves
  <1>3. CASE s \in scheduled /\ who[s] \notin Unnamed
    <2>1. /\ conn' = [conn EXCEPT ![s] = "gone"]
          /\ Schedules("remove", s)
          /\ UNCHANGED <<server, who, scheduled, by_agent, added>>
      BY <1>3 DEF Leaves
    <2> DEFINE n == Len(queue) + 1
    <2>2. /\ queue' \in Seq(Coroutines)
          /\ DOMAIN queue \subseteq DOMAIN queue'
          /\ \A k \in DOMAIN queue : queue'[k] = queue[k]
          /\ n \in DOMAIN queue'
          /\ \A k \in DOMAIN queue' : k \in DOMAIN queue \/ k = n
          /\ \A k \in DOMAIN queue : n > k
          /\ queue'[n].op = "remove" /\ queue'[n].agent = who[s] /\ queue'[n].session = s
      <3>1. queue \in Seq(Coroutines) /\ Len(queue) \in Nat /\ DOMAIN queue = 1 .. Len(queue)
        BY <1>t, LenProperties DEF TypeOK
      <3> QED
        BY <1>t, <1>1, <2>1, <3>1, ScheduleAppends
    <2> HIDE DEF n
    <2>3. TypeOK'
      BY <1>t, <2>1, <2>2 DEF TypeOK, server
    <2>4. conn'[s] = "gone" /\ \A r \in Sessions : r # s => conn'[r] = conn[r]
      BY <1>t, <2>1 DEF TypeOK
    <2>5. ThreadsAreNamed'
      BY <1>t, <1>1, <2>1, <2>4 DEF ServerInv, ThreadsAreNamed, TypeOK
    <2>6. WorkIsOfItsThread'
      BY <1>3, <2>1, <2>2 DEF ServerInv, WorkIsOfItsThread
    <2>7. LateAddIsUndone'
      <3> SUFFICES ASSUME NEW k \in DOMAIN queue', queue'[k].op = "add",
                          queue'[k].agent \notin Unnamed, conn'[queue'[k].session] = "gone"
                   PROVE  \E l \in DOMAIN queue' : /\ l > k /\ queue'[l].op = "remove"
                                                   /\ queue'[l].agent = queue'[k].agent
        BY DEF LateAddIsUndone
      <3>1. k \in DOMAIN queue /\ queue'[k] = queue[k]
        BY <2>2
      <3>2. CASE queue[k].session = s
        BY <2>2, <3>1, <3>2 DEF ServerInv, WorkIsOfItsThread
      <3>3. CASE queue[k].session # s
        <4>1. conn[queue[k].session] = "gone"
          BY <1>t, <2>4, <3>1, <3>3 DEF ServerInv, WorkIsOfItsThread, TypeOK
        <4> QED
          BY <2>2, <3>1, <4>1 DEF ServerInv, LateAddIsUndone
      <3> QED
        BY <3>2, <3>3
    <2>8. EntryHasThread'
      <3> SUFFICES ASSUME NEW a \in Agents \ Unnamed, by_agent'[a] # None, conn'[by_agent'[a]] = "gone"
                   PROVE  \E k \in DOMAIN queue' : queue'[k].op = "remove" /\ queue'[k].agent = a
        BY DEF EntryHasThread
      <3>1. by_agent'[a] = by_agent[a] /\ by_agent[a] \in scheduled /\ by_agent[a] \in Sessions
            /\ who[by_agent[a]] = a
        BY <1>t, <2>1 DEF ServerInv, WorkIsOfItsThread, TypeOK
      <3>2. CASE by_agent[a] = s
        BY <2>2, <3>1, <3>2
      <3>3. CASE by_agent[a] # s
        BY <2>2, <2>4, <3>1, <3>3 DEF ServerInv, EntryHasThread
      <3> QED
        BY <3>2, <3>3
    <2> QED
      BY <2>3, <2>5, <2>6, <2>7, <2>8 DEF ServerInv
  <1> QED
    BY <1>2, <1>3

\* The handshake names the thread, before it has anything registered.
LEMMA HandshakeDoneStep ==
  ASSUME ServerInv, NEW s \in Sessions, NEW a \in Agents, HandshakeDone(s, a)
  PROVE  ServerInv'
  <1>t. TypeOK
    BY DEF ServerInv
  <1>1. /\ conn[s] = "handshake"
        /\ conn' = [conn EXCEPT ![s] = "verified"]
        /\ who' = [who EXCEPT ![s] = a]
        /\ UNCHANGED <<server, scheduled, queue, by_agent, added>>
    BY DEF HandshakeDone
  <1>2. /\ conn'[s] = "verified" /\ who'[s] = a
        /\ \A r \in Sessions : r # s => conn'[r] = conn[r] /\ who'[r] = who[r]
    BY <1>t, <1>1 DEF TypeOK
  <1>3. s \notin scheduled /\ scheduled \subseteq Sessions
    BY <1>t, <1>1 DEF ServerInv, ThreadsAreNamed, TypeOK
  <1>4. TypeOK'
    BY <1>t, <1>1 DEF TypeOK, server
  <1>5. ThreadsAreNamed'
    BY <1>1, <1>2, <1>3 DEF ServerInv, ThreadsAreNamed
  <1>6. WorkIsOfItsThread'
    BY <1>1, <1>2, <1>3 DEF ServerInv, WorkIsOfItsThread
  <1>7. LateAddIsUndone'
    BY <1>1, <1>2, <1>3 DEF ServerInv, LateAddIsUndone, WorkIsOfItsThread
  <1>8. EntryHasThread'
    BY <1>1, <1>2, <1>3 DEF ServerInv, EntryHasThread, WorkIsOfItsThread
  <1> QED
    BY <1>4, <1>5, <1>6, <1>7, <1>8 DEF ServerInv

\* The start and the end of the loop, and of the server, leave all else alone.
LEMMA ServerMoves ==
  ASSUME ServerInv, LoopStarts \/ StopFlag \/ StopLoop \/ UNCHANGED vars
  PROVE  ServerInv'
  <1>1. UNCHANGED <<conn, who, scheduled, queue, by_agent, added>>
    BY DEF LoopStarts, StopFlag, StopLoop, vars
  <1>2. TypeOK'
    BY <1>1 DEF ServerInv, TypeOK, LoopStarts, StopFlag, StopLoop, vars
  <1>3. ThreadsAreNamed' /\ WorkIsOfItsThread'
    BY <1>1 DEF ServerInv, ThreadsAreNamed, WorkIsOfItsThread
  <1>4. LateAddIsUndone' /\ EntryHasThread'
    BY <1>1 DEF ServerInv, LateAddIsUndone, EntryHasThread
  <1> QED
    BY <1>2, <1>3, <1>4 DEF ServerInv

\* Every step of the server, its loop and its threads keeps the invariant.
LEMMA StepServerInv == ASSUME ServerInv, [Next]_vars PROVE ServerInv'
  <1>1. CASE LoopStarts \/ StopFlag \/ StopLoop \/ UNCHANGED vars
    BY <1>1, ServerMoves
  <1>2. CASE LoopRuns
    BY <1>2, LoopRunsStep
  <1>3. ASSUME NEW s \in Sessions, NEW a \in Agents, HandshakeDone(s, a) PROVE ServerInv'
    BY <1>3, HandshakeDoneStep
  <1>4. ASSUME NEW s \in Sessions, Register(s) PROVE ServerInv'
    BY <1>4, RegisterStep
  <1>5. ASSUME NEW s \in Sessions, Leaves(s) PROVE ServerInv'
    BY <1>5, LeavesStep
  <1>6. ASSUME NEW s \in Sessions, Accept(s) PROVE ServerInv'
    BY <1>6, ThreadMoves DEF Accept
  <1>7. ASSUME NEW s \in Sessions, HandshakeFails(s) PROVE ServerInv'
    BY <1>7, ThreadMoves DEF HandshakeFails
  <1>8. ASSUME NEW s \in Sessions, AddReturns(s) PROVE ServerInv'
    BY <1>8, ThreadMoves DEF AddReturns
  <1>9. ASSUME NEW s \in Sessions, AddTimesOut(s) PROVE ServerInv'
    BY <1>9, ThreadMoves DEF AddTimesOut
  <1>10. ASSUME NEW s \in Sessions, ConnEnds(s) PROVE ServerInv'
    BY <1>10, ThreadMoves DEF ConnEnds
  <1> QED
    BY <1>1, <1>2, <1>3, <1>4, <1>5, <1>6, <1>7, <1>8, <1>9, <1>10 DEF Next

\* The variables keep their types (manual_server.py:60-99, 128-281).
THEOREM TypeCorrect == Spec => []TypeOK
  <1>1. ServerInv => TypeOK
    BY DEF ServerInv
  <1> QED
    BY <1>1, InitServerInv, StepServerInv, PTL DEF Spec

\* Whatever the order in which threads come and go, registrations overrun their
\* five seconds and the loop starts or stops, an entry of the manager belongs to
\* a thread that is still there or has its removal on the loop
\* (manual_server.py:217-222, 271-281).
THEOREM EntriesHaveThreads == Spec => []EntryHasThread
  <1>1. ServerInv => EntryHasThread
    BY DEF ServerInv
  <1> QED
    BY <1>1, InitServerInv, StepServerInv, PTL DEF Spec

-----------------------------------------------------------------------------
(* WsFrames                                                                *)

-----------------------------------------------------------------------------
(* Length digits                                                           *)

\* Counting up: what holds of 0 and passes from each number to the next holds up
\* to n.
LEMMA Counting ==
  ASSUME NEW n \in Nat, NEW Good, 0 \in Good,
         \A m \in 0 .. n : m \in Good /\ m < n => m + 1 \in Good
  PROVE  \A m \in 0 .. n : m \in Good
  <1> DEFINE Bad == (0 .. n) \ Good
             Less == OpToRel(<, Nat)
  <1>1. IsWellFoundedOn(Less, Nat)
    BY NatLessThanWellFounded
  <1>2. \A x, y \in Nat : x < y => <<x, y>> \in Less
    BY DEF OpToRel
  <1>3. Bad \subseteq Nat
    OBVIOUS
  <1> HIDE DEF Less
  <1>4. SUFFICES ASSUME Bad # {} PROVE FALSE
    OBVIOUS
  <1> HIDE DEF Bad
  <1>5. PICK m \in Bad : \A y \in Bad : ~ (<<y, m>> \in Less)
    BY <1>1, <1>3, <1>4, WFMin
  <1>6. m \in 0 .. n /\ m \notin Good /\ m # 0
    BY <1>5 DEF Bad
  <1>7. m - 1 \in 0 .. n /\ (m - 1) + 1 = m /\ m - 1 < n
    BY <1>6
  <1>8. m - 1 \notin Bad
    <2>1. m \in Nat /\ m - 1 \in Nat /\ m - 1 < m
      BY <1>6, <1>7
    <2>2. <<m - 1, m>> \in Less
      BY <1>2, <2>1
    <2> QED
      BY <1>5, <2>2
  <1>9. m - 1 \in Good
    BY <1>7, <1>8 DEF Bad
  <1> QED
    BY <1>6, <1>7, <1>9

\* A function on 1 .. n is a sequence.
LEMMA FunctionIsSeq ==
  ASSUME NEW S, NEW n \in Nat, NEW f \in [1 .. n -> S]
  PROVE  f \in Seq(S) /\ Len(f) = n
  OBVIOUS

\* A function on 0 .. n may be defined by recursion: from a value at 0 and a step.
LEMMA RecursionTo ==
  ASSUME NEW n \in Nat, NEW a \in Nat, NEW g \in [1 .. n -> [Nat -> Nat]]
  PROVE  \E f \in [0 .. n -> Nat] : f[0] = a /\ \A i \in 1 .. n : f[i] = g[i][f[i - 1]]
  <1> DEFINE Good == {m \in 0 .. n : \E f \in [0 .. m -> Nat] :
                         f[0] = a /\ \A i \in 1 .. m : f[i] = g[i][f[i - 1]]}
  <1>1. 0 \in Good
    <2> DEFINE f == [i \in 0 .. 0 |-> a]
    <2>1. f \in [0 .. 0 -> Nat] /\ f[0] = a /\ \A i \in 1 .. 0 : f[i] = g[i][f[i - 1]]
      OBVIOUS
    <2> HIDE DEF f
    <2> QED
      BY <2>1
  <1>2. ASSUME NEW m \in 0 .. n, m \in Good, m < n PROVE m + 1 \in Good
    <2>1. PICK f \in [0 .. m -> Nat] : f[0] = a /\ \A i \in 1 .. m : f[i] = g[i][f[i - 1]]
      BY <1>2
    <2>2. g[m + 1][f[m]] \in Nat
      <3>1. m + 1 \in 1 .. n /\ m \in 0 .. m
        BY <1>2
      <3>2. g[m + 1] \in [Nat -> Nat] /\ f[m] \in Nat
        BY <3>1
      <3> QED
        BY <3>2
    <2> DEFINE last == g[m + 1][f[m]]
               h == [i \in 0 .. m + 1 |-> IF i = m + 1 THEN last ELSE f[i]]
    <2> HIDE DEF last
    <2>3. h \in [0 .. m + 1 -> Nat]
      <3>1. \A i \in 0 .. m + 1 : i # m + 1 => f[i] \in Nat
        OBVIOUS
      <3> QED
        BY <2>2, <3>1 DEF last
    <2>4. \A i \in 0 .. m : h[i] = f[i]
      OBVIOUS
    <2>5. h[m + 1] = last /\ (m + 1) - 1 = m
      OBVIOUS
    <2> HIDE DEF h
    <2>6. ASSUME NEW i \in 1 .. m + 1 PROVE h[i] = g[i][h[i - 1]]
      <3>1. CASE i = m + 1
        <4>1. h[m] = f[m] /\ h[i] = g[m + 1][f[m]] /\ i - 1 = m
          <5>1. m \in 0 .. m
            OBVIOUS
          <5> QED
            BY <2>4, <2>5, <3>1, <5>1 DEF last
        <4> QED
          BY <3>1, <4>1
      <3>2. CASE i \in 1 .. m
        <4>1. i \in 0 .. m /\ i - 1 \in 0 .. m
          BY <3>2
        <4>2. h[i] = f[i] /\ h[i - 1] = f[i - 1]
          BY <2>4, <4>1
        <4>3. f[i] = g[i][f[i - 1]]
          BY <2>1, <3>2
        <4> QED
          BY <4>2, <4>3
      <3> QED
        BY <3>1, <3>2
    <2>7. m + 1 \in 0 .. n
      BY <1>2
    <2>8. h[0] = a
      BY <2>1, <2>4
    <2> QED
      BY <2>3, <2>6, <2>7, <2>8
  <1> HIDE DEF Good
  <1>3. \A m \in 0 .. n : m \in Good
    BY <1>1, <1>2, Counting
  <1> QED
    <2>1. n \in Good
      BY <1>3
    <2> QED
      BY <2>1 DEF Good

\* Division by Base, whatever Base is.
LEMMA Division ==
  ASSUME NEW x \in Nat
  PROVE  /\ x \div Base \in Nat /\ x % Base \in 0 .. Base - 1
         /\ x = ((x \div Base) * Base) + (x % Base)
         /\ x < Base => x \div Base = 0
         /\ x < Long => x \div Base < Base
  <1>1. Base \in Nat \ {0, 1}
    BY FramesAssumption
  <1> QED
    BY <1>1 DEF Long

\* What a length is shifted to, digit by digit.
LEMMA ShiftedSteps ==
  ASSUME NEW len \in Nat, NEW n \in Nat
  PROVE  /\ Shifted(len, n) \in [0 .. n -> Nat]
         /\ Shifted(len, n)[0] = len
         /\ \A j \in 1 .. n : Shifted(len, n)[j] = Shifted(len, n)[j - 1] \div Base
  <1> DEFINE g == [i \in 1 .. n |-> [v \in Nat |-> v \div Base]]
             s == Shifted(len, n)
  <1>1. g \in [1 .. n -> [Nat -> Nat]] /\ \A i \in 1 .. n, v \in Nat : g[i][v] = v \div Base
    BY Division
  <1> HIDE DEF g
  <1>2. PICK f \in [0 .. n -> Nat] : f[0] = len /\ \A i \in 1 .. n : f[i] = g[i][f[i - 1]]
    BY <1>1, RecursionTo, ZenonT(30)
  <1>3. ASSUME NEW i \in 1 .. n PROVE f[i] = f[i - 1] \div Base
    <2>1. i - 1 \in 0 .. n
      OBVIOUS
    <2>2. f[i - 1] \in Nat
      BY <2>1
    <2> QED
      BY <1>1, <1>2, <2>2
  <1>4. f = [j \in 0 .. n |-> IF j = 0 THEN len ELSE f[j - 1] \div Base]
    BY <1>2, <1>3
  <1>5. s = [j \in 0 .. n |-> IF j = 0 THEN len ELSE s[j - 1] \div Base]
    BY <1>4 DEF Shifted
  <1> HIDE DEF s
  <1>6. s[0] = len /\ \A j \in 1 .. n : s[j] = s[j - 1] \div Base
    <2>1. \A j \in 0 .. n : s[j] = IF j = 0 THEN len ELSE s[j - 1] \div Base
      BY <1>5, Zenon
    <2> QED
      BY <2>1
  <1> DEFINE Good == {m \in 0 .. n : s[m] \in Nat}
  <1>7. \A m \in 0 .. n : m \in Good
    <2>1. 0 \in Good
      BY <1>6
    <2>2. ASSUME NEW m \in 0 .. n, m \in Good, m < n PROVE m + 1 \in Good
      <3>1. m + 1 \in 1 .. n /\ (m + 1) - 1 = m
        BY <2>2
      <3>2. s[m + 1] = s[m] \div Base
        BY <1>6, <3>1
      <3>3. s[m] \in Nat
        BY <2>2
      <3>4. s[m + 1] \in Nat
        BY <3>2, <3>3, Division
      <3> QED
        BY <3>1, <3>4
    <2> HIDE DEF Good
    <2> QED
      BY <2>1, <2>2, Counting
  <1>8. s \in [0 .. n -> Nat]
    BY <1>5, <1>7
  <1> QED
    BY <1>6, <1>8 DEF s

\* The value of digits, digit by digit.
LEMMA ValueSteps ==
  ASSUME NEW digits \in Seq(0 .. Base - 1)
  PROVE  \E val \in [0 .. Len(digits) -> Nat] :
           /\ val[0] = 0
           /\ \A i \in 1 .. Len(digits) : val[i] = (val[i - 1] * Base) + digits[i]
           /\ Value(digits) = val[Len(digits)]
  <1> DEFINE n == Len(digits)
             g == [i \in 1 .. n |-> [v \in Nat |-> (v * Base) + digits[i]]]
             val == CHOOSE f : f = [i \in 0 .. n |-> IF i = 0 THEN 0 ELSE (f[i - 1] * Base) + digits[i]]
  <1>1. Base \in Nat /\ n \in Nat /\ \A i \in 1 .. n : digits[i] \in Nat
    BY FramesAssumption
  <1> HIDE DEF n
  <1>2. g \in [1 .. n -> [Nat -> Nat]]
    <2>1. ASSUME NEW i \in 1 .. n, NEW v \in Nat PROVE (v * Base) + digits[i] \in Nat
      <3>1. v * Base \in Nat
        BY <1>1
      <3>2. \A p, q \in Nat : p + q \in Nat
        OBVIOUS
      <3> QED
        BY <1>1, <3>1, <3>2, Zenon
    <2> QED
      BY <2>1
  <1>3. \A i \in 1 .. n, v \in Nat : g[i][v] = (v * Base) + digits[i]
    OBVIOUS
  <1> HIDE DEF g
  <1>4. PICK f \in [0 .. n -> Nat] : f[0] = 0 /\ \A i \in 1 .. n : f[i] = g[i][f[i - 1]]
    BY <1>1, <1>2, RecursionTo, ZenonT(30)
  <1>5. ASSUME NEW i \in 1 .. n PROVE f[i] = (f[i - 1] * Base) + digits[i]
    <2>1. i - 1 \in 0 .. n
      BY <1>1
    <2>2. f[i - 1] \in Nat
      BY <2>1
    <2> QED
      BY <1>3, <1>4, <2>2
  <1>6. f = [i \in 0 .. n |-> IF i = 0 THEN 0 ELSE (f[i - 1] * Base) + digits[i]]
    BY <1>1, <1>4, <1>5, SMTT(30)
  <1>7. val = [i \in 0 .. n |-> IF i = 0 THEN 0 ELSE (val[i - 1] * Base) + digits[i]]
    BY <1>6
  <1>8. Value(digits) = val[n]
    BY DEF Value, n
  <1> HIDE DEF val
  <1>9. val[0] = 0 /\ \A i \in 1 .. n : val[i] = (val[i - 1] * Base) + digits[i]
    <2>1. \A i \in 0 .. n : val[i] = IF i = 0 THEN 0 ELSE (val[i - 1] * Base) + digits[i]
      BY <1>7, Zenon
    <2> QED
      BY <1>1, <2>1
  <1> DEFINE Good == {m \in 0 .. n : val[m] \in Nat}
  <1>10. \A m \in 0 .. n : m \in Good
    <2>1. 0 \in Good
      BY <1>1, <1>9
    <2>2. ASSUME NEW m \in 0 .. n, m \in Good, m < n PROVE m + 1 \in Good
      <3>1. m + 1 \in 1 .. n /\ (m + 1) - 1 = m
        BY <1>1, <2>2
      <3>2. val[m + 1] = (val[m] * Base) + digits[m + 1]
        BY <1>9, <3>1
      <3>3. val[m] \in Nat
        BY <2>2
      <3>4. digits[m + 1] \in Nat
        BY <1>1, <3>1
      <3>5. \A x, y, z \in Nat : (x * y) + z \in Nat
        OBVIOUS
      <3>6. val[m + 1] \in Nat
        BY <1>1, <3>2, <3>3, <3>4, <3>5, Zenon
      <3> QED
        BY <3>1, <3>6
    <2> HIDE DEF Good
    <2> QED
      BY <1>1, <2>1, <2>2, Counting
  <1>11. val \in [0 .. n -> Nat]
    BY <1>7, <1>10
  <1> QED
    BY <1>8, <1>9, <1>11 DEF n

\* Digits that reach to the top of a length are worth it.
LEMMA DigitsValue ==
  ASSUME NEW len \in Nat, NEW n \in Nat, Shifted(len, n)[n] = 0
  PROVE  Digits(len, n) \in Seq(0 .. Base - 1) /\ Len(Digits(len, n)) = n /\ Value(Digits(len, n)) = len
  <1> DEFINE s == Shifted(len, n)
             d == Digits(len, n)
  <1>1. Base \in Nat /\ s \in [0 .. n -> Nat] /\ s[0] = len /\ s[n] = 0
        /\ \A j \in 1 .. n : s[j] = s[j - 1] \div Base
    <2>1. Base \in Nat
      BY FramesAssumption
    <2> QED
      BY <2>1, ShiftedSteps
  <1>2. d = [i \in 1 .. n |-> s[n - i] % Base]
    BY DEF Digits
  <1> HIDE DEF s, d
  <1>3. ASSUME NEW i \in 1 .. n
        PROVE  /\ n - i \in 0 .. n /\ s[n - i] \in Nat /\ d[i] \in 0 .. Base - 1
               /\ s[n - i] = (s[n - (i - 1)] * Base) + d[i]
    <2>1. n - i \in 0 .. n /\ n - (i - 1) \in 1 .. n /\ (n - (i - 1)) - 1 = n - i
      OBVIOUS
    <2>2. s[n - i] \in Nat /\ s[n - (i - 1)] = s[n - i] \div Base /\ d[i] = s[n - i] % Base
      BY <1>1, <1>2, <2>1
    <2> QED
      BY <2>1, <2>2, Division
  <1>4. d \in Seq(0 .. Base - 1) /\ Len(d) = n
    <2>1. d \in [1 .. n -> 0 .. Base - 1]
      BY <1>2, <1>3
    <2> QED
      BY <2>1, FunctionIsSeq
  <1>5. PICK val \in [0 .. n -> Nat] :
          /\ val[0] = 0 /\ \A i \in 1 .. n : val[i] = (val[i - 1] * Base) + d[i]
          /\ Value(d) = val[n]
    BY <1>4, ValueSteps
  <1> DEFINE Good == {m \in 0 .. n : val[m] = s[n - m]}
  <1>6. 0 \in Good
    BY <1>1, <1>5
  <1>7. ASSUME NEW m \in 0 .. n, m \in Good, m < n PROVE m + 1 \in Good
    <2>1. m + 1 \in 1 .. n /\ (m + 1) - 1 = m
      BY <1>7
    <2>2. val[m + 1] = (val[m] * Base) + d[m + 1]
      BY <1>5, <2>1
    <2>3. s[n - (m + 1)] = (s[n - m] * Base) + d[m + 1]
      BY <1>3, <2>1
    <2> QED
      BY <1>7, <2>1, <2>2, <2>3
  <1> HIDE DEF Good
  <1>8. n \in Good
    <2>1. \A m \in 0 .. n : m \in Good
      BY <1>6, <1>7, Counting
    <2> QED
      BY <2>1
  <1>9. val[n] = len
    BY <1>1, <1>8 DEF Good
  <1> QED
    BY <1>4, <1>5, <1>9 DEF d

\* Two digits hold what is shorter than Long.
LEMMA TwoDigits ==
  ASSUME NEW len \in Nat, len < Long
  PROVE  Shifted(len, 2)[2] = 0
  <1>1. /\ Shifted(len, 2)[0] = len
        /\ Shifted(len, 2)[1] = Shifted(len, 2)[0] \div Base
        /\ Shifted(len, 2)[2] = Shifted(len, 2)[1] \div Base
    <2>1. 2 \in Nat /\ 1 \in 1 .. 2 /\ 2 \in 1 .. 2 /\ 1 - 1 = 0 /\ 2 - 1 = 1
      OBVIOUS
    <2>2. /\ Shifted(len, 2)[0] = len
          /\ \A j \in 1 .. 2 : Shifted(len, 2)[j] = Shifted(len, 2)[j - 1] \div Base
      BY <2>1, ShiftedSteps
    <2> QED
      BY <2>1, <2>2
  <1>2. len \div Base \in Nat /\ len \div Base < Base
    BY Division
  <1> QED
    BY <1>1, <1>2, Division

\* The headers the server may write.
LEMMA EncodedReadable ==
  ASSUME NEW len \in ReplyLengths \cup {fr.len : fr \in ClientFrames} \cup {0}
  PROVE  encode_frame(len) \in Header /\ Readable(encode_frame(len))
  <1>1. len \in Nat /\ {Base, Inline, WideDigits} \subseteq Nat \ {0, 1}
    BY FramesAssumption
  <1> DEFINE h == encode_frame(len)
  <1>2. CASE len < Inline
    <2>1. h = [code |-> len, digits |-> <<>>, len |-> len]
      BY <1>2 DEF encode_frame
    <2> QED
      BY <1>1, <1>2, <2>1 DEF Header, Readable, DigitsOf
  <1>3. CASE ~ (len < Inline) /\ len < Long
    <2>1. h = [code |-> Inline, digits |-> Digits(len, 2), len |-> len]
      BY <1>3 DEF encode_frame
    <2>2. Digits(len, 2) \in Seq(0 .. Base - 1) /\ Len(Digits(len, 2)) = 2 /\ Value(Digits(len, 2)) = len
      BY <1>1, <1>3, TwoDigits, DigitsValue
    <2> QED
      BY <1>1, <2>1, <2>2 DEF Header, Readable, DigitsOf
  <1>4. CASE ~ (len < Inline) /\ ~ (len < Long)
    <2>1. h = [code |-> Inline + 1, digits |-> Digits(len, WideDigits), len |-> len]
      BY <1>4 DEF encode_frame
    <2>2. Shifted(len, WideDigits)[WideDigits] = 0
      BY <1>1, <1>4, LengthsAssumption
    <2>3. /\ Digits(len, WideDigits) \in Seq(0 .. Base - 1)
          /\ Len(Digits(len, WideDigits)) = WideDigits /\ Value(Digits(len, WideDigits)) = len
      BY <1>1, <2>2, DigitsValue
    <2> QED
      BY <1>1, <2>1, <2>3 DEF Header, Readable, DigitsOf
  <1> QED
    BY <1>2, <1>3, <1>4

-----------------------------------------------------------------------------
(* The stream of frames                                                    *)

\* The parts of a frame have sizes.
LEMMA FrameSizes ==
  ASSUME NEW fr \in ClientFrames
  PROVE  /\ fr.op \in Opcodes /\ fr.fin \in BOOLEAN /\ fr.len \in Nat
         /\ DigitsOf(Code(fr.len)) \in Nat /\ FrameLen(fr) \in Nat /\ FrameLen(fr) > 0
         /\ FrameLen(fr) = fr.len + 6 + DigitsOf(Code(fr.len))
  <1>1. /\ {Base, Inline, WideDigits} \subseteq Nat \ {0, 1}
        /\ fr.op \in Opcodes /\ fr.fin \in BOOLEAN /\ fr.len \in Nat
    BY FramesAssumption
  <1>2. DigitsOf(Code(fr.len)) \in Nat
    BY <1>1 DEF DigitsOf
  <1> QED
    BY <1>1, <1>2 DEF FrameLen, KeyBytes

\* Every part of the stream has bytes; all but the request are frames.
LEMMA PartSizes ==
  ASSUME NEW frames \in Seq(ClientFrames), NEW c \in 0 .. Len(frames)
  PROVE  LenOf(frames, c) \in Nat \ {0} /\ (c # 0 => LenOf(frames, c) = FrameLen(frames[c]))
  <1>1. CASE c = 0
    BY <1>1 DEF LenOf
  <1>2. CASE c # 0
    <2>1. c \in 1 .. Len(frames)
      BY <1>2
    <2>2. frames[c] \in ClientFrames
      BY <2>1
    <2> QED
      <3>1. FrameLen(frames[c]) \in Nat /\ FrameLen(frames[c]) # 0
        BY <2>2, FrameSizes
      <3> QED
        BY <1>2, <3>1 DEF LenOf
  <1> QED
    BY <1>1, <1>2

\* The parts of Ordered.
ByteNumbers(s, frames) ==
    \A p \in DOMAIN s : s[p][1] \in 0 .. Len(frames) /\ s[p][2] \in 1 .. LenOf(frames, s[p][1])

LastOf(s, frames, p) == p + LenOf(frames, s[p][1]) - s[p][2]

RestFollows(s, frames, p) ==
    /\ LastOf(s, frames, p) <= Len(s)
    /\ \A q \in p .. LastOf(s, frames, p) : s[q] = <<s[p][1], s[p][2] + (q - p)>>
    /\ IF LastOf(s, frames, p) < Len(s)
       THEN s[LastOf(s, frames, p) + 1] = <<s[p][1] + 1, 1>>
       ELSE s[p][1] = Len(frames)

Rising(s) == \A p, q \in DOMAIN s : p <= q => s[p][1] <= s[q][1]

\* Ordered, taken apart: numbers in range, none smaller than an earlier one, and
\* the rest of its frame after each byte.
LEMMA OrderedParts ==
  ASSUME NEW s, NEW frames
  PROVE  Ordered(s, frames) <=>
           /\ ByteNumbers(s, frames) /\ Rising(s)
           /\ \A p \in DOMAIN s : RestFollows(s, frames, p)
  BY DEF Ordered, ByteNumbers, Rising, RestFollows, LastOf

\* What is left of a sequence without its first n elements.
LEMMA Rest ==
  ASSUME NEW S, NEW s \in Seq(S), NEW n \in Nat, n <= Len(s)
  PROVE  /\ SubSeq(s, n + 1, Len(s)) \in Seq(S)
         /\ Len(SubSeq(s, n + 1, Len(s))) = Len(s) - n
         /\ \A p \in 1 .. Len(s) - n : SubSeq(s, n + 1, Len(s))[p] = s[p + n]
  <1>1. Len(s) \in Nat /\ Len(s) \in Int /\ n + 1 \in Int
    BY LenProperties
  <1>2. \A i \in n + 1 .. Len(s) : s[i] \in S
    BY <1>1, ElementOfSeq
  <1> DEFINE t == SubSeq(s, n + 1, Len(s))
             l == Len(s)
  <1>3. /\ t \in Seq(S)
        /\ Len(t) = IF n + 1 <= l THEN l - (n + 1) + 1 ELSE 0
        /\ \A p \in 1 .. l - (n + 1) + 1 : t[p] = s[n + 1 + p - 1]
    BY <1>1, <1>2, SubSeqProperties
  <1>4. l \in Nat /\ n <= l
    BY <1>1
  <1> HIDE DEF t, l
  <1>5. l - (n + 1) + 1 = l - n /\ (~ (n + 1 <= l) => l - n = 0)
    BY <1>4
  <1>6. \A p \in 1 .. l - n : n + 1 + p - 1 = p + n
    BY <1>4
  <1> QED
    BY <1>3, <1>5, <1>6 DEF t, l

\* The end of a stream is a stream.
LEMMA OrderedTail ==
  ASSUME NEW s \in Seq(Nat \X Nat), NEW frames \in Seq(ClientFrames), Ordered(s, frames),
         NEW t \in Seq(Nat \X Nat), NEW n \in Nat, Len(t) + n = Len(s),
         \A p \in 1 .. Len(t) : t[p] = s[p + n]
  PROVE  Ordered(t, frames)
  <1> DEFINE l == Len(t)
  <1>1. l \in Nat /\ DOMAIN t = 1 .. l /\ DOMAIN s = 1 .. l + n /\ Len(s) = l + n
    BY LenProperties
  <1>2. \A p \in 1 .. l : t[p] = s[p + n]
    OBVIOUS
  <1> HIDE DEF l
  <1>3. \A p \in 1 .. l : p + n \in 1 .. l + n
    BY <1>1
  <1>4. ByteNumbers(s, frames) /\ Rising(s) /\ \A p \in DOMAIN s : RestFollows(s, frames, p)
    BY OrderedParts
  <1>5. ByteNumbers(t, frames)
    BY <1>1, <1>2, <1>3, <1>4 DEF ByteNumbers
  <1>6. Rising(t)
    <2> SUFFICES ASSUME NEW p \in 1 .. l, NEW q \in 1 .. l, p <= q
                 PROVE  t[p][1] <= t[q][1]
      BY <1>1 DEF Rising
    <2>1. p + n <= q + n
      BY <1>1
    <2> QED
      BY <1>1, <1>2, <1>3, <1>4, <2>1 DEF Rising
  <1>7. ASSUME NEW p \in 1 .. l PROVE RestFollows(t, frames, p)
    <2>1. PICK c, i, m : c = s[p + n][1] /\ i = s[p + n][2] /\ m = LenOf(frames, c)
      OBVIOUS
    <2>2. p + n \in 1 .. l + n /\ t[p] = s[p + n] /\ p \in Nat
      BY <1>2, <1>3
    <2>3. c \in 0 .. Len(frames) /\ i \in 1 .. m /\ m \in Nat
      BY <1>1, <1>4, <2>1, <2>2, PartSizes DEF ByteNumbers
    <2>4. LastOf(t, frames, p) = p + m - i /\ LastOf(s, frames, p + n) = p + n + m - i
      BY <2>1, <2>2 DEF LastOf
    <2>5. m \in Int /\ i \in Int /\ i <= m /\ p \in Int /\ n \in Int /\ 1 <= p /\ l \in Int
      BY <1>1, <2>3
    <2> DEFINE last == p + m - i
    <2>6. last \in Int /\ last = p + m - i /\ p + n + m - i = last + n /\ last >= p
      BY <2>5
    <2> HIDE DEF last
    <2>7. /\ last + n <= l + n
          /\ \A q \in p + n .. last + n : s[q] = <<c, i + (q - (p + n))>>
          /\ IF last + n < l + n THEN s[last + n + 1] = <<c + 1, 1>> ELSE c = Len(frames)
      <3>1. RestFollows(s, frames, p + n) /\ LastOf(s, frames, p + n) = last + n /\ Len(s) = l + n
        BY <1>1, <1>4, <2>2, <2>4, <2>6
      <3> QED
        BY <2>1, <3>1 DEF RestFollows
    <2>8. last <= l
      BY <1>1, <2>6, <2>7
    <2>9. ASSUME NEW q \in p .. last PROVE t[q] = <<c, i + (q - p)>>
      <3>1. q \in 1 .. l /\ q + n \in p + n .. last + n /\ (q + n) - (p + n) = q - p
        BY <2>5, <2>6, <2>8
      <3> QED
        BY <1>2, <2>7, <3>1
    <2>10. IF last < l THEN t[last + 1] = <<c + 1, 1>> ELSE c = Len(frames)
      <3>1. CASE last < l
        <4>1. last + 1 \in 1 .. l /\ last + n < l + n /\ (last + 1) + n = last + n + 1
          BY <2>5, <2>6, <3>1
        <4> QED
          BY <1>2, <2>7, <3>1, <4>1
      <3>2. CASE ~ (last < l)
        <4>1. ~ (last + n < l + n)
          BY <1>1, <2>6, <3>2
        <4> QED
          BY <2>7, <3>2, <4>1
      <3> QED
        BY <3>1, <3>2
    <2>11. t[p][1] = c /\ t[p][2] = i /\ LastOf(t, frames, p) = last
      BY <2>1, <2>2, <2>4, <2>6
    <2> QED
      BY <2>8, <2>9, <2>10, <2>11 DEF RestFollows, l
  <1> QED
    BY <1>1, <1>5, <1>6, <1>7, OrderedParts

\* A frame written behind a stream makes a stream.
LEMMA OrderedAppend ==
  ASSUME NEW s \in Seq(Nat \X Nat), NEW frames \in Seq(ClientFrames), Ordered(s, frames),
         NEW fr \in ClientFrames, NEW b, b = [i \in 1 .. FrameLen(fr) |-> <<Len(frames) + 1, i>>]
  PROVE  /\ Ordered(s \o b, Append(frames, fr)) /\ b \in Seq(Nat \X Nat) /\ Len(b) = FrameLen(fr)
         /\ s \o b \in Seq(Nat \X Nat) /\ Len(s \o b) = Len(s) + FrameLen(fr)
         /\ \A p \in 1 .. Len(s) : (s \o b)[p] = s[p]
         /\ \A q \in 1 .. FrameLen(fr) : (s \o b)[Len(s) + q] = <<Len(frames) + 1, q>>
  <1> DEFINE l == Len(s)
             m == FrameLen(fr)
             k == Len(frames)
             t == s \o b
             g == Append(frames, fr)
  <1>1. l \in Nat /\ k \in Nat /\ m \in Nat /\ m > 0 /\ DOMAIN s = 1 .. l
    <2>1. FrameLen(fr) \in Nat /\ FrameLen(fr) > 0
      BY FrameSizes
    <2> QED
      BY <2>1, LenProperties
  <1>2. /\ g \in Seq(ClientFrames) /\ Len(g) = k + 1
        /\ \A c \in 1 .. k : g[c] = frames[c]
        /\ g[k + 1] = fr
    BY AppendProperties
  <1> HIDE DEF m, k, g
  <1>3. b \in [1 .. m -> Nat \X Nat]
    BY <1>1 DEF m, k
  <1>4. b \in Seq(Nat \X Nat) /\ Len(b) = m
    BY <1>1, <1>3, FunctionIsSeq
  <1>5. /\ t \in Seq(Nat \X Nat) /\ Len(t) = l + m
        /\ \A p \in 1 .. l + m : t[p] = IF p <= l THEN s[p] ELSE b[p - l]
    BY <1>4, ConcatProperties
  <1> HIDE DEF t, l
  <1>6. \A p \in 1 .. l : t[p] = s[p]
    BY <1>1, <1>5
  <1>7. \A q \in 1 .. m : t[l + q] = <<k + 1, q>>
    <2> SUFFICES ASSUME NEW q \in 1 .. m PROVE t[l + q] = <<k + 1, q>>
      OBVIOUS
    <2>1. l + q \in 1 .. l + m /\ ~ (l + q <= l) /\ (l + q) - l = q
      BY <1>1
    <2>2. b[q] = <<k + 1, q>>
      BY DEF m, k
    <2> QED
      BY <1>5, <2>1, <2>2
  <1>8. DOMAIN t = 1 .. l + m
    BY <1>5, LenProperties
  <1>9. LenOf(g, k + 1) = m /\ \A c \in 0 .. k : LenOf(g, c) = LenOf(frames, c)
    BY <1>1, <1>2 DEF LenOf, m
  <1>10. ByteNumbers(s, frames) /\ Rising(s) /\ \A p \in DOMAIN s : RestFollows(s, frames, p)
    BY OrderedParts
  <1>11. \A p \in 1 .. l : s[p][1] \in 0 .. k /\ s[p][2] \in 1 .. LenOf(frames, s[p][1])
    BY <1>1, <1>10 DEF ByteNumbers, k
  <1>12. \A p \in 1 .. l + m : p \in 1 .. l \/ \E q \in 1 .. m : p = l + q
    <2> SUFFICES ASSUME NEW p \in 1 .. l + m, ~ (p \in 1 .. l) PROVE \E q \in 1 .. m : p = l + q
      OBVIOUS
    <2>1. p - l \in 1 .. m /\ p = l + (p - l)
      BY <1>1
    <2> QED
      BY <2>1
  <1>13. ByteNumbers(t, g)
    <2> SUFFICES ASSUME NEW p \in 1 .. l + m
                 PROVE  t[p][1] \in 0 .. k + 1 /\ t[p][2] \in 1 .. LenOf(g, t[p][1])
      BY <1>2, <1>8 DEF ByteNumbers
    <2>1. CASE p \in 1 .. l
      BY <1>1, <1>6, <1>9, <1>11, <2>1
    <2>2. ASSUME NEW q \in 1 .. m, p = l + q PROVE t[p][1] \in 0 .. k + 1 /\ t[p][2] \in 1 .. LenOf(g, t[p][1])
      <3>1. t[p] = <<k + 1, q>>
        BY <1>7, <2>2
      <3>2. k + 1 \in 0 .. k + 1
        BY <1>1
      <3> QED
        BY <1>9, <3>1, <3>2
    <2> QED
      BY <1>12, <2>1, <2>2
  <1>14. Rising(t)
    <2> SUFFICES ASSUME NEW p \in 1 .. l + m, NEW q \in 1 .. l + m, p <= q
                 PROVE  t[p][1] <= t[q][1]
      BY <1>8 DEF Rising
    <2>1. CASE q \in 1 .. l
      <3>1. p \in 1 .. l
        BY <1>1, <2>1
      <3> QED
        BY <1>1, <1>6, <1>10, <2>1, <3>1 DEF Rising
    <2>2. CASE ~ (q \in 1 .. l)
      <3>1. t[q][1] = k + 1
        BY <1>7, <1>12, <2>2
      <3>2. t[p][1] \in 0 .. k + 1
        BY <1>2, <1>8, <1>13 DEF ByteNumbers
      <3> QED
        BY <1>1, <3>1, <3>2
    <2> QED
      BY <2>1, <2>2
  <1>15. ASSUME NEW p \in 1 .. l + m PROVE RestFollows(t, g, p)
    <2>1. CASE p \in 1 .. l
      <3>1. PICK c, i, n : c = s[p][1] /\ i = s[p][2] /\ n = LenOf(frames, c)
        OBVIOUS
      <3>2. c \in 0 .. k /\ i \in 1 .. n /\ n \in Nat /\ LenOf(g, c) = n
        BY <1>9, <1>11, <2>1, <3>1, PartSizes DEF k
      <3>3. t[p] = s[p]
        BY <1>6, <2>1
      <3>4. n \in Int /\ i \in Int /\ i <= n /\ p \in Int /\ 1 <= p /\ l \in Int /\ m \in Int /\ m > 0
        BY <1>1, <3>2
      <3> DEFINE last == p + n - i
      <3>5. last \in Int /\ last >= p
        BY <3>4
      <3>6. LastOf(t, g, p) = last /\ LastOf(s, frames, p) = last
        BY <3>1, <3>2, <3>3 DEF LastOf
      <3> HIDE DEF last
      <3>7. /\ last <= l /\ \A q \in p .. last : s[q] = <<c, i + (q - p)>>
            /\ IF last < l THEN s[last + 1] = <<c + 1, 1>> ELSE c = k
        <4>1. RestFollows(s, frames, p)
          BY <1>1, <1>10, <2>1
        <4> QED
          BY <3>1, <3>6, <4>1 DEF RestFollows, l, k
      <3>8. ASSUME NEW q \in p .. last PROVE t[q] = <<c, i + (q - p)>>
        <4>1. q \in 1 .. l
          BY <3>4, <3>5, <3>7
        <4> QED
          BY <1>6, <3>7, <4>1
      <3>9. last < l + m /\ t[last + 1] = <<c + 1, 1>>
        <4>1. CASE last < l
          <5>1. last + 1 \in 1 .. l /\ last < l + m
            BY <3>4, <3>5, <4>1
          <5> QED
            BY <1>6, <3>7, <4>1, <5>1
        <4>2. CASE ~ (last < l)
          <5>1. last = l /\ 1 \in 1 .. m /\ last < l + m
            BY <3>4, <3>5, <3>7, <4>2
          <5>2. c = k
            BY <3>7, <4>2
          <5> QED
            BY <1>7, <5>1, <5>2
        <4> QED
          BY <4>1, <4>2
      <3>10. last <= l + m
        BY <3>4, <3>5, <3>9
      <3>11. t[p][1] = c /\ t[p][2] = i /\ Len(t) = l + m
        BY <1>5, <3>1, <3>3
      <3> QED
        BY <3>6, <3>8, <3>9, <3>10, <3>11 DEF RestFollows
    <2>2. ASSUME NEW i \in 1 .. m, p = l + i PROVE RestFollows(t, g, p)
      <3>1. t[p] = <<k + 1, i>>
        BY <1>7, <2>2
      <3>2. LastOf(t, g, p) = l + m
        <4>1. LastOf(t, g, p) = (l + i) + m - i
          BY <1>9, <2>2, <3>1 DEF LastOf
        <4> QED
          BY <1>1, <4>1
      <3>3. ASSUME NEW q \in p .. l + m PROVE t[q] = <<k + 1, i + (q - p)>>
        <4>1. q - l \in 1 .. m /\ l + (q - l) = q /\ i + (q - p) = q - l
          BY <1>1, <2>2
        <4> QED
          BY <1>7, <4>1
      <3>4. t[p][1] = k + 1 /\ t[p][2] = i /\ Len(t) = l + m /\ l + m <= l + m /\ ~ (l + m < l + m)
        BY <1>1, <1>5, <3>1
      <3> QED
        BY <1>2, <3>2, <3>3, <3>4 DEF RestFollows
    <2> QED
      BY <1>12, <2>1, <2>2
  <1>16. Ordered(t, g)
    BY <1>8, <1>13, <1>14, <1>15, OrderedParts
  <1> QED
    BY <1>4, <1>5, <1>6, <1>7, <1>16 DEF l, m, k, t, g

\* From a byte of frame c on: the rest of the frame, the next frame, later ones.
GoesOn(s, frames, c, i) ==
    /\ c \in 1 .. Len(frames) /\ frames[c] \in ClientFrames
    /\ i \in 1 .. FrameLen(frames[c]) /\ FrameLen(frames[c]) - i + 1 <= Len(s)
    /\ \A j \in i .. FrameLen(frames[c]) : s[j - i + 1] = <<c, j>>
    /\ IF FrameLen(frames[c]) - i + 1 < Len(s)
       THEN s[FrameLen(frames[c]) - i + 2] = <<c + 1, 1>> ELSE c = Len(frames)
    /\ \A q \in FrameLen(frames[c]) - i + 2 .. Len(s) : c < s[q][1]

\* A stream that begins with a byte of frame c holds the rest of that frame first.
LEMMA FromAByte ==
  ASSUME NEW s \in Seq(Nat \X Nat), NEW frames \in Seq(ClientFrames), Ordered(s, frames),
         NEW c, c # 0, NEW i \in Nat, s # <<>>, s[1] = <<c, i>>
  PROVE  GoesOn(s, frames, c, i)
  <1> DEFINE n == FrameLen(frames[c])
             l == Len(s)
  <1>1. l \in Nat /\ l >= 1 /\ DOMAIN s = 1 .. l /\ Len(frames) \in Nat
    BY EmptySeq, LenProperties
  <1>2. 1 \in DOMAIN s
    BY <1>1
  <1>3. s[1][1] = c /\ s[1][2] = i
    OBVIOUS
  <1>4. ByteNumbers(s, frames) /\ Rising(s) /\ RestFollows(s, frames, 1)
    BY <1>2, OrderedParts
  <1>5. c \in 0 .. Len(frames) /\ i \in 1 .. LenOf(frames, c)
    BY <1>2, <1>3, <1>4 DEF ByteNumbers
  <1>6. c \in 1 .. Len(frames)
    BY <1>1, <1>5
  <1>7. frames[c] \in ClientFrames
    BY <1>6, ElementOfSeq
  <1>8. LenOf(frames, c) = n /\ n \in Nat
    BY <1>5, <1>7, PartSizes, FrameSizes
  <1> HIDE DEF n, l
  <1>9. i \in 1 .. n
    BY <1>5, <1>8
  <1>10. LastOf(s, frames, 1) = 1 + n - i
    BY <1>3, <1>8 DEF LastOf
  <1>11. 1 + n - i = n - i + 1 /\ (1 + n - i) + 1 = n - i + 2
    BY <1>8
  <1>12. /\ n - i + 1 <= l
         /\ \A q \in 1 .. n - i + 1 : s[q] = <<c, i + (q - 1)>>
         /\ IF n - i + 1 < l THEN s[n - i + 2] = <<c + 1, 1>> ELSE c = Len(frames)
    BY <1>3, <1>4, <1>10, <1>11 DEF RestFollows, l
  <1>13. ASSUME NEW j \in i .. n PROVE s[j - i + 1] = <<c, j>>
    <2>1. j - i + 1 \in 1 .. n - i + 1 /\ i + ((j - i + 1) - 1) = j
      BY <1>8, <1>9
    <2> QED
      BY <1>12, <2>1
  <1>14. ASSUME NEW q \in n - i + 2 .. l PROVE c < s[q][1]
    <2>1. n - i + 2 \in 1 .. l /\ q \in 1 .. l /\ n - i + 2 <= q /\ n - i + 1 < l
      BY <1>1, <1>8, <1>9
    <2>2. s[n - i + 2][1] = c + 1
      BY <1>12, <2>1
    <2>3. c + 1 <= s[q][1]
      BY <1>1, <1>4, <2>1, <2>2 DEF Rising, l
    <2>4. s[q][1] \in 0 .. Len(frames)
      BY <1>1, <1>4, <2>1 DEF ByteNumbers, l
    <2> QED
      BY <1>1, <1>6, <2>3, <2>4
  <1> QED
    BY <1>6, <1>7, <1>9, <1>12, <1>13, <1>14 DEF GoesOn, n, l

\* The sequences have lengths, and the stream is buffer and wire.
LEMMA StreamType ==
  ASSUME FramesTypeOK
  PROVE  /\ Stream \in Seq(Nat \X Nat) /\ Len(Stream) \in Nat /\ DOMAIN Stream = 1 .. Len(Stream)
         /\ Len(buf) \in Nat /\ Len(wire) \in Nat /\ Len(Stream) = Len(buf) + Len(wire)
         /\ buf = <<>> => Stream = wire
         /\ Len(sent) \in Nat /\ DOMAIN sent = 1 .. Len(sent)
         /\ Len(handed) \in Nat /\ DOMAIN handed = 1 .. Len(handed)
         /\ \A c \in 1 .. Len(sent) : sent[c] \in ClientFrames
  <1>1. /\ wire \in Seq(Nat \X Nat) /\ buf \in Seq(Nat \X Nat) /\ sent \in Seq(ClientFrames)
        /\ handed \in Seq(1 .. Len(sent))
    BY DEF FramesTypeOK
  <1>2. /\ Stream \in Seq(Nat \X Nat) /\ Len(Stream) = Len(buf) + Len(wire)
        /\ buf = <<>> => Stream = wire
    <2> DEFINE B == Nat \X Nat
    <2>1. wire \in Seq(B) /\ buf \in Seq(B)
      BY <1>1
    <2> HIDE DEF B
    <2>2. Stream \in Seq(B) /\ Len(Stream) = Len(buf) + Len(wire)
      BY <2>1, ConcatProperties DEF Stream
    <2>3. buf = <<>> => Stream = wire
      BY <2>1, ConcatEmptySeq DEF Stream
    <2> QED
      BY <2>2, <2>3 DEF B
  <1> QED
    BY <1>1, <1>2, LenProperties, ElementOfSeq

\* What a recv of k bytes does to the stream, depending on what becomes of the
\* buffer.
LEMMA Received ==
  ASSUME FramesTypeOK, NEW k \in 1 .. Len(wire), Takes(k)
  PROVE  /\ wire' \in Seq(Nat \X Nat) /\ Took(k) \in Seq(Nat \X Nat) /\ Len(Took(k)) = k
         /\ Len(buf \o Took(k)) = Len(buf) + k /\ buf \o Took(k) \in Seq(Nat \X Nat)
         /\ Len(buf) + k <= Len(Stream) /\ Len(wire') = Len(wire) - k
         /\ \A p \in 1 .. Len(buf) + k : (buf \o Took(k))[p] = Stream[p]
         /\ buf' = buf \o Took(k) => Stream' = Stream
         /\ buf' = <<>> => Stream' = SubSeq(Stream, Len(buf) + k + 1, Len(Stream))
  <1> DEFINE B == Nat \X Nat
             l == Len(wire)
             m == Len(buf)
  <1>1. wire \in Seq(B) /\ buf \in Seq(B) /\ l \in Nat /\ m \in Nat
    BY StreamType DEF FramesTypeOK
  <1>2. k \in Nat /\ k <= l /\ 1 <= k
    BY <1>1
  <1>3. /\ Took(k) \in Seq(B) /\ Len(Took(k)) = k
        /\ \A p \in 1 .. k : Took(k)[p] = wire[p]
    <2>1. \A p \in 1 .. k : wire[p] \in B
      <3> SUFFICES ASSUME NEW p \in 1 .. k PROVE wire[p] \in B
        OBVIOUS
      <3>1. p \in 1 .. Len(wire)
        BY <1>1, <1>2
      <3> HIDE DEF B
      <3> QED
        BY <1>1, <3>1, ElementOfSeq
    <2> HIDE DEF B
    <2>2. /\ SubSeq(wire, 1, k) \in Seq(B)
          /\ Len(SubSeq(wire, 1, k)) = IF 1 <= k THEN k - 1 + 1 ELSE 0
          /\ \A p \in 1 .. k - 1 + 1 : SubSeq(wire, 1, k)[p] = wire[1 + p - 1]
      BY <1>2, <2>1, SubSeqProperties
    <2>3. k - 1 + 1 = k /\ \A p \in 1 .. k : 1 + p - 1 = p
      BY <1>2
    <2> QED
      BY <1>2, <2>2, <2>3 DEF Took
  <1>4. /\ wire' \in Seq(B) /\ Len(wire') = l - k
        /\ \A p \in 1 .. l - k : wire'[p] = wire[p + k]
    <2>1. wire' = SubSeq(wire, k + 1, Len(wire))
      BY DEF Takes
    <2> HIDE DEF B
    <2> QED
      BY <1>1, <1>2, <2>1, Rest
  <1> HIDE DEF B
  <1>5. /\ Stream \in Seq(B) /\ Len(Stream) = m + l
        /\ \A p \in 1 .. m + l : Stream[p] = IF p <= m THEN buf[p] ELSE wire[p - m]
    BY <1>1, ConcatProperties DEF Stream
  <1>6. /\ buf \o Took(k) \in Seq(B) /\ Len(buf \o Took(k)) = m + k
        /\ \A p \in 1 .. m + k : (buf \o Took(k))[p] = IF p <= m THEN buf[p] ELSE Took(k)[p - m]
    <2> DEFINE t == Took(k)
    <2>1. buf \in Seq(B) /\ t \in Seq(B) /\ Len(t) = k
      BY <1>1, <1>3
    <2> HIDE DEF t, m
    <2>2. /\ buf \o t \in Seq(B) /\ Len(buf \o t) = Len(buf) + Len(t)
          /\ \A p \in 1 .. Len(buf) + Len(t) : (buf \o t)[p] = IF p <= Len(buf) THEN buf[p] ELSE t[p - Len(buf)]
      BY <2>1, ConcatProperties
    <2> QED
      BY <2>1, <2>2 DEF t, m
  <1> HIDE DEF l, m
  <1>7. ASSUME NEW p \in 1 .. m + k PROVE (buf \o Took(k))[p] = Stream[p]
    <2>1. p \in 1 .. m + l /\ (~ (p <= m) => p - m \in 1 .. k)
      BY <1>1, <1>2
    <2> QED
      BY <1>3, <1>5, <1>6, <2>1
  <1>8. ASSUME buf' = buf \o Took(k) PROVE Stream' = Stream
    <2>1. Took(k) \o wire' = wire
      <3>1. SubSeq(wire, 1, k) \o SubSeq(wire, k + 1, Len(wire)) = SubSeq(wire, 1, Len(wire))
        <4>1. 1 \in 1 .. Len(wire) + 1 /\ k \in 1 - 1 .. Len(wire) /\ Len(wire) \in k .. Len(wire)
          BY <1>1, <1>2 DEF l
        <4> QED
          BY <1>1, <4>1, ConcatAdjacentSubSeq
      <3> QED
        BY <1>1, <3>1, SubSeqFull DEF Took, Takes
    <2>2. Stream' = (buf \o Took(k)) \o wire'
      BY <1>8 DEF Stream
    <2>3. Stream' = buf \o (Took(k) \o wire')
      <3>1. ASSUME NEW s \in Seq(B), NEW t \in Seq(B), NEW w \in Seq(B)
            PROVE  (s \o t) \o w = s \o (t \o w)
        BY ConcatAssociative, SMTT(30)
      <3> QED
        BY <1>1, <1>3, <1>4, <2>2, <3>1, Zenon
    <2> QED
      BY <2>1, <2>3 DEF Stream
  <1>9. ASSUME buf' = <<>> PROVE Stream' = SubSeq(Stream, m + k + 1, Len(Stream))
    <2> DEFINE r == SubSeq(Stream, m + k + 1, Len(Stream))
    <2>1. m + k \in Nat /\ m + k <= Len(Stream) /\ (m + l) - (m + k) = l - k
      BY <1>1, <1>2, <1>5
    <2>2. /\ r \in Seq(B) /\ Len(r) = l - k
          /\ \A p \in 1 .. l - k : r[p] = Stream[p + (m + k)]
      <3> DEFINE n == m + k
      <3>1. n \in Nat /\ n <= Len(Stream) /\ Len(Stream) - n = l - k
        BY <1>5, <2>1
      <3> HIDE DEF n
      <3>2. /\ SubSeq(Stream, n + 1, Len(Stream)) \in Seq(B)
            /\ Len(SubSeq(Stream, n + 1, Len(Stream))) = Len(Stream) - n
            /\ \A p \in 1 .. Len(Stream) - n : SubSeq(Stream, n + 1, Len(Stream))[p] = Stream[p + n]
        BY <1>5, <3>1, Rest
      <3> QED
        BY <3>1, <3>2 DEF n
    <2>3. Stream' = wire'
      BY <1>4, <1>9, ConcatEmptySeq DEF Stream
    <2> HIDE DEF r
    <2>4. ASSUME NEW p \in 1 .. l - k PROVE r[p] = wire'[p]
      <3>1. p + (m + k) \in 1 .. m + l /\ ~ (p + (m + k) <= m) /\ (p + (m + k)) - m = p + k
        BY <1>1, <1>2
      <3> QED
        BY <1>4, <1>5, <2>2, <3>1
    <2>5. r = wire'
      BY <1>4, <2>2, <2>4, SeqEqual
    <2> QED
      BY <2>3, <2>5 DEF r
  <1>10. m + k <= m + l
    BY <1>1, <1>2
  <1> QED
    BY <1>3, <1>4, <1>5, <1>6, <1>7, <1>8, <1>9, <1>10 DEF l, m, B

-----------------------------------------------------------------------------
(* The parts of the invariant under a step                                 *)

\* A header more on the list.
LEMMA HeaderWritten ==
  ASSUME FramesTypeOK, RepliesReadable, NEW h \in Header, Readable(h), written' = Append(written, h)
  PROVE  written' \in Seq(Header) /\ RepliesReadable'
  <1>1. written \in Seq(Header)
    BY DEF FramesTypeOK
  <1>2. /\ written' \in Seq(Header) /\ Len(written) \in Nat
        /\ DOMAIN written = 1 .. Len(written) /\ DOMAIN written' = 1 .. Len(written) + 1
        /\ \A i \in 1 .. Len(written) : written'[i] = written[i]
        /\ written'[Len(written) + 1] = h
    BY <1>1, AppendProperties, LenProperties
  <1>3. ASSUME NEW i \in 1 .. Len(written) + 1 PROVE Readable(written'[i])
    <2>1. CASE i \in 1 .. Len(written)
      BY <1>2, <2>1 DEF RepliesReadable
    <2>2. CASE i = Len(written) + 1
      BY <1>2, <2>2
    <2> QED
      BY <1>2, <2>1, <2>2
  <1> QED
    BY <1>2, <1>3 DEF RepliesReadable

\* Nothing is read.
LEMMA Quiet ==
  ASSUME FramesInv, UNCHANGED <<impl, sent, wire, current, need, buf, spilled, handed>>,
         reader' \in {reader, "ended"}, written' \in Seq(Header), RepliesReadable'
  PROVE  FramesInv'
  <1>1. FramesTypeOK'
    BY DEF FramesInv, FramesTypeOK
  <1>2. InOrder'
    BY DEF FramesInv, InOrder, AllHandedBefore
  <1>3. Stream' = Stream /\ Front' = Front
    BY DEF Stream, Front
  <1>4. StreamInOrder'
    BY <1>3 DEF FramesInv, StreamInOrder
  <1>5. AtABoundary'
    <2>1. AllHandedBefore(Front) => AllHandedBefore(Front)'
      BY <1>3 DEF AllHandedBefore
    <2> QED
      BY <1>3, <2>1 DEF FramesInv, AtABoundary
  <1>6. InsideAFrame'
    <2>1. AllHandedBefore(current) => AllHandedBefore(current)'
      BY DEF AllHandedBefore
    <2>2. reader' = reader => Offset' = Offset
      BY DEF Offset
    <2> QED
      BY <2>1, <2>2 DEF FramesInv, InsideAFrame
  <1> QED
    BY <1>1, <1>2, <1>4, <1>5, <1>6 DEF FramesInv

\* Frame c is handed on.
LEMMA HandOn ==
  ASSUME FramesTypeOK, InOrder, sent' = sent, NEW c \in 1 .. Len(sent), sent[c].op = "TEXT",
         \A i \in DOMAIN handed : handed[i] < c,
         handed' = Append(handed, c), spilled => spilled', spilled' \/ AllHandedBefore(c)
  PROVE  /\ handed' \in Seq(1 .. Len(sent')) /\ InOrder'
         /\ \A d \in Nat : AllHandedBefore(d) => AllHandedBefore(d)'
         /\ AllHandedBefore(c) => AllHandedBefore(c + 1)'
  <1> DEFINE n == Len(handed)
  <1>1. handed \in Seq(1 .. Len(sent)) /\ Len(sent) \in Nat
    BY StreamType DEF FramesTypeOK
  <1>2. /\ handed' \in Seq(1 .. Len(sent)) /\ n \in Nat
        /\ DOMAIN handed = 1 .. n /\ DOMAIN handed' = 1 .. n + 1
        /\ \A i \in 1 .. n : handed'[i] = handed[i] /\ handed[i] \in 1 .. Len(sent)
        /\ handed'[n + 1] = c
    <2> DEFINE S == 1 .. Len(sent)
    <2>1. handed \in Seq(S) /\ c \in S
      BY <1>1
    <2> HIDE DEF S
    <2> QED
      BY <2>1, AppendProperties, LenProperties, ElementOfSeq DEF S
  <1> HIDE DEF n
  <1>3. ASSUME NEW d \in Nat, AllHandedBefore(d) PROVE AllHandedBefore(d)'
    <2> SUFFICES ASSUME NEW k \in 1 .. d - 1, sent[k].op = "TEXT"
                 PROVE  \E j \in DOMAIN handed' : handed'[j] = k
      BY DEF AllHandedBefore
    <2>1. PICK j \in DOMAIN handed : handed[j] = k
      BY <1>3 DEF AllHandedBefore
    <2>2. j \in 1 .. n + 1 /\ handed'[j] = k
      BY <1>2, <2>1
    <2> QED
      BY <1>2, <2>2
  <1>4. ASSUME AllHandedBefore(c) PROVE AllHandedBefore(c + 1)'
    <2> SUFFICES ASSUME NEW k \in 1 .. (c + 1) - 1, sent[k].op = "TEXT"
                 PROVE  \E j \in DOMAIN handed' : handed'[j] = k
      BY DEF AllHandedBefore
    <2>1. CASE k = c
      <3>1. n + 1 \in 1 .. n + 1
        BY <1>2
      <3> QED
        BY <1>2, <2>1, <3>1
    <2>2. CASE k # c
      <3>1. k \in 1 .. c - 1
        BY <1>1, <2>2
      <3>2. PICK j \in DOMAIN handed : handed[j] = k
        BY <1>4, <3>1 DEF AllHandedBefore
      <3>3. j \in 1 .. n + 1 /\ handed'[j] = k
        BY <1>2, <3>2
      <3> QED
        BY <1>2, <3>3
    <2> QED
      BY <2>1, <2>2
  <1>5. \A i, j \in 1 .. n + 1 : i < j => handed'[i] < handed'[j]
    <2> SUFFICES ASSUME NEW i \in 1 .. n + 1, NEW j \in 1 .. n + 1, i < j
                 PROVE  handed'[i] < handed'[j]
      OBVIOUS
    <2>1. i \in 1 .. n
      BY <1>2
    <2>2. CASE j \in 1 .. n
      BY <1>2, <2>1, <2>2 DEF InOrder
    <2>3. CASE j = n + 1
      BY <1>2, <2>1, <2>3
    <2> QED
      BY <1>2, <2>2, <2>3, SMTT(30)
  <1>6. ASSUME NEW i \in 1 .. n + 1, NEW x, x = handed'[i]
        PROVE  sent[x].op = "TEXT" /\ (spilled' \/ AllHandedBefore(x)')
    <2>1. CASE i \in 1 .. n
      <3>1. x = handed[i] /\ x \in Nat /\ i \in DOMAIN handed
        BY <1>1, <1>2, <1>6, <2>1
      <3>2. sent[x].op = "TEXT" /\ (spilled \/ AllHandedBefore(x))
        BY <3>1 DEF InOrder
      <3> QED
        BY <1>3, <3>1, <3>2
    <2>2. CASE i = n + 1
      <3>1. x = c /\ c \in Nat
        BY <1>1, <1>2, <1>6, <2>2
      <3> QED
        BY <1>3, <3>1
    <2> QED
      BY <1>2, <2>1, <2>2
  <1>7. InOrder'
    <2>1. \A i \in DOMAIN handed' : sent'[handed'[i]].op = "TEXT"
      BY <1>2, <1>6
    <2>2. \A i \in DOMAIN handed' :
            spilled' \/ \A k \in 1 .. handed'[i] - 1 :
              sent'[k].op = "TEXT" => \E j \in DOMAIN handed' : handed'[j] = k
      BY <1>2, <1>6 DEF AllHandedBefore
    <2> QED
      BY <1>2, <1>5, <2>1, <2>2 DEF InOrder, AllHandedBefore
  <1> QED
    BY <1>2, <1>3, <1>4, <1>7

\* Nothing is handed on.
LEMMA HandNothing ==
  ASSUME FramesTypeOK, InOrder, sent' = sent, handed' = handed, spilled => spilled'
  PROVE  /\ handed' \in Seq(1 .. Len(sent')) /\ InOrder'
         /\ \A d \in Nat : AllHandedBefore(d) => AllHandedBefore(d)'
         /\ \A c \in 1 .. Len(sent) :
              AllHandedBefore(c) /\ sent[c].op # "TEXT" => AllHandedBefore(c + 1)'
  <1>1. handed' \in Seq(1 .. Len(sent'))
    BY DEF FramesTypeOK
  <1>2. \A d : AllHandedBefore(d) => AllHandedBefore(d)'
    BY DEF AllHandedBefore
  <1>3. InOrder'
    BY DEF InOrder, AllHandedBefore
  <1>4. ASSUME NEW c \in 1 .. Len(sent), AllHandedBefore(c), sent[c].op # "TEXT"
        PROVE  AllHandedBefore(c + 1)'
    <2> SUFFICES ASSUME NEW k \in 1 .. (c + 1) - 1, sent[k].op = "TEXT"
                 PROVE  \E j \in DOMAIN handed : handed[j] = k
      BY DEF AllHandedBefore
    <2>1. k \in 1 .. c - 1
      BY <1>4, StreamType, SMTT(30)
    <2> QED
      BY <1>4, <2>1 DEF AllHandedBefore
  <1> QED
    BY <1>1, <1>2, <1>3, <1>4

Readers == {"upgrade", "head", "digits", "key", "payload", "astray", "ended"}

\* The stream without its first n bytes.
LEMMA Shorter ==
  ASSUME FramesTypeOK, Ordered(Stream, sent), NEW n \in Nat, n <= Len(Stream),
         Stream' = SubSeq(Stream, n + 1, Len(Stream))
  PROVE  /\ Ordered(Stream', sent) /\ Stream' \in Seq(Nat \X Nat)
         /\ Len(Stream') = Len(Stream) - n /\ DOMAIN Stream' = 1 .. Len(Stream) - n
         /\ \A p \in 1 .. Len(Stream) - n : Stream'[p] = Stream[p + n] /\ p + n \in DOMAIN Stream
  <1> DEFINE B == Nat \X Nat
             t == SubSeq(Stream, n + 1, Len(Stream))
  <1>1. Stream \in Seq(B) /\ Len(Stream) \in Nat /\ DOMAIN Stream = 1 .. Len(Stream)
    BY StreamType
  <1>2. /\ t \in Seq(B) /\ Len(t) = Len(Stream) - n
        /\ \A p \in 1 .. Len(Stream) - n : t[p] = Stream[p + n]
    <2> HIDE DEF B
    <2> QED
      BY <1>1, Rest
  <1>3. \A p \in 1 .. Len(Stream) - n : p + n \in DOMAIN Stream
    BY <1>1
  <1>4. DOMAIN t = 1 .. Len(Stream) - n
    <2> HIDE DEF t
    <2> QED
      BY <1>2, LenProperties
  <1>5. Len(t) + n = Len(Stream)
    <2> HIDE DEF t
    <2> QED
      BY <1>1, <1>2
  <1>6. sent \in Seq(ClientFrames)
    BY DEF FramesTypeOK
  <1>7. Stream' = t
    OBVIOUS
  <1> HIDE DEF t
  <1>8. \A p \in 1 .. Len(t) : t[p] = Stream[p + n]
    BY <1>2
  <1>9. Ordered(t, sent)
    BY <1>1, <1>2, <1>5, <1>6, <1>8, OrderedTail
  <1> QED
    BY <1>2, <1>3, <1>4, <1>7, <1>9

\* n bytes are dealt with, and possibly a frame c that lies in them is handed on.
LEMMA Consumed ==
  ASSUME FramesTypeOK, StreamInOrder, reader \notin {"upgrade", "ended"},
         impl' = impl, sent' = sent, reader' # "upgrade",
         impl = "manual" => buf' = <<>> /\ ~ spilled',
         NEW n \in Nat, n <= Len(Stream), Stream' = SubSeq(Stream, n + 1, Len(Stream)),
         \/ handed' = handed
         \/ \E c \in 1 .. Len(sent) :
              /\ handed' = Append(handed, c)
              /\ \A p \in n + 1 .. Len(Stream) : c < Stream[p][1]
  PROVE  StreamInOrder'
  <1> DEFINE l == Len(Stream) - n
  <1>1. /\ Ordered(Stream', sent) /\ DOMAIN Stream' = 1 .. l
        /\ \A p \in 1 .. l : Stream'[p] = Stream[p + n] /\ p + n \in DOMAIN Stream
    BY Shorter DEF StreamInOrder
  <1>2. Ordered(Stream, sent)'
    BY <1>1
  <1>3. \A p \in 1 .. l : p + n \in n + 1 .. Len(Stream)
    BY StreamType
  <1> HIDE DEF l
  <1>4. ASSUME NEW i \in DOMAIN handed', NEW p \in 1 .. l PROVE handed'[i] < Stream'[p][1]
    <2>1. CASE handed' = handed
      BY <1>1, <2>1 DEF StreamInOrder
    <2>2. ASSUME NEW c \in 1 .. Len(sent), handed' = Append(handed, c),
                 \A q \in n + 1 .. Len(Stream) : c < Stream[q][1]
          PROVE  handed'[i] < Stream'[p][1]
      <3>1. /\ Len(handed) \in Nat /\ DOMAIN handed = 1 .. Len(handed)
            /\ DOMAIN handed' = 1 .. Len(handed) + 1
            /\ \A j \in 1 .. Len(handed) : handed'[j] = handed[j]
            /\ handed'[Len(handed) + 1] = c
        <4> DEFINE S == 1 .. Len(sent)
        <4>1. handed \in Seq(S) /\ c \in S
          BY DEF FramesTypeOK
        <4> HIDE DEF S
        <4> QED
          BY <2>2, <4>1, AppendProperties, LenProperties
      <3>2. CASE i = Len(handed) + 1
        BY <1>1, <1>3, <2>2, <3>1, <3>2
      <3>3. CASE i \in 1 .. Len(handed)
        BY <1>1, <3>1, <3>3 DEF StreamInOrder
      <3>4. i = Len(handed) + 1 \/ i \in 1 .. Len(handed)
        <4>1. \A m \in Nat : \A j \in 1 .. m + 1 : j = m + 1 \/ j \in 1 .. m
          OBVIOUS
        <4> QED
          BY <3>1, <4>1
      <3> QED
        BY <3>2, <3>3, <3>4
    <2> QED
      BY <2>1, <2>2
  <1>5. \A p \in 1 .. l : Stream'[p][1] = 0 => Stream'[p] = <<0, 3>>
    BY <1>1 DEF StreamInOrder
  <1> QED
    BY <1>1, <1>2, <1>4, <1>5 DEF StreamInOrder

\* The same, for the stream.
LEMMA Begins ==
  ASSUME FramesTypeOK, StreamInOrder, NEW c, c # 0, NEW i \in Nat, Stream # <<>>, Stream[1] = <<c, i>>
  PROVE  GoesOn(Stream, sent, c, i) /\ FrameLen(sent[c]) \in Nat
  <1>1. Stream \in Seq(Nat \X Nat) /\ sent \in Seq(ClientFrames) /\ Ordered(Stream, sent)
    BY StreamType DEF FramesTypeOK, StreamInOrder
  <1>2. GoesOn(Stream, sent, c, i)
    BY <1>1, FromAByte
  <1>3. sent[c] \in ClientFrames
    BY <1>2 DEF GoesOn
  <1> QED
    BY <1>2, <1>3, FrameSizes

\* A frame has been dealt with to its last byte: the reader is before the next one.
LEMMA NextFrame ==
  ASSUME FramesTypeOK, StreamInOrder, sent' = sent,
         NEW c, c # 0, NEW i \in Nat, Stream # <<>>, Stream[1] = <<c, i>>,
         NEW n, n = FrameLen(sent[c]) - i + 1, Stream' = SubSeq(Stream, n + 1, Len(Stream)),
         ~ spilled' /\ reader' = "head" => AllHandedBefore(c + 1)'
  PROVE  AtABoundary'
  <1>1. Stream \in Seq(Nat \X Nat) /\ sent \in Seq(ClientFrames) /\ Len(Stream) \in Nat
    BY StreamType DEF FramesTypeOK
  <1>2. /\ c \in 1 .. Len(sent) /\ i \in 1 .. FrameLen(sent[c]) /\ sent[c] \in ClientFrames
        /\ FrameLen(sent[c]) - i + 1 <= Len(Stream)
        /\ IF FrameLen(sent[c]) - i + 1 < Len(Stream)
           THEN Stream[FrameLen(sent[c]) - i + 2] = <<c + 1, 1>> ELSE c = Len(sent)
    BY Begins DEF GoesOn
  <1>3. FrameLen(sent[c]) \in Nat
    BY <1>2, FrameSizes
  <1>4. n \in Nat /\ n <= Len(Stream) /\ FrameLen(sent[c]) - i + 2 = n + 1
    <2> DEFINE f == FrameLen(sent[c])
    <2>1. f \in Nat /\ i \in 1 .. f /\ f - i + 1 <= Len(Stream) /\ n = f - i + 1
      BY <1>2, <1>3
    <2> HIDE DEF f
    <2>2. n \in Nat /\ n <= Len(Stream) /\ f - i + 2 = n + 1
      BY <2>1
    <2> QED
      BY <2>2 DEF f
  <1>5. IF n < Len(Stream) THEN Stream[n + 1] = <<c + 1, 1>> ELSE c = Len(sent)
    BY <1>2, <1>4
  <1>6. /\ Stream' \in Seq(Nat \X Nat) /\ Len(Stream') = Len(Stream) - n
        /\ \A p \in 1 .. Len(Stream) - n : Stream'[p] = Stream[p + n]
    BY <1>4, Shorter DEF StreamInOrder
  <1>7. CASE n < Len(Stream)
    <2>1. 1 \in 1 .. Len(Stream) - n /\ 1 + n = n + 1 /\ Len(Stream) - n # 0
      <3>1. \A x, y \in Nat : x < y => 1 \in 1 .. y - x /\ 1 + x = x + 1 /\ y - x # 0
        OBVIOUS
      <3> QED
        BY <1>1, <1>4, <1>7, <3>1
    <2>2. Stream'[1] = <<c + 1, 1>> /\ Stream' # <<>>
      BY <1>5, <1>6, <1>7, <2>1, EmptySeq
    <2>3. Front' = c + 1
      BY <2>2 DEF Front
    <2>4. AllHandedBefore(c + 1)' => AllHandedBefore(Front)'
      BY <2>3 DEF AllHandedBefore
    <2> QED
      BY <2>2, <2>3, <2>4 DEF AtABoundary
  <1>8. CASE ~ (n < Len(Stream))
    <2>1. Len(Stream) - n = 0
      BY <1>1, <1>4, <1>8
    <2>2. Stream' = <<>>
      BY <1>6, <2>1, EmptySeq
    <2>3. Front' = c + 1
      BY <1>5, <1>8, <2>2 DEF Front
    <2>4. AllHandedBefore(c + 1)' => AllHandedBefore(Front)'
      BY <2>3 DEF AllHandedBefore
    <2> QED
      BY <2>2, <2>4 DEF AtABoundary
  <1> QED
    BY <1>7, <1>8

\* m bytes of a frame have been dealt with, and there are more of it.
LEMMA SameFrame ==
  ASSUME FramesTypeOK, StreamInOrder,
         NEW c, c # 0, NEW i \in Nat, Stream # <<>>, Stream[1] = <<c, i>>,
         NEW m \in Nat, i + m <= FrameLen(sent[c]), Stream' = SubSeq(Stream, m + 1, Len(Stream))
  PROVE  Stream' # <<>> /\ Stream'[1] = <<c, i + m>>
  <1>1. Stream \in Seq(Nat \X Nat) /\ sent \in Seq(ClientFrames) /\ Len(Stream) \in Nat
    BY StreamType DEF FramesTypeOK
  <1>2. /\ c \in 1 .. Len(sent) /\ i \in 1 .. FrameLen(sent[c]) /\ sent[c] \in ClientFrames
        /\ FrameLen(sent[c]) - i + 1 <= Len(Stream)
        /\ \A j \in i .. FrameLen(sent[c]) : Stream[j - i + 1] = <<c, j>>
    BY Begins DEF GoesOn
  <1>3. FrameLen(sent[c]) \in Nat
    BY <1>2, FrameSizes
  <1>4. /\ m <= Len(Stream) /\ 1 \in 1 .. Len(Stream) - m /\ Len(Stream) - m # 0
        /\ i + m \in i .. FrameLen(sent[c]) /\ (i + m) - i + 1 = 1 + m
    <2> DEFINE f == FrameLen(sent[c])
               l == Len(Stream)
    <2>1. f \in Nat /\ i \in 1 .. f /\ f - i + 1 <= l /\ i + m <= f /\ l \in Nat
      BY <1>1, <1>2, <1>3
    <2> HIDE DEF f, l
    <2>2. /\ m <= l /\ 1 \in 1 .. l - m /\ l - m # 0
          /\ i + m \in i .. f /\ (i + m) - i + 1 = 1 + m
      BY <2>1
    <2> QED
      BY <2>2 DEF f, l
  <1>5. /\ Stream' \in Seq(Nat \X Nat) /\ Len(Stream') = Len(Stream) - m
        /\ \A p \in 1 .. Len(Stream) - m : Stream'[p] = Stream[p + m]
    BY <1>4, Shorter DEF StreamInOrder
  <1>6. Stream'[1] = <<c, i + m>>
    BY <1>2, <1>4, <1>5
  <1> QED
    BY <1>4, <1>5, <1>6, EmptySeq

-----------------------------------------------------------------------------
(* The initial state, and what the client does                             *)

Request == <<<<0, 1>>, <<0, 2>>, <<0, 3>>>>

\* The HTTP request is a stream before the first frame.
LEMMA RequestOrdered == Request \in Seq(Nat \X Nat) /\ Len(Request) = 3 /\ Ordered(Request, <<>>)
  <1>1. Request \in Seq(Nat \X Nat) /\ Len(Request) = 3 /\ DOMAIN Request = 1 .. 3
    BY DEF Request
  <1>2. Request[1] = <<0, 1>> /\ Request[2] = <<0, 2>> /\ Request[3] = <<0, 3>>
    BY DEF Request
  <1>3. \A p \in 1 .. 3 : Request[p] = <<0, p>> /\ Request[p][1] = 0 /\ Request[p][2] = p
    BY <1>2
  <1>4. LenOf(<<>>, 0) = 3 /\ Len(<<>>) = 0
    BY DEF LenOf
  <1>5. ByteNumbers(Request, <<>>)
    BY <1>1, <1>3, <1>4 DEF ByteNumbers
  <1>6. Rising(Request)
    BY <1>1, <1>3 DEF Rising
  <1>7. ASSUME NEW p \in 1 .. 3 PROVE RestFollows(Request, <<>>, p)
    <2>1. LastOf(Request, <<>>, p) = 3
      BY <1>3, <1>4 DEF LastOf
    <2>2. \A q \in p .. 3 : Request[q] = <<0, p + (q - p)>>
      <3> SUFFICES ASSUME NEW q \in p .. 3 PROVE Request[q] = <<0, p + (q - p)>>
        OBVIOUS
      <3>1. q \in 1 .. 3 /\ p + (q - p) = q
        OBVIOUS
      <3> QED
        BY <1>3, <3>1
    <2> QED
      BY <1>1, <1>3, <1>4, <2>1, <2>2 DEF RestFollows
  <1> QED
    BY <1>1, <1>5, <1>6, <1>7, OrderedParts

\* It holds at first, with the request on the wire.
LEMMA FramesInitially == FramesInit => FramesInv
  <1> SUFFICES ASSUME FramesInit PROVE FramesInv
    OBVIOUS
  <1>1. wire = Request /\ buf = <<>> /\ sent = <<>> /\ handed = <<>> /\ written = <<>> /\ reader = "upgrade"
    BY DEF FramesInit, Request
  <1>2. FramesTypeOK
    <2>1. current \in 0 .. Len(sent) /\ need \in Nat /\ spilled \in BOOLEAN /\ impl \in {"manual", "raw"}
      <3>1. Len(sent) = 0
        BY <1>1
      <3> QED
        <4>1. current = 0 /\ need = 0 /\ spilled = FALSE /\ impl \in {"manual", "raw"}
          BY DEF FramesInit
        <4>2. current \in 0 .. Len(sent)
          BY <3>1, <4>1
        <4> QED
          BY <4>1, <4>2, Zenon
    <2> QED
      BY <1>1, <2>1, RequestOrdered, EmptySeq DEF FramesTypeOK
  <1>3. Stream = Request
    BY <1>1, <1>2, StreamType
  <1>4. InOrder /\ RepliesReadable
    BY <1>1 DEF InOrder, RepliesReadable
  <1>5. StreamInOrder
    BY <1>1, <1>3, RequestOrdered DEF StreamInOrder, Request, FramesInit
  <1>6. AtABoundary /\ InsideAFrame
    BY <1>1 DEF AtABoundary, InsideAFrame
  <1> QED
    BY <1>2, <1>4, <1>5, <1>6 DEF FramesInv

\* A frame that the client writes prolongs the stream; what is read stays.
LEMMA ClientSendsKeeps ==
  ASSUME FramesInv, NEW fr \in ClientFrames, ClientSends(fr)
  PROVE  FramesInv'
  <1> DEFINE B == Nat \X Nat
             k == Len(sent)
             b == [i \in 1 .. FrameLen(fr) |-> <<k + 1, i>>]
  <1>1. FramesTypeOK /\ InOrder /\ RepliesReadable /\ StreamInOrder /\ AtABoundary /\ InsideAFrame
    BY DEF FramesInv
  <1>2. /\ sent' = Append(sent, fr) /\ wire' = wire \o b
        /\ UNCHANGED <<impl, reader, current, need, buf, spilled, handed, written>>
        /\ reader # "upgrade"
    BY DEF ClientSends
  <1>3. /\ wire \in Seq(B) /\ buf \in Seq(B) /\ Stream \in Seq(B) /\ sent \in Seq(ClientFrames)
        /\ k \in Nat /\ Len(Stream) \in Nat /\ DOMAIN Stream = 1 .. Len(Stream)
    BY <1>1, StreamType DEF FramesTypeOK
  <1>4. Ordered(Stream, sent)
    BY <1>1 DEF StreamInOrder
  <1> HIDE DEF B
  <1>5. /\ Ordered(Stream \o b, sent') /\ b \in Seq(B)
        /\ Stream \o b \in Seq(B) /\ Len(Stream \o b) = Len(Stream) + FrameLen(fr)
        /\ \A p \in 1 .. Len(Stream) : (Stream \o b)[p] = Stream[p]
        /\ \A q \in 1 .. FrameLen(fr) : (Stream \o b)[Len(Stream) + q] = <<k + 1, q>>
    <2>1. ASSUME NEW s \in Seq(B), NEW f \in Seq(ClientFrames), Ordered(s, f),
                 NEW c, c = [i \in 1 .. FrameLen(fr) |-> <<Len(f) + 1, i>>]
          PROVE  /\ Ordered(s \o c, Append(f, fr)) /\ c \in Seq(B)
                 /\ s \o c \in Seq(B) /\ Len(s \o c) = Len(s) + FrameLen(fr)
                 /\ \A p \in 1 .. Len(s) : (s \o c)[p] = s[p]
                 /\ \A q \in 1 .. FrameLen(fr) : (s \o c)[Len(s) + q] = <<Len(f) + 1, q>>
      BY <2>1, OrderedAppend, SMTT(30) DEF B
    <2> QED
      BY <1>2, <1>3, <1>4, <2>1, ZenonT(60)
  <1>6. sent' \in Seq(ClientFrames) /\ Len(sent') = k + 1 /\ \A c \in 1 .. k : sent'[c] = sent[c]
    BY <1>2, <1>3, AppendProperties
  <1> HIDE DEF b
  <1>7. wire' \in Seq(B) /\ Len(wire') = Len(wire) + Len(b)
        /\ (wire # <<>> => wire' # <<>> /\ wire'[1] = wire[1])
    <2>1. /\ wire \o b \in Seq(B) /\ Len(wire \o b) = Len(wire) + Len(b)
          /\ \A i \in 1 .. Len(wire) + Len(b) :
               (wire \o b)[i] = IF i <= Len(wire) THEN wire[i] ELSE b[i - Len(wire)]
      BY <1>3, <1>5, ConcatProperties
    <2>2. Len(wire) \in Nat /\ Len(b) \in Nat
      BY <1>3, <1>5, LenProperties
    <2>3. ASSUME wire # <<>> PROVE wire' # <<>> /\ wire'[1] = wire[1]
      <3>1. Len(wire) # 0
        BY <1>3, <2>3, EmptySeq
      <3>2. 1 \in 1 .. Len(wire) + Len(b) /\ 1 <= Len(wire) /\ Len(wire) + Len(b) # 0
        BY <2>2, <3>1
      <3>3. (wire \o b)[1] = wire[1] /\ wire \o b # <<>>
        BY <2>1, <3>2, EmptySeq
      <3> QED
        BY <1>2, <3>3
    <2> QED
      BY <1>2, <2>1, <2>3
  <1>8. Stream' = Stream \o b
    <2>1. ASSUME NEW s \in Seq(B), NEW t \in Seq(B), NEW w \in Seq(B)
          PROVE  (s \o t) \o w = s \o (t \o w)
      BY ConcatAssociative
    <2>2. (buf \o wire) \o b = buf \o (wire \o b)
      BY <1>3, <1>5, <2>1, ZenonT(30)
    <2> QED
      BY <1>2, <2>2 DEF Stream
  <1>9. FramesTypeOK'
    <2>1. handed' \in Seq(1 .. Len(sent'))
      <3>1. handed \in Seq(1 .. k) /\ 1 .. k \subseteq 1 .. k + 1
        BY <1>1, <1>3 DEF FramesTypeOK
      <3>2. handed \in Seq(1 .. k + 1)
        BY <3>1, SeqMonotonic
      <3> QED
        BY <1>2, <1>6, <3>2
    <2>2. current' \in 0 .. Len(sent')
      BY <1>1, <1>2, <1>3, <1>6 DEF FramesTypeOK
    <2>3. wire' \in Seq(Nat \X Nat)
      BY <1>7 DEF B
    <2> QED
      BY <1>1, <1>2, <1>6, <2>1, <2>2, <2>3 DEF FramesTypeOK
  <1>10. \A c \in Nat : c <= k + 1 /\ AllHandedBefore(c) => AllHandedBefore(c)'
    <2> SUFFICES ASSUME NEW c \in Nat, c <= k + 1, AllHandedBefore(c),
                        NEW j \in 1 .. c - 1, sent'[j].op = "TEXT"
                 PROVE  \E i \in DOMAIN handed : handed[i] = j
      BY <1>2 DEF AllHandedBefore
    <2>1. j \in 1 .. k
      BY <1>3
    <2> QED
      BY <1>6, <2>1 DEF AllHandedBefore
  <1>11. DOMAIN handed = 1 .. Len(handed) /\ \A i \in DOMAIN handed : handed[i] \in 1 .. k
    BY <1>1, LenProperties, ElementOfSeq DEF FramesTypeOK
  <1>12. InOrder'
    <2>1. ASSUME NEW i \in DOMAIN handed, NEW x, x = handed[i]
          PROVE  sent'[x].op = "TEXT" /\ (spilled \/ AllHandedBefore(x)')
      <3>1. x \in 1 .. k /\ x \in Nat /\ x <= k + 1
        BY <1>3, <1>11, <2>1
      <3>2. sent[x].op = "TEXT" /\ (spilled \/ AllHandedBefore(x))
        BY <1>1, <2>1 DEF InOrder
      <3> QED
        BY <1>6, <1>10, <3>1, <3>2
    <2>2. \A i \in DOMAIN handed :
            /\ sent'[handed[i]].op = "TEXT"
            /\ spilled \/ \A j \in 1 .. handed[i] - 1 :
                 sent'[j].op = "TEXT" => \E n \in DOMAIN handed : handed[n] = j
      BY <1>2, <2>1 DEF AllHandedBefore
    <2>3. \A i, j \in DOMAIN handed : i < j => handed[i] < handed[j]
      BY <1>1 DEF InOrder
    <2> QED
      BY <1>2, <2>2, <2>3 DEF InOrder, AllHandedBefore
  <1>13. \A p \in DOMAIN Stream' :
           p \in 1 .. Len(Stream) \/ Stream'[p][1] = k + 1
    <2>1. FrameLen(fr) \in Nat
      BY FrameSizes
    <2>2. DOMAIN Stream' = 1 .. Len(Stream) + FrameLen(fr)
      BY <1>5, <1>8, LenProperties
    <2> SUFFICES ASSUME NEW p \in 1 .. Len(Stream) + FrameLen(fr), ~ (p \in 1 .. Len(Stream))
                 PROVE  Stream'[p][1] = k + 1
      BY <2>2
    <2>3. p - Len(Stream) \in 1 .. FrameLen(fr) /\ Len(Stream) + (p - Len(Stream)) = p
      BY <1>3, <2>1
    <2>4. Stream'[p] = <<k + 1, p - Len(Stream)>>
      BY <1>5, <1>8, <2>3
    <2> QED
      BY <2>4
  <1>14. StreamInOrder'
    <2>1. Ordered(Stream, sent)'
      BY <1>5, <1>8
    <2>2. ASSUME NEW i \in DOMAIN handed, NEW p \in DOMAIN Stream' PROVE handed[i] < Stream'[p][1]
      <3>1. CASE p \in 1 .. Len(Stream)
        BY <1>1, <1>3, <1>5, <1>8, <3>1 DEF StreamInOrder
      <3>2. CASE Stream'[p][1] = k + 1
        BY <1>3, <1>11, <3>2
      <3> QED
        BY <1>13, <3>1, <3>2
    <2>3. ASSUME NEW p \in DOMAIN Stream', Stream'[p][1] = 0, reader # "ended"
          PROVE  Stream'[p] = <<0, 3>>
      <3>1. p \in 1 .. Len(Stream)
        BY <1>3, <1>13, <2>3
      <3> QED
        BY <1>1, <1>2, <1>3, <1>5, <1>8, <2>3, <3>1 DEF StreamInOrder
    <2> QED
      BY <1>1, <1>2, <2>1, <2>2, <2>3 DEF StreamInOrder
  <1>15. AtABoundary'
    <2> SUFFICES ASSUME reader = "head", ~ spilled PROVE AtABoundary'
      BY <1>2 DEF AtABoundary
    <2>1. CASE Stream = <<>>
      <3>1. 1 \in 1 .. FrameLen(fr) /\ Len(Stream) = 0 /\ 0 + 1 = 1 /\ 0 + FrameLen(fr) # 0
        BY <2>1, FrameSizes
      <3>2. Stream'[1] = <<k + 1, 1>> /\ Stream' # <<>>
        BY <1>5, <1>8, <3>1, EmptySeq
      <3>3. Front = k + 1 /\ Front' = k + 1
        BY <2>1, <3>2 DEF Front
      <3>4. AllHandedBefore(k + 1) /\ k + 1 \in Nat /\ k + 1 <= k + 1
        BY <1>1, <1>3, <3>3 DEF AtABoundary
      <3>5. \A c : c = k + 1 => AllHandedBefore(c)'
        BY <1>10, <3>4
      <3>6. AllHandedBefore(Front)'
        BY <1>2, <3>3, <3>5 DEF AllHandedBefore
      <3> QED
        BY <3>2, <3>3, <3>6 DEF AtABoundary
    <2>2. CASE Stream # <<>>
      <3>1. 1 \in 1 .. Len(Stream) /\ Len(Stream) + FrameLen(fr) # 0
        BY <1>3, <2>2, EmptySeq, FrameSizes
      <3>2. Stream'[1] = Stream[1] /\ Stream' # <<>>
        BY <1>5, <1>8, <3>1, EmptySeq
      <3>3. Front' = Front /\ Front = Stream[1][1]
        BY <2>2, <3>2 DEF Front
      <3>4. Front \in 0 .. k
        BY <1>3, <1>4, <3>1, <3>3 DEF Ordered
      <3>5. AllHandedBefore(Front) /\ Front \in Nat /\ Front <= k + 1
        BY <1>1, <1>3, <3>4 DEF AtABoundary
      <3>6. \A c : c = Front => AllHandedBefore(c)'
        BY <1>10, <3>5
      <3>7. AllHandedBefore(Front)'
        BY <3>3, <3>6 DEF AllHandedBefore
      <3> QED
        BY <1>1, <2>2, <3>2, <3>3, <3>7 DEF AtABoundary
    <2> QED
      BY <2>1, <2>2
  <1>16. InsideAFrame'
    <2> SUFFICES ASSUME reader \in {"digits", "key", "payload"} PROVE InsideAFrame'
      BY <1>2 DEF InsideAFrame
    <2>1. current \in 1 .. k
      BY <1>1, <1>3 DEF FramesTypeOK, InsideAFrame
    <2>2. sent'[current] = sent[current] /\ current' = current
      BY <1>2, <1>6, <2>1
    <2>3. Offset' = Offset
      BY <1>2, <2>2 DEF Offset
    <2>4. AllHandedBefore(current) => AllHandedBefore(current)'
      <3>1. \A c : c = current /\ AllHandedBefore(c) => AllHandedBefore(c)'
        BY <1>3, <1>10, <2>1
      <3> QED
        BY <1>2, <3>1 DEF AllHandedBefore
    <2> QED
      BY <1>1, <1>2, <1>7, <2>2, <2>3, <2>4 DEF InsideAFrame
  <1>17. RepliesReadable'
    BY <1>1, <1>2 DEF RepliesReadable
  <1> QED
    BY <1>9, <1>12, <1>14, <1>15, <1>16, <1>17 DEF FramesInv

-----------------------------------------------------------------------------
(* ManualWsServer reads                                                    *)

\* Bytes have been read that complete no frame.
LEMMA ManualReads ==
  ASSUME FramesInv, impl = "manual", reader \notin {"upgrade", "ended"},
         NEW k \in 1 .. Len(wire), Takes(k),
         UNCHANGED <<client, buf, spilled, handed>>,
         current' \in 0 .. Len(sent), need' \in Nat, reader' \in Readers \ {"upgrade"},
         AtABoundary', InsideAFrame'
  PROVE  FramesInv'
  <1>1. /\ FramesTypeOK /\ InOrder /\ RepliesReadable /\ StreamInOrder
        /\ buf = <<>> /\ ~ spilled
    BY DEF FramesInv, StreamInOrder
  <1>2. /\ UNCHANGED <<impl, sent, written, buf, spilled, handed>>
    BY DEF client
  <1>3. handed' \in Seq(1 .. Len(sent')) /\ InOrder'
    BY <1>1, <1>2, HandNothing
  <1>4. /\ wire' \in Seq(Nat \X Nat) /\ k <= Len(Stream) /\ k \in Nat
        /\ Stream' = SubSeq(Stream, k + 1, Len(Stream))
    <2>1. Len(buf) = 0
      BY <1>1
    <2>2. /\ wire' \in Seq(Nat \X Nat) /\ Len(buf) + k <= Len(Stream)
          /\ buf' = <<>> => Stream' = SubSeq(Stream, Len(buf) + k + 1, Len(Stream))
      BY <1>1, Received
    <2>3. k \in Nat /\ 0 + k = k
      BY <1>1, StreamType
    <2> QED
      BY <1>1, <1>2, <2>1, <2>2, <2>3
  <1>5. StreamInOrder'
    <2>1. /\ reader \notin {"upgrade", "ended"} /\ reader' # "upgrade"
          /\ impl' = impl /\ sent' = sent /\ handed' = handed /\ buf' = <<>> /\ ~ spilled'
      BY <1>1, <1>2
    <2> QED
      BY <1>1, <1>4, <2>1, Consumed
  <1>6. FramesTypeOK'
    BY <1>1, <1>2, <1>3, <1>4 DEF FramesTypeOK, Readers
  <1>7. RepliesReadable'
    BY <1>1, <1>2 DEF RepliesReadable
  <1> QED
    BY <1>3, <1>5, <1>6, <1>7 DEF FramesInv

\* The manual server's stream is the wire, and a recv takes its first bytes.
LEMMA ManualStream ==
  ASSUME FramesInv, impl = "manual", NEW k \in 1 .. Len(wire), Takes(k), buf' = buf
  PROVE  /\ Stream = wire /\ Stream' = wire' /\ k \in Nat /\ k >= 1 /\ k <= Len(Stream)
         /\ Stream' = SubSeq(Stream, k + 1, Len(Stream))
         /\ \A p \in 1 .. k : Took(k)[p] = Stream[p]
         /\ wire' \in Seq(Nat \X Nat) /\ Stream # <<>>
  <1>1. FramesTypeOK /\ buf = <<>> /\ buf' = <<>> /\ Len(buf) = 0
    BY DEF FramesInv, StreamInOrder
  <1>2. /\ wire' \in Seq(Nat \X Nat) /\ Took(k) \in Seq(Nat \X Nat) /\ Len(buf) + k <= Len(Stream)
        /\ \A p \in 1 .. Len(buf) + k : (buf \o Took(k))[p] = Stream[p]
        /\ Stream' = SubSeq(Stream, Len(buf) + k + 1, Len(Stream))
    BY <1>1, Received
  <1>3. k \in Nat /\ k >= 1 /\ 0 + k = k /\ Len(Stream) \in Nat /\ Stream = wire
    BY <1>1, StreamType
  <1>4. buf \o Took(k) = Took(k) /\ Stream' = wire'
    BY <1>1, <1>2, ConcatEmptySeq DEF Stream
  <1>5. Len(Stream) # 0
    BY <1>1, <1>2, <1>3
  <1>6. Stream # <<>>
    BY <1>5
  <1> QED
    BY <1>1, <1>2, <1>3, <1>4, <1>6

\* Bytes have been read that complete the frame current.
LEMMA ManualCompletes ==
  ASSUME FramesInv, impl = "manual", reader \in {"key", "payload"},
         NEW k \in 1 .. Len(wire), Takes(k), k = FrameLen(sent[current]) - Offset + 1,
         UNCHANGED <<client, buf, spilled, current>>, need' \in Nat, Complete(current)
  PROVE  FramesInv'
  <1> DEFINE c == current
  <1>1. /\ FramesTypeOK /\ InOrder /\ RepliesReadable /\ StreamInOrder /\ InsideAFrame
        /\ buf = <<>> /\ ~ spilled
    BY DEF FramesInv, StreamInOrder
  <1>2. UNCHANGED <<impl, sent, written, buf, spilled, current>>
    BY DEF client
  <1>3. /\ Stream = wire /\ Stream' = wire' /\ k \in Nat /\ k <= Len(Stream)
        /\ Stream' = SubSeq(Stream, k + 1, Len(Stream))
        /\ wire' \in Seq(Nat \X Nat) /\ Stream # <<>>
    BY <1>2, ManualStream
  <1>4. c # 0 /\ AllHandedBefore(c) /\ wire[1] = <<c, Offset>>
    BY <1>1 DEF InsideAFrame
  <1>5. Offset \in Nat /\ Ordered(Stream, sent) /\ Stream \in Seq(Nat \X Nat) /\ sent \in Seq(ClientFrames)
    <2>1. 1 \in 1 .. Len(wire) /\ wire \in Seq(Nat \X Nat)
      BY <1>1, StreamType DEF FramesTypeOK
    <2>2. wire[1] \in Nat \X Nat
      BY <2>1, ElementOfSeq
    <2> QED
      BY <1>1, <1>4, <2>2, StreamType DEF StreamInOrder, FramesTypeOK
  <1> HIDE DEF c
  <1>6. c \in 1 .. Len(sent) /\ \A q \in FrameLen(sent[c]) - Offset + 2 .. Len(Stream) : c < Stream[q][1]
    <2>1. GoesOn(Stream, sent, c, Offset)
      BY <1>1, <1>3, <1>4, <1>5, Begins
    <2> QED
      BY <2>1 DEF GoesOn
  <1>7. \A q \in k + 1 .. Len(Stream) : c < Stream[q][1]
    <2>1. k + 1 = FrameLen(sent[c]) - Offset + 2
      <3>1. FrameLen(sent[c]) \in Nat
        BY <1>1, <1>6, StreamType, FrameSizes
      <3>2. \A x, y \in Nat : (x - y + 1) + 1 = x - y + 2
        OBVIOUS
      <3> QED
        BY <1>5, <3>1, <3>2 DEF c
    <2> QED
      BY <1>6, <2>1
  <1>8. CASE sent[c].op = "TEXT" /\ sent[c].fin
    <2>1. reader' = "head" /\ handed' = Append(handed, c)
      BY <1>8 DEF Complete, c
    <2>2. \A i \in DOMAIN handed : handed[i] < c
      <3>1. 1 \in DOMAIN Stream /\ Stream[1][1] = c
        BY <1>1, <1>3, <1>4, StreamType
      <3> QED
        BY <1>1, <3>1 DEF StreamInOrder
    <2>3. handed' \in Seq(1 .. Len(sent')) /\ InOrder' /\ AllHandedBefore(c + 1)'
      <3>1. ASSUME NEW d \in 1 .. Len(sent), d = c
            PROVE  handed' \in Seq(1 .. Len(sent')) /\ InOrder' /\ AllHandedBefore(d + 1)'
        BY <1>1, <1>2, <1>4, <1>8, <2>1, <2>2, <3>1, HandOn
      <3>2. handed' \in Seq(1 .. Len(sent')) /\ InOrder'
        BY <1>6, <3>1
      <3>3. \A d : d = c => AllHandedBefore(d + 1)'
        BY <1>6, <3>1
      <3>4. c' = c
        BY <1>2 DEF c
      <3> QED
        BY <3>2, <3>3, <3>4 DEF AllHandedBefore
    <2>4. StreamInOrder'
      <3>1. \E d \in 1 .. Len(sent) :
              handed' = Append(handed, d) /\ \A p \in k + 1 .. Len(Stream) : d < Stream[p][1]
        BY <1>6, <1>7, <2>1
      <3>2. reader \notin {"upgrade", "ended"} /\ reader' # "upgrade" /\ buf' = <<>> /\ ~ spilled'
        BY <1>1, <1>2, <2>1
      <3> QED
        BY <1>1, <1>2, <1>3, <3>1, <3>2, Consumed
    <2>5. AtABoundary'
      <3>1. ASSUME NEW d, d = c PROVE AtABoundary'
        <4>1. AllHandedBefore(d + 1)'
          <5>1. c' = c
            BY <1>2 DEF c
          <5> QED
            BY <2>3, <3>1, <5>1 DEF AllHandedBefore
        <4>2. ASSUME NEW i \in Nat, i = Offset PROVE AtABoundary'
          <5>1. d # 0 /\ Stream[1] = <<d, i>> /\ k = FrameLen(sent[d]) - i + 1
            BY <1>3, <1>4, <3>1, <4>2 DEF c
          <5> QED
            BY <1>1, <1>2, <1>3, <4>1, <5>1, NextFrame
        <4> QED
          BY <1>5, <4>2
      <3> QED
        BY <3>1
    <2>6. InsideAFrame'
      BY <2>1 DEF InsideAFrame
    <2>7. FramesTypeOK'
      BY <1>1, <1>2, <1>3, <2>1, <2>3 DEF FramesTypeOK
    <2> QED
      BY <1>1, <1>2, <2>3, <2>4, <2>5, <2>6, <2>7 DEF FramesInv, RepliesReadable
  <1>9. CASE ~ (sent[c].op = "TEXT" /\ sent[c].fin)
    <2>1. reader' = "ended" /\ handed' = handed
      BY <1>9 DEF Complete, c
    <2>2. AtABoundary' /\ InsideAFrame'
      BY <2>1 DEF AtABoundary, InsideAFrame
    <2>3. current' \in 0 .. Len(sent)
      BY <1>1, <1>2 DEF FramesTypeOK
    <2> QED
      BY <1>2, <2>1, <2>2, <2>3, ManualReads DEF client, Readers
  <1> QED
    BY <1>8, <1>9

\* What a reader inside a frame may count on: the stream begins with the byte of
\* the current frame that its place says.
LEMMA Inside ==
  ASSUME FramesInv, reader \in {"digits", "key", "payload"}
  PROVE  /\ impl = "manual" /\ Stream = wire /\ Stream # <<>> /\ Stream[1] = <<current, Offset>>
         /\ current \in 1 .. Len(sent) /\ current # 0 /\ sent[current] \in ClientFrames
         /\ AllHandedBefore(current) /\ buf = <<>> /\ ~ spilled
         /\ need \in Nat /\ need <= sent[current].len
         /\ Offset \in Nat
         /\ Offset = IF reader = "digits" THEN 3
                     ELSE IF reader = "key" THEN 3 + DigitsOf(Code(sent[current].len))
                     ELSE FrameLen(sent[current]) - need + 1
         /\ IF reader = "payload" THEN need > 0 ELSE need = sent[current].len
  <1>1. FramesTypeOK /\ StreamInOrder /\ InsideAFrame
    BY DEF FramesInv
  <1>2. /\ impl = "manual" /\ current # 0 /\ AllHandedBefore(current)
        /\ wire # <<>> /\ wire[1] = <<current, Offset>>
        /\ need <= sent[current].len
        /\ IF reader = "payload" THEN need > 0 ELSE need = sent[current].len
    BY <1>1 DEF InsideAFrame
  <1>3. buf = <<>> /\ ~ spilled
    BY <1>1, <1>2 DEF StreamInOrder
  <1>4. /\ Stream = wire /\ Len(sent) \in Nat /\ need \in Nat /\ current \in 0 .. Len(sent)
        /\ \A c \in 1 .. Len(sent) : sent[c] \in ClientFrames
    BY <1>1, <1>3, StreamType DEF FramesTypeOK
  <1>5. current \in 1 .. Len(sent)
    BY <1>2, <1>4
  <1>6. sent[current] \in ClientFrames
    BY <1>4, <1>5
  <1>7. Offset = IF reader = "digits" THEN 3
                 ELSE IF reader = "key" THEN 3 + DigitsOf(Code(sent[current].len))
                 ELSE FrameLen(sent[current]) - need + 1
    BY DEF Offset
  <1>8. Offset \in Nat
    <2> DEFINE d == DigitsOf(Code(sent[current].len))
               f == FrameLen(sent[current])
               l == sent[current].len
    <2>1. d \in Nat /\ f \in Nat /\ l \in Nat /\ f = l + 6 + d
      BY <1>6, FrameSizes
    <2>2. Offset = IF reader = "digits" THEN 3 ELSE IF reader = "key" THEN 3 + d ELSE f - need + 1
      BY <1>7
    <2>3. need \in Nat /\ need <= l
      BY <1>2, <1>4
    <2> HIDE DEF d, f, l
    <2> QED
      BY <2>1, <2>2, <2>3
  <1> QED
    BY <1>2, <1>3, <1>4, <1>5, <1>6, <1>7, <1>8

\* The upgrade leaves at most the blank line (manual_server.py:136-159).
LEMMA ManualUpgradeKeeps ==
  ASSUME FramesInv, NEW k \in 1 .. Len(wire), ManualUpgrade(k)
  PROVE  FramesInv'
  <1>1. /\ FramesTypeOK /\ InOrder /\ RepliesReadable /\ StreamInOrder
        /\ impl = "manual" /\ reader = "upgrade" /\ buf = <<>> /\ ~ spilled
        /\ Stream = Request /\ sent = <<>> /\ handed = <<>>
    BY DEF FramesInv, StreamInOrder, ManualUpgrade, Request
  <1>2. /\ UNCHANGED <<impl, sent, written, current, need, buf, spilled, handed>> /\ Takes(k)
        /\ reader' = IF k < 2 THEN "ended" ELSE "head"
    BY DEF ManualUpgrade, client
  <1>3. /\ k \in Nat /\ k >= 1 /\ k <= Len(Stream) /\ wire' \in Seq(Nat \X Nat)
        /\ Stream' = SubSeq(Stream, k + 1, Len(Stream))
    BY <1>1, <1>2, ManualStream
  <1>4. Len(Stream) = 3 /\ Len(sent) = 0 /\ k <= 3
    BY <1>1, <1>3, RequestOrdered
  <1>5. /\ Ordered(Stream', sent) /\ Stream' \in Seq(Nat \X Nat)
        /\ Len(Stream') = 3 - k /\ DOMAIN Stream' = 1 .. 3 - k
        /\ \A p \in 1 .. 3 - k : Stream'[p] = Request[p + k]
    BY <1>1, <1>3, <1>4, Shorter DEF StreamInOrder
  <1>6. ASSUME reader' = "head", NEW p \in DOMAIN Stream' PROVE p = 1 /\ Stream'[p] = <<0, 3>>
    <2>1. ~ (k < 2)
      BY <1>2, <1>6
    <2>2. k = 2 /\ p = 1
      BY <1>3, <1>4, <1>5, <2>1
    <2>3. Stream'[p] = Request[3]
      BY <1>5, <2>2
    <2> QED
      BY <2>2, <2>3 DEF Request
  <1>7. StreamInOrder'
    <2>1. Ordered(Stream, sent)' /\ handed' = <<>> /\ reader' # "upgrade"
      BY <1>1, <1>2, <1>5
    <2>2. reader' \notin {"upgrade", "ended"} => reader' = "head"
      BY <1>2
    <2> QED
      BY <1>1, <1>2, <1>6, <2>1, <2>2 DEF StreamInOrder
  <1>8. AtABoundary'
    <2> SUFFICES ASSUME reader' = "head" PROVE AtABoundary'
      BY DEF AtABoundary
    <2>1. Stream' # <<>> => Stream'[1] = <<0, 3>>
      <3> SUFFICES ASSUME Stream' # <<>> PROVE Stream'[1] = <<0, 3>>
        OBVIOUS
      <3>1. Len(Stream') \in Nat \ {0} /\ DOMAIN Stream' = 1 .. Len(Stream')
        BY <1>5, EmptySeq, LenProperties
      <3>2. 1 \in DOMAIN Stream'
        BY <3>1
      <3> QED
        BY <1>6, <3>2
    <2>2. Front' = 0 \/ Front' = 1
      BY <1>2, <1>4, <2>1 DEF Front
    <2>3. AllHandedBefore(Front)'
      BY <2>2 DEF AllHandedBefore
    <2> QED
      BY <2>1, <2>3 DEF AtABoundary
  <1>9. InsideAFrame'
    BY <1>2 DEF InsideAFrame
  <1>10. FramesTypeOK'
    BY <1>1, <1>2, <1>3 DEF FramesTypeOK
  <1> QED
    BY <1>1, <1>2, <1>7, <1>8, <1>9, <1>10 DEF FramesInv, InOrder, RepliesReadable

\* A reader that goes astray or gives up makes no more claims.
LEMMA NoClaims ==
  ASSUME reader' \in {"astray", "ended"}
  PROVE  AtABoundary' /\ InsideAFrame'
  BY DEF AtABoundary, InsideAFrame

\* A whole header puts the reader inside its frame (manual_server.py:303-313).
LEMMA ManualHeadKeeps ==
  ASSUME FramesInv, NEW k \in 1 .. Len(wire), ManualHead(k)
  PROVE  FramesInv'
  <1>1. /\ FramesTypeOK /\ StreamInOrder /\ AtABoundary /\ impl = "manual" /\ reader = "head" /\ ~ spilled
    BY DEF FramesInv, StreamInOrder, ManualHead
  <1>2. UNCHANGED <<client, buf, spilled, handed>> /\ Takes(k) /\ k <= 2
    <2>1. k \in Nat /\ Len(wire) \in Nat /\ Gets(2, k)
      BY <1>1, StreamType DEF ManualHead
    <2>2. k <= 2
      BY <2>1 DEF Gets
    <2> QED
      BY <2>2 DEF ManualHead
  <1>3. current \in 0 .. Len(sent) /\ need \in Nat
    BY <1>1 DEF FramesTypeOK
  <1>4. CASE reader' \in {"astray", "ended"} /\ UNCHANGED <<current, need>>
    BY <1>1, <1>2, <1>3, <1>4, NoClaims, ManualReads DEF Readers
  <1>5. CASE ~ (k < 2) /\ Took(2) = <<<<wire[1][1], 1>>, <<wire[1][1], 2>>>>
    <2>1. PICK c : c = wire[1][1]
      OBVIOUS
    <2>2. /\ reader' = IF DigitsOf(Code(sent[c].len)) = 0 THEN "key" ELSE "digits"
          /\ current' = c /\ need' = sent[c].len
      BY <1>5, <2>1 DEF ManualHead
    <2>3. /\ Stream = wire /\ Stream' = wire' /\ Stream # <<>> /\ k \in Nat /\ k <= Len(Stream)
          /\ Stream' = SubSeq(Stream, k + 1, Len(Stream))
          /\ \A p \in 1 .. k : Took(k)[p] = Stream[p]
      BY <1>1, <1>2, ManualStream DEF client
    <2>4. k = 2
      BY <1>2, <1>5, <2>3
    <2>5. Stream[1] = <<c, 1>>
      <3>1. Took(2)[1] = <<c, 1>> /\ 1 \in 1 .. 2
        BY <1>5, <2>1
      <3> QED
        BY <2>3, <2>4, <3>1
    <2>6. c # 0
      <3>1. 1 \in DOMAIN Stream
        BY <1>1, <2>3, <2>4, StreamType
      <3>2. Stream[1][1] = 0 => Stream[1] = <<0, 3>>
        BY <1>1, <3>1 DEF StreamInOrder
      <3> QED
        BY <2>5, <3>2
    <2>8. c \in 1 .. Len(sent) /\ sent[c] \in ClientFrames
      <3>1. 1 \in Nat
        OBVIOUS
      <3>2. GoesOn(Stream, sent, c, 1)
        BY <1>1, <2>3, <2>5, <2>6, <3>1, Begins
      <3> QED
        BY <3>2 DEF GoesOn
    <2>9. /\ sent[c].len \in Nat /\ FrameLen(sent[c]) \in Nat /\ DigitsOf(Code(sent[c].len)) \in Nat
          /\ 1 + 2 <= FrameLen(sent[c])
      <3>1. /\ sent[c].len \in Nat /\ FrameLen(sent[c]) \in Nat /\ DigitsOf(Code(sent[c].len)) \in Nat
            /\ FrameLen(sent[c]) = sent[c].len + 6 + DigitsOf(Code(sent[c].len))
        BY <2>8, FrameSizes
      <3> QED
        BY <3>1
    <2>10. Stream' # <<>> /\ Stream'[1] = <<c, 3>>
      <3>1. Stream'[1] = <<c, 1 + 2>> /\ Stream' # <<>>
        BY <1>1, <2>3, <2>4, <2>5, <2>6, <2>9, SameFrame
      <3> QED
        BY <3>1
    <2>11. AllHandedBefore(c)
      <3>1. Front = c /\ AllHandedBefore(Front)
        BY <1>1, <2>3, <2>5 DEF Front, AtABoundary
      <3> QED
        BY <3>1
    <2>12. sent' = sent /\ impl' = impl /\ handed' = handed
      BY <1>2 DEF client
    <2>13. AllHandedBefore(current)'
      BY <2>2, <2>11, <2>12 DEF AllHandedBefore
    <2>14. Offset' = 3
      BY <2>2, <2>9, <2>12 DEF Offset
    <2>15. InsideAFrame'
      BY <1>1, <2>2, <2>3, <2>6, <2>9, <2>10, <2>12, <2>13, <2>14, SMTT(30) DEF InsideAFrame
    <2>16. AtABoundary'
      BY <2>2 DEF AtABoundary
    <2>17. current' \in 0 .. Len(sent) /\ need' \in Nat /\ reader' \in Readers \ {"upgrade"}
      BY <2>2, <2>8, <2>9 DEF Readers
    <2>18. reader \notin {"upgrade", "ended"}
      BY <1>1
    <2> QED
      BY <1>1, <1>2, <2>15, <2>16, <2>17, <2>18, ManualReads
  <1> QED
    BY <1>4, <1>5 DEF ManualHead

\* The length digits, whole or short (manual_server.py:313-318).
LEMMA ManualDigitsKeeps ==
  ASSUME FramesInv, NEW k \in 1 .. Len(wire), ManualDigits(k)
  PROVE  FramesInv'
  <1> DEFINE d == DigitsOf(Code(sent[current].len))
  <1>1. /\ reader = "digits" /\ Takes(k) /\ Gets(d, k) /\ UNCHANGED <<client, current, need, buf, spilled, handed>>
        /\ reader' = IF k < d THEN "astray" ELSE "key"
    BY DEF ManualDigits
  <1>2. /\ impl = "manual" /\ Stream = wire /\ Stream # <<>> /\ Stream[1] = <<current, 3>>
        /\ current \in 1 .. Len(sent) /\ current # 0 /\ sent[current] \in ClientFrames
        /\ AllHandedBefore(current) /\ buf = <<>> /\ ~ spilled
        /\ need = sent[current].len /\ need \in Nat
    BY <1>1, Inside
  <1>3. FramesTypeOK /\ StreamInOrder
    BY DEF FramesInv
  <1>4. current' \in 0 .. Len(sent) /\ need' \in Nat /\ reader \notin {"upgrade", "ended"}
    BY <1>1, <1>2
  <1>5. CASE k < d
    BY <1>1, <1>2, <1>4, <1>5, NoClaims, ManualReads DEF Readers
  <1>6. CASE ~ (k < d)
    <2>1. d \in Nat /\ FrameLen(sent[current]) \in Nat /\ FrameLen(sent[current]) = sent[current].len + 6 + d
      BY <1>2, FrameSizes
    <2>2. k = d /\ 3 + k <= FrameLen(sent[current]) /\ k \in Nat
      <3>1. k \in Nat /\ Len(wire) \in Nat
        BY <1>3, StreamType
      <3>2. k <= d
        BY <1>1, <2>1, <3>1 DEF Gets
      <3> QED
        BY <1>2, <1>6, <2>1, <3>1, <3>2, SMTT(30)
    <2>3. Stream' = wire' /\ Stream' = SubSeq(Stream, k + 1, Len(Stream))
      BY <1>1, <1>2, ManualStream
    <2>4. Stream' # <<>> /\ Stream'[1] = <<current, 3 + k>>
      <3>1. ASSUME NEW i \in Nat, i = 3, NEW c, c = current PROVE Stream' # <<>> /\ Stream'[1] = <<c, i + k>>
        <4>1. c # 0 /\ Stream[1] = <<c, i>> /\ i + k <= FrameLen(sent[c])
          BY <1>2, <2>2, <3>1
        <4> QED
          BY <1>2, <1>3, <2>2, <2>3, <4>1, SameFrame
      <3> QED
        BY <3>1
    <2>5. sent' = sent /\ impl' = impl /\ handed' = handed /\ current' = current /\ need' = need
          /\ reader' = "key"
      BY <1>1, <1>6 DEF client
    <2>6. AllHandedBefore(current)'
      BY <1>2, <2>5 DEF AllHandedBefore
    <2>7. Offset' = 3 + k
      BY <2>2, <2>5 DEF Offset
    <2>8. InsideAFrame'
      <3>1. /\ impl' = "manual" /\ current' # 0 /\ need' = sent'[current'].len /\ need' <= sent'[current'].len
            /\ wire' # <<>> /\ wire'[1] = <<current', Offset'>>
        <4>1. impl' = "manual" /\ current' # 0 /\ need' = sent'[current'].len
          BY <1>2, <2>5
        <4>2. need' <= sent'[current'].len
          BY <1>2, <4>1, <2>5
        <4>3. wire' # <<>> /\ wire'[1] = <<current', Offset'>>
          BY <2>3, <2>4, <2>5, <2>7, Zenon
        <4> QED
          BY <4>1, <4>2, <4>3
      <3> QED
        BY <2>5, <2>6, <3>1 DEF InsideAFrame
    <2>9. AtABoundary'
      BY <2>5 DEF AtABoundary
    <2>10. reader' \in Readers \ {"upgrade"}
      BY <2>5 DEF Readers
    <2> QED
      BY <1>1, <1>2, <1>4, <2>8, <2>9, <2>10, ManualReads
  <1> QED
    BY <1>5, <1>6

\* The masking key, whole or short; without payload it ends the frame
\* (manual_server.py:320-322).
LEMMA ManualKeyKeeps ==
  ASSUME FramesInv, NEW k \in 1 .. Len(wire), ManualKey(k)
  PROVE  FramesInv'
  <1> DEFINE d == DigitsOf(Code(sent[current].len))
             f == FrameLen(sent[current])
  <1>1. /\ reader = "key" /\ Takes(k) /\ Gets(KeyBytes, k)
        /\ UNCHANGED <<client, current, need, buf, spilled>>
    BY DEF ManualKey
  <1>2. /\ impl = "manual" /\ Stream = wire /\ Stream # <<>> /\ Stream[1] = <<current, Offset>>
        /\ current \in 1 .. Len(sent) /\ current # 0 /\ sent[current] \in ClientFrames
        /\ AllHandedBefore(current) /\ buf = <<>> /\ ~ spilled
        /\ need = sent[current].len /\ need \in Nat /\ Offset = 3 + d
    BY <1>1, Inside
  <1>3. FramesTypeOK /\ StreamInOrder
    BY DEF FramesInv
  <1>4. current' \in 0 .. Len(sent) /\ need' \in Nat /\ reader \notin {"upgrade", "ended"}
    BY <1>1, <1>2
  <1>5. CASE k < KeyBytes
    <2>1. reader' = "astray" /\ handed' = handed
      BY <1>5 DEF ManualKey
    <2> QED
      BY <1>1, <1>2, <1>4, <2>1, NoClaims, ManualReads DEF Readers
  <1>6. CASE ~ (k < KeyBytes)
    <2>1. d \in Nat /\ f \in Nat /\ f = need + 6 + d
      BY <1>2, FrameSizes
    <2>2. k = 4 /\ k \in Nat
      <3>1. k \in Nat /\ Len(wire) \in Nat
        BY <1>3, StreamType
      <3> QED
        BY <1>1, <1>6, <3>1 DEF Gets, KeyBytes
    <2>3. CASE need > 0
      <3>1. reader' = "payload" /\ handed' = handed
        BY <1>6, <2>3 DEF ManualKey
      <3>2. Stream' = wire' /\ Stream' = SubSeq(Stream, k + 1, Len(Stream))
        BY <1>1, <1>2, ManualStream
      <3>3. Stream' # <<>> /\ Stream'[1] = <<current, 7 + d>>
        <4>1. ASSUME NEW i \in Nat, i = 3 + d, NEW c, c = current
              PROVE  Stream' # <<>> /\ Stream'[1] = <<c, i + k>>
          <5>1. c # 0 /\ Stream[1] = <<c, i>>
            BY <1>2, <4>1
          <5>2. i + k <= FrameLen(sent[c])
            <6>1. \A x, y \in Nat : x > 0 => (3 + y) + 4 <= x + 6 + y
              OBVIOUS
            <6> QED
              BY <1>2, <2>1, <2>2, <2>3, <4>1, <6>1
          <5> QED
            BY <1>2, <1>3, <2>2, <3>2, <5>1, <5>2, SameFrame
        <4>2. 3 + d \in Nat /\ (3 + d) + k = 7 + d
          BY <2>1, <2>2
        <4> QED
          BY <4>1, <4>2
      <3>4. sent' = sent /\ impl' = impl /\ current' = current /\ need' = need
        BY <1>1 DEF client
      <3>5. AllHandedBefore(current)'
        BY <1>2, <3>1, <3>4 DEF AllHandedBefore
      <3>6. Offset' = 7 + d
        <4>1. Offset' = f - need + 1
          BY <3>1, <3>4 DEF Offset
        <4>2. \A x, y \in Nat : (x + 6 + y) - x + 1 = 7 + y
          OBVIOUS
        <4> QED
          BY <1>2, <2>1, <4>1, <4>2
      <3>7. InsideAFrame'
        <4>1. impl' = "manual" /\ current' # 0 /\ need' > 0
          BY <1>2, <2>3, <3>4
        <4>2. need' <= sent'[current'].len
          BY <1>2, <3>4
        <4>3. wire' # <<>> /\ wire'[1] = <<current', Offset'>>
          BY <3>2, <3>3, <3>4, <3>6, Zenon
        <4> QED
          BY <3>1, <3>5, <4>1, <4>2, <4>3 DEF InsideAFrame
      <3>8. AtABoundary'
        BY <3>1 DEF AtABoundary
      <3>9. reader' \in Readers \ {"upgrade"}
        BY <3>1 DEF Readers
      <3> QED
        BY <1>1, <1>2, <1>4, <3>1, <3>7, <3>8, <3>9, ManualReads
    <2>4. CASE ~ (need > 0)
      <3>1. Complete(current)
        BY <1>6, <2>4 DEF ManualKey
      <3>2. k = f - Offset + 1
        <4>1. \A x, y \in Nat : ~ (x > 0) => (x + 6 + y) - (3 + y) + 1 = 4
          OBVIOUS
        <4> QED
          BY <1>2, <2>1, <2>2, <2>4, <4>1
      <3> QED
        BY <1>1, <1>2, <1>4, <3>1, <3>2, ManualCompletes
    <2> QED
      BY <2>3, <2>4
  <1> QED
    BY <1>5, <1>6

\* A turn of the payload loop; the last one ends the frame
\* (manual_server.py:321-331).
LEMMA ManualPayloadKeeps ==
  ASSUME FramesInv, NEW k \in 1 .. Len(wire), ManualPayload(k)
  PROVE  FramesInv'
  <1> DEFINE f == FrameLen(sent[current])
             l == sent[current].len
  <1>1. /\ reader = "payload" /\ Takes(k) /\ Gets(Wanted, k)
        /\ UNCHANGED <<client, current, buf, spilled>>
    BY DEF ManualPayload
  <1>2. /\ impl = "manual" /\ Stream = wire /\ Stream # <<>> /\ Stream[1] = <<current, Offset>>
        /\ current \in 1 .. Len(sent) /\ current # 0 /\ sent[current] \in ClientFrames
        /\ AllHandedBefore(current) /\ buf = <<>> /\ ~ spilled
        /\ need > 0 /\ need \in Nat /\ need <= l /\ Offset \in Nat /\ Offset = f - need + 1
    BY <1>1, Inside
  <1>3. FramesTypeOK /\ StreamInOrder
    BY DEF FramesInv
  <1>4. current' \in 0 .. Len(sent) /\ reader \notin {"upgrade", "ended"}
    BY <1>1, <1>2
  <1>5. f \in Nat /\ l \in Nat /\ need <= f
    <2>1. l \in Nat /\ f \in Nat /\ DigitsOf(Code(l)) \in Nat /\ f = l + 6 + DigitsOf(Code(l))
      BY <1>2, FrameSizes
    <2> QED
      BY <1>2, <2>1, SMTT(30)
  <1>6. k \in Nat /\ k >= 1 /\ k <= need
    <2>1. k \in Nat /\ k >= 1 /\ Len(wire) \in Nat
      BY <1>3, StreamType
    <2>2. ManualChunk \in Nat
      BY FramesAssumption
    <2>3. Wanted \in Nat /\ Wanted <= need
      BY <1>2, <2>2 DEF Wanted
    <2>4. k <= Wanted
      BY <1>1, <2>1, <2>3 DEF Gets
    <2> QED
      BY <1>2, <2>1, <2>3, <2>4
  <1>7. CASE k < need
    <2>1. need' = need - k /\ reader' = "payload" /\ handed' = handed
      BY <1>1, <1>7 DEF ManualPayload
    <2>2. Stream' = wire' /\ Stream' = SubSeq(Stream, k + 1, Len(Stream))
      BY <1>1, <1>2, ManualStream
    <2>3. Stream' # <<>> /\ Stream'[1] = <<current, Offset + k>>
      <3>1. ASSUME NEW i \in Nat, i = Offset, NEW c, c = current
            PROVE  Stream' # <<>> /\ Stream'[1] = <<c, i + k>>
        <4>1. c # 0 /\ Stream[1] = <<c, i>>
          BY <1>2, <3>1
        <4>2. i + k <= FrameLen(sent[c])
          BY <1>2, <1>5, <1>6, <1>7, <3>1
        <4> QED
          BY <1>2, <1>3, <1>6, <2>2, <4>1, <4>2, SameFrame, ZenonT(30)
      <3> QED
        BY <1>2, <3>1
    <2>4. sent' = sent /\ impl' = impl /\ current' = current
      BY <1>1 DEF client
    <2>5. AllHandedBefore(current)'
      BY <1>2, <2>1, <2>4 DEF AllHandedBefore
    <2>6. Offset' = Offset + k
      <3>1. Offset' = f - (need - k) + 1
        BY <2>1, <2>4 DEF Offset
      <3> QED
        BY <1>2, <1>5, <1>6, <3>1
    <2>7. InsideAFrame'
      <3>1. impl' = "manual" /\ current' # 0 /\ need' > 0
        BY <1>2, <1>6, <1>7, <2>1, <2>4
      <3>2. need' <= sent'[current'].len
        BY <1>2, <1>5, <1>6, <2>1, <2>4, SMTT(30)
      <3>3. wire' # <<>> /\ wire'[1] = <<current', Offset'>>
        BY <2>2, <2>3, <2>4, <2>6, Zenon
      <3> QED
        BY <2>1, <2>5, <3>1, <3>2, <3>3 DEF InsideAFrame
    <2>8. AtABoundary'
      BY <2>1 DEF AtABoundary
    <2>9. reader' \in Readers \ {"upgrade"} /\ need' \in Nat
      BY <1>2, <1>6, <1>7, <2>1 DEF Readers
    <2> QED
      BY <1>1, <1>2, <1>4, <2>1, <2>7, <2>8, <2>9, ManualReads
  <1>8. CASE ~ (k < need)
    <2>1. need' = 0 /\ Complete(current)
      BY <1>8 DEF ManualPayload
    <2>2. k = f - Offset + 1 /\ need' \in Nat
      BY <1>2, <1>5, <1>6, <1>8, <2>1
    <2> QED
      BY <1>1, <1>2, <2>1, <2>2, ManualCompletes
  <1> QED
    BY <1>7, <1>8

\* A reader that has gone astray takes bytes and hands on nothing that is one of
\* the client's texts (manual_server.py:314-331, 239).
LEMMA ManualAstrayKeeps ==
  ASSUME FramesInv, NEW k \in 1 .. Len(wire), ManualAstray(k)
  PROVE  FramesInv'
  <1>1. /\ impl = "manual" /\ reader = "astray" /\ Takes(k) /\ reader' \in {"astray", "ended"}
        /\ UNCHANGED <<client, current, need, buf, spilled, handed>>
    BY DEF ManualAstray
  <1>2. current' \in 0 .. Len(sent) /\ need' \in Nat /\ reader \notin {"upgrade", "ended"}
    BY <1>1 DEF FramesInv, FramesTypeOK
  <1>3. reader' \in Readers \ {"upgrade"}
    BY <1>1 DEF Readers
  <1> QED
    BY <1>1, <1>2, <1>3, NoClaims, ManualReads

-----------------------------------------------------------------------------
(* RawWebSocket reads                                                      *)

\* RawWebSocket's upgrade reads to the blank line, and not beyond (raw_ws.py:153-178).
LEMMA RawUpgradeKeeps ==
  ASSUME FramesInv, NEW k \in 1 .. Len(wire), RawUpgrade(k)
  PROVE  FramesInv'
  <1> DEFINE data == buf \o Took(k)
  <1>1. /\ FramesTypeOK /\ InOrder /\ RepliesReadable /\ StreamInOrder
        /\ impl = "raw" /\ reader = "upgrade" /\ ~ spilled
        /\ Stream = Request /\ sent = <<>> /\ handed = <<>>
    BY DEF FramesInv, StreamInOrder, RawUpgrade, Request
  <1>2. /\ UNCHANGED <<impl, sent, written, current, need, spilled, handed>> /\ Takes(k)
        /\ IF Len(data) < 3 THEN buf' = data /\ reader' = reader
                            ELSE buf' = <<>> /\ reader' = "head"
    BY DEF RawUpgrade, client
  <1>3. /\ wire' \in Seq(Nat \X Nat) /\ data \in Seq(Nat \X Nat)
        /\ Len(data) = Len(buf) + k /\ Len(buf) + k <= Len(Stream) /\ k \in Nat /\ Len(buf) \in Nat
        /\ buf' = data => Stream' = Stream
        /\ buf' = <<>> => Stream' = SubSeq(Stream, Len(buf) + k + 1, Len(Stream))
    <2>1. k \in Nat /\ Len(buf) \in Nat
      BY <1>1, StreamType
    <2> QED
      BY <1>1, <1>2, <2>1, Received
  <1>4. Len(Stream) = 3 /\ Len(sent) = 0
    BY <1>1, RequestOrdered
  <1> HIDE DEF data
  <1>5. FramesTypeOK'
    <2>1. buf' \in Seq(Nat \X Nat)
      BY <1>2, <1>3, EmptySeq
    <2>2. reader' \in {"upgrade", "head"}
      BY <1>1, <1>2
    <2> QED
      BY <1>1, <1>2, <1>3, <2>1, <2>2 DEF FramesTypeOK
  <1>6. InsideAFrame' /\ InOrder' /\ RepliesReadable'
    BY <1>1, <1>2 DEF InsideAFrame, InOrder, RepliesReadable
  <1>7. CASE Len(data) < 3
    <2>1. Stream' = Stream /\ reader' = reader
      BY <1>2, <1>3, <1>7
    <2>2. StreamInOrder' /\ AtABoundary'
      BY <1>1, <1>2, <2>1 DEF StreamInOrder, AtABoundary
    <2> QED
      BY <1>5, <1>6, <2>2 DEF FramesInv
  <1>8. CASE ~ (Len(data) < 3)
    <2>1. Len(buf) + k = 3 /\ reader' = "head"
      BY <1>2, <1>3, <1>4, <1>8
    <2>2. Stream' = SubSeq(Stream, 3 + 1, Len(Stream))
      BY <1>2, <1>3, <1>8, <2>1
    <2>3. Ordered(Stream', sent) /\ Len(Stream') = 0 /\ Stream' \in Seq(Nat \X Nat)
      <3>1. 3 \in Nat /\ 3 <= Len(Stream) /\ Len(Stream) - 3 = 0
        BY <1>4
      <3> QED
        BY <1>1, <2>2, <3>1, Shorter DEF StreamInOrder
    <2>4. Stream' = <<>> /\ DOMAIN Stream' = {}
      <3>1. Stream' = <<>>
        BY <2>3, EmptySeq
      <3> QED
        BY <3>1
    <2>5. StreamInOrder'
      <3>1. Ordered(Stream, sent)'
        BY <1>2, <2>3
      <3> QED
        BY <1>1, <1>2, <2>1, <2>4, <3>1 DEF StreamInOrder
    <2>6. AtABoundary'
      <3>1. Front' = 1
        BY <1>2, <1>4, <2>4 DEF Front
      <3>2. AllHandedBefore(Front)'
        BY <3>1 DEF AllHandedBefore
      <3> QED
        BY <2>4, <3>2 DEF AtABoundary
    <2> QED
      BY <1>5, <1>6, <2>5, <2>6 DEF FramesInv
  <1> QED
    BY <1>7, <1>8

\* What decode_frame finds at the front of the stream.
LEMMA Decoded ==
  ASSUME FramesTypeOK, StreamInOrder, reader = "head",
         NEW data, Len(data) \in Nat, Len(data) >= 1, Len(data) <= Len(Stream),
         \A p \in 1 .. Len(data) : data[p] = Stream[p]
  PROVE  /\ Stream # <<>> /\ data[1] = Stream[1]
         /\ \/ decode_frame(data) \in {"incomplete", "astray", "raises"}
            \/ \E c \in 1 .. Len(sent) :
                 /\ data[1][1] = c /\ Stream[1] = <<c, 1>>
                 /\ decode_frame(data) = sent[c].op /\ FrameLen(sent[c]) <= Len(data)
  <1>1. /\ Stream \in Seq(Nat \X Nat) /\ DOMAIN Stream = 1 .. Len(Stream) /\ Len(Stream) \in Nat
    BY StreamType
  <1>2. 1 \in DOMAIN Stream /\ 1 \in 1 .. Len(data) /\ Len(Stream) # 0
    BY <1>1
  <1>3. Stream # <<>> /\ data[1] = Stream[1] /\ Stream[1] \in Nat \X Nat
    BY <1>1, <1>2, ElementOfSeq
  <1>4. CASE Len(data) < 2 \/ data[1][2] # 1
    BY <1>4 DEF decode_frame
  <1>5. CASE ~ (Len(data) < 2) /\ data[1][2] = 1
    <2>1. PICK c : c = data[1][1]
      OBVIOUS
    <2>2. Stream[1] = <<c, 1>>
      BY <1>3, <1>5, <2>1
    <2>3. c # 0
      <3>1. Stream[1][1] = 0 => Stream[1] = <<0, 3>>
        BY <1>2 DEF StreamInOrder
      <3> QED
        BY <2>2, <3>1
    <2>4. c \in 1 .. Len(sent) /\ FrameLen(sent[c]) \in Nat
      <3>1. 1 \in Nat
        OBVIOUS
      <3>2. GoesOn(Stream, sent, c, 1) /\ FrameLen(sent[c]) \in Nat
        BY <1>3, <2>2, <2>3, <3>1, Begins
      <3> QED
        BY <3>2 DEF GoesOn
    <2>5. decode_frame(data) = IF sent[c].op = "CONT" THEN "raises"
                               ELSE IF Len(data) < FrameLen(sent[c]) THEN "incomplete" ELSE sent[c].op
      BY <1>5, <2>1 DEF decode_frame
    <2>6. CASE sent[c].op = "CONT" \/ Len(data) < FrameLen(sent[c])
      BY <1>3, <2>5, <2>6
    <2>7. CASE ~ (sent[c].op = "CONT") /\ ~ (Len(data) < FrameLen(sent[c]))
      <3>1. decode_frame(data) = sent[c].op /\ FrameLen(sent[c]) <= Len(data)
        BY <2>4, <2>5, <2>7
      <3> QED
        BY <1>3, <2>1, <2>2, <2>4, <3>1
    <2> QED
      BY <2>6, <2>7
  <1> QED
    BY <1>3, <1>4, <1>5

\* A turn of recv's loop, whatever the buffer holds then (raw_ws.py:180-206).
LEMMA RawRecvKeeps ==
  ASSUME FramesInv, NEW k \in 1 .. Len(wire), RawRecv(k)
  PROVE  FramesInv'
  <1> DEFINE data == buf \o Took(k)
             r == decode_frame(data)
  <1>1. /\ FramesTypeOK /\ InOrder /\ RepliesReadable /\ StreamInOrder /\ AtABoundary
        /\ impl = "raw" /\ reader = "head" /\ Takes(k) /\ UNCHANGED <<impl, sent, current, need>>
    BY DEF FramesInv, RawRecv
  <1>2. /\ buf' = IF r = "incomplete" THEN data ELSE <<>>
        /\ spilled' = (spilled \/ (r \in Opcodes /\ Len(data) > FrameLen(sent[data[1][1]])))
        /\ reader' = CASE r = "astray" -> "astray" [] r \in {"raises", "CLOSE"} -> "ended" [] OTHER -> "head"
        /\ handed' = IF r = "TEXT" THEN Append(handed, data[1][1]) ELSE handed
        /\ IF r = "PING" THEN written' = Append(written, encode_frame(sent[data[1][1]].len))
                         ELSE written' = written
    BY DEF RawRecv
  <1>3. k \in Nat /\ k >= 1 /\ Len(buf) \in Nat /\ Len(Stream) \in Nat
    BY <1>1, StreamType
  <1>4. /\ wire' \in Seq(Nat \X Nat) /\ data \in Seq(Nat \X Nat)
        /\ Len(data) = Len(buf) + k /\ Len(buf) + k <= Len(Stream)
        /\ \A p \in 1 .. Len(buf) + k : data[p] = Stream[p]
        /\ buf' = data => Stream' = Stream
        /\ buf' = <<>> => Stream' = SubSeq(Stream, Len(buf) + k + 1, Len(Stream))
    BY <1>1, Received
  <1> HIDE DEF data
  <1>5. /\ Len(data) \in Nat /\ Len(data) >= 1 /\ Len(data) <= Len(Stream)
        /\ \A p \in 1 .. Len(data) : data[p] = Stream[p]
        /\ buf' = <<>> => Stream' = SubSeq(Stream, Len(data) + 1, Len(Stream))
    BY <1>3, <1>4, SMTT(30)
  <1>6. /\ Stream # <<>> /\ data[1] = Stream[1]
        /\ \/ r \in {"incomplete", "astray", "raises"}
           \/ \E c \in 1 .. Len(sent) :
                /\ data[1][1] = c /\ Stream[1] = <<c, 1>>
                /\ r = sent[c].op /\ FrameLen(sent[c]) <= Len(data)
    BY <1>1, <1>5, Decoded
  <1> HIDE DEF r
  <1>7. InsideAFrame' /\ reader' \in {"head", "astray", "ended"} /\ spilled' \in BOOLEAN
        /\ (spilled => spilled') /\ buf' \in Seq(Nat \X Nat)
    <2>1. reader' \in {"head", "astray", "ended"} /\ (spilled => spilled')
      BY <1>2
    <2>2. spilled \in BOOLEAN
      BY <1>1 DEF FramesTypeOK
    <2>3. spilled' \in BOOLEAN
      BY <1>2, <2>2, Zenon
    <2>4. buf' \in Seq(Nat \X Nat)
      BY <1>2, <1>4, EmptySeq
    <2> QED
      BY <2>1, <2>3, <2>4 DEF InsideAFrame
  <1>8. CASE r \in {"incomplete", "astray", "raises"}
    <2>1. r \notin Opcodes /\ r # "TEXT" /\ r # "PING" /\ r # "CLOSE"
      BY <1>8 DEF Opcodes
    <2>2. (spilled' <=> spilled) /\ handed' = handed /\ written' = written
      BY <1>2, <2>1
    <2>3. handed' \in Seq(1 .. Len(sent')) /\ InOrder'
      BY <1>1, <1>7, <2>2, HandNothing
    <2>4. FramesTypeOK'
      BY <1>1, <1>4, <1>7, <2>2, <2>3 DEF FramesTypeOK
    <2>5. RepliesReadable'
      BY <1>1, <2>2 DEF RepliesReadable
    <2>6. CASE r = "incomplete"
      <3>1. Stream' = Stream /\ reader' = "head"
        BY <1>2, <1>4, <2>6
      <3>2. StreamInOrder'
        BY <1>1, <2>2, <3>1 DEF StreamInOrder
      <3>3. AtABoundary'
        <4>1. Front' = Front
          BY <1>1, <3>1 DEF Front
        <4>2. AllHandedBefore(Front) => AllHandedBefore(Front)'
          BY <1>1, <2>2, <4>1 DEF AllHandedBefore
        <4> QED
          BY <1>1, <2>2, <3>1, <4>1, <4>2 DEF AtABoundary
      <3> QED
        BY <1>7, <2>3, <2>4, <2>5, <3>2, <3>3 DEF FramesInv
    <2>7. CASE r # "incomplete"
      <3>1. buf' = <<>> /\ reader' \in {"astray", "ended"}
        BY <1>2, <1>8, <2>7
      <3>2. Stream' = SubSeq(Stream, Len(data) + 1, Len(Stream))
        BY <1>5, <3>1
      <3>3. StreamInOrder'
        BY <1>1, <1>5, <2>2, <3>1, <3>2, Consumed
      <3> QED
        BY <1>7, <2>3, <2>4, <2>5, <3>1, <3>3, NoClaims DEF FramesInv
    <2> QED
      BY <2>6, <2>7
  <1>9. ASSUME NEW c \in 1 .. Len(sent), data[1][1] = c, Stream[1] = <<c, 1>>,
               r = sent[c].op, FrameLen(sent[c]) <= Len(data)
        PROVE  FramesInv'
    <2>1. sent[c] \in ClientFrames /\ Len(sent) \in Nat
      BY <1>1, StreamType
    <2>2. /\ r \in Opcodes /\ r \notin {"incomplete", "astray", "raises"}
          /\ sent[c].len \in {fr.len : fr \in ClientFrames} /\ FrameLen(sent[c]) \in Nat
      BY <1>9, <2>1, FrameSizes DEF Opcodes
    <2>3. /\ buf' = <<>>
          /\ (spilled' <=> spilled \/ Len(data) > FrameLen(sent[c]))
          /\ reader' = IF r = "CLOSE" THEN "ended" ELSE "head"
          /\ handed' = IF r = "TEXT" THEN Append(handed, c) ELSE handed
          /\ IF r = "PING" THEN written' = Append(written, encode_frame(sent[c].len))
                           ELSE written' = written
      BY <1>2, <1>9, <2>2
    <2>4. Stream' = SubSeq(Stream, Len(data) + 1, Len(Stream))
      BY <1>5, <2>3
    <2>5. c # 0 /\ c \in Nat /\ 1 \in Nat
      BY <2>1
    <2>6. GoesOn(Stream, sent, c, 1)
      BY <1>1, <1>6, <1>9, <2>5, Begins
    <2>7. \A p \in Len(data) + 1 .. Len(Stream) : c < Stream[p][1]
      <3>1. \A q \in FrameLen(sent[c]) - 1 + 2 .. Len(Stream) : c < Stream[q][1]
        BY <2>6 DEF GoesOn
      <3>2. \A p \in Len(data) + 1 .. Len(Stream) : p \in FrameLen(sent[c]) - 1 + 2 .. Len(Stream)
        BY <1>3, <1>5, <1>9, <2>2
      <3> QED
        BY <3>1, <3>2
    <2>8. \A i \in DOMAIN handed : handed[i] < c
      <3>1. 1 \in DOMAIN Stream /\ Stream[1][1] = c
        BY <1>1, <1>5, <1>9, StreamType
      <3> QED
        BY <1>1, <3>1 DEF StreamInOrder
    <2>9. ~ spilled => AllHandedBefore(c)
      <3>1. Front = c
        BY <1>6, <1>9 DEF Front
      <3> QED
        BY <1>1, <3>1 DEF AtABoundary
    <2>10. handed' \in Seq(1 .. Len(sent')) /\ InOrder' /\ (~ spilled => AllHandedBefore(c + 1)')
      <3>1. CASE r = "TEXT"
        <4>1. handed' = Append(handed, c)
          BY <2>3, <3>1
        <4>2. spilled' \/ AllHandedBefore(c)
          BY <1>7, <2>9
        <4>3. sent' = sent /\ sent[c].op = "TEXT" /\ (spilled => spilled')
          BY <1>1, <1>7, <1>9, <3>1
        <4>4. /\ handed' \in Seq(1 .. Len(sent')) /\ InOrder'
              /\ AllHandedBefore(c) => AllHandedBefore(c + 1)'
          BY <1>1, <2>8, <4>1, <4>2, <4>3, HandOn
        <4> QED
          BY <2>9, <4>4
      <3>2. CASE r # "TEXT"
        <4>1. /\ handed' \in Seq(1 .. Len(sent')) /\ InOrder'
              /\ AllHandedBefore(c) /\ sent[c].op # "TEXT" => AllHandedBefore(c + 1)'
          BY <1>1, <1>7, <2>3, <3>2, HandNothing
        <4> QED
          BY <1>9, <2>9, <3>2, <4>1
      <3> QED
        BY <3>1, <3>2
    <2>11. StreamInOrder'
      <3>1. handed' = handed
            \/ \E d \in 1 .. Len(sent) : handed' = Append(handed, d)
                  /\ \A p \in Len(data) + 1 .. Len(Stream) : d < Stream[p][1]
        BY <2>3, <2>7
      <3>2. reader \notin {"upgrade", "ended"} /\ reader' # "upgrade" /\ impl # "manual"
        BY <1>1, <1>7
      <3> QED
        BY <1>1, <1>5, <2>4, <3>1, <3>2, Consumed
    <2>12. AtABoundary'
      <3>1. CASE spilled'
        BY <3>1 DEF AtABoundary
      <3>2. CASE ~ spilled'
        <4>1. ~ spilled /\ Len(data) = FrameLen(sent[c]) - 1 + 1
          BY <1>5, <1>7, <1>9, <2>2, <2>3, <3>2
        <4> QED
          BY <1>1, <1>6, <1>9, <2>4, <2>5, <2>10, <4>1, NextFrame
      <3> QED
        BY <3>1, <3>2
    <2>13. written' \in Seq(Header) /\ RepliesReadable'
      <3>1. CASE r = "PING"
        <4>1. /\ encode_frame(sent[c].len) \in Header /\ Readable(encode_frame(sent[c].len))
          BY <2>2, EncodedReadable
        <4> QED
          BY <1>1, <2>3, <3>1, <4>1, HeaderWritten
      <3>2. CASE r # "PING"
        BY <1>1, <2>3, <3>2 DEF FramesTypeOK, RepliesReadable
      <3> QED
        BY <3>1, <3>2
    <2>14. FramesTypeOK'
      BY <1>1, <1>4, <1>7, <2>10, <2>13 DEF FramesTypeOK
    <2> QED
      BY <1>7, <2>10, <2>11, <2>12, <2>13, <2>14 DEF FramesInv
  <1> QED
    BY <1>6, <1>8, <1>9

-----------------------------------------------------------------------------
(* The server's own frames                                                 *)

\* Sending adds a readable header and disturbs no reader.
LEMMA SendsKeep ==
  ASSUME FramesInv, NEW len \in ReplyLengths, ManualSend(len) \/ RawSend(len)
  PROVE  FramesInv'
  <1>1. FramesTypeOK /\ RepliesReadable
    BY DEF FramesInv
  <1>2. /\ written' = Append(written, encode_frame(len))
        /\ UNCHANGED <<impl, sent, wire, reader, current, need, buf, spilled, handed>>
    BY DEF ManualSend, RawSend, encode_frame
  <1>3. encode_frame(len) \in Header /\ Readable(encode_frame(len))
    BY EncodedReadable
  <1>4. written' \in Seq(Header) /\ RepliesReadable'
    BY <1>1, <1>2, <1>3, HeaderWritten
  <1> QED
    BY <1>2, <1>4, Quiet

\* So does closing, which ends the reader.
LEMMA RawCloseKeeps == FramesInv /\ RawClose => FramesInv'
  <1> SUFFICES ASSUME FramesInv, RawClose PROVE FramesInv'
    OBVIOUS
  <1>1. FramesTypeOK /\ RepliesReadable
    BY DEF FramesInv
  <1>2. /\ written' = Append(written, encode_frame(0)) /\ reader' = "ended"
        /\ UNCHANGED <<impl, sent, wire, current, need, buf, spilled, handed>>
    BY DEF RawClose
  <1>3. encode_frame(0) \in Header /\ Readable(encode_frame(0))
    BY EncodedReadable
  <1>4. written' \in Seq(Header) /\ RepliesReadable'
    BY <1>1, <1>2, <1>3, HeaderWritten
  <1> QED
    BY <1>2, <1>4, Quiet

-----------------------------------------------------------------------------
(* The theorems                                                            *)

\* Every step keeps the invariant.
LEMMA FramesInductive == FramesInv /\ [FramesNext]_framesVars => FramesInv'
  <1> SUFFICES ASSUME FramesInv, [FramesNext]_framesVars PROVE FramesInv'
    OBVIOUS
  <1>1. ASSUME NEW fr \in ClientFrames, ClientSends(fr) PROVE FramesInv'
    BY <1>1, ClientSendsKeeps
  <1>2. ASSUME NEW k \in 1 .. Len(wire), Read(k) PROVE FramesInv'
    BY <1>2, ManualUpgradeKeeps, ManualHeadKeeps, ManualDigitsKeeps, ManualKeyKeeps,
       ManualPayloadKeeps, ManualAstrayKeeps, RawUpgradeKeeps, RawRecvKeeps DEF Read
  <1>3. ASSUME NEW len \in ReplyLengths, ManualSend(len) \/ RawSend(len) PROVE FramesInv'
    BY <1>3, SendsKeep
  <1>4. CASE RawClose
    BY <1>4, RawCloseKeeps
  <1>5. CASE ConnectionLost \/ UNCHANGED framesVars
    <2>1. /\ UNCHANGED <<impl, sent, wire, current, need, buf, spilled, handed, written>>
          /\ reader' \in {reader, "ended"}
      BY <1>5 DEF ConnectionLost, client, framesVars
    <2>2. written' \in Seq(Header) /\ RepliesReadable'
      BY <2>1 DEF FramesInv, FramesTypeOK, RepliesReadable
    <2> QED
      BY <2>1, <2>2, Quiet
  <1> QED
    BY <1>1, <1>2, <1>3, <1>4, <1>5 DEF FramesNext

\* Every variable of the two WebSocket implementations keeps its type.
THEOREM FramesTyped == FramesSpec => []FramesTypeOK
  <1>1. FramesInv => FramesTypeOK
    BY DEF FramesInv
  <1> QED
    BY <1>1, FramesInitially, FramesInductive, PTL DEF FramesSpec

\* However TCP cuts the stream, payloads are handed on in order, each once and,
\* unless RawWebSocket read beyond a frame, none left out.
THEOREM HandedInOrder == FramesSpec => []InOrder
  <1>1. FramesInv => InOrder
    BY DEF FramesInv
  <1> QED
    BY <1>1, FramesInitially, FramesInductive, PTL DEF FramesSpec

\* The length a client reads in a header is the length of the payload, whatever
\* the base, the field widths and the lengths are.
THEOREM HeadersReadable == FramesSpec => []RepliesReadable
  <1>1. FramesInv => RepliesReadable
    BY DEF FramesInv
  <1> QED
    BY <1>1, FramesInitially, FramesInductive, PTL DEF FramesSpec

=============================================================================
