---------------------------- MODULE ManualServer ----------------------------
(***************************************************************************)
(* ManualWsServer (ws/manual_server.py): the WebSocket server with a       *)
(* thread per connection, which shares the AgentManager with the rest of   *)
(* the Forwarder.  The threads hand everything that touches the manager to *)
(* an event loop of their own: a FIFO queue of coroutines that one thread  *)
(* runs, from some time after start() until stop().                        *)
(***************************************************************************)
EXTENDS Naturals, Sequences, FiniteSets

CONSTANTS
    Agents,
    Unnamed,   \* the agents whose id is empty or "<unknown>"
    Sessions,  \* TCP connections, each used once
    None

ASSUME ManualUnnamedAssumption == Unnamed \subseteq Agents
ASSUME ManualNoneAssumption == None \notin Sessions /\ None \notin Agents

VARIABLES
    running,    \* _running
    loop,       \* _loop: None, running, or stopped
    stop,       \* where stop() is
    conn,       \* where the thread of each connection is
    who,        \* agent_id of a verified handshake
    scheduled,  \* connections whose thread found a loop to register with
    queue,      \* coroutines on the loop
    by_agent,   \* AgentManager's entries: the connection behind each
    added       \* connections whose add_agent has run

vars == <<running, loop, stop, conn, who, scheduled, queue, by_agent, added>>
server == <<running, loop, stop>>

Coroutines == [op : {"add", "remove"}, agent : Agents, session : Sessions]

TypeOK ==
    /\ running \in BOOLEAN
    /\ loop \in {"unset", "running", "stopped"}
    /\ stop \in {"idle", "flagged", "done"}
    /\ conn \in [Sessions -> {"new", "handshake", "verified", "adding", "loop", "leaving", "gone"}]
    /\ who \in [Sessions -> Agents \cup {None}]
    /\ scheduled \subseteq Sessions /\ added \subseteq Sessions
    /\ queue \in Seq(Coroutines)
    /\ by_agent \in [Agents -> Sessions \cup {None}]

\* After start(), whose two threads are on their way.
Init ==
    /\ running = TRUE /\ loop = "unset" /\ stop = "idle"
    /\ conn = [s \in Sessions |-> "new"]
    /\ who = [s \in Sessions |-> None]
    /\ scheduled = {} /\ added = {}
    /\ queue = <<>>
    /\ by_agent = [a \in Agents |-> None]

-----------------------------------------------------------------------------
(* The event loop                                                          *)

LoopStarts ==
    /\ loop = "unset" /\ loop' = "running"
    /\ UNCHANGED <<running, stop, conn, who, scheduled, queue, by_agent, added>>

\* run_coroutine_threadsafe: a loop that has stopped still takes coroutines.
Schedules(op, s) ==
    queue' = Append(queue, [op |-> op, agent |-> who[s], session |-> s])

\* Faulty variant of LoopRuns: the loop takes no coroutine once _running is unset.
LoopRunsWhileRunning ==
    /\ running
    /\ loop = "running" /\ queue # <<>>
    /\ LET c == Head(queue) IN
       /\ by_agent' = [by_agent EXCEPT ![c.agent] = IF c.op = "add" THEN c.session ELSE None]
       /\ added' = IF c.op = "add" THEN added \cup {c.session} ELSE added
    /\ queue' = Tail(queue)
    /\ UNCHANGED <<server, conn, who, scheduled>>

\* The loop runs add_agent or remove_agent of the manager to its end.
LoopRuns ==
    /\ loop = "running" /\ queue # <<>>
    /\ LET c == Head(queue) IN
       /\ by_agent' = [by_agent EXCEPT ![c.agent] = IF c.op = "add" THEN c.session ELSE None]
       /\ added' = IF c.op = "add" THEN added \cup {c.session} ELSE added
    /\ queue' = Tail(queue)
    /\ UNCHANGED <<server, conn, who, scheduled>>

-----------------------------------------------------------------------------
(* _accept_loop and _handle_client                                         *)

Accept(s) ==
    /\ running /\ conn[s] = "new"
    /\ conn' = [conn EXCEPT ![s] = "handshake"]
    /\ UNCHANGED <<server, who, scheduled, queue, by_agent, added>>

\* Faulty variant of HandshakeDone: the thread goes on as nobody.
HandshakeDoneUnnamed(s, a) ==
    /\ conn[s] = "handshake"
    /\ conn' = [conn EXCEPT ![s] = "verified"]
    /\ who' = [who EXCEPT ![s] = s]
    /\ UNCHANGED <<server, scheduled, queue, by_agent, added>>

\* Upgrade, HandshakeInit with a valid signature, HandshakeAck.
HandshakeDone(s, a) ==
    /\ conn[s] = "handshake"
    /\ conn' = [conn EXCEPT ![s] = "verified"]
    /\ who' = [who EXCEPT ![s] = a]
    /\ UNCHANGED <<server, scheduled, queue, by_agent, added>>

\* No upgrade, no frame, bad JSON or a bad signature: the finally clause then
\* trips over the unassigned variable loop, and nothing is unregistered.
HandshakeFails(s) ==
    /\ conn[s] = "handshake"
    /\ conn' = [conn EXCEPT ![s] = "gone"]
    /\ UNCHANGED <<server, who, scheduled, queue, by_agent, added>>

\* With a loop, schedule add_agent and wait; without one, go on unregistered.
Register(s) ==
    /\ conn[s] = "verified"
    /\ IF loop = "unset"
       THEN conn' = [conn EXCEPT ![s] = "loop"] /\ UNCHANGED <<scheduled, queue>>
       ELSE /\ conn' = [conn EXCEPT ![s] = "adding"]
            /\ scheduled' = scheduled \cup {s}
            /\ Schedules("add", s)
    /\ UNCHANGED <<server, who, by_agent, added>>

AddReturns(s) ==
    /\ conn[s] = "adding" /\ s \in added
    /\ conn' = [conn EXCEPT ![s] = "loop"]
    /\ UNCHANGED <<server, who, scheduled, queue, by_agent, added>>

\* future.result(timeout=5) raises; the coroutine stays on the loop.
AddTimesOut(s) ==
    /\ conn[s] = "adding" /\ s \notin added
    /\ conn' = [conn EXCEPT ![s] = "leaving"]
    /\ UNCHANGED <<server, who, scheduled, queue, by_agent, added>>

\* The I/O loop ends: a close frame, an error, 30 s without a frame, or stop().
ConnEnds(s) ==
    /\ conn[s] = "loop"
    /\ conn' = [conn EXCEPT ![s] = "leaving"]
    /\ UNCHANGED <<server, who, scheduled, queue, by_agent, added>>

\* Faulty variant of Leaves: only a registered connection is removed.
LeavesIfAdded(s) ==
    /\ conn[s] = "leaving"
    /\ conn' = [conn EXCEPT ![s] = "gone"]
    /\ IF s \in added THEN Schedules("remove", s) ELSE UNCHANGED queue
    /\ UNCHANGED <<server, who, scheduled, by_agent, added>>

\* The finally clause: schedule remove_agent, do not wait, close the socket.  An
\* agent_id that is empty or "<unknown>" is never unregistered.
Leaves(s) ==
    /\ conn[s] = "leaving"
    /\ conn' = [conn EXCEPT ![s] = "gone"]
    /\ IF s \in scheduled /\ who[s] \notin Unnamed THEN Schedules("remove", s) ELSE UNCHANGED queue
    /\ UNCHANGED <<server, who, scheduled, by_agent, added>>

-----------------------------------------------------------------------------
(* stop()                                                                  *)

StopFlag ==
    /\ stop = "idle" /\ stop' = "flagged" /\ running' = FALSE
    /\ UNCHANGED <<loop, conn, who, scheduled, queue, by_agent, added>>

\* loop.stop and the joins: what is still on the loop will not run.
StopLoop ==
    /\ stop = "flagged" /\ stop' = "done"
    /\ loop' = IF loop = "running" THEN "stopped" ELSE loop
    /\ UNCHANGED <<running, conn, who, scheduled, queue, by_agent, added>>

-----------------------------------------------------------------------------
Next ==
    \/ LoopStarts \/ LoopRuns \/ StopFlag \/ StopLoop
    \/ \E s \in Sessions :
         \/ Accept(s) \/ HandshakeFails(s) \/ Register(s) \/ AddReturns(s)
         \/ AddTimesOut(s) \/ ConnEnds(s) \/ Leaves(s)
    \/ \E s \in Sessions, a \in Agents : HandshakeDone(s, a)

Spec == Init /\ [][Next]_vars

\* The loop's thread and the connections' threads run; after stop() every I/O
\* loop ends within its 30 s.
Fairness ==
    /\ WF_vars(LoopRuns)
    /\ \A s \in Sessions : WF_vars(Leaves(s)) /\ WF_vars(ConnEnds(s) /\ ~ running)

FairSpec == Spec /\ Fairness

-----------------------------------------------------------------------------
(* Properties                                                              *)

\* An entry of the manager belongs to a connection whose thread is still there,
\* or its removal is on the loop: also when a registration overruns its timeout
\* and is carried out after the thread has left, and when several connections
\* of one agent overlap (manual_server.py:217-222, 271-281).  The entry of an agent
\* without a name stays for good (manual_server.py:273).
EntryHasThread ==
    \A a \in Agents \ Unnamed :
        LET s == by_agent[a] IN
        s # None =>
            \/ conn[s] # "gone"
            \/ \E k \in DOMAIN queue : queue[k].op = "remove" /\ queue[k].agent = a

\* The invariant EntryHasThread rests on.  A thread that got past the handshake
\* has a name, and what it put on the loop or left in the manager bears it; a
\* removal is scheduled by the thread's last step; and an add_agent that is still
\* to run for a thread that has left has a removal behind it in the queue.
ThreadsAreNamed ==
    /\ \A s \in Sessions :
          conn[s] \in {"verified", "adding", "loop", "leaving"} => who[s] \in Agents
    /\ \A s \in scheduled :
          conn[s] \in {"adding", "loop", "leaving", "gone"} /\ who[s] \in Agents

WorkIsOfItsThread ==
    /\ \A k \in DOMAIN queue : queue[k].session \in scheduled /\ queue[k].agent = who[queue[k].session]
    /\ \A a \in Agents : by_agent[a] # None => by_agent[a] \in scheduled /\ who[by_agent[a]] = a

LateAddIsUndone ==
    \A k \in DOMAIN queue :
        queue[k].op = "add" /\ queue[k].agent \notin Unnamed /\ conn[queue[k].session] = "gone" =>
            \E l \in DOMAIN queue : l > k /\ queue[l].op = "remove" /\ queue[l].agent = queue[k].agent

ServerInv == TypeOK /\ ThreadsAreNamed /\ WorkIsOfItsThread /\ LateAddIsUndone /\ EntryHasThread

\* A connection that is over does not stay registered, unless stop() takes the
\* loop away first (manual_server.py:92-93, 271-281), or the agent has no name.
GoneIsForgotten ==
    \A a \in Agents \ Unnamed, s \in Sessions :
        (by_agent[a] = s /\ conn[s] = "gone") ~> (by_agent[a] # s \/ loop = "stopped")

=============================================================================
