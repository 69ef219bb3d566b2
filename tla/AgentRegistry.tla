---------------------------- MODULE AgentRegistry ----------------------------
(***************************************************************************)
(* The Forwarder's side of the Agent connections: AgentManager             *)
(* (ws/agent_manager.py), the handler of one WebSocket connection          *)
(* (ws/agent_handler.py) and the calls that route a message to an Agent.   *)
(*                                                                         *)
(* Every method of AgentManager runs under one asyncio lock without an     *)
(* await inside, so it is one step.  The handler of a connection and the   *)
(* senders interleave between those steps.                                 *)
(***************************************************************************)
EXTENDS Naturals, FiniteSets

CONSTANTS
    Agents,        \* agent ids
    Projects,      \* project names
    Lists,         \* the lists of projects each agent may declare in a HandshakeInit
    Unnamed,       \* the agents whose id is empty or "<unknown>"
    Sessions,      \* WebSocket connections, each used once
    Senders,       \* tasks that call send_to_project or send_to_agent
    None

ASSUME ListsAssumption == Lists \in [Agents -> SUBSET SUBSET Projects]
ASSUME UnnamedAssumption == Unnamed \subseteq Agents
ASSUME NoneAssumption == None \notin Sessions /\ None \notin Agents
ASSUME KeyAssumption == Agents \cap Projects = {}

VARIABLES
    phase,             \* where the handler of each connection is
    who,               \* the agent at the other end
    projects,          \* the list of its handshake
    link,              \* the connection itself: "up", "silent" (the peer is gone and
                       \* nothing tells), "down" (the transport reports it)
    by_agent,          \* _by_agent: the connection whose send closure is registered
    project_to_agent,  \* _project_to_agent
    stopped,           \* _stopped
    sender,            \* what each sender looked up
    overlapped         \* history: agents that reconnected before their last handler had ended

vars == <<phase, who, projects, link, by_agent, project_to_agent, stopped, sender, overlapped>>
managerVars == <<by_agent, project_to_agent, stopped>>

Phases == {"new", "handshake", "connected", "loop", "leaving", "gone"}
Keys == Agents \cup Projects

TypeOK ==
    /\ phase \in [Sessions -> Phases]
    /\ who \in [Sessions -> Agents \cup {None}]
    /\ projects \in [Sessions -> SUBSET Projects]
    /\ link \in [Sessions -> {"up", "silent", "down"}]
    /\ by_agent \in [Agents -> Sessions \cup {None}]
    /\ project_to_agent \in [Projects -> Agents \cup {None}]
    /\ stopped \in BOOLEAN
    /\ sender \in [Senders -> [key : Keys \cup {None}, info : Sessions \cup {None}]]
    /\ overlapped \subseteq Agents

NoLookup == [key |-> None, info |-> None]

Init ==
    /\ phase = [s \in Sessions |-> "new"]
    /\ who = [s \in Sessions |-> None]
    /\ projects = [s \in Sessions |-> {}]
    /\ link = [s \in Sessions |-> "down"]
    /\ by_agent = [a \in Agents |-> None]
    /\ project_to_agent = [p \in Projects |-> None]
    /\ stopped = FALSE
    /\ sender = [x \in Senders |-> NoLookup]
    /\ overlapped = {}

-----------------------------------------------------------------------------
(* AgentManager                                                            *)

\* Faulty variants of add_agent: the manager's stop is forgotten; the projects
\* are not indexed.
add_agent_after_stop(a, list, s) ==
    /\ by_agent' = [by_agent EXCEPT ![a] = s]
    /\ project_to_agent' = [p \in Projects |->
                              IF p \in list THEN a ELSE project_to_agent[p]]
    /\ UNCHANGED stopped
add_agent_without_projects(a, list, s) ==
    /\ by_agent' = IF stopped THEN by_agent ELSE [by_agent EXCEPT ![a] = s]
    /\ UNCHANGED <<project_to_agent, stopped>>

\* The agent's entry is replaced; the routes of the entry it replaces stay, also
\* those of projects that are not on the new list.
add_agent(a, list, s) ==
    IF stopped
    THEN UNCHANGED managerVars
    ELSE /\ by_agent' = [by_agent EXCEPT ![a] = s]
         /\ project_to_agent' = [p \in Projects |->
                                   IF p \in list THEN a ELSE project_to_agent[p]]
         /\ UNCHANGED stopped

\* Faulty variants of remove_agent: the project index is left as it is; nothing
\* is removed.
remove_agent_keeping_projects(a) ==
    /\ by_agent' = [by_agent EXCEPT ![a] = None]
    /\ UNCHANGED <<project_to_agent, stopped>>
remove_agent_noop(a) == UNCHANGED managerVars

remove_agent(a) ==
    IF stopped
    THEN UNCHANGED managerVars
    ELSE /\ by_agent' = [by_agent EXCEPT ![a] = None]
         /\ project_to_agent' = [p \in Projects |->
                                   IF project_to_agent[p] = a THEN None
                                                              ELSE project_to_agent[p]]
         /\ UNCHANGED stopped

get_by_agent(a) == by_agent[a]

get_by_project(p) ==
    IF project_to_agent[p] = None THEN None ELSE by_agent[project_to_agent[p]]

\* Lifespan shutdown.
StopAll ==
    /\ ~ stopped
    /\ stopped' = TRUE
    /\ by_agent' = [a \in Agents |-> None]
    /\ project_to_agent' = [p \in Projects |-> None]
    /\ UNCHANGED <<phase, who, projects, link, sender, overlapped>>

-----------------------------------------------------------------------------
(* The Agent and the network, external.  An Agent has one WsClient, which  *)
(* connects again only when its own end of the last connection is over.    *)

Connect(s, a) ==
    /\ phase[s] = "new"
    /\ \A r \in Sessions \ {s} : who[r] = a => link[r] # "up"
    /\ overlapped' = IF \E r \in Sessions \ {s} : who[r] = a /\ phase[r] # "gone"
                     THEN overlapped \cup {a} ELSE overlapped
    /\ phase' = [phase EXCEPT ![s] = "handshake"]
    /\ who' = [who EXCEPT ![s] = a]
    /\ link' = [link EXCEPT ![s] = "up"]
    /\ UNCHANGED <<projects, by_agent, project_to_agent, stopped, sender>>

LinkBreaks(s) ==
    /\ link[s] = "up"
    /\ \E l \in {"silent", "down"} : link' = [link EXCEPT ![s] = l]
    /\ UNCHANGED <<phase, who, projects, by_agent, project_to_agent, stopped, sender, overlapped>>

\* The transport gives up on a peer that has gone silent.
LinkTimesOut(s) ==
    /\ link[s] = "silent"
    /\ link' = [link EXCEPT ![s] = "down"]
    /\ UNCHANGED <<phase, who, projects, by_agent, project_to_agent, stopped, sender, overlapped>>

-----------------------------------------------------------------------------
(* handle_agent_connection                                                 *)

\* _do_handshake returns: the Agent's HandshakeInit was complete and its
\* signature valid, and the HandshakeAck was sent.  The list of projects is the
\* one of this handshake; an Agent restarted with another configuration sends
\* another list.
HandshakeDone(s) ==
    /\ phase[s] = "handshake"
    /\ link[s] # "down"
    /\ \E list \in Lists[who[s]] : projects' = [projects EXCEPT ![s] = list]
    /\ phase' = [phase EXCEPT ![s] = "connected"]
    /\ UNCHANGED <<who, link, by_agent, project_to_agent, stopped, sender, overlapped>>

\* _do_handshake raises: agent_id is still "<unknown>", so the handler ends
\* without unregistering anybody, and the server closes the connection.
HandshakeFails(s) ==
    /\ phase[s] = "handshake"
    /\ phase' = [phase EXCEPT ![s] = "gone"]
    /\ link' = [link EXCEPT ![s] = "down"]
    /\ UNCHANGED <<who, projects, by_agent, project_to_agent, stopped, sender, overlapped>>

\* After connect_cb: register and enter the I/O loop, registered or not.
Register(s) ==
    /\ phase[s] = "connected"
    /\ add_agent(who[s], projects[s], s)
    /\ phase' = [phase EXCEPT ![s] = "loop"]
    /\ UNCHANGED <<who, projects, link, sender, overlapped>>

\* Faulty variant of LoopEnds: the loop goes on after a disconnect, as it does
\* after a send that failed.
LoopEndsWhileUp(s) ==
    /\ phase[s] = "loop"
    /\ link[s] = "up"
    /\ phase' = [phase EXCEPT ![s] = "leaving"]
    /\ link' = [link EXCEPT ![s] = "down"]
    /\ UNCHANGED <<who, projects, by_agent, project_to_agent, stopped, sender, overlapped>>

\* The I/O loop ends: receive_text reports the disconnect, or a frame raises an
\* exception that the loop does not handle.  A heartbeat never ends it, because
\* send_encrypted turns every exception into False.
LoopEnds(s) ==
    /\ phase[s] = "loop"
    /\ link[s] # "silent"
    /\ phase' = [phase EXCEPT ![s] = "leaving"]
    /\ link' = [link EXCEPT ![s] = "down"]
    /\ UNCHANGED <<who, projects, by_agent, project_to_agent, stopped, sender, overlapped>>

\* The finally clause: unregister by agent id, unless the id is empty or
\* "<unknown>", as it is before a handshake.
Cleanup(s) ==
    /\ phase[s] = "leaving"
    /\ IF who[s] \in Unnamed THEN UNCHANGED managerVars ELSE remove_agent(who[s])
    /\ phase' = [phase EXCEPT ![s] = "gone"]
    /\ UNCHANGED <<who, projects, link, sender, overlapped>>

-----------------------------------------------------------------------------
(* send_to_agent and send_to_project: the lookup is under the lock, the    *)
(* send is not.                                                            *)

Lookup(x, key) ==
    /\ sender[x] = NoLookup
    /\ LET info == IF key \in Projects THEN get_by_project(key) ELSE get_by_agent(key) IN
       /\ info # None
       /\ sender' = [sender EXCEPT ![x] = [key |-> key, info |-> info]]
    /\ UNCHANGED <<phase, who, projects, link, by_agent, project_to_agent, stopped, overlapped>>

\* send_encrypted: the frame is written to the connection looked up (a silent peer
\* will not get it), or the connection is down and the answer is False.
Send(x) ==
    /\ sender[x] # NoLookup
    /\ sender' = [sender EXCEPT ![x] = NoLookup]
    /\ UNCHANGED <<phase, who, projects, link, by_agent, project_to_agent, stopped, overlapped>>

-----------------------------------------------------------------------------
Next ==
    \/ StopAll
    \/ \E s \in Sessions, a \in Agents : Connect(s, a)
    \/ \E s \in Sessions :
         \/ LinkBreaks(s) \/ LinkTimesOut(s) \/ HandshakeDone(s) \/ HandshakeFails(s)
         \/ Register(s) \/ LoopEnds(s) \/ Cleanup(s)
    \/ \E x \in Senders, key \in Keys : Lookup(x, key)
    \/ \E x \in Senders : Send(x)

Spec == Init /\ [][Next]_vars

\* The event loop runs every handler; a transport with a dead peer gives up
\* in the end.
Fairness ==
    \A s \in Sessions :
        /\ WF_vars(LinkTimesOut(s))
        /\ WF_vars(LoopEnds(s) /\ link[s] = "down")
        /\ WF_vars(Cleanup(s))

FairSpec == Spec /\ Fairness

-----------------------------------------------------------------------------
(* Properties                                                              *)

\* Both indexes agree: a project is never mapped to an agent that has no
\* entry, and the entry of an agent is a connection of that agent
\* (agent_manager.py:61-63, 74-79).
IndexConsistent ==
    /\ \A p \in Projects :
          project_to_agent[p] # None => by_agent[project_to_agent[p]] # None
    /\ \A a \in Agents : by_agent[a] # None => who[by_agent[a]] = a

\* The send closure of a connection whose handler has ended is not in the
\* registry, however connections of one agent overlap: a later cleanup may
\* remove too much, never too little (agent_handler.py:89, 169-172).  An agent
\* without a name is never removed.
NoFinishedSession ==
    \A a \in Agents \ Unnamed : by_agent[a] # None => phase[by_agent[a]] \in {"loop", "leaving"}

\* Once stopped, the manager stays empty: no handshake that completes during
\* the shutdown registers (agent_manager.py:52-53, 127-131).
EmptyAfterStop ==
    stopped => /\ \A a \in Agents : by_agent[a] = None
               /\ \A p \in Projects : project_to_agent[p] = None

\* The agents for which a route may outlive the list that made it: those that
\* registered over an entry still there.
KeepsRoutes == overlapped \cup Unnamed

\* Connection s is one that messages for key may use: a connection of the agent
\* named; for a project, one that declared it in its own handshake, or at least
\* of an agent that did so in a handshake before.
Routable(key, s) ==
    /\ phase[s] # "new"
    /\ IF key \in Projects
       THEN /\ \E r \in Sessions : who[r] = who[s] /\ key \in projects[r]
            /\ who[s] \notin KeepsRoutes => key \in projects[s]
       ELSE who[s] = key

\* A message for a project is written to a connection whose own handshake declared
\* the project, although lists change from one handshake to the next and the
\* registry changes between lookup and send.  Only an agent that registered over an
\* entry of its own still there keeps the routes of that entry, and then the project
\* is on an earlier list of it (agent_manager.py:45-63, 97-115).
RoutedToDeclaring ==
    \A x \in Senders : sender[x] # NoLookup => Routable(sender[x].key, sender[x].info)

\* An agent that never reconnected before its last handler had ended has one handler
\* between accept and cleanup.
Handled(s) == phase[s] \notin {"new", "gone"}

OneHandler ==
    \A r, s \in Sessions :
        Handled(r) /\ Handled(s) /\ who[r] = who[s] /\ who[s] \notin overlapped => r = s

\* What holds of each connection: it keeps its agent for good from its accept, and
\* has no list before its handshake.
SessionInv ==
    /\ \A s \in Sessions : phase[s] # "new" => who[s] \in Agents
    /\ \A s \in Sessions : phase[s] \in {"new", "handshake"} => projects[s] = {}
    /\ OneHandler

\* A route leads to a connection of an agent that declared the project.
RoutesDeclared ==
    \A p \in Projects :
        project_to_agent[p] # None => Routable(p, by_agent[project_to_agent[p]])

EntriesRegistered ==
    \A a \in Agents : by_agent[a] # None => phase[by_agent[a]] \in {"loop", "leaving", "gone"}

\* The inductive strengthening of the invariants above: a new registration of an
\* agent with one handler meets no entry, hence no route, of an earlier one.
RegistryInv ==
    /\ TypeOK
    /\ SessionInv
    /\ IndexConsistent
    /\ EntriesRegistered
    /\ NoFinishedSession
    /\ EmptyAfterStop
    /\ RoutesDeclared
    /\ \A x \in Senders : sender[x] # NoLookup => sender[x].key \in Keys /\ sender[x].info \in Sessions
    /\ RoutedToDeclaring

\* An agent that never reconnected before its last handler had ended is found
\* by its id while it is in its I/O loop, and by each project of its list that no
\* other agent declares: cleanups and registrations of other agents, and its own
\* earlier connections, take nothing away (agent_manager.py:45-93).
ConnectedIsRouted ==
    \A s \in Sessions :
        (phase[s] = "loop" /\ ~ stopped /\ who[s] \notin overlapped) =>
            /\ get_by_agent(who[s]) = s
            /\ \A p \in projects[s] :
                  (\A r \in Sessions : p \in projects[r] => who[r] = who[s]) => get_by_project(p) = s

\* The invariant ConnectedIsRouted rests on: nobody else can register or unregister
\* such an agent, and the index entry of a project of its own is its.
OwnProjects(s) == {p \in projects[s] : \A r \in Sessions : p \in projects[r] => who[r] = who[s]}

LoopIsIndexed ==
    \A s \in Sessions :
        phase[s] = "loop" /\ ~ stopped /\ who[s] \notin overlapped =>
            /\ by_agent[who[s]] = s
            /\ \A p \in OwnProjects(s) : project_to_agent[p] = who[s]

RoutingInv == RegistryInv /\ LoopIsIndexed

\* A connection that breaks leaves the registry, also when the peer vanishes
\* silently; until then its agent may be looked up (agent_handler.py:156-172).
\* Only that of an agent without a name stays.
BrokenLinkIsForgotten ==
    \A s \in Sessions :
        (link[s] # "up" /\ who[s] \notin Unnamed) ~> (\A a \in Agents : by_agent[a] # s)

=============================================================================
