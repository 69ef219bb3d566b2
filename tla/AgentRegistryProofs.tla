------------------------- MODULE AgentRegistryProofs -------------------------
(***************************************************************************)
(* Theorems about AgentRegistry, for any number of agents, projects,       *)
(* connections and senders, with overlapping connections of one agent and  *)
(* lists of projects that change from one handshake to the next.           *)
(***************************************************************************)
EXTENDS AgentRegistry, TLAPS

\* Nobody is registered at the start.
LEMMA InitRegistryInv == Init => RegistryInv
  <1> SUFFICES ASSUME Init PROVE RegistryInv
    OBVIOUS
  <1>1. TypeOK
    BY DEF Init, TypeOK, Phases, NoLookup
  <1>2. SessionInv
    BY DEF Init, SessionInv, OneHandler, Handled
  <1>3. /\ IndexConsistent /\ NoFinishedSession /\ EmptyAfterStop
        /\ EntriesRegistered /\ RoutesDeclared /\ RoutedToDeclaring
    BY NoneAssumption DEF Init, IndexConsistent, NoFinishedSession, EmptyAfterStop,
       EntriesRegistered, RoutesDeclared, RoutedToDeclaring
  <1> QED
    BY <1>1, <1>2, <1>3 DEF Init, RegistryInv

-----------------------------------------------------------------------------
(* Connections                                                             *)

\* What a step may do to a connection: who is at the other end never changes
\* after the accept, no connection becomes new again, the list of its handshake
\* stays, and no agent's overlap is forgotten.
LEMMA SessionsKeepTheirAgent ==
  ASSUME TypeOK, SessionInv, [Next]_vars
  PROVE  /\ \A s \in Sessions : phase[s] # "new" => phase'[s] # "new" /\ who'[s] = who[s]
         /\ \A s \in Sessions : phase[s] \notin {"new", "handshake"} => projects'[s] = projects[s]
         /\ overlapped \subseteq overlapped'
  <1> DEFINE P == /\ \A s \in Sessions : phase[s] # "new" => phase'[s] # "new" /\ who'[s] = who[s]
                  /\ \A s \in Sessions : phase[s] \notin {"new", "handshake"} => projects'[s] = projects[s]
                  /\ overlapped \subseteq overlapped'
  <1>t. /\ phase \in [Sessions -> Phases] /\ who \in [Sessions -> Agents \cup {None}]
        /\ projects \in [Sessions -> SUBSET Projects]
    BY DEF TypeOK
  <1>1. ASSUME NEW r \in Sessions, NEW a \in Agents, Connect(r, a) PROVE P
    BY <1>1, <1>t DEF Connect
  <1>2. ASSUME NEW r \in Sessions, HandshakeDone(r) PROVE P
    BY <1>2, <1>t DEF HandshakeDone
  <1>3. ASSUME NEW r \in Sessions,
               HandshakeFails(r) \/ Register(r) \/ LoopEnds(r) \/ Cleanup(r)
        PROVE  P
    BY <1>3, <1>t DEF HandshakeFails, Register, LoopEnds, Cleanup
  <1>4. CASE UNCHANGED <<phase, who, projects, overlapped>>
    BY <1>4
  <1> QED
    BY <1>1, <1>2, <1>3, <1>4 DEF Next, vars, StopAll, LinkBreaks, LinkTimesOut, Lookup, Send

\* A handler that moves on between accept and cleanup, or ends, is no second one.
LEMMA HandlerStaysOne ==
  ASSUME TypeOK, SessionInv, NEW s \in Sessions, NEW pc \in Phases \ {"new", "handshake"},
         Handled(s), phase' = [phase EXCEPT ![s] = pc], UNCHANGED <<who, overlapped>>
  PROVE  /\ OneHandler'
         /\ \A r \in Sessions : phase'[r] # "new" => who'[r] \in Agents
  <1>1. phase'[s] = pc /\ \A r \in Sessions : r # s => phase'[r] = phase[r]
    BY DEF TypeOK
  <1>2. OneHandler'
    BY <1>1 DEF SessionInv, OneHandler, Handled
  <1>3. \A r \in Sessions : phase'[r] # "new" => who'[r] \in Agents
    BY <1>1 DEF SessionInv, Handled
  <1> QED
    BY <1>2, <1>3

\* Every step keeps what holds of the connections.
LEMMA StepSessionInv == TypeOK /\ SessionInv /\ [Next]_vars => SessionInv'
  <1> SUFFICES ASSUME TypeOK, SessionInv, [Next]_vars PROVE SessionInv'
    OBVIOUS
  <1>t. /\ phase \in [Sessions -> Phases] /\ who \in [Sessions -> Agents \cup {None}]
        /\ projects \in [Sessions -> SUBSET Projects]
    BY DEF TypeOK
  <1>1. ASSUME NEW s \in Sessions, NEW a \in Agents, Connect(s, a) PROVE SessionInv'
    <2>1. /\ overlapped' = IF \E r \in Sessions \ {s} : who[r] = a /\ phase[r] # "gone"
                           THEN overlapped \cup {a} ELSE overlapped
          /\ projects' = projects /\ phase[s] = "new"
      BY <1>1 DEF Connect
    <2>2. /\ phase'[s] = "handshake" /\ who'[s] = a
          /\ \A r \in Sessions : r # s => phase'[r] = phase[r] /\ who'[r] = who[r]
      BY <1>1, <1>t DEF Connect
    <2>3. OneHandler'
      <3> SUFFICES ASSUME NEW q \in Sessions, NEW r \in Sessions, Handled(q)', Handled(r)',
                          who'[q] = who'[r], who'[r] \notin overlapped', q # r
                   PROVE  FALSE
        BY DEF OneHandler
      <3>1. CASE q # s /\ r # s
        BY <2>1, <2>2, <3>1 DEF SessionInv, OneHandler, Handled
      <3>2. CASE q = s \/ r = s
        <4>1. PICK x \in Sessions \ {s} : who[x] = a /\ phase[x] # "gone"
          BY <2>2, <3>2 DEF Handled
        <4>2. a \in overlapped'
          BY <2>1, <4>1
        <4> QED
          BY <2>2, <3>2, <4>2
      <3> QED
        BY <3>1, <3>2
    <2> QED
      BY <2>1, <2>2, <2>3 DEF SessionInv
  <1>2. ASSUME NEW s \in Sessions, HandshakeDone(s) PROVE SessionInv'
    <2>1. /\ phase' = [phase EXCEPT ![s] = "connected"] /\ UNCHANGED <<who, overlapped>>
          /\ phase[s] = "handshake"
          /\ \A r \in Sessions : r # s => projects'[r] = projects[r]
      BY <1>2, <1>t DEF HandshakeDone
    <2>2. /\ OneHandler'
          /\ \A r \in Sessions : phase'[r] # "new" => who'[r] \in Agents
      BY <2>1, HandlerStaysOne DEF Handled, Phases
    <2> QED
      BY <1>t, <2>1, <2>2 DEF SessionInv
  <1>3. ASSUME NEW s \in Sessions,
               HandshakeFails(s) \/ Register(s) \/ LoopEnds(s) \/ Cleanup(s)
        PROVE  SessionInv'
    <2>1. /\ \E pc \in Phases \ {"new", "handshake"} : phase' = [phase EXCEPT ![s] = pc]
          /\ Handled(s) /\ UNCHANGED <<who, projects, overlapped>>
      BY <1>3 DEF HandshakeFails, Register, LoopEnds, Cleanup, Handled, Phases
    <2>2. /\ OneHandler'
          /\ \A r \in Sessions : phase'[r] # "new" => who'[r] \in Agents
      BY <2>1, HandlerStaysOne
    <2> QED
      BY <1>t, <2>1, <2>2 DEF SessionInv
  <1>4. CASE UNCHANGED <<phase, who, projects, overlapped>>
    BY <1>4 DEF SessionInv, OneHandler, Handled
  <1> QED
    BY <1>1, <1>2, <1>3, <1>4 DEF Next, vars, StopAll, LinkBreaks, LinkTimesOut, Lookup, Send

\* A connection that messages for a key may use stays one.
LEMMA RoutableStays ==
  ASSUME TypeOK, SessionInv, [Next]_vars, NEW key, NEW s \in Sessions, Routable(key, s)
  PROVE  Routable(key, s)'
  <1>1. /\ \A r \in Sessions : phase[r] # "new" => phase'[r] # "new" /\ who'[r] = who[r]
        /\ \A r \in Sessions : phase[r] \notin {"new", "handshake"} => projects'[r] = projects[r]
        /\ overlapped \subseteq overlapped'
    BY SessionsKeepTheirAgent
  <1>2. \A r \in Sessions : key \in projects[r] => who'[r] = who[r] /\ key \in projects'[r]
    BY <1>1 DEF SessionInv
  <1>3. phase'[s] # "new" /\ who'[s] = who[s]
    BY <1>1 DEF Routable
  <1>4. CASE key \in Projects
    <2>1. PICK r \in Sessions : who[r] = who[s] /\ key \in projects[r]
      BY <1>4 DEF Routable
    <2>2. who'[r] = who'[s] /\ key \in projects'[r]
      BY <1>2, <1>3, <2>1
    <2>3. who'[s] \notin KeepsRoutes' => key \in projects'[s]
      BY <1>1, <1>2, <1>3, <1>4 DEF Routable, KeepsRoutes
    <2> QED
      BY <1>3, <1>4, <2>2, <2>3 DEF Routable
  <1>5. CASE key \notin Projects
    BY <1>3, <1>5 DEF Routable
  <1> QED
    BY <1>4, <1>5

-----------------------------------------------------------------------------
(* The registry                                                            *)

\* What the lookups return is routable (agent_manager.py:84-93).
LEMMA LookupRoutable ==
  ASSUME RegistryInv, NEW key \in Keys,
         NEW info, info = (IF key \in Projects THEN get_by_project(key) ELSE get_by_agent(key)),
         info # None
  PROVE  info \in Sessions /\ Routable(key, info)
  <1>1. CASE key \in Projects
    <2>1. /\ project_to_agent[key] # None
          /\ project_to_agent[key] \in Agents
          /\ info = by_agent[project_to_agent[key]]
      BY <1>1 DEF RegistryInv, TypeOK, get_by_project
    <2> QED
      BY <1>1, <2>1 DEF RegistryInv, TypeOK, RoutesDeclared
  <1>2. CASE key \notin Projects
    <2>1. key \in Agents /\ info = by_agent[key]
      BY <1>2 DEF Keys, get_by_agent
    <2>2. info \in Sessions /\ who[info] = key /\ phase[info] # "new"
      BY <2>1 DEF RegistryInv, TypeOK, IndexConsistent, EntriesRegistered
    <2> QED
      BY <1>2, <2>2 DEF Routable
  <1> QED
    BY <1>1, <1>2

\* The part of the invariant that is about the two indexes.
Indexes == /\ IndexConsistent /\ EntriesRegistered /\ NoFinishedSession
           /\ EmptyAfterStop /\ RoutesDeclared

\* A step that leaves the indexes alone, and a registered connection registered,
\* keeps their part.
LEMMA IndexesStay ==
  ASSUME RegistryInv, [Next]_vars, UNCHANGED managerVars,
         \A s \in Sessions : phase[s] \in {"loop", "leaving"} =>
             \/ phase'[s] \in {"loop", "leaving"}
             \/ phase'[s] = "gone" /\ \A a \in Agents \ Unnamed : by_agent[a] # s,
         \A s \in Sessions : phase[s] = "gone" => phase'[s] = "gone"
  PROVE  Indexes'
  <1>t. TypeOK /\ SessionInv /\ Indexes
    BY DEF RegistryInv, Indexes
  <1>e. \A a \in Agents : by_agent[a] # None => by_agent[a] \in Sessions /\ phase[by_agent[a]] # "new"
    BY <1>t DEF TypeOK, Indexes, EntriesRegistered
  <1>1. IndexConsistent'
    BY <1>t, <1>e, SessionsKeepTheirAgent DEF managerVars, Indexes, IndexConsistent
  <1>2. EntriesRegistered' /\ NoFinishedSession'
    BY <1>t, <1>e DEF managerVars, Indexes, EntriesRegistered, NoFinishedSession
  <1>3. EmptyAfterStop'
    BY <1>t DEF managerVars, Indexes, EmptyAfterStop
  <1>4. RoutesDeclared'
    <2> SUFFICES ASSUME NEW p \in Projects, project_to_agent[p] # None
                 PROVE  Routable(p, by_agent[project_to_agent[p]])'
      BY DEF managerVars, RoutesDeclared
    <2>1. /\ by_agent[project_to_agent[p]] \in Sessions
          /\ Routable(p, by_agent[project_to_agent[p]])
      BY <1>t, <1>e DEF TypeOK, Indexes, IndexConsistent, RoutesDeclared
    <2> DEFINE s == by_agent[project_to_agent[p]]
    <2>2. Routable(p, s)'
      <3>1. s \in Sessions /\ Routable(p, s)
        BY <2>1
      <3>2. s' = s
        BY DEF managerVars
      <3> HIDE DEF s
      <3>3. ASSUME NEW r \in Sessions, Routable(p, r) PROVE Routable(p, r)'
        BY <1>t, <3>3, RoutableStays
      <3> QED
        BY <3>1, <3>2, <3>3 DEF Routable
    <2> QED
      BY <2>2
  <1> QED
    BY <1>1, <1>2, <1>3, <1>4 DEF Indexes

\* A registration over no entry, or over one that keeps its routes, makes routes to
\* the new connection only of projects that its agent declared.
LEMMA RegisterKeepsIndexes ==
  ASSUME RegistryInv, [Next]_vars, NEW s \in Sessions, Register(s)
  PROVE  Indexes'
  <1>t. TypeOK /\ SessionInv /\ Indexes
    BY DEF RegistryInv, Indexes
  <1>0. who[s] \in Agents /\ phase[s] = "connected"
    BY <1>t DEF Register, SessionInv
  <1>1. /\ phase'[s] = "loop" /\ \A r \in Sessions : r # s => phase'[r] = phase[r]
        /\ UNCHANGED <<who, projects, overlapped, stopped>>
    BY <1>t DEF Register, TypeOK, add_agent, managerVars
  <1>2. CASE stopped
    <2>1. UNCHANGED managerVars
      BY <1>2 DEF Register, add_agent
    <2> QED
      BY <1>0, <1>1, <2>1, IndexesStay
  <1>3. CASE ~ stopped
    <2>1. /\ by_agent' = [by_agent EXCEPT ![who[s]] = s]
          /\ project_to_agent' = [p \in Projects |->
                IF p \in projects[s] THEN who[s] ELSE project_to_agent[p]]
      BY <1>3 DEF Register, add_agent
    <2>2. /\ by_agent'[who[s]] = s
          /\ \A b \in Agents : b # who[s] => by_agent'[b] = by_agent[b]
          /\ \A b \in Agents : by_agent[b] # None => by_agent[b] \in Sessions
      BY <1>t, <1>0, <2>1 DEF TypeOK
    <2>3. IndexConsistent'
      BY <1>t, <1>0, <1>1, <2>1, <2>2, NoneAssumption DEF TypeOK, Indexes, IndexConsistent
    <2>4. EntriesRegistered' /\ NoFinishedSession'
      BY <1>t, <1>0, <1>1, <2>2 DEF Indexes, EntriesRegistered, NoFinishedSession
    <2>5. EmptyAfterStop'
      BY <1>1, <1>3 DEF EmptyAfterStop
    <2>6. RoutesDeclared'
      <3> SUFFICES ASSUME NEW p \in Projects, project_to_agent'[p] # None
                   PROVE  Routable(p, by_agent[project_to_agent[p]])'
        BY DEF RoutesDeclared
      <3>g. ASSUME NEW r \in Sessions, by_agent'[project_to_agent'[p]] = r, Routable(p, r)'
            PROVE  Routable(p, by_agent[project_to_agent[p]])'
        BY <3>g DEF Routable
      <3>1. CASE p \in projects[s]
        <4>1. by_agent'[project_to_agent'[p]] = s
          BY <2>1, <2>2, <3>1
        <4>2. Routable(p, s)'
          BY <1>1, <3>1 DEF Routable
        <4> QED
          BY <3>g, <4>1, <4>2
      <3>2. CASE p \notin projects[s]
        <4>1. project_to_agent'[p] = project_to_agent[p] /\ project_to_agent[p] \in Agents
          BY <1>t, <2>1, <3>2 DEF TypeOK
        <4>2. PICK r \in Sessions : /\ r = by_agent[project_to_agent[p]]
                                    /\ Routable(p, r) /\ who[r] = project_to_agent[p]
          BY <1>t, <2>2, <4>1 DEF Indexes, IndexConsistent, RoutesDeclared
        <4>3. CASE project_to_agent[p] # who[s]
          <5>1. by_agent'[project_to_agent'[p]] = r
            BY <2>2, <4>1, <4>2, <4>3
          <5>2. Routable(p, r)'
            BY <1>t, <4>2, RoutableStays
          <5> QED
            BY <3>g, <4>2, <5>1, <5>2
        <4>4. CASE project_to_agent[p] = who[s]
          <5>1. by_agent'[project_to_agent'[p]] = s
            BY <2>2, <4>1, <4>4
          \* The entry replaced is that of another handler of the same agent.
          <5>2. who[s] \in KeepsRoutes
            <6> SUFFICES ASSUME who[s] \notin overlapped, who[s] \notin Unnamed PROVE FALSE
              BY DEF KeepsRoutes
            <6>1. phase[r] \in {"loop", "leaving"}
              BY <1>t, NoneAssumption, <1>0, <2>2, <4>2, <4>4 DEF Indexes, NoFinishedSession, IndexConsistent
            <6> QED
              BY <1>t, <1>0, <4>2, <4>4, <6>1 DEF SessionInv, OneHandler, Handled
          <5>3. PICK q \in Sessions : who[q] = who[s] /\ p \in projects[q]
            BY <4>2, <4>4 DEF Routable
          <5>4. Routable(p, s)'
            BY <1>1, <5>2, <5>3 DEF Routable, KeepsRoutes
          <5> QED
            BY <3>g, <5>1, <5>4
        <4> QED
          BY <4>3, <4>4
      <3> QED
        BY <3>1, <3>2
    <2> QED
      BY <2>3, <2>4, <2>5, <2>6 DEF Indexes
  <1> QED
    BY <1>2, <1>3

\* A cleanup takes away the entry of its agent and every route to it, or nothing.
LEMMA CleanupKeepsIndexes ==
  ASSUME RegistryInv, [Next]_vars, NEW s \in Sessions, Cleanup(s)
  PROVE  Indexes'
  <1>t. TypeOK /\ SessionInv /\ Indexes
    BY DEF RegistryInv, Indexes
  <1>0. who[s] \in Agents /\ phase[s] = "leaving"
    BY <1>t DEF Cleanup, SessionInv
  <1>1. /\ phase'[s] = "gone" /\ \A r \in Sessions : r # s => phase'[r] = phase[r]
        /\ UNCHANGED <<who, projects, overlapped>>
    BY <1>t DEF Cleanup, TypeOK
  <1>2. CASE who[s] \in Unnamed \/ stopped
    <2>1. UNCHANGED managerVars
      BY <1>2 DEF Cleanup, remove_agent
    <2>2. \A a \in Agents \ Unnamed : by_agent[a] # s
      BY <1>t, <1>2, NoneAssumption DEF Indexes, IndexConsistent, EmptyAfterStop
    <2> QED
      BY <1>0, <1>1, <2>1, <2>2, IndexesStay
  <1>3. CASE who[s] \notin Unnamed /\ ~ stopped
    <2>1. /\ by_agent' = [by_agent EXCEPT ![who[s]] = None]
          /\ project_to_agent' = [p \in Projects |->
                IF project_to_agent[p] = who[s] THEN None ELSE project_to_agent[p]]
          /\ stopped' = stopped
      BY <1>3 DEF Cleanup, remove_agent
    <2>2. /\ by_agent'[who[s]] = None
          /\ \A b \in Agents : b # who[s] => by_agent'[b] = by_agent[b]
          /\ \A b \in Agents : by_agent[b] # None => by_agent[b] \in Sessions
      BY <1>t, <1>0, <2>1 DEF TypeOK
    <2>3. IndexConsistent'
      BY <1>t, <1>0, <1>1, <2>1, <2>2, NoneAssumption DEF TypeOK, Indexes, IndexConsistent
    \* Only the agent of s can have had s as its entry.
    <2>4. EntriesRegistered' /\ NoFinishedSession'
      BY <1>t, <1>0, <1>1, <2>2 DEF Indexes, IndexConsistent, EntriesRegistered, NoFinishedSession
    <2>5. EmptyAfterStop'
      BY <1>3, <2>1 DEF EmptyAfterStop
    <2>6. RoutesDeclared'
      <3> SUFFICES ASSUME NEW p \in Projects, project_to_agent'[p] # None
                   PROVE  Routable(p, by_agent[project_to_agent[p]])'
        BY DEF RoutesDeclared
      <3> DEFINE r == by_agent[project_to_agent[p]]
      <3>1. /\ project_to_agent'[p] = project_to_agent[p] /\ project_to_agent[p] \in Agents
            /\ project_to_agent[p] # who[s]
        BY <1>t, <2>1 DEF TypeOK
      <3>2. r \in Sessions /\ Routable(p, r)
        BY <1>t, <2>2, <3>1, NoneAssumption DEF Indexes, IndexConsistent, RoutesDeclared
      <3>3. by_agent'[project_to_agent'[p]] = r
        BY <2>2, <3>1
      <3> HIDE DEF r
      <3>4. Routable(p, r)'
        <4>1. ASSUME NEW q \in Sessions, Routable(p, q) PROVE Routable(p, q)'
          BY <1>t, <4>1, RoutableStays
        <4>2. r' = r
          BY <1>t, <2>1, <2>2, <3>1, <3>3 DEF r
        <4> QED
          BY <3>2, <4>1, <4>2 DEF Routable
      <3> QED
        BY <3>3, <3>4 DEF Routable, r
    <2> QED
      BY <2>3, <2>4, <2>5, <2>6 DEF Indexes
  <1> QED
    BY <1>2, <1>3

\* Every step keeps the types.
LEMMA StepTypeOK == RegistryInv /\ [Next]_vars => TypeOK'
  <1> SUFFICES ASSUME RegistryInv, [Next]_vars PROVE TypeOK'
    OBVIOUS
  <1>t. TypeOK /\ SessionInv
    BY DEF RegistryInv
  <1>1. CASE StopAll
    BY <1>1, <1>t DEF StopAll, TypeOK
  <1>2. ASSUME NEW s \in Sessions, NEW a \in Agents, Connect(s, a) PROVE TypeOK'
    BY <1>2, <1>t DEF Connect, TypeOK, Phases
  <1>3. ASSUME NEW s \in Sessions, LinkBreaks(s) \/ LinkTimesOut(s) PROVE TypeOK'
    BY <1>3, <1>t DEF LinkBreaks, LinkTimesOut, TypeOK
  <1>4. ASSUME NEW s \in Sessions, HandshakeDone(s) PROVE TypeOK'
    <2>1. who[s] \in Agents
      BY <1>4, <1>t DEF HandshakeDone, SessionInv
    <2>2. PICK list \in Lists[who[s]] : projects' = [projects EXCEPT ![s] = list]
      BY <1>4 DEF HandshakeDone
    <2>3. list \in SUBSET Projects
      BY <2>1, ListsAssumption
    <2> QED
      BY <1>4, <1>t, <2>2, <2>3 DEF HandshakeDone, TypeOK, Phases
  <1>5. ASSUME NEW s \in Sessions, HandshakeFails(s) \/ LoopEnds(s) PROVE TypeOK'
    BY <1>5, <1>t DEF HandshakeFails, LoopEnds, TypeOK, Phases
  <1>6. ASSUME NEW s \in Sessions, Register(s) PROVE TypeOK'
    <2>1. who[s] \in Agents
      BY <1>6, <1>t DEF Register, SessionInv
    <2> QED
      BY <1>6, <1>t, <2>1 DEF Register, add_agent, managerVars, TypeOK, Phases
  <1>7. ASSUME NEW s \in Sessions, Cleanup(s) PROVE TypeOK'
    <2>1. who[s] \in Agents
      BY <1>7, <1>t DEF Cleanup, SessionInv
    <2> QED
      BY <1>7, <1>t, <2>1 DEF Cleanup, remove_agent, managerVars, TypeOK, Phases
  <1>8. ASSUME NEW x \in Senders, NEW key \in Keys, Lookup(x, key) PROVE TypeOK'
    <2> DEFINE info == IF key \in Projects THEN get_by_project(key) ELSE get_by_agent(key)
    <2>1. /\ info # None
          /\ sender' = [sender EXCEPT ![x] = [key |-> key, info |-> info]]
          /\ UNCHANGED <<phase, who, projects, link, by_agent, project_to_agent, stopped, overlapped>>
      BY <1>8 DEF Lookup
    <2>2. info \in Sessions
      BY <2>1, LookupRoutable
    <2> HIDE DEF info
    <2> QED
      BY <1>t, <2>1, <2>2 DEF TypeOK
  <1>9. ASSUME NEW x \in Senders, Send(x) PROVE TypeOK'
    BY <1>9, <1>t DEF Send, TypeOK, NoLookup
  <1>10. CASE UNCHANGED vars
    BY <1>10, <1>t DEF vars, TypeOK
  <1> QED
    BY <1>1, <1>2, <1>3, <1>4, <1>5, <1>6, <1>7, <1>8, <1>9, <1>10 DEF Next

\* Every step keeps the indexes' part.
LEMMA StepIndexes == RegistryInv /\ [Next]_vars => Indexes'
  <1> SUFFICES ASSUME RegistryInv, [Next]_vars PROVE Indexes'
    OBVIOUS
  <1>t. TypeOK /\ SessionInv /\ Indexes
    BY DEF RegistryInv, Indexes
  <1>p. phase \in [Sessions -> Phases]
    BY <1>t DEF TypeOK
  <1>1. CASE StopAll
    BY <1>1, <1>t, NoneAssumption DEF StopAll, Indexes, IndexConsistent, EntriesRegistered,
       NoFinishedSession, EmptyAfterStop, RoutesDeclared
  <1>2. ASSUME NEW s \in Sessions, NEW a \in Agents, Connect(s, a) PROVE Indexes'
    BY <1>2, <1>p, IndexesStay DEF Connect, managerVars
  <1>3. ASSUME NEW s \in Sessions, HandshakeDone(s) \/ HandshakeFails(s) \/ LoopEnds(s) PROVE Indexes'
    BY <1>3, <1>p, IndexesStay DEF HandshakeDone, HandshakeFails, LoopEnds, managerVars
  <1>4. ASSUME NEW s \in Sessions, Register(s) PROVE Indexes'
    BY <1>4, RegisterKeepsIndexes
  <1>5. ASSUME NEW s \in Sessions, Cleanup(s) PROVE Indexes'
    BY <1>5, CleanupKeepsIndexes
  <1>6. CASE UNCHANGED <<phase, by_agent, project_to_agent, stopped>>
    BY <1>6, IndexesStay DEF managerVars
  <1> QED
    BY <1>1, <1>2, <1>3, <1>4, <1>5, <1>6 DEF Next, vars, LinkBreaks, LinkTimesOut, Lookup, Send

\* What a sender holds is a connection its message may use, whatever happens
\* between its lookup and its send.
LEMMA StepSending ==
  ASSUME RegistryInv, [Next]_vars
  PROVE  \A x \in Senders : sender'[x] # NoLookup =>
             /\ sender'[x].key \in Keys /\ sender'[x].info \in Sessions
             /\ Routable(sender[x].key, sender[x].info)'
  <1> SUFFICES ASSUME NEW y \in Senders, sender'[y] # NoLookup
               PROVE  /\ sender'[y].key \in Keys /\ sender'[y].info \in Sessions
                      /\ Routable(sender[y].key, sender[y].info)'
    OBVIOUS
  <1>t. TypeOK /\ SessionInv
    BY DEF RegistryInv
  <1>r. ASSUME NEW key \in Keys, NEW s \in Sessions, Routable(key, s),
               sender'[y].key = key, sender'[y].info = s
        PROVE  /\ sender'[y].key \in Keys /\ sender'[y].info \in Sessions
               /\ Routable(sender[y].key, sender[y].info)'
    <2>1. Routable(key, s)'
      BY <1>t, <1>r, RoutableStays
    <2> QED
      BY <1>r, <2>1 DEF Routable
  <1>1. CASE sender'[y] = sender[y]
    <2>1. /\ sender[y].key \in Keys /\ sender[y].info \in Sessions
          /\ Routable(sender[y].key, sender[y].info)
      BY <1>1 DEF RegistryInv, RoutedToDeclaring
    <2> QED
      BY <1>1, <1>r, <2>1
  <1>2. ASSUME NEW x \in Senders, NEW key \in Keys, Lookup(x, key), sender'[y] # sender[y]
        PROVE  /\ sender'[y].key \in Keys /\ sender'[y].info \in Sessions
               /\ Routable(sender[y].key, sender[y].info)'
    <2> DEFINE info == IF key \in Projects THEN get_by_project(key) ELSE get_by_agent(key)
    <2>1. info # None /\ sender' = [sender EXCEPT ![x] = [key |-> key, info |-> info]]
      BY <1>2 DEF Lookup
    <2>2. info \in Sessions /\ Routable(key, info)
      BY <2>1, LookupRoutable
    <2> HIDE DEF info
    <2>3. sender'[y].key = key /\ sender'[y].info = info
      BY <1>2, <1>t, <2>1 DEF TypeOK
    <2> QED
      BY <1>r, <2>2, <2>3
  <1>3. ASSUME NEW x \in Senders, Send(x) PROVE sender'[y] = sender[y]
    BY <1>3, <1>t DEF Send, TypeOK
  <1>4. CASE UNCHANGED sender
    BY <1>1, <1>4
  <1> QED
    BY <1>1, <1>2, <1>3, <1>4 DEF Next, vars, StopAll, Connect, LinkBreaks, LinkTimesOut,
       HandshakeDone, HandshakeFails, Register, LoopEnds, Cleanup

\* Every step keeps the strengthened invariant.
LEMMA StepRegistryInv == RegistryInv /\ [Next]_vars => RegistryInv'
  <1> SUFFICES ASSUME RegistryInv, [Next]_vars PROVE RegistryInv'
    OBVIOUS
  <1>1. TypeOK' /\ SessionInv' /\ Indexes'
    BY StepTypeOK, StepSessionInv, StepIndexes DEF RegistryInv
  <1>2. /\ \A x \in Senders : sender'[x] # NoLookup =>
                sender'[x].key \in Keys /\ sender'[x].info \in Sessions
        /\ RoutedToDeclaring'
    BY StepSending DEF RoutedToDeclaring, NoLookup
  <1> QED
    BY <1>1, <1>2 DEF RegistryInv, Indexes, NoLookup

\* The registry's indexes agree with each other and with the connections.
THEOREM IndexesAgree == Spec => [](TypeOK /\ IndexConsistent)
  <1>1. RegistryInv => TypeOK /\ IndexConsistent
    BY DEF RegistryInv
  <1> QED
    BY <1>1, InitRegistryInv, StepRegistryInv, PTL DEF Spec

\* No finished connection is registered, however connections overlap.
THEOREM FinishedSessionsUnreachable == Spec => []NoFinishedSession
  <1>1. RegistryInv => NoFinishedSession
    BY DEF RegistryInv
  <1> QED
    BY <1>1, InitRegistryInv, StepRegistryInv, PTL DEF Spec

\* A stopped manager stays empty.
THEOREM StoppedStaysEmpty == Spec => []EmptyAfterStop
  <1>1. RegistryInv => EmptyAfterStop
    BY DEF RegistryInv
  <1> QED
    BY <1>1, InitRegistryInv, StepRegistryInv, PTL DEF Spec

\* Messages for a project go to connections whose own handshake declared it, unless
\* their agent registered over an entry of its own; then some handshake of it did.
THEOREM MessagesGoToDeclaringAgents == Spec => []RoutedToDeclaring
  <1>1. RegistryInv => RoutedToDeclaring
    BY DEF RegistryInv
  <1> QED
    BY <1>1, InitRegistryInv, StepRegistryInv, PTL DEF Spec

-----------------------------------------------------------------------------
(* Agents that do not overlap with themselves are found                    *)

\* No handler runs at first.
LEMMA InitRoutingInv == Init => RoutingInv
  <1>1. Init => LoopIsIndexed
    BY DEF Init, LoopIsIndexed
  <1> QED
    BY <1>1, InitRegistryInv DEF RoutingInv

\* A project that was nobody else's may become one; never the other way round.
LEMMA OwnProjectsShrink ==
  ASSUME TypeOK, SessionInv, [Next]_vars, NEW s \in Sessions, phase[s] = "loop"
  PROVE  OwnProjects(s)' \subseteq OwnProjects(s)
  <1>1. /\ \A r \in Sessions : phase[r] # "new" => phase'[r] # "new" /\ who'[r] = who[r]
        /\ \A r \in Sessions : phase[r] \notin {"new", "handshake"} => projects'[r] = projects[r]
    BY SessionsKeepTheirAgent
  <1> SUFFICES ASSUME NEW p, p \in OwnProjects(s)', NEW r \in Sessions, p \in projects[r]
               PROVE  who[r] = who[s]
    BY <1>1 DEF OwnProjects
  <1>2. phase[r] \notin {"new", "handshake"}
    BY DEF SessionInv
  <1>3. p \in projects'[r]
    BY <1>1, <1>2
  <1>4. who'[r] = who'[s]
    BY <1>3 DEF OwnProjects
  <1> QED
    BY <1>1, <1>2, <1>4

\* A step that leaves the registry alone and starts no loop takes nothing away.
LEMMA LoopStaysIndexed ==
  ASSUME RoutingInv, [Next]_vars, UNCHANGED managerVars,
         \A s \in Sessions : phase'[s] = "loop" => phase[s] = "loop"
  PROVE  LoopIsIndexed'
  <1>t. TypeOK /\ SessionInv
    BY DEF RoutingInv, RegistryInv
  <1> SUFFICES ASSUME NEW s \in Sessions, phase'[s] = "loop", ~ stopped, who'[s] \notin overlapped'
               PROVE  /\ by_agent[who'[s]] = s
                      /\ \A p \in OwnProjects(s)' : project_to_agent[p] = who'[s]
    BY DEF LoopIsIndexed, managerVars
  <1>1. phase[s] = "loop" /\ who'[s] = who[s] /\ who[s] \notin overlapped
    BY <1>t, SessionsKeepTheirAgent
  <1> QED
    BY <1>t, <1>1, OwnProjectsShrink DEF RoutingInv, LoopIsIndexed

\* A registration or a cleanup of s meets no other handler of the same agent,
\* and no project of another agent's own.
LEMMA OthersAreOfOthers ==
  ASSUME TypeOK, SessionInv, NEW s \in Sessions, Handled(s), NEW r \in Sessions, r # s,
         phase[r] = "loop", who[r] \notin overlapped
  PROVE  /\ who[r] # who[s] /\ who[r] \in Agents /\ who[s] \in Agents
         /\ OwnProjects(r) \subseteq Projects
         /\ \A p \in OwnProjects(r) : p \notin projects[s]
  <1>1. who[r] \in Agents /\ who[s] \in Agents
    BY DEF SessionInv, Handled
  <1>2. who[r] # who[s]
    BY DEF SessionInv, OneHandler, Handled
  <1> QED
    BY <1>1, <1>2 DEF OwnProjects, TypeOK

\* An agent that never overlaps with itself keeps one handler, and its handler the
\* entries that lead to it, whoever else registers or leaves.
LEMMA StepRoutingInv == RoutingInv /\ [Next]_vars => RoutingInv'
  <1> SUFFICES ASSUME RoutingInv, [Next]_vars PROVE LoopIsIndexed'
    BY StepRegistryInv DEF RoutingInv
  <1>t. TypeOK /\ SessionInv
    BY DEF RoutingInv, RegistryInv
  <1>p. phase \in [Sessions -> Phases]
    BY <1>t DEF TypeOK
  <1>1. CASE StopAll
    BY <1>1 DEF StopAll, LoopIsIndexed
  <1>2. ASSUME NEW s \in Sessions, NEW a \in Agents, Connect(s, a) PROVE LoopIsIndexed'
    BY <1>2, <1>p, LoopStaysIndexed DEF Connect, managerVars
  <1>3. ASSUME NEW s \in Sessions, HandshakeDone(s) \/ HandshakeFails(s) \/ LoopEnds(s)
        PROVE  LoopIsIndexed'
    BY <1>3, <1>p, LoopStaysIndexed DEF HandshakeDone, HandshakeFails, LoopEnds, managerVars
  <1>4. ASSUME NEW s \in Sessions, Register(s) PROVE LoopIsIndexed'
    <2>0. Handled(s) /\ who[s] \in Agents
      BY <1>4, <1>t DEF Register, Handled, SessionInv
    <2>1. /\ phase'[s] = "loop" /\ \A r \in Sessions : r # s => phase'[r] = phase[r]
          /\ UNCHANGED <<who, projects, overlapped, stopped>>
      BY <1>4, <1>p DEF Register, add_agent, managerVars
    <2>2. CASE stopped
      BY <2>1, <2>2 DEF LoopIsIndexed
    <2>3. CASE ~ stopped
      <3>1. /\ by_agent' = [by_agent EXCEPT ![who[s]] = s]
            /\ project_to_agent' = [p \in Projects |->
                  IF p \in projects[s] THEN who[s] ELSE project_to_agent[p]]
        BY <1>4, <2>3 DEF Register, add_agent
      <3> SUFFICES ASSUME NEW r \in Sessions, phase'[r] = "loop", who[r] \notin overlapped
                   PROVE  /\ by_agent'[who[r]] = r
                          /\ \A p \in OwnProjects(r) : project_to_agent'[p] = who[r]
        BY <2>1 DEF LoopIsIndexed, OwnProjects
      <3>2. CASE r = s
        <4>1. OwnProjects(s) \subseteq projects[s] /\ projects[s] \subseteq Projects
          BY <1>t DEF OwnProjects, TypeOK
        <4> QED
          BY <1>t, <2>0, <3>1, <3>2, <4>1 DEF TypeOK
      <3>3. CASE r # s
        <4>1. phase[r] = "loop"
          BY <2>1, <3>3
        <4>2. /\ by_agent[who[r]] = r
              /\ \A p \in OwnProjects(r) : project_to_agent[p] = who[r]
          BY <2>3, <4>1 DEF RoutingInv, LoopIsIndexed
        <4>3. /\ who[r] # who[s] /\ who[r] \in Agents
              /\ OwnProjects(r) \subseteq Projects
              /\ \A p \in OwnProjects(r) : p \notin projects[s]
          BY <1>t, <2>0, <3>3, <4>1, OthersAreOfOthers
        <4> QED
          BY <1>t, <3>1, <4>2, <4>3 DEF TypeOK
      <3> QED
        BY <3>2, <3>3
    <2> QED
      BY <2>2, <2>3
  <1>5. ASSUME NEW s \in Sessions, Cleanup(s) PROVE LoopIsIndexed'
    <2>0. Handled(s) /\ who[s] \in Agents
      BY <1>5, <1>t DEF Cleanup, Handled, SessionInv
    <2>1. /\ phase'[s] = "gone" /\ \A r \in Sessions : r # s => phase'[r] = phase[r]
          /\ UNCHANGED <<who, projects, overlapped>>
      BY <1>5, <1>p DEF Cleanup
    <2>2. CASE UNCHANGED managerVars
      BY <2>1, <2>2, LoopStaysIndexed
    <2>3. CASE remove_agent(who[s]) /\ ~ stopped
      <3>1. /\ by_agent' = [by_agent EXCEPT ![who[s]] = None]
            /\ project_to_agent' = [p \in Projects |->
                  IF project_to_agent[p] = who[s] THEN None ELSE project_to_agent[p]]
            /\ stopped' = stopped
        BY <2>3 DEF remove_agent
      <3> SUFFICES ASSUME NEW r \in Sessions, phase'[r] = "loop", who[r] \notin overlapped
                   PROVE  /\ by_agent'[who[r]] = r
                          /\ \A p \in OwnProjects(r) : project_to_agent'[p] = who[r]
        BY <2>1 DEF LoopIsIndexed, OwnProjects
      <3>2. r # s /\ phase[r] = "loop"
        BY <2>1
      <3>3. /\ by_agent[who[r]] = r
            /\ \A p \in OwnProjects(r) : project_to_agent[p] = who[r]
        BY <2>3, <3>2 DEF RoutingInv, LoopIsIndexed
      <3>4. /\ who[r] # who[s] /\ who[r] \in Agents
            /\ OwnProjects(r) \subseteq Projects
        BY <1>t, <2>0, <3>2, OthersAreOfOthers
      <3> QED
        BY <1>t, <3>1, <3>3, <3>4 DEF TypeOK
    <2> QED
      BY <1>5, <2>2, <2>3 DEF Cleanup, remove_agent
  <1>6. CASE UNCHANGED <<phase, who, projects, by_agent, project_to_agent, stopped, overlapped>>
    BY <1>6, LoopStaysIndexed DEF managerVars
  <1> QED
    BY <1>1, <1>2, <1>3, <1>4, <1>5, <1>6 DEF Next, LinkBreaks, LinkTimesOut, Lookup, Send, vars

\* An agent whose handlers never overlap is found by its id and by each project
\* of its own all the time it is in its I/O loop, whatever other agents and its
\* own earlier connections do (agent_manager.py:45-93).
THEOREM ConnectedAgentsAreRouted == Spec => []ConnectedIsRouted
  <1>1. RoutingInv => ConnectedIsRouted
    <2> SUFFICES ASSUME RoutingInv, NEW s \in Sessions, phase[s] = "loop", ~ stopped,
                        who[s] \notin overlapped
                 PROVE  /\ get_by_agent(who[s]) = s
                        /\ \A p \in OwnProjects(s) : get_by_project(p) = s
      BY DEF ConnectedIsRouted, OwnProjects
    <2>1. /\ by_agent[who[s]] = s
          /\ \A p \in OwnProjects(s) : project_to_agent[p] = who[s]
      BY DEF RoutingInv, LoopIsIndexed
    <2>2. who[s] \in Agents
      BY DEF RoutingInv, RegistryInv, SessionInv
    <2> QED
      BY <2>1, <2>2, NoneAssumption DEF get_by_agent, get_by_project
  <1> QED
    BY <1>1, InitRoutingInv, StepRoutingInv, PTL DEF Spec

=============================================================================
