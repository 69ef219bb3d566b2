-------------------------- MODULE ApprovalFlowProofs --------------------------
(***************************************************************************)
(* Theorems about ApprovalFlow, for any number of orders, approval         *)
(* instances and concurrent tasks.                                         *)
(***************************************************************************)
EXTENDS ApprovalFlow, TLAPS

\* The reset record of a task is a task (Idle, used by every handler's end).
LEMMA IdleType == Idle \in Tasks
  <1>1. AnyOrder \in Orders
    BY OrdersAssumption DEF AnyOrder
  <1> QED
    BY <1>1 DEF Idle, Tasks, WorkOrderState, AllOperations, Verdicts

\* What transition() lets through into a state past approval comes from such a
\* state, except for the approval itself (state.py:30-69).
LEMMA PostApprovalEdge ==
  ASSUME NEW s, NEW t, can_transition(s, t), t \in PostApproval, t # "APPROVED"
  PROVE  s \in PostApproval
  BY DEF can_transition, TRANSITIONS, PostApproval

\* Only create_approval, from a RelayService call or from its own endpoint, and
\* DingTalk itself touch an instance.
LEMMA InstanceSteps ==
  ASSUME TypeOK, [Next]_vars
  PROVE  \/ \E j \in Instances, p \in Orders, r \in Reviews : NewInstance(j, p, r)
         \/ \E j \in Instances : Decide(j)
         \/ UNCHANGED instance
  <1>1. ASSUME NEW w \in Workers, ApprovalCreated(w)
        PROVE  \E j \in Instances, p \in Orders, r \in Reviews : NewInstance(j, p, r)
    <2>1. worker[w].order \in Orders
      BY DEF TypeOK, Tasks
    <2>2. (IF worker[w].op = "submit" THEN "first" ELSE "second") \in Reviews
      BY DEF Reviews
    <2> QED
      BY <1>1, <2>1, <2>2 DEF ApprovalCreated
  <1>2. ASSUME NEW p \in Orders, NEW j \in Instances, CreateApproval(p, j)
        PROVE  \E k \in Instances, q \in Orders, r \in Reviews : NewInstance(k, q, r)
    BY <1>2 DEF CreateApproval, Reviews
  <1> QED
    BY <1>1, <1>2 DEF Next, vars, IgnoredCallback, Callback, OnApprovalResult,
       OnSecondReviewResult, Verdict, SubmitForApproval, OnSensitiveChangeDetected,
       TriggerBuild, TriggerBuildApi, CloseWorkOrder, OnBuildResult, CommitFinish, TriggerSent,
       AwaitFailed, Persist, Raise, Crash

\* An instance that was created keeps its order and does not become unknown
\* again, and no operation changes a verdict of DingTalk.
LEMMA InstancesStay ==
  ASSUME TypeOK, [Next]_vars, NEW i \in Instances, instance[i].decision # "none"
  PROVE  /\ instance'[i].order = instance[i].order
         /\ instance'[i].decision # "none"
         /\ instance[i].decision \in Verdicts => instance'[i].decision = instance[i].decision
  <1>t. instance \in [Instances -> [order : Orders, review : Reviews,
                                    decision : {"none", "running", "revoked"} \cup Verdicts]]
    BY DEF TypeOK
  <1>1. ASSUME NEW j \in Instances, NEW p \in Orders, NEW r \in Reviews, NewInstance(j, p, r)
        PROVE  instance'[i] = instance[i]
    BY <1>1, <1>t DEF NewInstance
  <1>2. CASE \E j \in Instances : Decide(j)
    BY <1>2, <1>t DEF Decide, Verdicts
  <1>3. CASE UNCHANGED instance
    BY <1>3
  <1> QED
    BY <1>1, <1>2, <1>3, InstanceSteps

\* So an agreement, once given, stays.
LEMMA AgreementStays ==
  ASSUME TypeOK, [Next]_vars, NEW o \in Orders, Agreed(o)
  PROVE  Agreed(o)'
  <1>1. PICK i \in Instances : instance[i].order = o /\ instance[i].decision = "agree"
    BY DEF Agreed
  <1>2. instance'[i].order = o /\ instance'[i].decision = "agree"
    BY <1>1, InstancesStay DEF Verdicts
  <1> QED
    BY <1>2 DEF Agreed

-------------------------------------------------------------------------------
(* Type correctness                                                            *)

\* The initial tables and tasks are well typed.
LEMMA InitTypeOK == Init => TypeOK
  <1> SUFFICES ASSUME Init PROVE TypeOK
    OBVIOUS
  <1>1. AnyOrder \in Orders
    BY OrdersAssumption DEF AnyOrder
  <1>2. state \in [Orders -> WorkOrderState] /\ running \in [Orders -> Nat]
    BY DEF Init, WorkOrderState
  <1>3. worker \in [Workers -> Tasks] /\ \A w \in Workers : worker[w].pc # "read"
    BY IdleType DEF Init, Idle
  <1>4. /\ row \in [Instances -> [status : {"ABSENT", "PENDING", "APPROVED", "REJECTED"},
                                 review_type : Reviews]]
        /\ instance \in [Instances -> [order : Orders, review : Reviews,
                                      decision : {"none", "running", "revoked"} \cup Verdicts]]
    BY <1>1 DEF Init, Reviews
  <1>5. acked \subseteq Instances /\ direct \subseteq Orders /\ aborted \subseteq Orders
        /\ overlapped \subseteq Orders /\ strayed \subseteq Orders /\ crashes \in Nat
    BY DEF Init
  <1> QED
    BY <1>2, <1>3, <1>4, <1>5 DEF TypeOK

\* A task made from an order's state and well-typed parts is a task.
LEMMA TaskType ==
  ASSUME TypeOK, NEW pc \in {"idle", "read", "await", "return", "error"},
         NEW op \in AllOperations \cup {"callback"}, NEW o \in Orders,
         NEW target \in WorkOrderState, NEW i \in Instances \cup {"none"},
         NEW v \in Verdicts, NEW rows \in SUBSET Instances
  PROVE  /\ Task(pc, op, o, target, i, v, rows) \in Tasks
         /\ Task(pc, op, o, target, i, v, rows).pc = pc
         /\ Task(pc, op, o, target, i, v, rows).inst = i
  BY DEF Task, Tasks, TypeOK

\* How a step begins a task, or none, as far as the histories are concerned.
BeginsFor(w) ==
    /\ worker[w].pc = "idle"
    /\ \A v \in Workers : v # w => worker'[v] = worker[v]
    /\ worker'[w].order \in Orders
    /\ \/ worker'[w].order \in overlapped'
       \/ \A v \in Workers : worker[v].pc # "idle" => worker[v].order # worker'[w].order
    /\ overlapped \subseteq overlapped' /\ overlapped' \subseteq overlapped \cup {worker'[w].order}

LEMMA BeginBegins ==
  ASSUME worker \in [Workers -> Tasks], NEW w \in Workers, NEW t, t.order \in Orders, Begin(w, t)
  PROVE  BeginsFor(w) /\ worker'[w] = t
  <1>1. /\ worker[w].pc = "idle" /\ worker'[w] = t
        /\ \A v \in Workers : v # w => worker'[v] = worker[v]
    BY DEF Begin
  <1>2. overlapped' = IF \E v \in Workers : worker[v].pc # "idle" /\ worker[v].order = t.order
                      THEN overlapped \cup {t.order} ELSE overlapped
    BY DEF Begin
  <1> QED
    BY <1>1, <1>2 DEF BeginsFor

LEMMA BeginningSteps ==
  ASSUME TypeOK
  PROVE  /\ \A w \in Workers, i \in Instances :
              Callback(w, i) \/ OnApprovalResult(w, i) \/ OnSecondReviewResult(w, i) => BeginsFor(w)
         /\ \A w \in Workers, o \in Orders :
              (\/ SubmitForApproval(w, o) \/ OnSensitiveChangeDetected(w, o)
               \/ TriggerBuild(w, o) \/ CloseWorkOrder(w, o) \/ OnBuildResult(w, o)) => BeginsFor(w)
  <1>t. worker \in [Workers -> Tasks] /\ \A i \in Instances : instance[i].order \in Orders
    BY DEF TypeOK
  <1>o. ASSUME NEW pc, NEW op, NEW o, NEW target, NEW i, NEW v, NEW rows
        PROVE  Task(pc, op, o, target, i, v, rows).order = o
    BY DEF Task
  <1>1. ASSUME NEW w \in Workers, NEW i \in Instances, Callback(w, i) PROVE BeginsFor(w)
    <2>1. PICK pc, rows : Begin(w, Task(pc, "callback", instance[i].order, "DRAFT", i,
                                        instance[i].decision, rows))
      BY <1>1 DEF Callback
    <2> QED
      BY <1>o, <1>t, <2>1, BeginBegins
  <1>2. ASSUME NEW w \in Workers, NEW op, NEW o \in Orders, NEW target, NEW pc,
               Validate(w, op, o, target, pc)
        PROVE  BeginsFor(w)
    <2>1. PICK p : Begin(w, Task(p, op, o, target, "none", "agree", {}))
      BY <1>2 DEF Validate
    <2> QED
      BY <1>o, <1>t, <2>1, BeginBegins
  <1>3. ASSUME NEW w \in Workers, NEW o \in Orders,
               SubmitForApproval(w, o) \/ OnSensitiveChangeDetected(w, o)
               \/ TriggerBuild(w, o) \/ CloseWorkOrder(w, o)
        PROVE  BeginsFor(w)
    BY <1>2, <1>3 DEF SubmitForApproval, OnSensitiveChangeDetected, TriggerBuild, CloseWorkOrder
  <1>4. ASSUME NEW w \in Workers, NEW o \in Orders, OnBuildResult(w, o) PROVE BeginsFor(w)
    <2>1. \/ \E s \in BuildStatuses : Validate(w, "result", o, s, "return")
          \/ Begin(w, Task("error", "result", o, "DRAFT", "none", "agree", {}))
      BY <1>4 DEF OnBuildResult
    <2> QED
      BY <1>2, <1>o, <1>t, <2>1, BeginBegins
  <1>5. ASSUME NEW w \in Workers, NEW i \in Instances, NEW op, NEW yes, NEW no,
               Verdict(w, op, i, yes, no)
        PROVE  BeginsFor(w)
    <2>1. PICK pc, target, rows : Begin(w, Task(pc, op, instance[i].order, target, i,
                                                instance[i].decision, rows))
      BY <1>5 DEF Verdict
    <2> QED
      BY <1>o, <1>t, <2>1, BeginBegins
  <1>6. ASSUME NEW w \in Workers, NEW i \in Instances,
               OnApprovalResult(w, i) \/ OnSecondReviewResult(w, i)
        PROVE  BeginsFor(w)
    BY <1>5, <1>6 DEF OnApprovalResult, OnSecondReviewResult
  <1> QED
    BY <1>1, <1>3, <1>4, <1>6

LEMMA OverlapSteps ==
  ASSUME TypeOK, [Next]_vars
  PROVE  overlapped' = overlapped \/ \E w \in Workers : BeginsFor(w)
  BY BeginningSteps DEF Next, vars, Decide, IgnoredCallback, CreateApproval,
     TriggerBuildApi, CommitFinish, ApprovalCreated, TriggerSent, AwaitFailed, Persist, Raise,
     Crash

\* The histories grow; direct and crashes are those of the two builds' properties.
LEMMA HistoriesGrow ==
  ASSUME TypeOK, [Next]_vars
  PROVE  /\ direct \subseteq direct' /\ (crashes' = crashes \/ crashes' = crashes + 1)
         /\ overlapped \subseteq overlapped' /\ overlapped' \subseteq Orders
         /\ strayed \subseteq strayed' /\ strayed' \subseteq Orders
  <1>1. direct \subseteq direct' /\ (crashes' = crashes \/ crashes' = crashes + 1)
    BY DEF Next, vars, Decide, IgnoredCallback, CreateApproval, Callback, OnApprovalResult,
       OnSecondReviewResult, Verdict, SubmitForApproval, OnSensitiveChangeDetected, TriggerBuild,
       TriggerBuildApi, CloseWorkOrder, OnBuildResult, CommitFinish, ApprovalCreated, TriggerSent,
       AwaitFailed, Persist, Raise, Crash
  <1>2. overlapped \subseteq overlapped' /\ overlapped' \subseteq Orders
    BY OverlapSteps DEF BeginsFor, TypeOK
  <1>3. strayed' = strayed \/ \E i \in Instances : strayed' = strayed \cup {instance[i].order}
    BY DEF Next, vars, Decide, IgnoredCallback, CreateApproval, Callback, OnApprovalResult,
       OnSecondReviewResult, Verdict, SubmitForApproval, OnSensitiveChangeDetected, TriggerBuild,
       TriggerBuildApi, CloseWorkOrder, OnBuildResult, CommitFinish, ApprovalCreated, TriggerSent,
       AwaitFailed, Persist, Raise, Crash
  <1> QED
    BY <1>1, <1>2, <1>3 DEF TypeOK

\* Every action keeps the types.
LEMMA StepTypeOK == TypeOK /\ [Next]_vars => TypeOK'
  <1> SUFFICES ASSUME TypeOK, [Next]_vars PROVE TypeOK'
    OBVIOUS
  <1>h. overlapped' \subseteq Orders /\ strayed' \subseteq Orders
    BY HistoriesGrow
  <1> USE IdleType, <1>h
  <1>0. Idle.pc = "idle"
    BY DEF Idle
  <1>1. ASSUME NEW i \in Instances, Decide(i) PROVE TypeOK'
    BY <1>1, SMTT(30) DEF Decide, TypeOK
  <1>2. ASSUME NEW i \in Instances, IgnoredCallback(i) PROVE TypeOK'
    BY <1>2 DEF IgnoredCallback, TypeOK
  <1>3. ASSUME NEW o \in Orders, NEW i \in Instances, CreateApproval(o, i) PROVE TypeOK'
    BY <1>3 DEF CreateApproval, NewInstance, TypeOK, Reviews
  <1>4. ASSUME NEW w \in Workers, NEW i \in Instances, Callback(w, i) PROVE TypeOK'
    <2> DEFINE o == instance[i].order
               pc == IF Cardinality(PendingRows(o)) > 1 THEN "error" ELSE "read"
               t == Task(pc, "callback", o, "DRAFT", i, instance[i].decision, PendingRows(o))
    <2>1. /\ pc \in {"idle", "read", "await", "return", "error"}
          /\ "DRAFT" \in WorkOrderState
      BY DEF WorkOrderState
    <2>2. PendingRows(o) \in SUBSET Instances
      BY DEF PendingRows
    <2>3. /\ o \in Orders
          /\ instance[i].decision \in Verdicts
      BY <1>4 DEF Callback, TypeOK
    <2>4. worker' = [worker EXCEPT ![w] = t]
      BY <1>4 DEF Callback, Begin
    <2> HIDE DEF o, pc
    <2>5. t \in Tasks /\ t.inst = i
      BY <2>1, <2>2, <2>3, TaskType
    <2>6. UNCHANGED <<state, row, instance, acked, running, direct, aborted, crashes>>
      BY <1>4 DEF Callback
    <2> HIDE DEF t
    <2> QED
      BY <2>4, <2>5, <2>6 DEF TypeOK
  <1>5. ASSUME NEW w \in Workers, NEW o \in Orders, NEW op \in AllOperations,
               NEW target \in WorkOrderState, NEW pc \in {"await", "return"},
               Validate(w, op, o, target, pc)
        PROVE  /\ worker' \in [Workers -> Tasks]
               /\ \A v \in Workers : worker'[v].pc = "read" => worker'[v].inst \in Instances
    <2> DEFINE t == Task(IF can_transition(state[o], target) THEN pc ELSE "error",
                         op, o, target, "none", "agree", {})
    <2>1. t \in Tasks /\ t.pc # "read"
      BY TaskType DEF Verdicts
    <2>2. worker' = [worker EXCEPT ![w] = t]
      BY <1>5 DEF Validate, Begin
    <2> HIDE DEF t
    <2> QED
      BY <2>1, <2>2 DEF TypeOK
  <1>6. ASSUME NEW w \in Workers, NEW o \in Orders,
               SubmitForApproval(w, o) \/ OnSensitiveChangeDetected(w, o)
               \/ TriggerBuild(w, o) \/ CloseWorkOrder(w, o)
        PROVE  TypeOK'
    <2>1. /\ worker' \in [Workers -> Tasks]
          /\ \A v \in Workers : worker'[v].pc = "read" => worker'[v].inst \in Instances
      BY <1>5, <1>6 DEF SubmitForApproval, OnSensitiveChangeDetected, TriggerBuild,
         CloseWorkOrder, AllOperations, WorkOrderState
    <2>2. UNCHANGED <<state, row, instance, acked, running, direct, aborted, crashes>>
      BY <1>6 DEF SubmitForApproval, OnSensitiveChangeDetected, TriggerBuild, CloseWorkOrder
    <2> QED
      BY <2>1, <2>2 DEF TypeOK
  <1>7. ASSUME NEW w \in Workers, NEW o \in Orders, OnBuildResult(w, o) PROVE TypeOK'
    <2> DEFINE t == Task("error", "result", o, "DRAFT", "none", "agree", {})
    <2>0. /\ "result" \in AllOperations \cup {"callback"} /\ "DRAFT" \in WorkOrderState
          /\ "agree" \in Verdicts /\ "error" \in {"idle", "read", "await", "return", "error"}
          /\ "none" \in Instances \cup {"none"} /\ {} \in SUBSET Instances
      BY DEF Verdicts, AllOperations, WorkOrderState
    <2>1. t \in Tasks /\ t.pc # "read"
      BY <2>0, TaskType
    <2>2. PICK s \in BuildStatuses :
             \/ s \in {"SUCCESS", "FAILED"} /\ Validate(w, "result", o, s, "return")
             \/ worker' = [worker EXCEPT ![w] = t]
      BY <1>7 DEF OnBuildResult, Begin
    <2> HIDE DEF t
    <2>3. CASE s \in {"SUCCESS", "FAILED"} /\ Validate(w, "result", o, s, "return")
      <3>1. /\ worker' \in [Workers -> Tasks]
            /\ \A v \in Workers : worker'[v].pc = "read" => worker'[v].inst \in Instances
        BY <1>5, <2>3 DEF AllOperations, WorkOrderState
      <3> QED
        BY <1>7, <3>1 DEF OnBuildResult, TypeOK
    <2>4. CASE worker' = [worker EXCEPT ![w] = t]
      BY <1>7, <2>1, <2>4 DEF OnBuildResult, TypeOK
    <2> QED
      BY <2>2, <2>3, <2>4
  <1>8. ASSUME NEW w \in Workers, NEW i \in Instances, NEW op \in AllOperations,
               NEW a \in WorkOrderState, NEW r \in WorkOrderState, Verdict(w, op, i, a, r)
        PROVE  TypeOK'
    <2> DEFINE o == instance[i].order
               target == IF instance[i].decision = "agree" THEN a ELSE r
               t == Task(IF can_transition(state[o], target) THEN "return" ELSE "error",
                         op, o, target, i, instance[i].decision, {i} \cap PendingRows(o))
    <2>1. t \in Tasks /\ t.inst = i
      BY <1>8, TaskType DEF Verdict, TypeOK
    <2>2. worker' = [worker EXCEPT ![w] = t]
      BY <1>8 DEF Verdict, Begin
    <2>3. UNCHANGED <<state, row, instance, acked, running, direct, aborted, crashes>>
      BY <1>8 DEF Verdict
    <2> HIDE DEF t
    <2> QED
      BY <2>1, <2>2, <2>3 DEF TypeOK
  <1>9. ASSUME NEW w \in Workers, NEW i \in Instances,
               OnApprovalResult(w, i) \/ OnSecondReviewResult(w, i)
        PROVE  TypeOK'
    BY <1>8, <1>9 DEF OnApprovalResult, OnSecondReviewResult, AllOperations, WorkOrderState
  <1>10. ASSUME NEW rows \in SUBSET Instances, NEW v \in Verdicts
         PROVE  Resolve(rows, v) \in [Instances -> [status : {"ABSENT", "PENDING", "APPROVED", "REJECTED"},
                                                    review_type : Reviews]]
    BY DEF Resolve, TypeOK
  <1>11. ASSUME NEW w \in Workers, CommitFinish(w) PROVE TypeOK'
    <2>1. /\ worker[w] \in Tasks
          /\ worker[w].inst \in Instances
      BY <1>11 DEF CommitFinish, TypeOK
    <2>2. FinishTarget(worker[w]) \in WorkOrderState
      BY DEF FinishTarget, WorkOrderState
    <2>3. Resolve(worker[w].rows, worker[w].verdict) \in
            [Instances -> [status : {"ABSENT", "PENDING", "APPROVED", "REJECTED"},
                           review_type : Reviews]]
      BY <1>10, <2>1 DEF Tasks
    <2>4. state' \in [Orders -> WorkOrderState]
      BY <1>11, <2>1, <2>2 DEF CommitFinish, TypeOK
    <2>5. row' = row \/ row' = Resolve(worker[w].rows, worker[w].verdict)
      BY <1>11 DEF CommitFinish
    <2>6. /\ worker' = [worker EXCEPT ![w] = Idle]
          /\ acked' = acked \cup {worker[w].inst}
          /\ UNCHANGED <<instance, running, direct, aborted, crashes>>
      BY <1>11 DEF CommitFinish
    <2> QED
      BY <1>0, <2>1, <2>3, <2>4, <2>5, <2>6 DEF TypeOK
  <1>12. ASSUME NEW w \in Workers, NEW pc \in {"return", "error"},
                worker[w].pc = "await", NEW i \in Instances \cup {"none"},
                worker' = [worker EXCEPT ![w].pc = pc, ![w].inst = i]
         PROVE  /\ worker' \in [Workers -> Tasks]
                /\ \A v \in Workers : worker'[v].pc = "read" => worker'[v].inst \in Instances
    BY <1>12, ZenonT(60) DEF TypeOK, Tasks
  <1>13. ASSUME NEW w \in Workers, NEW pc \in {"return", "error"},
                worker[w].pc = "await",
                worker' = [worker EXCEPT ![w].pc = pc]
         PROVE  /\ worker' \in [Workers -> Tasks]
                /\ \A v \in Workers : worker'[v].pc = "read" => worker'[v].inst \in Instances
    BY <1>13, ZenonT(60) DEF TypeOK, Tasks
  <1>14. ASSUME NEW w \in Workers, ApprovalCreated(w) PROVE TypeOK'
    <2>1. PICK i \in Instances :
             /\ NewInstance(i, worker[w].order,
                            IF worker[w].op = "submit" THEN "first" ELSE "second")
             /\ \/ worker' = [worker EXCEPT ![w].pc = "return", ![w].inst = i]
                \/ worker' = [worker EXCEPT ![w].pc = "error"]
      BY <1>14 DEF ApprovalCreated
    <2>2. worker[w].pc = "await" /\ worker[w].order \in Orders
      BY <1>14 DEF ApprovalCreated, TypeOK, Tasks
    <2>3. /\ worker' \in [Workers -> Tasks]
          /\ \A v \in Workers : worker'[v].pc = "read" => worker'[v].inst \in Instances
      BY <1>12, <1>13, <2>1, <2>2
    <2> QED
      BY <1>14, <2>1, <2>2, <2>3 DEF ApprovalCreated, NewInstance, TypeOK, Reviews
  <1>15. ASSUME NEW w \in Workers, TriggerSent(w) PROVE TypeOK'
    <2>1. /\ worker' \in [Workers -> Tasks]
          /\ \A v \in Workers : worker'[v].pc = "read" => worker'[v].inst \in Instances
      BY <1>13, <1>15 DEF TriggerSent
    <2>2. worker[w].order \in Orders
      BY DEF TypeOK, Tasks
    <2> QED
      BY <1>15, <2>1, <2>2 DEF TriggerSent, TypeOK
  <1>16. ASSUME NEW w \in Workers, AwaitFailed(w) PROVE TypeOK'
    <2>1. /\ worker' \in [Workers -> Tasks]
          /\ \A v \in Workers : worker'[v].pc = "read" => worker'[v].inst \in Instances
      BY <1>13, <1>16 DEF AwaitFailed
    <2> QED
      BY <1>16, <2>1 DEF AwaitFailed, TypeOK
  <1>17. ASSUME NEW w \in Workers, Persist(w) PROVE TypeOK'
    <2>1. worker[w] \in Tasks
      BY DEF TypeOK
    <2>2. row' \in [Instances -> [status : {"ABSENT", "PENDING", "APPROVED", "REJECTED"},
                                  review_type : Reviews]]
      <3>1. CASE worker[w].op \in {"submit", "sensitive"}
        BY <1>17, <3>1 DEF Persist, TypeOK, Reviews
      <3>2. CASE worker[w].op \notin {"submit", "sensitive"}
        BY <1>10, <1>17, <2>1, <3>2 DEF Persist, Tasks
      <3> QED
        BY <3>1, <3>2
    <2>3. state' \in [Orders -> WorkOrderState]
      BY <1>17, <2>1 DEF Persist, TypeOK, Tasks
    <2> QED
      BY <1>0, <1>17, <2>2, <2>3 DEF Persist, TypeOK
  <1>18. ASSUME NEW w \in Workers, Raise(w) PROVE TypeOK'
    BY <1>0, <1>18 DEF Raise, TypeOK
  <1>19. CASE Crash
    BY <1>0, <1>19 DEF Crash, TypeOK
  <1>20. CASE UNCHANGED vars
    BY <1>20 DEF vars, TypeOK
  <1>21. ASSUME NEW o \in Orders, TriggerBuildApi(o) PROVE TypeOK'
    BY <1>21 DEF TriggerBuildApi, TypeOK
  <1> QED
    BY <1>1, <1>2, <1>3, <1>4, <1>6, <1>7, <1>9, <1>11, <1>14, <1>15, <1>16, <1>17,
       <1>18, <1>19, <1>20, <1>21 DEF Next

\* The tables, tasks and counters keep their types in every behaviour.
THEOREM TypeCorrect == Spec => []TypeOK
  BY InitTypeOK, StepTypeOK, PTL DEF Spec

-------------------------------------------------------------------------------
(* No build without approval                                                   *)

\* What keeps a task justified: the order's agreement, its own read, the edge.
LEMMA StepApprovalInv == ApprovalInv /\ [Next]_vars => ApprovalInv'
  <1> SUFFICES ASSUME ApprovalInv, [Next]_vars PROVE ApprovalInv'
    OBVIOUS
  <1>t. TypeOK /\ TypeOK'
    BY StepTypeOK DEF ApprovalInv
  <1>a. \A o \in Orders : Agreed(o) => Agreed(o)'
    BY <1>t, AgreementStays
  <1>s. \A o \in Orders :
          state[o] \in PostApproval \/ (running[o] > 0 /\ o \notin direct) => Agreed(o)
    BY DEF ApprovalInv, NoBuildWithoutApproval
  \* What was sent past RelayService is remembered.
  <1>d. direct \subseteq direct'
    BY HistoriesGrow DEF ApprovalInv
  <1>w. \A w \in Workers : WorkerJustified(worker[w]) /\ worker[w].order \in Orders
    BY <1>t DEF ApprovalInv, TypeOK, Tasks
  \* A task left alone stays justified, and so does a reset one.
  <1>k. ASSUME NEW w \in Workers, worker'[w] = worker[w]
        PROVE  WorkerJustified(worker[w])'
    BY <1>k, <1>a, <1>w DEF WorkerJustified
  <1>i. ASSUME NEW w \in Workers, worker'[w].pc \in {"idle", "error"}
        PROVE  WorkerJustified(worker[w])'
    BY <1>i DEF WorkerJustified
  <1>0. Idle.pc = "idle"
    BY DEF Idle
  \* Orders and builds left alone stay approved.
  <1>u. ASSUME UNCHANGED <<state, running>> PROVE NoBuildWithoutApproval'
    BY <1>d, <1>u, <1>a, <1>s DEF NoBuildWithoutApproval
  \* It is enough to look at the orders and at the one task that moves.
  <1>n. ASSUME NoBuildWithoutApproval', NEW w \in Workers,
               \A v \in Workers \ {w} : worker'[v] = worker[v],
               WorkerJustified(worker[w])'
        PROVE  ApprovalInv'
    <2>1. \A v \in Workers : WorkerJustified(worker[v])'
      BY <1>n, <1>k
    <2> QED
      BY <1>t, <1>n, <2>1 DEF ApprovalInv
  <1>m. ASSUME UNCHANGED <<state, running, worker>> PROVE ApprovalInv'
    <2>1. \A v \in Workers : WorkerJustified(worker[v])'
      BY <1>m, <1>k
    <2> QED
      BY <1>t, <1>u, <1>m, <2>1 DEF ApprovalInv
  <1>1. ASSUME NEW i \in Instances, Decide(i) \/ IgnoredCallback(i) PROVE ApprovalInv'
    BY <1>1, <1>m DEF Decide, IgnoredCallback
  <1>2. ASSUME NEW o \in Orders, NEW i \in Instances, CreateApproval(o, i) PROVE ApprovalInv'
    BY <1>2, <1>m DEF CreateApproval
  <1>3. ASSUME NEW w \in Workers, NEW i \in Instances, Callback(w, i) PROVE ApprovalInv'
    <2> DEFINE o == instance[i].order
               pc == IF Cardinality(PendingRows(o)) > 1 THEN "error" ELSE "read"
    <2>1. o \in Orders
      BY <1>t DEF TypeOK
    <2>2. worker' = [worker EXCEPT ![w] =
             Task(pc, "callback", o, "DRAFT", i, instance[i].decision, PendingRows(o))]
      BY <1>3 DEF Callback, Begin
    <2>3. instance[i].decision = "agree" => Agreed(o)
      BY DEF Agreed
    <2>4. worker' [w] = Task(pc, "callback", o, "DRAFT", i, instance[i].decision, PendingRows(o))
      BY <1>t, <2>2 DEF TypeOK
    <2>5. pc \in {"read", "error"}
      OBVIOUS
    <2> HIDE DEF o, pc
    <2>6. /\ worker'[w].pc \in {"read", "error"}
          /\ worker'[w].order = o
          /\ worker'[w].seen = state[o]
          /\ worker'[w].verdict = instance[i].decision
      BY <2>4, <2>5 DEF Task
    <2>7. WorkerJustified(worker[w])'
      BY <1>a, <1>s, <2>1, <2>3, <2>6 DEF WorkerJustified
    <2>8. UNCHANGED <<state, running>>
      BY <1>3 DEF Callback, Begin
    <2> QED
      BY <1>n, <1>t, <1>u, <2>2, <2>7, <2>8 DEF TypeOK
  <1>4. ASSUME NEW w \in Workers, NEW o \in Orders, NEW op, NEW target,
               NEW pc \in {"await", "return"}, Validate(w, op, o, target, pc),
               target # "APPROVED", op = "trigger" => target = "BUILDING"
        PROVE  /\ \A v \in Workers \ {w} : worker'[v] = worker[v]
               /\ WorkerJustified(worker[w])'
    <2> DEFINE p == IF can_transition(state[o], target) THEN pc ELSE "error"
    <2>1. worker' = [worker EXCEPT ![w] = Task(p, op, o, target, "none", "agree", {})]
      BY <1>4 DEF Validate, Begin
    <2>2. p = "error" \/ (p \in {"await", "return"} /\ can_transition(state[o], target))
      OBVIOUS
    <2> HIDE DEF p
    <2>3. worker'[w] = Task(p, op, o, target, "none", "agree", {})
      BY <1>t, <2>1 DEF TypeOK
    <2>4. /\ worker'[w].pc = p
          /\ worker'[w].op = op
          /\ worker'[w].order = o
          /\ worker'[w].seen = state[o]
          /\ worker'[w].target = target
      BY <2>3 DEF Task
    <2>5. (p # "error" /\ target \in PostApproval) => state[o] \in PostApproval
      BY <1>4, <2>2, PostApprovalEdge
    <2>6. WorkerJustified(worker[w])'
      BY <1>4, <1>a, <1>s, <2>2, <2>4, <2>5 DEF WorkerJustified
    <2> QED
      BY <1>t, <2>1, <2>6 DEF TypeOK
  <1>5. ASSUME NEW w \in Workers, NEW o \in Orders,
               SubmitForApproval(w, o) \/ OnSensitiveChangeDetected(w, o)
               \/ TriggerBuild(w, o) \/ CloseWorkOrder(w, o)
        PROVE  ApprovalInv'
    <2>1. /\ \A v \in Workers \ {w} : worker'[v] = worker[v]
          /\ WorkerJustified(worker[w])'
      BY <1>4, <1>5 DEF SubmitForApproval, OnSensitiveChangeDetected, TriggerBuild,
         CloseWorkOrder
    <2>2. UNCHANGED <<state, running>>
      BY <1>5 DEF SubmitForApproval, OnSensitiveChangeDetected, TriggerBuild, CloseWorkOrder
    <2> QED
      BY <1>n, <1>u, <2>1, <2>2
  <1>6. ASSUME NEW w \in Workers, NEW o \in Orders, OnBuildResult(w, o) PROVE ApprovalInv'
    <2>1. /\ \A v \in Workers \ {w} : worker'[v] = worker[v]
          /\ WorkerJustified(worker[w])'
      <3>1. PICK s \in BuildStatuses :
               \/ s # "APPROVED" /\ Validate(w, "result", o, s, "return")
               \/ worker' = [worker EXCEPT ![w] =
                                Task("error", "result", o, "DRAFT", "none", "agree", {})]
        BY <1>6 DEF OnBuildResult, Begin
      <3>2. CASE s # "APPROVED" /\ Validate(w, "result", o, s, "return")
        BY <1>4, <3>2
      <3>3. CASE worker' = [worker EXCEPT ![w] =
                              Task("error", "result", o, "DRAFT", "none", "agree", {})]
        <4>1. worker'[w].pc = "error"
          BY <1>t, <3>3 DEF TypeOK, Task
        <4> QED
          BY <1>i, <1>t, <3>3, <4>1 DEF TypeOK
      <3> QED
        BY <3>1, <3>2, <3>3
    <2>2. /\ state' = state
          /\ \A p \in Orders : running'[p] > 0 => running[p] > 0
      BY <1>6, <1>t DEF OnBuildResult, TypeOK
    <2>3. NoBuildWithoutApproval'
      BY <1>d, <1>a, <1>s, <2>2 DEF NoBuildWithoutApproval
    <2> QED
      BY <1>n, <2>1, <2>3
  <1>7. ASSUME NEW w \in Workers, NEW i \in Instances, NEW op, NEW yes, NEW no,
               Verdict(w, op, i, yes, no), no # "APPROVED"
        PROVE  ApprovalInv'
    <2> DEFINE o == instance[i].order
               d == instance[i].decision
               target == IF d = "agree" THEN yes ELSE no
               p == IF can_transition(state[o], target) THEN "return" ELSE "error"
               rows == {i} \cap PendingRows(o)
    <2>1. o \in Orders
      BY <1>t DEF TypeOK
    <2>2. worker' = [worker EXCEPT ![w] = Task(p, op, o, target, i, d, rows)]
      BY <1>7 DEF Verdict, Begin
    <2>3. p = "error" \/ (p = "return" /\ can_transition(state[o], target))
      OBVIOUS
    <2>4. target = "APPROVED" => Agreed(o)
      BY <1>7 DEF Agreed
    <2> HIDE DEF o, d, target, p, rows
    <2>5. worker'[w] = Task(p, op, o, target, i, d, rows)
      BY <1>t, <2>2 DEF TypeOK
    <2>6. /\ worker'[w].pc = p
          /\ worker'[w].order = o
          /\ worker'[w].seen = state[o]
          /\ worker'[w].target = target
      BY <2>5 DEF Task
    <2>7. (p = "return" /\ target \in PostApproval) => Agreed(o)
      BY <1>s, <2>1, <2>3, <2>4, PostApprovalEdge
    <2>8. WorkerJustified(worker[w])'
      BY <1>a, <1>s, <2>1, <2>3, <2>6, <2>7 DEF WorkerJustified
    <2>9. UNCHANGED <<state, running>>
      BY <1>7 DEF Verdict, Begin
    <2> QED
      BY <1>n, <1>t, <1>u, <2>2, <2>8, <2>9 DEF TypeOK
  <1>8. ASSUME NEW w \in Workers, NEW i \in Instances,
               OnApprovalResult(w, i) \/ OnSecondReviewResult(w, i)
        PROVE  ApprovalInv'
    BY <1>7, <1>8 DEF OnApprovalResult, OnSecondReviewResult
  <1>9. ASSUME NEW w \in Workers, NEW target, NEW o \in Orders,
               target \in PostApproval => Agreed(o),
               state' = [state EXCEPT ![o] = target], running' = running
        PROVE  NoBuildWithoutApproval'
    BY <1>d, <1>9, <1>a, <1>s, <1>t DEF NoBuildWithoutApproval, TypeOK
  <1>10. ASSUME NEW w \in Workers, CommitFinish(w) PROVE ApprovalInv'
    <2> DEFINE t == worker[w]
               target == FinishTarget(t)
    <2>1. /\ t.pc = "read"
          /\ worker' = [worker EXCEPT ![w] = Idle]
          /\ running' = running
          /\ state' = state \/ (/\ can_transition(t.seen, target)
                                /\ state' = [state EXCEPT ![t.order] = target])
      BY <1>10 DEF CommitFinish
    <2>2. t.order \in Orders
      BY <1>w
    <2>3. target = "APPROVED" => t.verdict = "agree"
      BY DEF FinishTarget
    <2>4. can_transition(t.seen, target) /\ target \in PostApproval => Agreed(t.order)
      BY <1>w, <2>1, <2>3, PostApprovalEdge DEF WorkerJustified
    <2>5. NoBuildWithoutApproval'
      <3>1. CASE state' = state
        BY <1>u, <2>1, <3>1
      <3>2. CASE can_transition(t.seen, target) /\ state' = [state EXCEPT ![t.order] = target]
        <4> HIDE DEF target
        <4> QED
          BY <1>9, <2>1, <2>2, <2>4, <3>2
      <3> QED
        BY <2>1, <3>1, <3>2
    <2>6. worker'[w].pc = "idle" /\ \A v \in Workers \ {w} : worker'[v] = worker[v]
      BY <1>0, <1>t, <2>1 DEF TypeOK
    <2> QED
      BY <1>i, <1>n, <2>5, <2>6
  <1>11. ASSUME NEW w \in Workers, worker[w].pc = "await",
                \/ worker' = [worker EXCEPT ![w].pc = "error"]
                \/ worker' = [worker EXCEPT ![w].pc = "return"]
                \/ \E i \in Instances :
                     worker' = [worker EXCEPT ![w].pc = "return", ![w].inst = i]
         PROVE  /\ \A v \in Workers \ {w} : worker'[v] = worker[v]
                /\ WorkerJustified(worker[w])'
    <2>1. /\ worker'[w].pc \in {"return", "error"}
          /\ worker'[w].order = worker[w].order
          /\ worker'[w].seen = worker[w].seen
          /\ worker'[w].target = worker[w].target
      BY <1>11, <1>t DEF TypeOK, Tasks
    <2>2. WorkerJustified(worker[w])'
      BY <1>11, <1>a, <1>w, <2>1 DEF WorkerJustified
    <2> QED
      BY <1>11, <1>t, <2>2 DEF TypeOK
  <1>12. ASSUME NEW w \in Workers, ApprovalCreated(w) \/ AwaitFailed(w) PROVE ApprovalInv'
    <2>1. /\ \A v \in Workers \ {w} : worker'[v] = worker[v]
          /\ WorkerJustified(worker[w])'
      BY <1>11, <1>12 DEF ApprovalCreated, AwaitFailed
    <2>2. UNCHANGED <<state, running>>
      BY <1>12 DEF ApprovalCreated, AwaitFailed
    <2> QED
      BY <1>n, <1>u, <2>1, <2>2
  <1>13. ASSUME NEW w \in Workers, TriggerSent(w) PROVE ApprovalInv'
    <2>1. /\ \A v \in Workers \ {w} : worker'[v] = worker[v]
          /\ WorkerJustified(worker[w])'
      BY <1>11, <1>13 DEF TriggerSent
    <2>2. worker[w].target = "BUILDING" /\ worker[w].order \in Orders
      BY <1>13, <1>w DEF TriggerSent, WorkerJustified
    <2>3. Agreed(worker[w].order)
      BY <1>13, <1>w, <2>2 DEF TriggerSent, WorkerJustified, PostApproval
    <2>4. /\ state' = state
          /\ \A o \in Orders \ {worker[w].order} : running'[o] = running[o]
      BY <1>13, <1>t DEF TriggerSent, TypeOK
    <2>5. NoBuildWithoutApproval'
      BY <1>d, <1>a, <1>s, <2>2, <2>3, <2>4 DEF NoBuildWithoutApproval
    <2> QED
      BY <1>n, <2>1, <2>5
  <1>14. ASSUME NEW w \in Workers, Persist(w) PROVE ApprovalInv'
    <2>1. /\ worker[w].pc = "return"
          /\ worker' = [worker EXCEPT ![w] = Idle]
          /\ running' = running
          /\ state' = [state EXCEPT ![worker[w].order] = worker[w].target]
      BY <1>14 DEF Persist
    <2>2. worker[w].target \in PostApproval => Agreed(worker[w].order)
      BY <1>w, <2>1 DEF WorkerJustified
    <2>3. NoBuildWithoutApproval'
      BY <1>9, <1>w, <2>1, <2>2
    <2>4. worker'[w].pc = "idle" /\ \A v \in Workers \ {w} : worker'[v] = worker[v]
      BY <1>0, <1>t, <2>1 DEF TypeOK
    <2> QED
      BY <1>i, <1>n, <2>3, <2>4
  <1>15. ASSUME NEW w \in Workers, Raise(w) PROVE ApprovalInv'
    <2>1. worker'[w].pc = "idle" /\ \A v \in Workers \ {w} : worker'[v] = worker[v]
      BY <1>0, <1>15, <1>t DEF Raise, TypeOK
    <2>2. UNCHANGED <<state, running>>
      BY <1>15 DEF Raise
    <2> QED
      BY <1>i, <1>n, <1>u, <2>1, <2>2
  <1>16. CASE Crash
    <2>1. \A w \in Workers : worker'[w].pc = "idle"
      BY <1>0, <1>16 DEF Crash
    <2>2. \A w \in Workers : WorkerJustified(worker[w])'
      BY <1>i, <2>1
    <2>3. UNCHANGED <<state, running>>
      BY <1>16 DEF Crash
    <2> QED
      BY <1>t, <1>u, <2>2, <2>3 DEF ApprovalInv
  <1>17. CASE UNCHANGED vars
    BY <1>17, <1>m DEF vars
  <1>18. ASSUME NEW o \in Orders, TriggerBuildApi(o) PROVE ApprovalInv'
    <2>1. /\ UNCHANGED <<state, worker>>
          /\ direct' = direct \cup {o}
          /\ \A p \in Orders \ {o} : running'[p] = running[p]
      BY <1>18, <1>t DEF TriggerBuildApi, TypeOK
    <2>2. NoBuildWithoutApproval'
      BY <1>d, <1>a, <1>s, <2>1 DEF NoBuildWithoutApproval
    <2>3. \A v \in Workers : WorkerJustified(worker[v])'
      BY <1>k, <2>1
    <2> QED
      BY <1>t, <2>2, <2>3 DEF ApprovalInv
  <1> QED
    BY <1>1, <1>2, <1>3, <1>5, <1>6, <1>8, <1>10, <1>12, <1>13, <1>14, <1>15, <1>16,
       <1>17, <1>18 DEF Next

\* Initially every order is a draft and no task is active.
LEMMA InitApprovalInv == Init => ApprovalInv
  <1> SUFFICES ASSUME Init PROVE ApprovalInv
    OBVIOUS
  <1>1. TypeOK
    BY InitTypeOK
  <1>2. NoBuildWithoutApproval
    BY DEF Init, NoBuildWithoutApproval, PostApproval
  <1>3. \A w \in Workers : worker[w].pc = "idle"
    BY DEF Init, Idle
  <1>4. \A w \in Workers : WorkerJustified(worker[w])
    BY <1>3 DEF WorkerJustified
  <1> QED
    BY <1>1, <1>2, <1>4 DEF ApprovalInv

\* No order gets past approval and no BUILD_TRIGGER is sent for one without
\* an agreement of DingTalk, with any number of concurrent callbacks and
\* RelayService calls, repeated events, failed calls and restarts.
THEOREM NoBuildWithoutApprovalHolds == Spec => []NoBuildWithoutApproval
  <1>1. ApprovalInv => NoBuildWithoutApproval
    BY DEF ApprovalInv
  <1> QED
    BY <1>1, InitApprovalInv, StepApprovalInv, PTL DEF Spec

-------------------------------------------------------------------------------
(* What the steps of a task are                                                *)

\* A callback read the order and its pending rows.
Reads(w) ==
    /\ worker[w].pc = "idle" /\ worker'[w].pc = "read"
    /\ UNCHANGED <<state, row, instance, running>>
    /\ worker'[w].seen = state[worker'[w].order]
    /\ worker'[w].rows = PendingRows(worker'[w].order)
    /\ \E i \in Instances : /\ instance[i].order = worker'[w].order
                            /\ instance[i].decision = worker'[w].verdict

\* An operation validated its transition; the pc it goes on at is the third part.
CallKinds == {<<"submit", "PENDING_APPROVAL", "await">>,
              <<"sensitive", "PENDING_SECOND_REVIEW", "await">>,
              <<"trigger", "BUILDING", "await">>,
              <<"close", "CLOSED", "return">>,
              <<"result", "SUCCESS", "return">>,
              <<"result", "FAILED", "return">>}

Calls(w) ==
    /\ worker[w].pc = "idle"
    /\ UNCHANGED <<state, row, instance>>
    /\ worker'[w].seen = state[worker'[w].order]
    /\ can_transition(worker'[w].seen, worker'[w].target)
    /\ worker'[w].rows = {}
    /\ <<worker'[w].op, worker'[w].target, worker'[w].pc>> \in CallKinds
    /\ worker'[w].op # "result" => running' = running
    /\ worker'[w].op = "result" => OnBuildResult(w, worker'[w].order)

\* A decision of DingTalk was handed to RelayService.
Decides(w) ==
    /\ worker[w].pc = "idle" /\ worker'[w].pc = "return"
    /\ UNCHANGED <<state, row, instance, running>>
    /\ worker'[w].seen = state[worker'[w].order]
    /\ can_transition(worker'[w].seen, worker'[w].target)
    /\ worker'[w].op \in {"approval_result", "second_result"}
    /\ worker'[w].target \in {"APPROVED", "CLOSED", "SECOND_APPROVED", "SECOND_REJECTED"}
    /\ worker'[w].rows \subseteq PendingRows(worker'[w].order)
    /\ worker'[w].rows # {} \/ worker'[w].order \in strayed'
    /\ \E i \in Instances : /\ instance[i].order = worker'[w].order
                            /\ instance[i].decision = worker'[w].verdict

\* The awaited call succeeded.
Resumes(w) ==
    /\ worker[w].pc = "await" /\ worker'[w].pc = "return"
    /\ UNCHANGED <<state, row>>
    /\ worker'[w].op = worker[w].op /\ worker'[w].order = worker[w].order
    /\ worker'[w].seen = worker[w].seen /\ worker'[w].target = worker[w].target
    /\ worker'[w].rows = worker[w].rows /\ worker'[w].verdict = worker[w].verdict

Creates(w) ==
    /\ Resumes(w)
    /\ worker[w].op \in {"submit", "sensitive"} /\ running' = running
    /\ worker'[w].inst \in Instances
    /\ \E r \in Reviews : NewInstance(worker'[w].inst, worker[w].order, r)

Sends(w) ==
    /\ Resumes(w)
    /\ TriggerSent(w)

\* Every step leaves a task alone, ends it, or is one of these.
LEMMA WorkerSteps ==
  ASSUME TypeOK, [Next]_vars, NEW w \in Workers
  PROVE  \/ worker'[w] = worker[w]
         \/ worker'[w].pc \in {"idle", "error"}
         \/ Reads(w) \/ Calls(w) \/ Decides(w) \/ Creates(w) \/ Sends(w)
  <1> DEFINE Goal == \/ worker'[w] = worker[w]
                     \/ worker'[w].pc \in {"idle", "error"}
                     \/ Reads(w) \/ Calls(w) \/ Decides(w) \/ Creates(w) \/ Sends(w)
  <1>t. worker \in [Workers -> Tasks] /\ \A v \in Workers : worker[v] \in Tasks
    BY DEF TypeOK
  <1>o. ASSUME NEW v \in Workers, NEW t, worker' = [worker EXCEPT ![v] = t]
        PROVE  worker'[v] = t /\ (v # w => worker'[w] = worker[w])
    BY <1>o, <1>t
  <1>0. Idle.pc = "idle"
    BY DEF Idle
  <1> HIDE DEF Goal
  <1>1. ASSUME NEW v \in Workers, NEW i \in Instances, Callback(v, i) PROVE Goal
    <2> DEFINE o == instance[i].order
               pc == IF Cardinality(PendingRows(o)) > 1 THEN "error" ELSE "read"
               t == Task(pc, "callback", o, "DRAFT", i, instance[i].decision, PendingRows(o))
    <2>1. /\ worker[v].pc = "idle" /\ worker' = [worker EXCEPT ![v] = t]
          /\ UNCHANGED <<state, row, instance, running>>
      BY <1>1 DEF Callback, Begin
    <2>2. pc \in {"read", "error"}
      OBVIOUS
    <2> HIDE DEF pc
    <2>3. /\ t.pc = pc /\ t.order = instance[i].order /\ t.seen = state[instance[i].order]
          /\ t.rows = PendingRows(instance[i].order)
          /\ t.verdict = instance[i].decision
      BY DEF Task
    <2> HIDE DEF t
    <2>4. worker'[v] = t /\ (v # w => worker'[w] = worker[w])
      BY <1>o, <2>1
    <2>5. CASE v = w
      BY <2>1, <2>2, <2>3, <2>4, <2>5 DEF Goal, Reads
    <2> QED
      BY <2>4, <2>5 DEF Goal
  <1>2. ASSUME NEW v \in Workers, NEW o \in Orders, NEW op, NEW target, NEW pc,
               Validate(v, op, o, target, pc), <<op, target, pc>> \in CallKinds,
               UNCHANGED <<state, row, instance>>,
               op # "result" => running' = running,
               op = "result" => OnBuildResult(v, o)
        PROVE  Goal
    <2> DEFINE p == IF can_transition(state[o], target) THEN pc ELSE "error"
               t == Task(p, op, o, target, "none", "agree", {})
    <2>1. worker[v].pc = "idle" /\ worker' = [worker EXCEPT ![v] = t]
      BY <1>2 DEF Validate, Begin
    <2>2. p = "error" \/ (p = pc /\ can_transition(state[o], target))
      OBVIOUS
    <2> HIDE DEF p
    <2>3. /\ t.pc = p /\ t.op = op /\ t.order = o /\ t.seen = state[o] /\ t.target = target
          /\ t.rows = {}
      BY DEF Task
    <2> HIDE DEF t
    <2>4. worker'[v] = t /\ (v # w => worker'[w] = worker[w])
      BY <1>o, <2>1
    <2>5. CASE v = w
      BY <1>2, <2>1, <2>2, <2>3, <2>4, <2>5 DEF Goal, Calls
    <2> QED
      BY <2>4, <2>5 DEF Goal
  <1>3. ASSUME NEW v \in Workers, NEW o \in Orders, SubmitForApproval(v, o) PROVE Goal
    BY <1>2, <1>3 DEF SubmitForApproval, CallKinds
  <1>4. ASSUME NEW v \in Workers, NEW o \in Orders, OnSensitiveChangeDetected(v, o) PROVE Goal
    BY <1>2, <1>4 DEF OnSensitiveChangeDetected, CallKinds
  <1>5. ASSUME NEW v \in Workers, NEW o \in Orders, TriggerBuild(v, o) PROVE Goal
    BY <1>2, <1>5 DEF TriggerBuild, CallKinds
  <1>6. ASSUME NEW v \in Workers, NEW o \in Orders, CloseWorkOrder(v, o) PROVE Goal
    BY <1>2, <1>6 DEF CloseWorkOrder, CallKinds
  <1>7. ASSUME NEW v \in Workers, NEW o \in Orders, OnBuildResult(v, o) PROVE Goal
    <2> DEFINE t == Task("error", "result", o, "DRAFT", "none", "agree", {})
    <2>0. UNCHANGED <<state, row, instance>>
      BY <1>7 DEF OnBuildResult
    <2>1. PICK s \in BuildStatuses :
             \/ s \in {"SUCCESS", "FAILED"} /\ Validate(v, "result", o, s, "return")
             \/ worker' = [worker EXCEPT ![v] = t]
      BY <1>7 DEF OnBuildResult, Begin
    <2>2. t.pc = "error"
      BY DEF Task
    <2> HIDE DEF t
    <2>3. CASE s \in {"SUCCESS", "FAILED"} /\ Validate(v, "result", o, s, "return")
      <3>1. <<"result", s, "return">> \in CallKinds
        BY <2>3 DEF CallKinds
      <3> QED
        BY <1>2, <1>7, <2>0, <2>3, <3>1
    <2>4. CASE worker' = [worker EXCEPT ![v] = t]
      <3>1. worker'[v] = t /\ (v # w => worker'[w] = worker[w])
        BY <1>o, <2>4
      <3> QED
        BY <2>2, <3>1 DEF Goal
    <2> QED
      BY <2>1, <2>3, <2>4
  <1>8. ASSUME NEW v \in Workers, NEW i \in Instances,
               NEW op \in {"approval_result", "second_result"},
               NEW yes \in {"APPROVED", "SECOND_APPROVED"},
               NEW no \in {"CLOSED", "SECOND_REJECTED"}, Verdict(v, op, i, yes, no)
        PROVE  Goal
    <2> DEFINE o == instance[i].order
               d == instance[i].decision
               target == IF d = "agree" THEN yes ELSE no
               p == IF can_transition(state[o], target) THEN "return" ELSE "error"
               t == Task(p, op, o, target, i, d, {i} \cap PendingRows(o))
    <2>1. /\ worker[v].pc = "idle" /\ worker' = [worker EXCEPT ![v] = t]
          /\ i \in PendingRows(o) \/ o \in strayed'
          /\ UNCHANGED <<state, row, instance, running>>
      BY <1>8 DEF Verdict, Begin
    <2>2. /\ p = "error" \/ (p = "return" /\ can_transition(state[o], target))
          /\ target \in {"APPROVED", "CLOSED", "SECOND_APPROVED", "SECOND_REJECTED"}
      OBVIOUS
    <2> HIDE DEF p, target
    <2>3. /\ t.pc = p /\ t.op = op /\ t.order = o /\ t.seen = state[o] /\ t.target = target
          /\ t.verdict = d /\ t.rows \subseteq PendingRows(o)
          /\ i \in PendingRows(o) => t.rows # {}
      BY DEF Task
    <2> HIDE DEF t
    <2>4. worker'[v] = t /\ (v # w => worker'[w] = worker[w])
      BY <1>o, <2>1
    <2>5. CASE v = w
      BY <2>1, <2>2, <2>3, <2>4, <2>5 DEF Goal, Decides
    <2> QED
      BY <2>4, <2>5 DEF Goal
  <1>9. ASSUME NEW v \in Workers, NEW i \in Instances,
               OnApprovalResult(v, i) \/ OnSecondReviewResult(v, i)
        PROVE  Goal
    BY <1>8, <1>9 DEF OnApprovalResult, OnSecondReviewResult
  <1>10. ASSUME NEW v \in Workers, ApprovalCreated(v) PROVE Goal
    <2>1. /\ worker[v].pc = "await" /\ worker[v].op \in {"submit", "sensitive"}
          /\ UNCHANGED <<state, row, running>>
      BY <1>10 DEF ApprovalCreated
    <2>2. PICK i \in Instances, r \in Reviews :
             /\ NewInstance(i, worker[v].order, r)
             /\ \/ worker' = [worker EXCEPT ![v].pc = "return", ![v].inst = i]
                \/ worker' = [worker EXCEPT ![v].pc = "error"]
      BY <1>10 DEF ApprovalCreated, Reviews
    <2>3. CASE v # w
      BY <1>t, <2>2, <2>3 DEF Goal
    <2>4. CASE v = w /\ worker' = [worker EXCEPT ![v].pc = "error"]
      BY <1>t, <2>4 DEF Goal, Tasks
    <2>5. CASE v = w /\ worker' = [worker EXCEPT ![v].pc = "return", ![v].inst = i]
      <3>1. /\ worker'[w].pc = "return" /\ worker'[w].inst = i
            /\ worker'[w].op = worker[w].op /\ worker'[w].order = worker[w].order
            /\ worker'[w].seen = worker[w].seen /\ worker'[w].target = worker[w].target
            /\ worker'[w].rows = worker[w].rows /\ worker'[w].verdict = worker[w].verdict
        BY <1>t, <2>5 DEF Tasks
      <3> QED
        BY <2>1, <2>2, <2>5, <3>1 DEF Goal, Creates, Resumes
    <2> QED
      BY <2>2, <2>3, <2>4, <2>5
  <1>11. ASSUME NEW v \in Workers, TriggerSent(v) PROVE Goal
    <2>1. /\ worker[v].pc = "await" /\ UNCHANGED <<state, row>>
          /\ worker' = [worker EXCEPT ![v].pc = "return"]
      BY <1>11 DEF TriggerSent
    <2>2. CASE v # w
      BY <1>t, <2>1, <2>2 DEF Goal
    <2>3. CASE v = w
      <3>1. /\ worker'[w].pc = "return"
            /\ worker'[w].op = worker[w].op /\ worker'[w].order = worker[w].order
            /\ worker'[w].seen = worker[w].seen /\ worker'[w].target = worker[w].target
            /\ worker'[w].rows = worker[w].rows /\ worker'[w].verdict = worker[w].verdict
        BY <1>t, <2>1, <2>3 DEF Tasks
      <3> QED
        BY <1>11, <2>1, <2>3, <3>1 DEF Goal, Sends, Resumes
    <2> QED
      BY <2>2, <2>3
  <1>12. ASSUME NEW v \in Workers, AwaitFailed(v) PROVE Goal
    BY <1>12, <1>t DEF AwaitFailed, Goal, Tasks
  <1>13. ASSUME NEW v \in Workers, CommitFinish(v) \/ Persist(v) \/ Raise(v) PROVE Goal
    <2>1. worker' = [worker EXCEPT ![v] = Idle]
      BY <1>13 DEF CommitFinish, Persist, Raise
    <2> QED
      BY <1>0, <1>t, <2>1 DEF Goal
  <1>14. ASSUME Crash PROVE Goal
    BY <1>0, <1>14 DEF Crash, Goal
  <1>15. ASSUME UNCHANGED worker PROVE Goal
    BY <1>15 DEF Goal
  <1>16. ASSUME NEW i \in Instances, Decide(i) \/ IgnoredCallback(i) PROVE Goal
    BY <1>15, <1>16 DEF Decide, IgnoredCallback
  <1>17. ASSUME NEW o \in Orders, NEW i \in Instances, CreateApproval(o, i) PROVE Goal
    BY <1>15, <1>17 DEF CreateApproval
  <1>18. ASSUME NEW o \in Orders, TriggerBuildApi(o) PROVE Goal
    BY <1>15, <1>18 DEF TriggerBuildApi
  <1>19. ASSUME UNCHANGED vars PROVE Goal
    BY <1>15, <1>19 DEF vars
  <1>20. Goal
    BY <1>1, <1>3, <1>4, <1>5, <1>6, <1>7, <1>9, <1>10, <1>11, <1>12, <1>13, <1>14,
       <1>16, <1>17, <1>18, <1>19 DEF Next
  <1> QED
    BY <1>20 DEF Goal

\* Only the commit of a callback and the caller of RelayService store anything.
LEMMA TableSteps ==
  ASSUME [Next]_vars
  PROVE  \/ UNCHANGED <<state, row>>
         \/ \E w \in Workers : CommitFinish(w) \/ Persist(w)
  BY DEF Next, vars, Decide, IgnoredCallback, CreateApproval, Callback, OnApprovalResult,
     OnSecondReviewResult, Verdict, SubmitForApproval, OnSensitiveChangeDetected, TriggerBuild,
     TriggerBuildApi, CloseWorkOrder, OnBuildResult, ApprovalCreated, TriggerSent,
     AwaitFailed, Raise, Crash

-------------------------------------------------------------------------------
(* No verdict is invented                                                      *)

\* What a task holds stays justified, and what it reads is.
LEMMA StepTaskIsDecided ==
  ASSUME VerdictInv, [Next]_vars, NEW w \in Workers
  PROVE  TaskIsDecided(worker[w])'
  <1>t. TypeOK /\ worker[w] \in Tasks
    BY DEF VerdictInv, TypeOK
  <1>r. \A i \in Instances : row[i].status # "ABSENT" => instance[i].decision # "none"
    BY DEF VerdictInv, RowHasInstance
  <1>d. TaskIsDecided(worker[w])
    BY DEF VerdictInv
  <1>i. \A i \in Instances : instance[i].decision # "none" =>
           /\ instance'[i].order = instance[i].order
           /\ instance'[i].decision # "none"
           /\ instance[i].decision \in Verdicts => instance'[i].decision = instance[i].decision
    BY <1>t, InstancesStay
  <1>v. "none" \notin Verdicts
    BY DEF Verdicts
  \* Rows and verdict that were justified before the step are justified after it.
  <1>k. ASSUME NEW t \in Tasks, NEW o \in Orders, t.order = o,
               \A i \in t.rows : instance[i].order = o /\ instance[i].decision # "none",
               t.rows # {} =>
                  \E j \in Instances : instance[j].order = o /\ instance[j].decision = t.verdict
        PROVE  /\ \A i \in t.rows : instance'[i].order = o /\ instance'[i].decision # "none"
               /\ t.rows # {} =>
                    \E j \in Instances : instance'[j].order = o /\ instance'[j].decision = t.verdict
    <2>1. t.rows \subseteq Instances /\ t.verdict \in Verdicts
      BY DEF Tasks
    <2> QED
      BY <1>k, <1>i, <1>v, <2>1
  <1>p. TypeOK' /\ worker'[w] \in Tasks /\ worker'[w].order \in Orders
    <2>1. TypeOK'
      BY <1>t, StepTypeOK
    <2> QED
      BY <2>1 DEF TypeOK, Tasks
  <1>1. CASE worker'[w] = worker[w]
    <2>1. worker[w].pc = "return" /\ worker[w].op \in {"submit", "sensitive"} =>
            /\ worker[w].inst \in Instances /\ instance'[worker[w].inst].decision # "none"
            /\ instance'[worker[w].inst].order = worker[w].order
      BY <1>d, <1>i DEF TaskIsDecided
    <2> QED
      BY <1>1, <1>d, <1>k, <1>p, <2>1 DEF TaskIsDecided
  <1>2. CASE worker'[w].pc \in {"idle", "error"}
    BY <1>2 DEF TaskIsDecided
  <1>3. CASE Reads(w)
    <2>1. \A i \in worker'[w].rows : /\ instance[i].order = worker'[w].order
                                     /\ instance[i].decision # "none"
      BY <1>3, <1>r DEF Reads, PendingRows
    <2>2. \E j \in Instances : /\ instance[j].order = worker'[w].order
                               /\ instance[j].decision = worker'[w].verdict
      BY <1>3 DEF Reads
    <2>3. worker'[w].pc = "read"
      BY <1>3 DEF Reads
    <2> QED
      BY <1>k, <1>p, <2>1, <2>2, <2>3 DEF TaskIsDecided
  <1>4. CASE Calls(w)
    <2>1. /\ worker'[w].rows = {}
          /\ ~(worker'[w].pc = "return" /\ worker'[w].op \in {"submit", "sensitive"})
      BY <1>4 DEF Calls, CallKinds
    <2> QED
      BY <2>1 DEF TaskIsDecided
  <1>5. CASE Decides(w)
    <2>1. \A i \in worker'[w].rows : /\ instance[i].order = worker'[w].order
                                     /\ instance[i].decision # "none"
      BY <1>5, <1>r DEF Decides, PendingRows
    <2>2. \E j \in Instances : /\ instance[j].order = worker'[w].order
                               /\ instance[j].decision = worker'[w].verdict
      BY <1>5 DEF Decides
    <2>3. worker'[w].op \notin {"submit", "sensitive"}
      BY <1>5 DEF Decides
    <2> QED
      BY <1>k, <1>p, <2>1, <2>2, <2>3 DEF TaskIsDecided
  <1>6. CASE Creates(w) \/ Sends(w)
    <2>1. Resumes(w)
      BY <1>6 DEF Creates, Sends
    <2>2. /\ \A i \in worker'[w].rows : /\ instance[i].order = worker'[w].order
                                        /\ instance[i].decision # "none"
          /\ worker'[w].rows # {} =>
                \E j \in Instances : /\ instance[j].order = worker'[w].order
                                     /\ instance[j].decision = worker'[w].verdict
      BY <1>d, <2>1 DEF Resumes, TaskIsDecided
    <2>3. worker'[w].op \in {"submit", "sensitive"} =>
            /\ worker'[w].inst \in Instances /\ instance'[worker'[w].inst].decision # "none"
            /\ instance'[worker'[w].inst].order = worker'[w].order
      <3>1. CASE Creates(w)
        BY <1>t, <2>1, <3>1 DEF Creates, Resumes, NewInstance, TypeOK
      <3>2. CASE Sends(w)
        BY <3>2 DEF Sends, Resumes, TriggerSent
      <3> QED
        BY <1>6, <3>1, <3>2
    <2> QED
      BY <1>k, <1>p, <2>2, <2>3 DEF TaskIsDecided
  <1> QED
    BY <1>t, <1>1, <1>2, <1>3, <1>4, <1>5, <1>6, WorkerSteps

\* A row changes when a task that holds it resolves it with its verdict, or when
\* the row of a new instance is stored.
LEMMA RowSteps ==
  ASSUME TypeOK, [Next]_vars, NEW i \in Instances
  PROVE  \/ row'[i] = row[i]
         \/ \E w \in Workers :
              /\ worker[w].pc \in {"read", "return"} /\ i \in worker[w].rows
              /\ instance' = instance
              /\ row'[i].status = IF worker[w].verdict = "agree" THEN "APPROVED" ELSE "REJECTED"
         \/ \E w \in Workers :
              /\ worker[w].pc = "return" /\ worker[w].op \in {"submit", "sensitive"}
              /\ worker[w].inst = i /\ instance' = instance /\ row'[i].status = "PENDING"
  <1>1. ASSUME NEW w \in Workers, worker[w].pc \in {"read", "return"}, instance' = instance,
               row' = Resolve(worker[w].rows, worker[w].verdict)
        PROVE  \/ row'[i] = row[i]
               \/ /\ i \in worker[w].rows
                  /\ row'[i].status = IF worker[w].verdict = "agree" THEN "APPROVED" ELSE "REJECTED"
    BY <1>1 DEF Resolve
  <1>2. ASSUME NEW w \in Workers, CommitFinish(w)
        PROVE  /\ worker[w].pc = "read" /\ instance' = instance
               /\ row' = row \/ row' = Resolve(worker[w].rows, worker[w].verdict)
    BY <1>2 DEF CommitFinish
  <1>3. ASSUME NEW w \in Workers, Persist(w)
        PROVE  /\ worker[w].pc = "return" /\ instance' = instance
               /\ \/ row' = Resolve(worker[w].rows, worker[w].verdict)
                  \/ /\ worker[w].op \in {"submit", "sensitive"}
                     /\ row'[i] = row[i] \/ (worker[w].inst = i /\ row'[i].status = "PENDING")
    <2>1. CASE worker[w].op \in {"submit", "sensitive"}
      <3>1. \E k \in Reviews :
              row' = [row EXCEPT ![worker[w].inst] = [status |-> "PENDING", review_type |-> k]]
        BY <1>3, <2>1 DEF Persist, Reviews
      <3>2. row'[i] = row[i] \/ (worker[w].inst = i /\ row'[i].status = "PENDING")
        BY <3>1 DEF TypeOK
      <3> QED
        BY <1>3, <2>1, <3>2 DEF Persist
    <2>2. CASE worker[w].op \notin {"submit", "sensitive"}
      BY <1>3, <2>2 DEF Persist
    <2> QED
      BY <2>1, <2>2
  <1>4. CASE UNCHANGED <<state, row>>
    BY <1>4
  <1>5. CASE \E w \in Workers : CommitFinish(w)
    <2>1. PICK w \in Workers : CommitFinish(w)
      BY <1>5
    <2> QED
      BY <1>1, <1>2, <2>1
  <1>6. CASE \E w \in Workers : Persist(w)
    <2>1. PICK w \in Workers : Persist(w)
      BY <1>6
    <2> QED
      BY <1>1, <1>3, <2>1
  <1> QED
    BY <1>4, <1>5, <1>6, TableSteps

\* The invariant of the verdicts holds at first: there are no rows and no tasks.
LEMMA InitVerdictInv == Init => VerdictInv
  <1> SUFFICES ASSUME Init PROVE VerdictInv
    OBVIOUS
  <1>1. \A i \in Instances : row[i].status = "ABSENT"
    BY DEF Init
  <1>2. \A w \in Workers : worker[w].pc = "idle"
    BY DEF Init, Idle
  <1> QED
    BY <1>1, <1>2, InitTypeOK DEF VerdictInv, RowHasInstance, VerdictHasADecision, TaskIsDecided

\* It is kept: rows keep their order, verdicts stay, and what a task writes is
\* justified by what it holds.
LEMMA StepVerdictInv == VerdictInv /\ [Next]_vars => VerdictInv'
  <1> SUFFICES ASSUME VerdictInv, [Next]_vars PROVE VerdictInv'
    OBVIOUS
  <1>t. TypeOK /\ TypeOK'
    BY StepTypeOK DEF VerdictInv
  <1>i. \A i \in Instances : instance[i].decision # "none" =>
           /\ instance'[i].order = instance[i].order
           /\ instance'[i].decision # "none"
           /\ instance[i].decision \in Verdicts => instance'[i].decision = instance[i].decision
    BY <1>t, InstancesStay
  <1>r. \A i \in Instances : row[i].status # "ABSENT" => instance[i].decision # "none"
    BY DEF VerdictInv, RowHasInstance
  <1>d. \A w \in Workers : TaskIsDecided(worker[w]) /\ worker[w].verdict \in Verdicts
    BY <1>t DEF VerdictInv, TypeOK, Tasks
  <1>1. ASSUME NEW i \in Instances, row'[i].status # "ABSENT"
        PROVE  instance'[i].decision # "none"
    BY <1>1, <1>t, <1>i, <1>r, <1>d, RowSteps DEF TaskIsDecided
  <1>2. ASSUME NEW i \in Instances, row'[i].status \in {"APPROVED", "REJECTED"}
        PROVE  \E j \in Instances :
                 /\ instance'[j].order = instance'[i].order
                 /\ instance'[j].decision = (IF row'[i].status = "APPROVED" THEN "agree" ELSE "refuse")
    <2>1. CASE row'[i] = row[i]
      <3>1. PICK j \in Instances :
              /\ instance[j].order = instance[i].order
              /\ instance[j].decision = (IF row[i].status = "APPROVED" THEN "agree" ELSE "refuse")
        BY <1>2, <2>1 DEF VerdictInv, VerdictHasADecision
      <3>2. instance[j].decision \in Verdicts /\ instance[j].decision # "none"
        BY <3>1 DEF Verdicts
      <3>3. instance[i].decision # "none"
        BY <1>2, <1>r, <2>1
      <3> QED
        BY <1>i, <2>1, <3>1, <3>2, <3>3
    <2>2. ASSUME NEW w \in Workers, worker[w].pc \in {"read", "return"}, i \in worker[w].rows,
                 instance' = instance,
                 row'[i].status = IF worker[w].verdict = "agree" THEN "APPROVED" ELSE "REJECTED"
          PROVE  \E j \in Instances :
                   /\ instance'[j].order = instance'[i].order
                   /\ instance'[j].decision = (IF row'[i].status = "APPROVED" THEN "agree" ELSE "refuse")
      <3>1. /\ instance[i].order = worker[w].order
            /\ \E j \in Instances : /\ instance[j].order = worker[w].order
                                    /\ instance[j].decision = worker[w].verdict
        BY <1>d, <2>2 DEF TaskIsDecided
      <3>2. worker[w].verdict = (IF row'[i].status = "APPROVED" THEN "agree" ELSE "refuse")
        BY <1>d, <2>2 DEF Verdicts
      <3> QED
        BY <2>2, <3>1, <3>2
    <2> QED
      BY <1>t, <1>2, <2>1, <2>2, RowSteps
  <1>3. \A w \in Workers : TaskIsDecided(worker[w])'
    BY StepTaskIsDecided
  <1> QED
    BY <1>t, <1>1, <1>2, <1>3 DEF VerdictInv, RowHasInstance, VerdictHasADecision

\* A row of approvals says APPROVED or REJECTED only if DingTalk decided so on an
\* instance of the row's order (dingtalk.py:122-125), with any number of tasks.
THEOREM VerdictsHaveDecisions == Spec => []VerdictHasADecision
  <1>1. VerdictInv => VerdictHasADecision
    BY DEF VerdictInv
  <1> QED
    BY <1>1, InitVerdictInv, StepVerdictInv, PTL DEF Spec

-------------------------------------------------------------------------------
(* Tasks that do not overlap                                                   *)

\* A task ends, goes on with its order, or begins.
LEMMA TaskSteps ==
  ASSUME TypeOK, [Next]_vars, NEW w \in Workers
  PROVE  \/ worker'[w].pc = "idle"
         \/ worker[w].pc # "idle" /\ worker'[w].order = worker[w].order
         \/ BeginsFor(w)
  <1>t. worker \in [Workers -> Tasks] /\ \A v \in Workers : worker[v] \in Tasks
    BY DEF TypeOK
  <1>0. Idle.pc = "idle"
    BY DEF Idle
  <1>1. ASSUME NEW v \in Workers, BeginsFor(v)
        PROVE  BeginsFor(w) \/ worker'[w] = worker[w]
    BY <1>1 DEF BeginsFor
  <1>2. CASE worker'[w] = worker[w]
    BY <1>2
  <1>3. ASSUME NEW v \in Workers, CommitFinish(v) \/ Persist(v) \/ Raise(v)
        PROVE  worker'[w] = worker[w] \/ worker'[w].pc = "idle"
    <2>1. worker' = [worker EXCEPT ![v] = Idle]
      BY <1>3 DEF CommitFinish, Persist, Raise
    <2> QED
      BY <1>0, <1>t, <2>1
  <1>4. ASSUME NEW v \in Workers, ApprovalCreated(v) \/ TriggerSent(v) \/ AwaitFailed(v)
        PROVE  worker'[w] = worker[w] \/ (worker[w].pc # "idle" /\ worker'[w].order = worker[w].order)
    <2>1. /\ worker[v].pc = "await"
          /\ \/ \E pc \in {"return", "error"} : worker' = [worker EXCEPT ![v].pc = pc]
             \/ \E i \in Instances : worker' = [worker EXCEPT ![v].pc = "return", ![v].inst = i]
      BY <1>4 DEF ApprovalCreated, TriggerSent, AwaitFailed
    <2>2. CASE v # w
      BY <1>t, <2>1, <2>2
    <2>3. CASE v = w
      <3>1. ASSUME NEW pc \in {"return", "error"}, worker' = [worker EXCEPT ![v].pc = pc]
            PROVE  worker'[w].order = worker[w].order
        BY <1>t, <2>3, <3>1 DEF Tasks
      <3>2. ASSUME NEW i \in Instances, worker' = [worker EXCEPT ![v].pc = "return", ![v].inst = i]
            PROVE  worker'[w].order = worker[w].order
        BY <1>t, <2>3, <3>2 DEF Tasks
      <3> QED
        BY <2>1, <2>3, <3>1, <3>2
    <2> QED
      BY <2>2, <2>3
  <1>5. CASE Crash
    BY <1>0, <1>5 DEF Crash
  <1>6. \/ worker' = worker \/ Crash
        \/ \E v \in Workers : \/ BeginsFor(v)
                             \/ CommitFinish(v) \/ Persist(v) \/ Raise(v)
                             \/ ApprovalCreated(v) \/ TriggerSent(v) \/ AwaitFailed(v)
    BY BeginningSteps DEF Next, vars, Decide, IgnoredCallback, CreateApproval, TriggerBuildApi
  <1> QED
    BY <1>1, <1>2, <1>3, <1>4, <1>5, <1>6

\* An order that no earlier task has been overlapped on has one active task.
LEMMA StepAlone == TypeOK /\ Alone /\ [Next]_vars => Alone'
  <1> SUFFICES ASSUME TypeOK, Alone, [Next]_vars,
                      NEW v \in Workers, NEW w \in Workers,
                      worker'[v].pc # "idle", worker'[w].pc # "idle",
                      worker'[v].order = worker'[w].order, worker'[w].order \notin overlapped'
               PROVE  v = w
    BY DEF Alone
  <1>1. overlapped \subseteq overlapped'
    BY HistoriesGrow
  <1>2. CASE BeginsFor(v)
    BY <1>2 DEF BeginsFor
  <1>3. CASE BeginsFor(w)
    BY <1>3 DEF BeginsFor
  <1>4. CASE /\ worker[v].pc # "idle" /\ worker'[v].order = worker[v].order
             /\ worker[w].pc # "idle" /\ worker'[w].order = worker[w].order
    BY <1>1, <1>4 DEF Alone
  <1> QED
    BY <1>2, <1>3, <1>4, TaskSteps

\* The state and the pending rows of an order stay as they are, unless a task of
\* that order stores something.
OrderStays(o) ==
    /\ state'[o] = state[o]
    /\ PendingRows(o)' = PendingRows(o)
    /\ \A i \in PendingRows(o) : row'[i].review_type = row[i].review_type

LEMMA OrderSteps ==
  ASSUME VerdictInv, [Next]_vars, NEW o \in Orders
  PROVE  \/ OrderStays(o)
         \/ \E w \in Workers : worker[w].order = o /\ (CommitFinish(w) \/ Persist(w))
  <1>v. /\ TypeOK /\ \A w \in Workers : TaskIsDecided(worker[w])
        /\ state \in [Orders -> WorkOrderState] /\ \A w \in Workers : worker[w].order \in Orders
        /\ row \in [Instances -> [status : {"ABSENT", "PENDING", "APPROVED", "REJECTED"},
                                  review_type : Reviews]]
    BY DEF VerdictInv, TypeOK, Tasks
  <1>1. CASE UNCHANGED <<state, row>>
    <2>1. \A i \in Instances : row[i].status = "PENDING" => instance'[i].order = instance[i].order
      BY InstancesStay DEF VerdictInv, RowHasInstance
    <2>2. PendingRows(o)' = PendingRows(o)
      BY <1>1, <2>1 DEF PendingRows
    <2> QED
      BY <1>1, <2>2 DEF OrderStays
  <1>2. ASSUME NEW w \in Workers, CommitFinish(w) \/ Persist(w), worker[w].order # o
        PROVE  OrderStays(o)
    <2>1. /\ worker[w].pc \in {"read", "return"} /\ instance' = instance
          /\ state' = state \/ \E x : state' = [state EXCEPT ![worker[w].order] = x]
      BY <1>2 DEF CommitFinish, Persist
    <2>2. state'[o] = state[o]
      BY <1>2, <1>v, <2>1
    <2>3. \A i \in worker[w].rows : instance[i].order # o
      BY <1>2, <1>v, <2>1 DEF TaskIsDecided
    <2>4. \A i \in Instances : instance[i].order = o => row'[i] = row[i]
      <3>1. CASE row' = row \/ row' = Resolve(worker[w].rows, worker[w].verdict)
        BY <2>3, <3>1 DEF Resolve
      <3>2. CASE /\ Persist(w) /\ worker[w].op \in {"submit", "sensitive"}
        <4>1. \E x : row' = [row EXCEPT ![worker[w].inst] = x]
          BY <3>2 DEF Persist
        <4>2. instance[worker[w].inst].order # o
          BY <1>2, <1>v, <3>2 DEF TaskIsDecided, Persist
        <4> QED
          BY <1>v, <4>1, <4>2
      <3> QED
        BY <1>2, <3>1, <3>2 DEF CommitFinish, Persist
    <2>5. PendingRows(o)' = PendingRows(o)
      BY <2>1, <2>4 DEF PendingRows
    <2>6. \A i \in PendingRows(o) : row'[i].review_type = row[i].review_type
      BY <2>4 DEF PendingRows
    <2> QED
      BY <2>2, <2>5, <2>6 DEF OrderStays
  <1> QED
    BY <1>1, <1>2, TableSteps

\* So a task that goes on and has been alone finds its order as it was.
LEMMA StaysForTask ==
  ASSUME SerialInv, [Next]_vars, NEW w \in Workers, worker'[w] = worker[w],
         worker[w].pc # "idle", NEW o \in Orders \ overlapped, worker[w].order = o
  PROVE  OrderStays(o)
  <1>t. /\ TypeOK /\ Alone /\ VerdictInv
        /\ worker \in [Workers -> Tasks]
    BY DEF SerialInv, VerdictInv, TypeOK, Tasks
  <1>1. ASSUME NEW v \in Workers, worker[v].order = o, CommitFinish(v) \/ Persist(v)
        PROVE  FALSE
    <2>1. worker[v].pc # "idle" /\ worker' = [worker EXCEPT ![v] = Idle]
      BY <1>1 DEF CommitFinish, Persist
    <2>2. v = w
      BY <1>1, <1>t, <2>1 DEF Alone
    <2> QED
      BY <1>t, <2>1, <2>2 DEF Idle
  <1> QED
    BY <1>1, <1>t, OrderSteps

\* The task's view of its order stays current, and its target is that of its
\* operation.
LEMMA StepTaskIsCurrent ==
  ASSUME SerialInv, [Next]_vars, NEW w \in Workers
  PROVE  TaskIsCurrent(worker[w])' /\ TaskIsPlain(worker[w])'
  <1>t. TypeOK /\ overlapped \subseteq overlapped'
    BY HistoriesGrow DEF SerialInv, VerdictInv
  <1>c. TaskIsCurrent(worker[w]) /\ TaskIsPlain(worker[w])
    BY DEF SerialInv
  <1>1. CASE worker'[w] = worker[w]
    <2>1. TaskIsPlain(worker[w])'
      BY <1>1, <1>c DEF TaskIsPlain
    <2>2. CASE worker[w].pc # "idle" /\ worker[w].order \notin overlapped
      <3>1. state'[worker[w].order] = state[worker[w].order]
        <4>1. PICK o \in Orders : o = worker[w].order
          BY <1>t DEF TypeOK, Tasks
        <4>2. OrderStays(o)
          BY <1>1, <2>2, <4>1, StaysForTask
        <4> QED
          BY <4>1, <4>2 DEF OrderStays
      <3>2. TaskIsCurrent(worker[w])'
        BY <1>1, <1>c, <2>2, <3>1 DEF TaskIsCurrent
      <3> QED
        BY <2>1, <3>2
    <2>3. CASE worker[w].pc = "idle" \/ worker[w].order \in overlapped
      BY <1>1, <1>t, <2>1, <2>3 DEF TaskIsCurrent
    <2> QED
      BY <2>2, <2>3
  <1>2. CASE worker'[w].pc \in {"idle", "error"}
    BY <1>2 DEF TaskIsCurrent, TaskIsPlain
  <1>3. CASE Reads(w)
    BY <1>3 DEF Reads, TaskIsCurrent, TaskIsPlain
  <1>4. CASE Calls(w)
    <2>1. TaskIsCurrent(worker[w])'
      BY <1>4 DEF Calls, TaskIsCurrent
    <2>2. <<worker'[w].op, worker'[w].target, worker'[w].pc>> \in CallKinds
      BY <1>4 DEF Calls
    <2>3. TaskIsPlain(worker[w])'
      BY <2>2 DEF CallKinds, TaskIsPlain
    <2> QED
      BY <2>1, <2>3
  <1>5. CASE Decides(w)
    <2>1. TaskIsCurrent(worker[w])'
      BY <1>5 DEF Decides, TaskIsCurrent
    <2>2. TaskIsPlain(worker[w])'
      BY <1>5 DEF Decides, TaskIsPlain
    <2> QED
      BY <2>1, <2>2
  <1>6. CASE Creates(w) \/ Sends(w)
    <2>1. Resumes(w)
      BY <1>6 DEF Creates, Sends
    <2>2. TaskIsCurrent(worker[w])'
      BY <1>c, <1>t, <2>1 DEF Resumes, TaskIsCurrent
    <2>3. TaskIsPlain(worker[w])'
      BY <1>c, <2>1 DEF Resumes, TaskIsPlain
    <2> QED
      BY <2>2, <2>3
  <1> QED
    BY <1>t, <1>1, <1>2, <1>3, <1>4, <1>5, <1>6, WorkerSteps

\* At first there is no task.
LEMMA InitSerialInv == Init => SerialInv
  <1> SUFFICES ASSUME Init PROVE SerialInv
    OBVIOUS
  <1>1. \A w \in Workers : worker[w].pc = "idle"
    BY DEF Init, Idle
  <1> QED
    BY <1>1, InitVerdictInv DEF SerialInv, Alone, TaskIsCurrent, TaskIsPlain

\* What a task that is alone has read stays true until it ends.
LEMMA StepSerialInv == SerialInv /\ [Next]_vars => SerialInv'
  <1> SUFFICES ASSUME SerialInv, [Next]_vars PROVE SerialInv'
    OBVIOUS
  <1>1. VerdictInv'
    BY StepVerdictInv DEF SerialInv
  <1>2. \A w \in Workers : TaskIsCurrent(worker[w])' /\ TaskIsPlain(worker[w])'
    BY StepTaskIsCurrent
  <1>3. Alone'
    BY StepAlone DEF SerialInv, VerdictInv
  <1> QED
    BY <1>1, <1>2, <1>3 DEF SerialInv

\* What a task stores is an edge from the state the order is in: the callback
\* and the RelayService operations validated it against what they loaded.
LEMMA StoredIsLegal ==
  ASSUME SerialInv, [Next]_vars, NEW o \in Orders \ overlapped, state'[o] # state[o]
  PROVE  can_transition(state[o], state'[o])
  <1>t. TypeOK
    BY DEF SerialInv, VerdictInv
  <1>1. PICK w \in Workers : worker[w].order = o /\ (CommitFinish(w) \/ Persist(w))
    BY OrderSteps DEF OrderStays, SerialInv
  <1>2. TaskIsCurrent(worker[w])
    BY DEF SerialInv
  <1>3. CASE CommitFinish(w)
    <2> DEFINE target == FinishTarget(worker[w])
    <2>1. worker[w].seen = state[o]
      BY <1>1, <1>2, <1>3 DEF TaskIsCurrent, CommitFinish
    <2>2. \/ state' = state
          \/ /\ can_transition(worker[w].seen, target)
             /\ state' = [state EXCEPT ![o] = target]
      BY <1>1, <1>3 DEF CommitFinish
    <2> HIDE DEF target
    <2>3. state'[o] = target /\ can_transition(worker[w].seen, target)
      BY <1>t, <2>2 DEF TypeOK
    <2> QED
      BY <2>1, <2>3
  <1>4. CASE Persist(w)
    <2>1. worker[w].seen = state[o] /\ can_transition(worker[w].seen, worker[w].target)
      BY <1>1, <1>2, <1>4 DEF TaskIsCurrent, Persist
    <2>2. state'[o] = worker[w].target
      BY <1>t, <1>1, <1>4 DEF Persist, TypeOK
    <2> QED
      BY <2>1, <2>2
  <1> QED
    BY <1>1, <1>3, <1>4

\* With any number of tasks, every stored change of the state of an order whose
\* tasks have not overlapped is an edge of TRANSITIONS (state.py:81-87), repeated
\* events and restarts included.
THEOREM TransitionsAreLegal == Spec => LegalTransitions
  <1>1. SerialInv /\ [Next]_vars =>
          [\A o \in Orders \ overlapped :
              state'[o] # state[o] => can_transition(state[o], state'[o])]_vars
    BY StoredIsLegal
  <1>2. Spec => []SerialInv
    BY InitSerialInv, StepSerialInv, PTL DEF Spec
  <1> QED
    BY <1>1, <1>2, PTL DEF Spec, LegalTransitions

-------------------------------------------------------------------------------
(* Builds are tracked                                                          *)

\* A task that has sent the trigger of order o, or holds a result of it, and has
\* not been stored yet.
Tracks(t, o) == t.pc = "return" /\ t.order = o /\ t.op \in {"trigger", "result"}

\* Nothing changes for an order whose state and count stay when no task that
\* tracks its build starts or ends in the step.
LEMMA CountStays ==
  ASSUME NEW o \in Orders, BuildIsCounted(o),
         state'[o] = state[o], running'[o] = running[o], aborted \subseteq aborted',
         \A v \in Workers : \/ worker'[v] = worker[v]
                            \/ ~Tracks(worker[v], o) /\ ~Tracks(worker'[v], o)
  PROVE  BuildIsCounted(o)'
  <1>1. \A v \in Workers :
           worker'[v].pc = "return" /\ worker'[v].order = o
              /\ worker'[v].op \in {"trigger", "result"} => worker'[v] = worker[v]
    BY DEF Tracks
  <1>2. \A v \in Workers :
           worker[v].pc = "return" /\ worker[v].order = o
              /\ worker[v].op \in {"trigger", "result"} => worker'[v] = worker[v]
    BY DEF Tracks
  <1> QED
    BY <1>1, <1>2 DEF BuildIsCounted

\* The build of an order stays counted, whatever its one task and those of other
\* orders do.
LEMMA StepBuildIsCounted ==
  ASSUME SerialInv, [Next]_vars, crashes' = crashes,
         NEW o \in Orders, o \notin direct', o \notin overlapped', BuildIsCounted(o)
  PROVE  BuildIsCounted(o)'
  <1>t. TypeOK /\ o \notin overlapped
    BY HistoriesGrow DEF SerialInv, VerdictInv
  <1>s. \A w \in Workers : TaskIsCurrent(worker[w]) /\ TaskIsPlain(worker[w])
    BY DEF SerialInv
  <1>n. running[o] \in Nat /\ worker \in [Workers -> Tasks] /\ state \in [Orders -> WorkOrderState]
        /\ running \in [Orders -> Nat]
    BY <1>t DEF TypeOK
  <1>0. Idle.pc = "idle"
    BY DEF Idle
  \* A task of the order is its only one.
  <1>a. ASSUME NEW w \in Workers, worker[w].pc # "idle", worker[w].order = o
        PROVE  \A v \in Workers : v # w => ~Tracks(worker[v], o)
    BY <1>a, <1>t DEF Tracks, SerialInv, Alone
  \* What the counts say when none tracks a build.
  <1>q. ASSUME \A v \in Workers : ~Tracks(worker[v], o)
        PROVE  /\ running[o] = 1 => state[o] = "BUILDING"
               /\ running[o] # 1 => running[o] = 0
               /\ state[o] = "BUILDING" /\ running[o] = 0 => o \in aborted
    <2>1. running[o] # 1 => running[o] = 0
      BY <1>n DEF BuildIsCounted
    <2> QED
      BY <1>q, <2>1 DEF BuildIsCounted, Tracks
  \* Steps that neither store, send nor answer.
  <1>k. ASSUME NEW w \in Workers, UNCHANGED <<state, running, aborted>>,
               \A v \in Workers : v # w => worker'[v] = worker[v],
               ~Tracks(worker[w], o), ~Tracks(worker'[w], o)
        PROVE  BuildIsCounted(o)'
    BY <1>k, CountStays
  <1>u. ASSUME UNCHANGED <<state, running, aborted, worker>> PROVE BuildIsCounted(o)'
    BY <1>u DEF BuildIsCounted
  <1>x. ASSUME NEW w \in Workers, NEW t, worker' = [worker EXCEPT ![w] = t]
        PROVE  worker'[w] = t /\ \A v \in Workers : v # w => worker'[v] = worker[v]
    BY <1>x, <1>n
  <1>1. ASSUME NEW i \in Instances, Decide(i) \/ IgnoredCallback(i) PROVE BuildIsCounted(o)'
    BY <1>1, <1>u DEF Decide, IgnoredCallback
  <1>2. ASSUME NEW p \in Orders, NEW i \in Instances, CreateApproval(p, i) PROVE BuildIsCounted(o)'
    BY <1>2, <1>u DEF CreateApproval
  <1>3. ASSUME NEW p \in Orders, TriggerBuildApi(p) PROVE BuildIsCounted(o)'
    <2>1. p # o /\ running'[o] = running[o]
      BY <1>3, <1>n DEF TriggerBuildApi
    <2> QED
      BY <1>3, <2>1 DEF TriggerBuildApi, BuildIsCounted
  <1>4. ASSUME NEW w \in Workers, NEW i \in Instances,
               Callback(w, i) \/ OnApprovalResult(w, i) \/ OnSecondReviewResult(w, i)
        PROVE  BuildIsCounted(o)'
    <2>1. /\ worker[w].pc = "idle" /\ UNCHANGED <<state, running, aborted>>
          /\ worker'[w].op \in {"callback", "approval_result", "second_result"}
          /\ \A v \in Workers : v # w => worker'[v] = worker[v]
      <3>1. CASE Callback(w, i)
        <4> DEFINE p == instance[i].order
                   t == Task(IF Cardinality(PendingRows(p)) > 1 THEN "error" ELSE "read",
                             "callback", p, "DRAFT", i, instance[i].decision, PendingRows(p))
        <4>1. /\ worker[w].pc = "idle" /\ UNCHANGED <<state, running, aborted>>
              /\ worker' = [worker EXCEPT ![w] = t]
          BY <3>1 DEF Callback, Begin
        <4>2. t.op = "callback"
          BY DEF Task
        <4> HIDE DEF t
        <4> QED
          BY <1>x, <4>1, <4>2
      <3>2. ASSUME NEW op \in {"approval_result", "second_result"}, NEW yes, NEW no,
                   Verdict(w, op, i, yes, no)
            PROVE  /\ worker[w].pc = "idle" /\ UNCHANGED <<state, running, aborted>>
                   /\ worker'[w].op = op /\ \A v \in Workers : v # w => worker'[v] = worker[v]
        <4> DEFINE p == instance[i].order
                   target == IF instance[i].decision = "agree" THEN yes ELSE no
                   t == Task(IF can_transition(state[p], target) THEN "return" ELSE "error",
                             op, p, target, i, instance[i].decision, {i} \cap PendingRows(p))
        <4>1. /\ worker[w].pc = "idle" /\ UNCHANGED <<state, running, aborted>>
              /\ worker' = [worker EXCEPT ![w] = t]
          BY <3>2 DEF Verdict, Begin
        <4>2. t.op = op
          BY DEF Task
        <4> HIDE DEF t
        <4> QED
          BY <1>x, <4>1, <4>2
      <3>3. CASE OnApprovalResult(w, i) \/ OnSecondReviewResult(w, i)
        BY <3>2, <3>3 DEF OnApprovalResult, OnSecondReviewResult
      <3> QED
        BY <1>4, <3>1, <3>3
    <2>2. ~Tracks(worker[w], o) /\ ~Tracks(worker'[w], o)
      BY <2>1 DEF Tracks
    <2> QED
      BY <1>k, <2>1, <2>2
  <1>5. ASSUME NEW w \in Workers, NEW p \in Orders,
               \/ SubmitForApproval(w, p) \/ OnSensitiveChangeDetected(w, p)
               \/ TriggerBuild(w, p) \/ CloseWorkOrder(w, p)
        PROVE  BuildIsCounted(o)'
    <2>1. /\ worker[w].pc = "idle" /\ UNCHANGED <<state, running, aborted>>
          /\ \E pc, op, target :
                /\ pc # "return" \/ op = "close"
                /\ worker' = [worker EXCEPT ![w] = Task(pc, op, p, target, "none", "agree", {})]
      BY <1>5 DEF SubmitForApproval, OnSensitiveChangeDetected, TriggerBuild, CloseWorkOrder,
         Validate, Begin
    <2>2. /\ worker'[w].pc # "return" \/ worker'[w].op = "close"
          /\ \A v \in Workers : v # w => worker'[v] = worker[v]
      BY <1>x, <2>1 DEF Task
    <2>3. ~Tracks(worker[w], o) /\ ~Tracks(worker'[w], o)
      BY <2>1, <2>2 DEF Tracks
    <2> QED
      BY <1>k, <2>1, <2>2, <2>3
  \* A result takes the build from the count; its task stores it, or it is aborted.
  <1>6. ASSUME NEW w \in Workers, NEW p \in Orders, OnBuildResult(w, p) PROVE BuildIsCounted(o)'
    <2>1. /\ worker[w].pc = "idle" /\ running[p] > 0
          /\ running' = [running EXCEPT ![p] = @ - 1] /\ state' = state
          /\ \E pc, target :
                /\ worker' = [worker EXCEPT ![w] = Task(pc, "result", p, target, "none", "agree", {})]
                /\ \/ p \in aborted' /\ aborted \subseteq aborted' /\ pc = "error"
                   \/ /\ aborted' = aborted /\ target \in {"SUCCESS", "FAILED"}
                      /\ pc = IF can_transition(state[p], target) THEN "return" ELSE "error"
      BY <1>6 DEF OnBuildResult, Validate, Begin
    <2>2. PICK pc, target :
             /\ worker' = [worker EXCEPT ![w] = Task(pc, "result", p, target, "none", "agree", {})]
             /\ \/ p \in aborted' /\ aborted \subseteq aborted' /\ pc = "error"
                \/ /\ aborted' = aborted /\ target \in {"SUCCESS", "FAILED"}
                   /\ pc = IF can_transition(state[p], target) THEN "return" ELSE "error"
      BY <2>1
    <2>3. /\ worker'[w].pc = pc /\ worker'[w].op = "result" /\ worker'[w].order = p
          /\ \A v \in Workers : v # w => worker'[v] = worker[v]
      <3>1. /\ worker'[w] = Task(pc, "result", p, target, "none", "agree", {})
            /\ \A v \in Workers : v # w => worker'[v] = worker[v]
        BY <1>x, <2>2
      <3> QED
        BY <3>1 DEF Task
    <2>4. ~Tracks(worker[w], o)
      BY <2>1 DEF Tracks
    <2>5. CASE p # o
      <3>1. running'[o] = running[o] /\ aborted \subseteq aborted'
        BY <1>n, <2>1, <2>2, <2>5
      <3>2. ~Tracks(worker'[w], o)
        BY <2>3, <2>5 DEF Tracks
      <3> QED
        BY <2>1, <2>3, <2>4, <3>1, <3>2, CountStays
    <2>6. CASE p = o
      <3>1. \A v \in Workers : worker[v].pc # "idle" => worker[v].order # o
        <4>1. BeginsFor(w)
          BY <1>6, <1>t, BeginningSteps
        <4> QED
          BY <2>3, <2>6, <4>1 DEF BeginsFor
      <3>2. running[o] = 1 /\ state[o] = "BUILDING" /\ running'[o] = 0
        <4>1. \A v \in Workers : ~Tracks(worker[v], o)
          BY <3>1 DEF Tracks
        <4> QED
          BY <1>n, <1>q, <2>1, <2>6, <4>1
      <3>3. o \in aborted' \/ worker'[w].pc = "return"
        BY <2>2, <2>3, <2>6, <3>2 DEF can_transition, TRANSITIONS
      <3>4. \A v \in Workers : v # w => ~(worker'[v].pc = "return" /\ worker'[v].order = o)
        BY <2>3, <3>1
      <3>5. \A v \in Workers :
               worker'[v].pc = "return" /\ worker'[v].order = o => worker'[v].op = "result"
        BY <2>3, <3>4
      <3> QED
        BY <2>1, <2>3, <2>6, <3>2, <3>3, <3>5 DEF BuildIsCounted
    <2> QED
      BY <2>5, <2>6
  \* A verdict moves an order that waits for a review, and such an order has no build.
  <1>7. ASSUME NEW w \in Workers, CommitFinish(w) PROVE BuildIsCounted(o)'
    <2> DEFINE target == FinishTarget(worker[w])
    <2>1. target \in {"APPROVED", "CLOSED", "SECOND_APPROVED", "SECOND_REJECTED"}
      BY DEF FinishTarget
    <2>2. /\ worker[w].pc = "read" /\ worker' = [worker EXCEPT ![w] = Idle]
          /\ UNCHANGED <<running, aborted>>
          /\ \/ state' = state
             \/ /\ can_transition(worker[w].seen, target)
                /\ state' = [state EXCEPT ![worker[w].order] = target]
      BY <1>7 DEF CommitFinish
    <2>3. /\ worker'[w].pc = "idle"
          /\ \A v \in Workers : v # w => worker'[v] = worker[v]
          /\ worker[w].order = o => worker[w].seen = state[o]
      BY <1>0, <1>s, <1>t, <1>x, <2>2 DEF TaskIsCurrent
    <2> HIDE DEF target
    <2>4. ~Tracks(worker[w], o) /\ ~Tracks(worker'[w], o)
      BY <2>2, <2>3 DEF Tracks
    <2>5. CASE state'[o] = state[o]
      BY <2>2, <2>3, <2>4, <2>5, CountStays
    <2>6. CASE state'[o] # state[o]
      <3>1. worker[w].order = o /\ state'[o] = target /\ can_transition(state[o], target)
        BY <1>n, <2>2, <2>3, <2>6
      <3>2. state[o] # "BUILDING" /\ state'[o] # "BUILDING"
        BY <2>1, <3>1 DEF can_transition, TRANSITIONS
      <3>3. \A v \in Workers : ~Tracks(worker[v], o)
        BY <1>a, <2>2, <2>4, <3>1
      <3>4. running'[o] = 0
        BY <1>q, <2>2, <3>2, <3>3
      <3>5. \A v \in Workers : worker'[v].pc = "return" /\ worker'[v].order = o =>
               worker'[v].op \notin {"trigger", "result"}
        BY <2>3, <3>3 DEF Tracks
      <3> QED
        BY <3>2, <3>4, <3>5 DEF BuildIsCounted
    <2> QED
      BY <2>5, <2>6
  <1>8. ASSUME NEW w \in Workers, ApprovalCreated(w) \/ AwaitFailed(w) PROVE BuildIsCounted(o)'
    <2>1. /\ worker[w].pc = "await" /\ UNCHANGED <<state, running, aborted>>
          /\ \/ worker' = [worker EXCEPT ![w].pc = "error"]
             \/ /\ worker[w].op \in {"submit", "sensitive"}
                /\ \E i : worker' = [worker EXCEPT ![w].pc = "return", ![w].inst = i]
      BY <1>8 DEF ApprovalCreated, AwaitFailed
    <2>2. /\ worker'[w].pc = "error" \/ worker'[w].op \in {"submit", "sensitive"}
          /\ \A v \in Workers : v # w => worker'[v] = worker[v]
      BY <1>n, <2>1 DEF Tasks
    <2>3. ~Tracks(worker[w], o) /\ ~Tracks(worker'[w], o)
      BY <2>1, <2>2 DEF Tracks
    <2> QED
      BY <1>k, <2>1, <2>2, <2>3
  \* A trigger leaves only for an order that is not BUILDING.
  <1>9. ASSUME NEW w \in Workers, TriggerSent(w) PROVE BuildIsCounted(o)'
    <2> DEFINE p == worker[w].order
    <2>1. /\ worker[w].pc = "await" /\ worker[w].op = "trigger" /\ state' = state
          /\ aborted' = aborted /\ worker' = [worker EXCEPT ![w].pc = "return"]
          /\ running' = [running EXCEPT ![p] = @ + 1]
      BY <1>9 DEF TriggerSent
    <2>2. /\ worker'[w].pc = "return" /\ worker'[w].op = "trigger" /\ worker'[w].order = p
          /\ p \in Orders
          /\ \A v \in Workers : v # w => worker'[v] = worker[v]
      BY <1>n, <2>1 DEF Tasks
    <2>3. ~Tracks(worker[w], o)
      BY <2>1 DEF Tracks
    <2>4. p = o => state[o] # "BUILDING"
      <3>1. p = o => can_transition(state[o], "BUILDING")
        BY <1>s, <1>t, <2>1 DEF TaskIsCurrent, TaskIsPlain
      <3> QED
        BY <3>1 DEF can_transition, TRANSITIONS
    <2>5. p = o => \A v \in Workers : ~Tracks(worker[v], o)
      BY <1>a, <2>1, <2>3
    <2> HIDE DEF p
    <2>6. CASE p # o
      <3>1. running'[o] = running[o]
        BY <1>n, <2>1, <2>6
      <3>2. ~Tracks(worker'[w], o)
        BY <2>2, <2>6 DEF Tracks
      <3> QED
        BY <2>1, <2>2, <2>3, <3>1, <3>2, CountStays
    <2>7. CASE p = o
      <3>1. running[o] = 0
        BY <1>q, <2>4, <2>5, <2>7
      <3>2. running'[o] = 1
        BY <1>n, <2>1, <2>7, <3>1
      <3>3. \A v \in Workers : worker'[v].pc = "return" /\ worker'[v].order = o =>
               worker'[v].op # "result"
        BY <2>2, <2>5, <2>7 DEF Tracks
      <3> QED
        BY <2>1, <2>2, <2>7, <3>2, <3>3 DEF BuildIsCounted
    <2> QED
      BY <2>6, <2>7
  <1>10. ASSUME NEW w \in Workers, Persist(w) PROVE BuildIsCounted(o)'
    <2>1. /\ worker[w].pc = "return" /\ worker' = [worker EXCEPT ![w] = Idle]
          /\ UNCHANGED <<running, aborted>>
          /\ state' = [state EXCEPT ![worker[w].order] = worker[w].target]
      BY <1>10 DEF Persist
    <2>2. /\ worker[w].op = "trigger" <=> worker[w].target = "BUILDING"
          /\ worker[w].op = "result" <=> worker[w].target \in {"SUCCESS", "FAILED"}
      BY <1>s, <2>1 DEF TaskIsPlain
    <2>3. worker'[w].pc = "idle" /\ \A v \in Workers : v # w => worker'[v] = worker[v]
      BY <1>0, <1>x, <2>1
    <2>4. ~Tracks(worker'[w], o)
      BY <2>3 DEF Tracks
    <2>5. CASE worker[w].order # o
      <3>1. state'[o] = state[o]
        BY <1>n, <2>1, <2>5
      <3>2. ~Tracks(worker[w], o)
        BY <2>5 DEF Tracks
      <3> QED
        BY <2>1, <2>3, <2>4, <3>1, <3>2, CountStays
    <2>6. CASE worker[w].order = o
      <3>1. state'[o] = worker[w].target /\ can_transition(state[o], worker[w].target)
        BY <1>n, <1>s, <1>t, <2>1, <2>6 DEF TaskIsCurrent
      <3>2. \A v \in Workers : v # w => ~Tracks(worker[v], o)
        BY <1>a, <2>1, <2>6
      <3>3. \A v \in Workers : worker'[v].pc = "return" /\ worker'[v].order = o =>
               worker'[v].op \notin {"trigger", "result"}
        BY <2>3, <3>2 DEF Tracks
      <3>4. CASE worker[w].op = "trigger"
        <4>1. running'[o] = 1 /\ state'[o] = "BUILDING"
          BY <2>1, <2>2, <2>6, <3>1, <3>4 DEF BuildIsCounted
        <4> QED
          BY <3>3, <4>1 DEF BuildIsCounted
      <3>5. CASE worker[w].op = "result"
        <4>1. running'[o] = 0 /\ state'[o] # "BUILDING"
          BY <2>1, <2>2, <2>6, <3>1, <3>5 DEF BuildIsCounted
        <4> QED
          BY <3>3, <4>1 DEF BuildIsCounted
      <3>6. CASE worker[w].op \notin {"trigger", "result"}
        <4>1. state[o] # "BUILDING" /\ state'[o] # "BUILDING"
          BY <2>2, <3>1, <3>6 DEF can_transition, TRANSITIONS
        <4>2. \A v \in Workers : ~Tracks(worker[v], o)
          BY <3>2, <3>6 DEF Tracks
        <4>3. running'[o] = 0
          BY <1>q, <2>1, <4>1, <4>2
        <4> QED
          BY <3>3, <4>1, <4>3 DEF BuildIsCounted
      <3> QED
        BY <3>4, <3>5, <3>6
    <2> QED
      BY <2>5, <2>6
  <1>11. ASSUME NEW w \in Workers, Raise(w) PROVE BuildIsCounted(o)'
    <2>1. /\ worker'[w].pc = "idle" /\ worker[w].pc = "error"
          /\ \A v \in Workers : v # w => worker'[v] = worker[v]
      BY <1>0, <1>11, <1>x DEF Raise
    <2>2. ~Tracks(worker[w], o) /\ ~Tracks(worker'[w], o)
      BY <2>1 DEF Tracks
    <2> QED
      BY <1>11, <1>k, <2>1, <2>2 DEF Raise
  <1>12. ASSUME Crash PROVE FALSE
    BY <1>12, <1>t DEF Crash, TypeOK
  <1>13. ASSUME UNCHANGED vars PROVE BuildIsCounted(o)'
    BY <1>13, <1>u DEF vars
  <1> QED
    BY <1>1, <1>2, <1>3, <1>4, <1>5, <1>6, <1>7, <1>8, <1>9, <1>10, <1>11, <1>12, <1>13 DEF Next

\* No build is out at first.
LEMMA InitTrackingInv == Init => TrackingInv
  <1> SUFFICES ASSUME Init PROVE TrackingInv
    OBVIOUS
  <1>1. \A w \in Workers : worker[w].pc = "idle"
    BY DEF Init, Idle
  <1>2. \A o \in Orders : running[o] = 0 /\ state[o] = "DRAFT"
    BY DEF Init
  <1> QED
    BY <1>1, <1>2, InitSerialInv DEF TrackingInv, BuildIsCounted

\* Builds stay tracked until a restart; orders that were ever built past
\* RelayService, or whose tasks ever overlapped, stay out of it.
LEMMA StepTrackingInv == TrackingInv /\ [Next]_vars => TrackingInv'
  <1> SUFFICES ASSUME TrackingInv, [Next]_vars PROVE TrackingInv'
    OBVIOUS
  <1>1. SerialInv /\ SerialInv' /\ TypeOK
    BY StepSerialInv DEF TrackingInv, SerialInv, VerdictInv
  <1>2. /\ direct \subseteq direct' /\ overlapped \subseteq overlapped'
        /\ crashes' = crashes \/ crashes' = crashes + 1
    BY <1>1, HistoriesGrow
  <1>3. ASSUME crashes' = 0, NEW o \in Orders \ (direct' \cup overlapped')
        PROVE  BuildIsCounted(o)'
    <2>1. crashes' = crashes /\ crashes = 0
      BY <1>1, <1>2, <1>3 DEF TypeOK
    <2>2. o \in Orders /\ o \notin direct' /\ o \notin overlapped' /\ BuildIsCounted(o)
      BY <1>2, <1>3, <2>1 DEF TrackingInv
    <2> QED
      BY <1>1, <2>1, <2>2, StepBuildIsCounted
  <1> QED
    BY <1>1, <1>3 DEF TrackingInv

\* Until a restart, an order that is built through RelayService only, by tasks that
\* do not overlap on it, never has two BUILD_TRIGGERs out, an outstanding one
\* belongs to an order that is, or is about to be stored as, BUILDING, and an order
\* is BUILDING without one only while its result is stored or after an aborted
\* build (relay.py:140-165, 184-197), whatever the tasks of other orders do.
THEOREM BuildsAreTracked == Spec => []BuildIsTracked
  <1>1. TrackingInv => BuildIsTracked
    <2> SUFFICES ASSUME TrackingInv, crashes = 0, NEW o \in Orders \ (direct \cup overlapped)
                 PROVE  /\ running[o] <= 1
                        /\ running[o] = 1 =>
                              \/ state[o] = "BUILDING"
                              \/ \E w \in Workers : /\ worker[w].pc = "return" /\ worker[w].order = o
                                                    /\ worker[w].target = "BUILDING"
                        /\ (state[o] = "BUILDING" /\ running[o] = 0) =>
                              \/ o \in aborted
                              \/ \E w \in Workers : /\ worker[w].pc = "return" /\ worker[w].order = o
                                                    /\ worker[w].op = "result"
      BY DEF BuildIsTracked
    <2>1. BuildIsCounted(o)
      BY DEF TrackingInv
    <2>2. \A w \in Workers : worker[w].pc = "return" /\ worker[w].op = "trigger" =>
             worker[w].target = "BUILDING"
      BY DEF TrackingInv, SerialInv, TaskIsPlain
    <2> QED
      BY <2>1, <2>2 DEF BuildIsCounted
  <1>2. Spec => []TrackingInv
    BY InitTrackingInv, StepTrackingInv, PTL DEF Spec
  <1> QED
    BY <1>1, <1>2, PTL

-------------------------------------------------------------------------------
(* A review has its row                                                        *)

\* A callback, and a decision handed over, hold the pending rows of their order;
\* another task of RelayService holds none.
LEMMA StepTaskHasRows ==
  ASSUME PendingInv, [Next]_vars, NEW w \in Workers
  PROVE  TaskHasRows(worker[w])'
  <1>v. /\ SerialInv /\ VerdictInv /\ TypeOK
        /\ Deviant \subseteq Deviant'
        /\ worker'[w].pc \in {"idle", "error"} \/ worker'[w].order \in Orders
    <2>1. SerialInv /\ VerdictInv /\ TypeOK
      BY DEF PendingInv, SerialInv, VerdictInv
    <2>2. worker' \in [Workers -> Tasks]
      BY <2>1, StepTypeOK DEF TypeOK
    <2> QED
      BY <2>1, <2>2, HistoriesGrow DEF Deviant, Tasks
  <1>h. TaskHasRows(worker[w])
    BY DEF PendingInv
  <1> SUFFICES ASSUME worker'[w].pc \notin {"idle", "error"}, worker'[w].order \notin Deviant'
               PROVE  TaskHasRows(worker[w])'
    BY DEF TaskHasRows
  <1>p. PICK o \in Orders : o = worker'[w].order
    BY <1>v
  <1>d. o \notin Deviant' /\ o \notin Deviant /\ o \notin overlapped
    BY <1>p, <1>v DEF Deviant
  \* What there is to prove, with the order named.
  <1>g. ASSUME worker'[w].pc = "read" => worker'[w].rows = PendingRows(o)',
               worker'[w].pc \in {"await", "return"} =>
                  IF worker'[w].op \in {"approval_result", "second_result"}
                  THEN worker'[w].rows = PendingRows(o)'
                  ELSE /\ worker'[w].rows = {}
                       /\ worker'[w].target \notin {"APPROVED", "SECOND_APPROVED", "SECOND_REJECTED"}
        PROVE  TaskHasRows(worker[w])'
    <2>1. PendingRows(o)' = {i \in Instances : row'[i].status = "PENDING"
                                               /\ instance'[i].order = worker'[w].order}
      BY <1>p DEF PendingRows
    <2> QED
      BY <1>g, <2>1 DEF TaskHasRows, PendingRows
  <1>1. CASE worker'[w] = worker[w]
    <2>1. PendingRows(o)' = PendingRows(o)
      BY <1>1, <1>d, <1>p, <1>v, StaysForTask DEF OrderStays
    <2>2. /\ worker[w].pc = "read" => worker[w].rows = PendingRows(o)
          /\ worker[w].pc \in {"await", "return"} =>
                IF worker[w].op \in {"approval_result", "second_result"}
                THEN worker[w].rows = PendingRows(o)
                ELSE /\ worker[w].rows = {}
                     /\ worker[w].target \notin {"APPROVED", "SECOND_APPROVED", "SECOND_REJECTED"}
      BY <1>1, <1>d, <1>h, <1>p DEF TaskHasRows
    <2> QED
      BY <1>1, <1>g, <2>1, <2>2
  <1>3. CASE Reads(w)
    <2>1. worker'[w].pc = "read" /\ worker'[w].rows = PendingRows(o) /\ UNCHANGED <<row, instance>>
      BY <1>3, <1>p DEF Reads
    <2>2. PendingRows(o)' = PendingRows(o)
      BY <2>1 DEF PendingRows
    <2> QED
      BY <1>g, <2>1, <2>2
  <1>4. CASE Calls(w)
    <2>1. <<worker'[w].op, worker'[w].target, worker'[w].pc>> \in CallKinds /\ worker'[w].rows = {}
      BY <1>4 DEF Calls
    <2>2. /\ worker'[w].pc \in {"await", "return"}
          /\ worker'[w].op \notin {"approval_result", "second_result"}
          /\ worker'[w].target \notin {"APPROVED", "SECOND_APPROVED", "SECOND_REJECTED"}
      BY <2>1 DEF CallKinds
    <2> QED
      BY <1>g, <2>1, <2>2
  \* A decision on the pending row of an order in its review.
  <1>5. CASE Decides(w)
    <2>1. /\ worker'[w].pc = "return" /\ worker'[w].op \in {"approval_result", "second_result"}
          /\ UNCHANGED <<row, instance>>
          /\ worker'[w].seen = state[o] /\ can_transition(worker'[w].seen, worker'[w].target)
          /\ worker'[w].rows \subseteq PendingRows(o)
          /\ worker'[w].rows # {} \/ o \in strayed'
      BY <1>5, <1>p DEF Decides
    <2>2. state[o] # "CLOSED"
      BY <2>1 DEF can_transition, TRANSITIONS
    <2>3. worker'[w].rows # {}
      BY <1>d, <2>1 DEF Deviant
    <2>4. ReviewHasItsRow(o) /\ RowsOnlyInReview(o)
      BY <1>d DEF PendingInv
    <2>5. PICK i \in Instances : PendingRows(o) = {i}
      BY <2>1, <2>2, <2>3, <2>4 DEF ReviewHasItsRow, RowsOnlyInReview
    <2>6. worker'[w].rows = PendingRows(o) /\ PendingRows(o)' = PendingRows(o)
      <3>1. worker'[w].rows = PendingRows(o)
        BY <2>1, <2>3, <2>5
      <3>2. PendingRows(o)' = PendingRows(o)
        BY <2>1 DEF PendingRows
      <3> QED
        BY <3>1, <3>2
    <2> QED
      BY <1>g, <2>1, <2>6
  <1>6. CASE Creates(w) \/ Sends(w)
    <2>1. Resumes(w) /\ worker[w].op \in {"submit", "sensitive", "trigger"}
      BY <1>6 DEF Creates, Sends, TriggerSent
    <2>2. worker[w].order = o /\ worker[w].pc = "await"
      BY <1>p, <2>1 DEF Resumes
    <2>3. /\ worker'[w].pc = "return" /\ worker'[w].rows = {}
          /\ worker'[w].op \notin {"approval_result", "second_result"}
          /\ worker'[w].target \notin {"APPROVED", "SECOND_APPROVED", "SECOND_REJECTED"}
      BY <1>d, <1>h, <2>1, <2>2 DEF Resumes, TaskHasRows
    <2> QED
      BY <1>g, <2>3
  <1> QED
    BY <1>v, <1>1, <1>3, <1>4, <1>5, <1>6, WorkerSteps

\* The rows of an order follow its state, whatever its task stores.
LEMMA StepReviewHasItsRow ==
  ASSUME PendingInv, [Next]_vars, NEW o \in Orders \ Deviant'
  PROVE  ReviewHasItsRow(o)' /\ RowsOnlyInReview(o)'
  <1>v. SerialInv /\ VerdictInv /\ TypeOK
    BY DEF PendingInv, SerialInv, VerdictInv
  <1>d. o \in Orders /\ o \notin Deviant /\ o \notin overlapped
    BY <1>v, HistoriesGrow DEF Deviant
  <1>r. ReviewHasItsRow(o) /\ RowsOnlyInReview(o)
    BY <1>d DEF PendingInv
  <1>t. /\ state \in [Orders -> WorkOrderState]
        /\ row \in [Instances -> [status : {"ABSENT", "PENDING", "APPROVED", "REJECTED"},
                                  review_type : Reviews]]
    BY <1>v DEF TypeOK
  <1>1. CASE OrderStays(o)
    BY <1>1, <1>r DEF OrderStays, ReviewHasItsRow, RowsOnlyInReview
  \* A task that resolves what is pending and takes the order out of its review.
  <1>e. ASSUME NEW w \in Workers, worker[w].rows = PendingRows(o), instance' = instance,
               row' = Resolve(worker[w].rows, worker[w].verdict),
               state'[o] \notin {"PENDING_APPROVAL", "PENDING_SECOND_REVIEW"}
        PROVE  ReviewHasItsRow(o)' /\ RowsOnlyInReview(o)'
    <2>1. PendingRows(o)' = {}
      BY <1>e DEF PendingRows, Resolve
    <2> QED
      BY <1>e, <2>1 DEF ReviewHasItsRow, RowsOnlyInReview
  \* The callback resolves all pending rows of its order.
  <1>2. ASSUME NEW w \in Workers, worker[w].order = o, CommitFinish(w)
        PROVE  ReviewHasItsRow(o)' /\ RowsOnlyInReview(o)'
    <2> DEFINE target == FinishTarget(worker[w])
    <2>0. target \in {"APPROVED", "CLOSED", "SECOND_APPROVED", "SECOND_REJECTED"}
      BY DEF FinishTarget
    <2> HIDE DEF target
    <2>1. /\ worker[w].pc = "read" /\ instance' = instance
          /\ \/ UNCHANGED <<state, row>>
             \/ /\ state' = [state EXCEPT ![o] = target]
                /\ row' = Resolve(worker[w].rows, worker[w].verdict)
      BY <1>2 DEF CommitFinish, target
    <2>2. worker[w].rows = PendingRows(o)
      BY <1>2, <1>d, <2>1 DEF PendingInv, TaskHasRows
    <2>3. CASE UNCHANGED <<state, row>>
      BY <1>r, <2>1, <2>3 DEF ReviewHasItsRow, RowsOnlyInReview, PendingRows
    <2>4. CASE /\ state' = [state EXCEPT ![o] = target]
               /\ row' = Resolve(worker[w].rows, worker[w].verdict)
      <3>1. state'[o] = target
        BY <1>t, <2>4
      <3> QED
        BY <1>e, <2>0, <2>1, <2>2, <2>4, <3>1
    <2> QED
      BY <2>1, <2>3, <2>4
  <1>3. ASSUME NEW w \in Workers, worker[w].order = o, Persist(w)
        PROVE  ReviewHasItsRow(o)' /\ RowsOnlyInReview(o)'
    <2> DEFINE t == worker[w]
    <2>1. /\ t.pc = "return" /\ instance' = instance
          /\ state' = [state EXCEPT ![o] = t.target]
      BY <1>3 DEF Persist
    <2>2. /\ can_transition(state[o], t.target)
          /\ t.op = "submit" <=> t.target = "PENDING_APPROVAL"
          /\ t.op = "sensitive" <=> t.target = "PENDING_SECOND_REVIEW"
      BY <1>3, <1>d, <1>v, <2>1 DEF SerialInv, TaskIsCurrent, TaskIsPlain
    <2>3. IF t.op \in {"approval_result", "second_result"}
          THEN t.rows = PendingRows(o)
          ELSE t.rows = {} /\ t.target \notin {"APPROVED", "SECOND_APPROVED", "SECOND_REJECTED"}
      BY <1>3, <1>d, <2>1 DEF PendingInv, TaskHasRows
    <2>4. state'[o] = t.target
      BY <1>t, <2>1
    \* A new row, for an order that has none.
    <2>5. CASE t.op \in {"submit", "sensitive"}
      <3>1. row' = [row EXCEPT ![t.inst] =
                      [status |-> "PENDING",
                       review_type |-> IF t.op = "submit" THEN "first" ELSE "second"]]
        BY <1>3, <2>5 DEF Persist
      <3>2. \A i \in Instances : i # t.inst => row'[i] = row[i]
        BY <1>t, <3>1
      <3>3. t.inst \in Instances /\ instance[t.inst].order = o
        BY <1>3, <1>v, <2>1, <2>5 DEF VerdictInv, TaskIsDecided
      <3>4. state[o] \in {"DRAFT", "APPROVED"}
        BY <1>t, <2>2, <2>5 DEF can_transition, TRANSITIONS
      <3>5. PendingRows(o) = {}
        BY <1>r, <3>4 DEF RowsOnlyInReview
      <3>6. /\ row'[t.inst].status = "PENDING"
            /\ row'[t.inst].review_type = IF t.op = "submit" THEN "first" ELSE "second"
        BY <1>t, <3>1, <3>3
      <3>7. PendingRows(o)' = {t.inst}
        <4>1. \A i \in Instances : (row'[i].status = "PENDING" /\ instance'[i].order = o) <=> i = t.inst
          BY <2>1, <3>2, <3>3, <3>5, <3>6 DEF PendingRows
        <4> QED
          BY <3>3, <4>1 DEF PendingRows
      <3>8. PICK j \in Instances : j = t.inst
        BY <3>3
      <3>9. /\ PendingRows(o)' = {j}
            /\ row'[j].review_type = IF t.op = "submit" THEN "first" ELSE "second"
            /\ t.op = "submit" <=> state'[o] = "PENDING_APPROVAL"
            /\ t.op = "sensitive" <=> state'[o] = "PENDING_SECOND_REVIEW"
        BY <2>2, <2>4, <3>6, <3>7, <3>8
      <3> QED
        BY <2>5, <3>9 DEF ReviewHasItsRow, RowsOnlyInReview
    <2>6. CASE t.op \notin {"submit", "sensitive"}
      <3>1. row' = Resolve(t.rows, t.verdict)
        BY <1>3, <2>6 DEF Persist
      <3>2. t.target \notin {"PENDING_APPROVAL", "PENDING_SECOND_REVIEW"}
        BY <2>2, <2>6
      <3>3. CASE t.op \in {"approval_result", "second_result"}
        BY <1>e, <2>1, <2>3, <2>4, <3>1, <3>2, <3>3
      \* No row changes; an order leaves its review this way only to be closed.
      <3>4. CASE t.op \notin {"approval_result", "second_result"}
        <4>1. t.rows = {} /\ t.target \notin {"APPROVED", "SECOND_APPROVED", "SECOND_REJECTED"}
          BY <2>3, <3>4
        <4>2. \A i \in Instances : row'[i] = row[i]
          BY <3>1, <4>1 DEF Resolve
        <4>3. PendingRows(o)' = PendingRows(o)
          BY <2>1, <4>2 DEF PendingRows
        <4>4. t.target # "CLOSED" =>
                 state[o] \notin {"PENDING_APPROVAL", "PENDING_SECOND_REVIEW", "CLOSED"}
          BY <1>t, <2>2, <3>2, <4>1 DEF can_transition, TRANSITIONS
        <4> QED
          BY <1>r, <2>4, <3>2, <4>3, <4>4 DEF ReviewHasItsRow, RowsOnlyInReview
      <3> QED
        BY <3>3, <3>4
    <2> QED
      BY <2>5, <2>6
  <1> QED
    BY <1>d, <1>v, <1>1, <1>2, <1>3, OrderSteps

\* There is no row at first.
LEMMA InitPendingInv == Init => PendingInv
  <1> SUFFICES ASSUME Init PROVE PendingInv
    OBVIOUS
  <1>1. \A w \in Workers : worker[w].pc = "idle"
    BY DEF Init, Idle
  <1>2. \A o \in Orders : state[o] = "DRAFT" /\ PendingRows(o) = {}
    BY DEF Init, PendingRows
  <1> QED
    BY <1>1, <1>2, InitSerialInv DEF PendingInv, ReviewHasItsRow, RowsOnlyInReview, TaskHasRows

\* An order that waits for a review has exactly one PENDING row, of that review,
\* restarts and any number of tasks included: the callback's lookup
\* (dingtalk.py:110-130) finds the right one and never several, unless tasks
\* overlapped on the order or a decision was recorded on another instance.
THEOREM ReviewsHaveTheirRows == Spec => []PendingStateHasItsRow
  <1>1. PendingInv => PendingStateHasItsRow
    BY DEF PendingInv, PendingStateHasItsRow, Deviant
  <1>2. PendingInv /\ [Next]_vars => PendingInv'
    <2> SUFFICES ASSUME PendingInv, [Next]_vars PROVE PendingInv'
      OBVIOUS
    <2>1. SerialInv'
      BY StepSerialInv DEF PendingInv
    <2>2. \A o \in Orders \ Deviant' : ReviewHasItsRow(o)' /\ RowsOnlyInReview(o)'
      BY StepReviewHasItsRow
    <2>3. \A w \in Workers : TaskHasRows(worker[w])'
      BY StepTaskHasRows
    <2> QED
      BY <2>1, <2>2, <2>3 DEF PendingInv
  <1> QED
    BY <1>1, <1>2, InitPendingInv, PTL DEF Spec

===============================================================================
