---------------------------- MODULE ApprovalFlow ----------------------------
(***************************************************************************)
(* The approval workflow of the Forwarder: the work_orders and approvals   *)
(* tables, the DingTalk callback handler that drives them (api/dingtalk.py)*)
(* and the operations of RelayService (services/relay.py).                 *)
(*                                                                         *)
(* The unit of concurrency is an asyncio task, a member of Workers.  A     *)
(* task interleaves with the others at its awaits only:                    *)
(*  - a callback reads the order and its pending approval in one database  *)
(*    snapshot (InnoDB repeatable read) and commits in a later step;       *)
(*  - an operation of RelayService validates the transition, awaits        *)
(*    DingTalk or the Agent, and returns; its caller, which is not in the  *)
(*    repository, then stores the new state.                               *)
(* Nothing locks a row or checks a version, so a commit overwrites.        *)
(***************************************************************************)
EXTENDS Naturals, FiniteSets, WorkOrderStates

CONSTANTS
    Orders,        \* work orders (order_no, which is also DingTalk's businessId)
    Instances,     \* DingTalk approval instances; an approvals row has the id of its instance
    Workers,       \* asyncio tasks that can be active at once
    Operations,    \* the operations the environment calls, a subset of AllOperations
    MaxCrashes,    \* bound on restarts of the Forwarder
    MaxBuilds      \* bound on unanswered BUILD_TRIGGERs per order

AllOperations == {"create_approval", "submit", "trigger", "result", "close",
                  "sensitive", "approval_result", "second_result", "revoke", "trigger_api"}

ASSUME OrdersAssumption == Orders # {}
ASSUME OperationsAssumption == Operations \subseteq AllOperations
ASSUME BoundsAssumption == MaxCrashes \in Nat /\ MaxBuilds \in Nat

VARIABLES
    state,      \* work_orders.state
    row,        \* approvals: status and review_type of each row
    instance,   \* DingTalk's side: order, kind of review and decision
    acked,      \* instances whose event was answered with HTTP 200
    worker,     \* what each task is doing
    running,    \* BUILD_TRIGGERs sent and not yet answered by a result
    direct,     \* history: orders for which a BUILD_TRIGGER was sent past RelayService
    aborted,    \* history: orders with a build that ended neither in SUCCESS nor in FAILED
    overlapped, \* history: orders on which a task began while another was active
    strayed,    \* history: orders whose caller recorded a decision that no PENDING row was for
    crashes

vars == <<state, row, instance, acked, worker, running, direct, aborted, overlapped, strayed,
          crashes>>

Reviews == {"first", "second"}
Verdicts == {"agree", "refuse"}

\* Statuses of a BUILD_RESULT: what the Agent's BuildResult type can say.
BuildStatuses == {"SUCCESS", "FAILED", "ABORTED"}

AnyOrder == CHOOSE o \in Orders : TRUE

\* A task: the work order it loaded and the state it saw, the state it will
\* store, the instance it is about (FINISH event or new approval) and the
\* approvals rows it will resolve.
Tasks == [pc : {"idle", "read", "await", "return", "error"},
          op : AllOperations \cup {"callback"},
          order : Orders,
          seen : WorkOrderState,
          target : WorkOrderState,
          inst : Instances \cup {"none"},
          verdict : Verdicts,
          rows : SUBSET Instances]

Idle == [pc |-> "idle", op |-> "callback", order |-> AnyOrder, seen |-> "DRAFT",
         target |-> "DRAFT", inst |-> "none", verdict |-> "agree", rows |-> {}]

\* Task about order o that has just read its state.
Task(pc, op, o, target, inst, verdict, rows) ==
    [pc |-> pc, op |-> op, order |-> o, seen |-> state[o], target |-> target,
     inst |-> inst, verdict |-> verdict, rows |-> rows]

TypeOK ==
    /\ state \in [Orders -> WorkOrderState]
    /\ row \in [Instances -> [status : {"ABSENT", "PENDING", "APPROVED", "REJECTED"},
                              review_type : Reviews]]
    /\ instance \in [Instances -> [order : Orders, review : Reviews,
                                   decision : {"none", "running", "revoked"} \cup Verdicts]]
    /\ acked \subseteq Instances
    /\ worker \in [Workers -> Tasks]
    /\ \A w \in Workers : worker[w].pc = "read" => worker[w].inst \in Instances
    /\ running \in [Orders -> Nat]
    /\ direct \subseteq Orders
    /\ aborted \subseteq Orders
    /\ overlapped \subseteq Orders
    /\ strayed \subseteq Orders
    /\ crashes \in Nat

Init ==
    /\ state = [o \in Orders |-> "DRAFT"]
    /\ row = [i \in Instances |-> [status |-> "ABSENT", review_type |-> "first"]]
    /\ instance = [i \in Instances |->
                     [order |-> AnyOrder, review |-> "first", decision |-> "none"]]
    /\ acked = {}
    /\ worker = [w \in Workers |-> Idle]
    /\ running = [o \in Orders |-> 0]
    /\ direct = {}
    /\ aborted = {}
    /\ overlapped = {}
    /\ strayed = {}
    /\ crashes = 0

-----------------------------------------------------------------------------
(* DingTalk, external: it runs an approval instance to a decision, or the  *)
(* originator revokes it (a TERMINATE event).                              *)

NewInstance(i, o, review) ==
    /\ instance[i].decision = "none"
    /\ instance' = [instance EXCEPT
                      ![i] = [order |-> o, review |-> review, decision |-> "running"]]

Decide(i) ==
    /\ instance[i].decision = "running"
    /\ \E d \in Verdicts \cup (IF "revoke" \in Operations THEN {"revoked"} ELSE {}) :
         instance' = [instance EXCEPT ![i].decision = d]
    /\ UNCHANGED <<state, row, acked, worker, running, direct, aborted, overlapped, strayed, crashes>>

-----------------------------------------------------------------------------
(* A task begins.                                                          *)

Begin(w, t) ==
    /\ worker[w].pc = "idle"
    /\ worker' = [worker EXCEPT ![w] = t]
    /\ overlapped' = IF \E v \in Workers : worker[v].pc # "idle" /\ worker[v].order = t.order
                     THEN overlapped \cup {t.order} ELSE overlapped

-----------------------------------------------------------------------------
(* POST /dingtalk/callback                                                 *)

\* The approvals rows of order o that are PENDING.
PendingRows(o) == {i \in Instances : row[i].status = "PENDING" /\ instance[i].order = o}

\* A FINISH event passes the signature check (which remembers no nonce, so a
\* repeated delivery passes as well) and the handler reads the order and its
\* pending approval.  scalar_one_or_none raises when there are several rows:
\* the request ends with HTTP 500 and DingTalk may deliver it again.
Callback(w, i) ==
    /\ instance[i].decision \in Verdicts
    /\ LET o == instance[i].order IN
       Begin(w, Task(IF Cardinality(PendingRows(o)) > 1 THEN "error" ELSE "read",
                     "callback", o, "DRAFT", i, instance[i].decision, PendingRows(o)))
    /\ UNCHANGED <<state, row, instance, acked, running, direct, aborted, strayed, crashes>>

\* An event of another type is answered and has no effect.
IgnoredCallback(i) ==
    /\ instance[i].decision = "revoked"
    /\ acked' = acked \cup {i}
    /\ UNCHANGED <<state, row, instance, worker, running, direct, aborted, overlapped, strayed, crashes>>

\* Faulty variant of FinishTarget: any verdict counts as agreement.
FinishTargetIgnoringVerdict(t) ==
    IF \E i \in t.rows : row[i].review_type = "second" THEN "SECOND_APPROVED" ELSE "APPROVED"

\* The state a FINISH event asks for: it depends on the kind of the pending
\* row found, and on nothing the event says about its instance.
FinishTarget(t) ==
    LET second == \E i \in t.rows : row[i].review_type = "second" IN
    IF t.verdict = "agree" THEN IF second THEN "SECOND_APPROVED" ELSE "APPROVED"
                           ELSE IF second THEN "SECOND_REJECTED" ELSE "CLOSED"

\* Faulty variants of Resolve: the row keeps its status; the verdict is stored
\* as DingTalk spells it; every resolved row counts as approved.
ResolveNothing(rows, verdict) == row
ResolveRaw(rows, verdict) ==
    [i \in Instances |-> IF i \in rows THEN [row[i] EXCEPT !.status = verdict] ELSE row[i]]
ResolveApproves(rows, verdict) ==
    [i \in Instances |-> IF i \in rows THEN [row[i] EXCEPT !.status = "APPROVED"] ELSE row[i]]

Resolve(rows, verdict) ==
    [i \in Instances |->
        IF i \in rows
        THEN [status |-> IF verdict = "agree" THEN "APPROVED" ELSE "REJECTED",
              review_type |-> row[i].review_type]
        ELSE row[i]]

\* Faulty variants of CommitFinish: no transition check; 200 without a commit.
CommitFinishUnchecked(w) ==
    LET t == worker[w] IN
    /\ t.pc = "read"
    /\ state' = [state EXCEPT ![t.order] = FinishTarget(t)]
    /\ row' = Resolve(t.rows, t.verdict)
    /\ acked' = acked \cup {t.inst}
    /\ worker' = [worker EXCEPT ![w] = Idle]
    /\ UNCHANGED <<instance, running, direct, aborted, overlapped, strayed, crashes>>

\* The handler commits the approval's status and the order's new state, or,
\* on StateError, rolls both back; it answers 200 either way.
CommitFinish(w) ==
    LET t == worker[w]
        target == FinishTarget(t) IN
    /\ t.pc = "read"
    /\ IF can_transition(t.seen, target)
       THEN /\ state' = [state EXCEPT ![t.order] = target]
            /\ row' = Resolve(t.rows, t.verdict)
       ELSE UNCHANGED <<state, row>>
    /\ acked' = acked \cup {t.inst}
    /\ worker' = [worker EXCEPT ![w] = Idle]
    /\ UNCHANGED <<instance, running, direct, aborted, overlapped, strayed, crashes>>

\* POST /dingtalk/create-approval: an approval instance for an order, whatever
\* the order's state; nothing is stored.
CreateApproval(o, i) ==
    /\ "create_approval" \in Operations
    /\ NewInstance(i, o, "first")
    /\ UNCHANGED <<state, row, acked, worker, running, direct, aborted, overlapped, strayed, crashes>>

-----------------------------------------------------------------------------
(* RelayService                                                            *)

\* The caller loads order o and calls operation op, whose first statement is
\* transition(current, target): StateError propagates, otherwise the task goes
\* on at label pc.
Validate(w, op, o, target, pc) ==
    /\ op \in Operations
    /\ Begin(w, Task(IF can_transition(state[o], target) THEN pc ELSE "error",
                     op, o, target, "none", "agree", {}))

SubmitForApproval(w, o) ==
    /\ Validate(w, "submit", o, "PENDING_APPROVAL", "await")
    /\ UNCHANGED <<state, row, instance, acked, running, direct, aborted, strayed, crashes>>

OnSensitiveChangeDetected(w, o) ==
    /\ Validate(w, "sensitive", o, "PENDING_SECOND_REVIEW", "await")
    /\ UNCHANGED <<state, row, instance, acked, running, direct, aborted, strayed, crashes>>

TriggerBuild(w, o) ==
    /\ Validate(w, "trigger", o, "BUILDING", "await")
    /\ UNCHANGED <<state, row, instance, acked, running, direct, aborted, strayed, crashes>>

CloseWorkOrder(w, o) ==
    /\ Validate(w, "close", o, "CLOSED", "return")
    /\ UNCHANGED <<state, row, instance, acked, running, direct, aborted, strayed, crashes>>

\* A BUILD_RESULT for a running build.  A status other than SUCCESS and FAILED
\* raises RelayError, whatever the order's state.
OnBuildResult(w, o) ==
    /\ running[o] > 0
    /\ running' = [running EXCEPT ![o] = @ - 1]
    /\ \E s \in BuildStatuses :
         IF s \in {"SUCCESS", "FAILED"}
         THEN Validate(w, "result", o, s, "return") /\ UNCHANGED aborted
         ELSE /\ "result" \in Operations
              /\ Begin(w, Task("error", "result", o, "DRAFT", "none", "agree", {}))
              /\ aborted' = aborted \cup {o}
    /\ UNCHANGED <<state, row, instance, acked, direct, strayed, crashes>>

\* on_approval_result and on_second_review_result: the caller hands over the
\* decision of instance i and records it on that instance's row.
Verdict(w, op, i, agreed, refused) ==
    LET o == instance[i].order
        d == instance[i].decision
        target == IF d = "agree" THEN agreed ELSE refused IN
    /\ op \in Operations
    /\ d \in Verdicts
    /\ Begin(w, Task(IF can_transition(state[o], target) THEN "return" ELSE "error",
                     op, o, target, i, d, {i} \cap PendingRows(o)))
    /\ strayed' = IF i \in PendingRows(o) THEN strayed ELSE strayed \cup {o}
    /\ UNCHANGED <<state, row, instance, acked, running, direct, aborted, crashes>>

OnApprovalResult(w, i) == Verdict(w, "approval_result", i, "APPROVED", "CLOSED")

OnSecondReviewResult(w, i) ==
    /\ instance[i].review = "second"
    /\ Verdict(w, "second_result", i, "SECOND_APPROVED", "SECOND_REJECTED")

\* DingTalkService.create_approval: the awaited call creates the instance and
\* returns its id, or it raises; when only the answer is lost the instance
\* exists and the Forwarder does not know of it.
ApprovalCreated(w) ==
    LET t == worker[w] IN
    /\ t.pc = "await" /\ t.op \in {"submit", "sensitive"}
    /\ \E i \in Instances :
         /\ NewInstance(i, t.order, IF t.op = "submit" THEN "first" ELSE "second")
         /\ \/ worker' = [worker EXCEPT ![w].pc = "return", ![w].inst = i]
            \/ worker' = [worker EXCEPT ![w].pc = "error"]
    /\ UNCHANGED <<state, row, acked, running, direct, aborted, overlapped, strayed, crashes>>

\* Faulty variant of TriggerSent: the message leaves and the caller is told it
\* did not.
TriggerSentReportedLost(w) ==
    LET t == worker[w] IN
    /\ t.pc = "await" /\ t.op = "trigger"
    /\ running[t.order] < MaxBuilds
    /\ running' = [running EXCEPT ![t.order] = @ + 1]
    /\ worker' = [worker EXCEPT ![w].pc = "error"]
    /\ UNCHANGED <<state, row, instance, acked, direct, aborted, overlapped, strayed, crashes>>

\* send_to_project returned True: the BUILD_TRIGGER has left.
TriggerSent(w) ==
    LET t == worker[w] IN
    /\ t.pc = "await" /\ t.op = "trigger"
    /\ running[t.order] < MaxBuilds
    /\ running' = [running EXCEPT ![t.order] = @ + 1]
    /\ worker' = [worker EXCEPT ![w].pc = "return"]
    /\ UNCHANGED <<state, row, instance, acked, direct, aborted, overlapped, strayed, crashes>>

\* POST /api/build/trigger: the payload goes to the project's Agent as it is; no
\* work order is loaded, so no state is checked or changed.
TriggerBuildApi(o) ==
    /\ "trigger_api" \in Operations
    /\ running[o] < MaxBuilds
    /\ running' = [running EXCEPT ![o] = @ + 1]
    /\ direct' = direct \cup {o}
    /\ UNCHANGED <<state, row, instance, acked, worker, aborted, overlapped, strayed, crashes>>

\* The awaited call failed: DingTalkError, or send_to_project returned False
\* and trigger_build raises RelayError.
AwaitFailed(w) ==
    /\ worker[w].pc = "await"
    /\ worker' = [worker EXCEPT ![w].pc = "error"]
    /\ UNCHANGED <<state, row, instance, acked, running, direct, aborted, overlapped, strayed, crashes>>

\* The caller of RelayService, external: it stores the state the operation
\* stands for, with the approvals row of a new instance or the verdict.
Persist(w) ==
    LET t == worker[w] IN
    /\ t.pc = "return"
    /\ state' = [state EXCEPT ![t.order] = t.target]
    /\ row' = IF t.op \in {"submit", "sensitive"}
              THEN [row EXCEPT ![t.inst] =
                      [status |-> "PENDING",
                       review_type |-> IF t.op = "submit" THEN "first" ELSE "second"]]
              ELSE Resolve(t.rows, t.verdict)
    /\ worker' = [worker EXCEPT ![w] = Idle]
    /\ UNCHANGED <<instance, acked, running, direct, aborted, overlapped, strayed, crashes>>

\* The exception reaches the framework or the caller: the session rolls back
\* and closes; nothing was stored.
Raise(w) ==
    /\ worker[w].pc = "error"
    /\ worker' = [worker EXCEPT ![w] = Idle]
    /\ UNCHANGED <<state, row, instance, acked, running, direct, aborted, overlapped, strayed, crashes>>

\* The Forwarder restarts: tasks are gone, the database and DingTalk are not.
Crash ==
    /\ crashes < MaxCrashes
    /\ crashes' = crashes + 1
    /\ worker' = [w \in Workers |-> Idle]
    /\ UNCHANGED <<state, row, instance, acked, running, direct, aborted, overlapped, strayed>>

-----------------------------------------------------------------------------
Next ==
    \/ \E i \in Instances : Decide(i) \/ IgnoredCallback(i)
    \/ \E o \in Orders, i \in Instances : CreateApproval(o, i)
    \/ \E o \in Orders : TriggerBuildApi(o)
    \/ \E w \in Workers, i \in Instances :
         Callback(w, i) \/ OnApprovalResult(w, i) \/ OnSecondReviewResult(w, i)
    \/ \E w \in Workers, o \in Orders :
         \/ SubmitForApproval(w, o) \/ OnSensitiveChangeDetected(w, o)
         \/ TriggerBuild(w, o) \/ CloseWorkOrder(w, o) \/ OnBuildResult(w, o)
    \/ \E w \in Workers :
         \/ CommitFinish(w) \/ ApprovalCreated(w) \/ TriggerSent(w)
         \/ AwaitFailed(w) \/ Persist(w) \/ Raise(w)
    \/ Crash

Spec == Init /\ [][Next]_vars

\* A started task runs to its end; DingTalk repeats an event until it is
\* answered with 200.  Strong fairness for the first delivery, because the
\* limit on active tasks is the model's and not the server's.
Fairness ==
    /\ \A w \in Workers : WF_vars(CommitFinish(w)) /\ WF_vars(Persist(w)) /\ WF_vars(Raise(w))
    /\ \A i \in Instances : SF_vars(i \notin acked /\ \E w \in Workers : Callback(w, i))

FairSpec == Spec /\ Fairness

-----------------------------------------------------------------------------
(* Properties                                                              *)

\* The states an order reaches only after its first approval.
PostApproval == {"APPROVED", "BUILDING", "SUCCESS", "FAILED", "PENDING_SECOND_REVIEW",
                 "SECOND_APPROVED", "SECOND_REJECTED"}

\* DingTalk decided "agree" on some approval instance of order o.
Agreed(o) == \E i \in Instances : instance[i].order = o /\ instance[i].decision = "agree"

\* No order gets past approval, and no BUILD_TRIGGER is out for one, unless
\* DingTalk agreed to it: whatever callbacks are repeated, overtake each other
\* or overwrite each other's commits, and wherever the Forwarder restarts
\* (dingtalk.py:92-151, relay.py:131-165).  For BUILD_TRIGGERs this is about
\* orders that /api/build/trigger, which does not ask, was never used for.
NoBuildWithoutApproval ==
    \A o \in Orders :
        ( \/ state[o] \in PostApproval
          \/ running[o] > 0 /\ o \notin direct ) => Agreed(o)

\* What a task in flight has read or is about to store is justified as well.
WorkerJustified(t) ==
    /\ (t.pc \in {"read", "await", "return"} /\ t.seen \in PostApproval) => Agreed(t.order)
    /\ (t.pc = "read" /\ t.verdict = "agree") => Agreed(t.order)
    /\ (t.pc \in {"await", "return"} /\ t.target \in PostApproval) => Agreed(t.order)
    /\ (t.pc = "await" /\ t.op = "trigger") => t.target = "BUILDING"

\* The inductive strengthening of NoBuildWithoutApproval.
ApprovalInv ==
    /\ TypeOK
    /\ NoBuildWithoutApproval
    /\ \A w \in Workers : WorkerJustified(worker[w])

\* A row of approvals says APPROVED only if DingTalk agreed to some instance of
\* its order, and REJECTED only if it refused one: a callback may resolve
\* another instance's row, never invent a verdict (dingtalk.py:122-125).
VerdictHasADecision ==
    \A i \in Instances :
        row[i].status \in {"APPROVED", "REJECTED"} =>
            \E j \in Instances :
                /\ instance[j].order = instance[i].order
                /\ instance[j].decision =
                       (IF row[i].status = "APPROVED" THEN "agree" ELSE "refuse")

\* The invariant VerdictHasADecision rests on: a row exists only for an instance
\* that was created, and a task that holds rows or a new instance holds them for
\* their order, and rows for a verdict that DingTalk gave on that order.
TaskIsDecided(t) ==
    /\ t.pc \in {"read", "await", "return"} =>
          /\ \A i \in t.rows : instance[i].order = t.order /\ instance[i].decision # "none"
          /\ t.rows # {} =>
                \E j \in Instances : instance[j].order = t.order /\ instance[j].decision = t.verdict
    /\ t.pc = "return" /\ t.op \in {"submit", "sensitive"} =>
          /\ t.inst \in Instances /\ instance[t.inst].decision # "none"
          /\ instance[t.inst].order = t.order

RowHasInstance == \A i \in Instances : row[i].status # "ABSENT" => instance[i].decision # "none"

VerdictInv ==
    /\ TypeOK
    /\ RowHasInstance
    /\ VerdictHasADecision
    /\ \A w \in Workers : TaskIsDecided(worker[w])

\* A stored state change is an edge of TRANSITIONS, repeated and late events
\* included, for every order whose tasks have not overlapped (state.py:81-87): the
\* state a task has validated is then still the stored one when the task commits.
LegalTransitions ==
    [][\A o \in Orders \ overlapped :
          state'[o] # state[o] => can_transition(state[o], state'[o])]_vars

\* An order that waits for a review has exactly one PENDING row, and it is of the
\* review it waits for: the lookup of the callback (dingtalk.py:110-130) finds the
\* right one and never several.  Two submissions that overlap leave two rows, and
\* so does a caller that records a decision on another instance than the pending
\* one and starts a second review; both orders are excepted.
ReviewHasItsRow(o) ==
    /\ state[o] = "PENDING_APPROVAL" =>
          \E i \in Instances : PendingRows(o) = {i} /\ row[i].review_type = "first"
    /\ state[o] = "PENDING_SECOND_REVIEW" =>
          \E i \in Instances : PendingRows(o) = {i} /\ row[i].review_type = "second"

PendingStateHasItsRow == \A o \in Orders \ (overlapped \cup strayed) : ReviewHasItsRow(o)

\* While the Forwarder has not restarted, an order that is built through
\* RelayService only, by tasks that do not overlap, never has two unanswered
\* BUILD_TRIGGERs; while it has one it is BUILDING or about to be stored as such,
\* so that the result will be accepted; and when it is BUILDING without one, its
\* result is being stored, or some build of it was aborted, which on_build_result
\* refuses and which leaves the order there (relay.py:140-165, 184-197).
BuildIsTracked ==
    crashes = 0 =>
        \A o \in Orders \ (direct \cup overlapped) :
            /\ running[o] <= 1
            /\ running[o] = 1 =>
                  \/ state[o] = "BUILDING"
                  \/ \E w \in Workers : /\ worker[w].pc = "return" /\ worker[w].order = o
                                        /\ worker[w].target = "BUILDING"
            /\ (state[o] = "BUILDING" /\ running[o] = 0) =>
                  \/ o \in aborted
                  \/ \E w \in Workers : /\ worker[w].pc = "return" /\ worker[w].order = o
                                        /\ worker[w].op = "result"

\* Their invariants.  Of an order whose tasks have not overlapped one is active,
\* what it has read is still so, and the transition it validated is still open ...
Alone ==
    \A v, w \in Workers :
        /\ worker[v].pc # "idle" /\ worker[w].pc # "idle"
        /\ worker[v].order = worker[w].order /\ worker[w].order \notin overlapped
        => v = w

TaskIsCurrent(t) ==
    t.order \notin overlapped =>
        /\ t.pc \in {"read", "await", "return"} => t.seen = state[t.order]
        /\ t.pc \in {"await", "return"} => can_transition(t.seen, t.target)

\* ... an operation stores the state it stands for ...
TaskIsPlain(t) ==
    t.pc \in {"await", "return"} =>
        /\ t.op = "submit" <=> t.target = "PENDING_APPROVAL"
        /\ t.op = "sensitive" <=> t.target = "PENDING_SECOND_REVIEW"
        /\ t.op = "trigger" <=> t.target = "BUILDING"
        /\ t.op = "result" <=> t.target \in {"SUCCESS", "FAILED"}

SerialInv ==
    /\ VerdictInv
    /\ Alone
    /\ \A w \in Workers : TaskIsCurrent(worker[w]) /\ TaskIsPlain(worker[w])

\* ... PENDING rows are found where the state says so and, left behind, where the
\* order is CLOSED; a task that takes an order out of its review holds what is
\* pending, and no other does ...
Deviant == overlapped \cup strayed

TaskHasRows(t) ==
    t.order \notin Deviant =>
        /\ t.pc = "read" => t.rows = PendingRows(t.order)
        /\ t.pc \in {"await", "return"} =>
              IF t.op \in {"approval_result", "second_result"}
              THEN t.rows = PendingRows(t.order)
              ELSE t.rows = {} /\ t.target \notin {"APPROVED", "SECOND_APPROVED", "SECOND_REJECTED"}

RowsOnlyInReview(o) ==
    state[o] \notin {"PENDING_APPROVAL", "PENDING_SECOND_REVIEW", "CLOSED"} => PendingRows(o) = {}

PendingInv ==
    /\ SerialInv
    /\ \A o \in Orders \ Deviant : ReviewHasItsRow(o) /\ RowsOnlyInReview(o)
    /\ \A w \in Workers : TaskHasRows(worker[w])

\* ... and the build of an order is counted where its task says so.
BuildIsCounted(o) ==
    /\ running[o] <= 1
    /\ running[o] = 1 =>
          \/ state[o] = "BUILDING"
          \/ \E w \in Workers : /\ worker[w].pc = "return" /\ worker[w].op = "trigger"
                                /\ worker[w].order = o
    /\ (state[o] = "BUILDING" /\ running[o] = 0) =>
          \/ o \in aborted
          \/ \E w \in Workers : /\ worker[w].pc = "return" /\ worker[w].op = "result"
                                /\ worker[w].order = o
    /\ \A w \in Workers :
          worker[w].pc = "return" /\ worker[w].order = o =>
              /\ worker[w].op = "trigger" => running[o] = 1
              /\ worker[w].op = "result" => running[o] = 0

TrackingInv ==
    /\ SerialInv
    /\ crashes = 0 => \A o \in Orders \ (direct \cup overlapped) : BuildIsCounted(o)


\* An order becomes SECOND_APPROVED only when the second review was agreed to:
\* the second review is a new approval of its own (relay.py:214-220).
SecondApprovalNeedsSecondReview ==
    \A o \in Orders :
        state[o] = "SECOND_APPROVED" =>
            \E i \in Instances : /\ instance[i].order = o
                                 /\ instance[i].review = "second"
                                 /\ instance[i].decision = "agree"

=============================================================================
