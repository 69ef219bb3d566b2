----------------------------- MODULE BuildAgent -----------------------------
(***************************************************************************)
(* The Agent's build handling (agent/tools/agent_main.cpp): the message    *)
(* callback, which runs on WsClient's I/O thread, the detached thread that *)
(* polls each build, and the main loop, which watches the repository and   *)
(* shuts the process down.  They share g_active_builds, under a mutex that *)
(* each holds for one access at a time, and the plain pointer g_ws_client. *)
(*                                                                         *)
(* JenkinsClient and git are abstracted to the answers the code tells      *)
(* apart.  A message handed to WsClient::send may be lost without notice.  *)
(***************************************************************************)
EXTENDS Naturals, FiniteSets

CONSTANTS
    Builds,       \* the BUILD_TRIGGERs the Forwarder may send
    IssueOf,      \* the issue each names
    NumberOf,     \* the build_number trigger_build returns, 0 when it is not known
    MaxRequests,  \* bound on requests of the repository watch
    None

ASSUME NumberAssumption == NumberOf \in [Builds -> Nat]
ASSUME BuildNoneAssumption == None \notin Builds /\ \A b \in Builds : IssueOf[b] # None
ASSUME BuildBoundsAssumption == MaxRequests \in Nat

Issues == {IssueOf[b] : b \in Builds}
Numbers == {NumberOf[b] : b \in Builds} \ {0}

VARIABLES
    thread,    \* where the build's poll thread is
    table,     \* g_active_builds; trigger_time as a rank among the active builds
    io,        \* the build whose result the message callback is about to send
    monitor,   \* the issue the repository watch is about to ask about
    requests,  \* requests of the repository watch so far
    asked,     \* builds for which the poll thread has requested a review
    pending,   \* reviews the Forwarder was asked for and has not answered
    answered,  \* SECOND_REVIEW_RESULTs handled
    missed,    \* history: issues with a request that was lost, or an answer that came too early
    reported,  \* BUILD_RESULTs sent for each build
    clashed,   \* history: numbers under which a build took over another one's entry
    life,      \* g_running, then g_ws_client = nullptr, then the end of main
    crashed    \* a thread used the null pointer

reviews == <<asked, pending, answered, missed>>
watch == <<monitor, requests>>
vars == <<thread, table, io, watch, reviews, reported, clashed, life, crashed>>

Live == {"polling", "built", "ask", "mark", "report", "erase"}
NoBuild == [build |-> None, waiting_review |-> FALSE, trigger_time |-> 0]
Active == {n \in Numbers : table[n].build # None}

\* Entry n is newer than every other one.
Newest(n) == n \in Active /\ \A m \in Active : table[m].trigger_time <= table[n].trigger_time
Now == 1 + (IF Active = {} THEN 0 ELSE table[CHOOSE n \in Active : Newest(n)].trigger_time)

TypeOK ==
    /\ thread \in [Builds -> Live \cup {"none", "queued", "ended"}]
    /\ table \in [Numbers -> [build : Builds \cup {None}, waiting_review : BOOLEAN,
                              trigger_time : Nat]]
    /\ io \in Builds \cup {None}
    /\ monitor \in Issues \cup {None} /\ requests \in 0 .. MaxRequests
    /\ asked \subseteq Builds
    /\ pending \in [Issues -> Nat] /\ answered \in [Issues -> Nat]
    /\ missed \subseteq Issues /\ clashed \subseteq Numbers
    /\ reported \in [Builds -> Nat]
    /\ life \in {"up", "stopping", "cut", "exited"}
    /\ crashed \in BOOLEAN

Init ==
    /\ thread = [b \in Builds |-> "none"]
    /\ table = [n \in Numbers |-> NoBuild]
    /\ io = None
    /\ monitor = None /\ requests = 0
    /\ asked = {}
    /\ pending = [i \in Issues |-> 0] /\ answered = [i \in Issues |-> 0]
    /\ missed = {} /\ clashed = {}
    /\ reported = [b \in Builds |-> 0]
    /\ life = "up" /\ crashed = FALSE

-----------------------------------------------------------------------------
(* g_ws_client                                                             *)

HasClient == life \in {"up", "stopping"}

\* g_ws_client->send after the test of the pointer: main may have reset it in
\* between, which is a data race.
UsesClient == crashed' \in IF HasClient THEN {FALSE} ELSE BOOLEAN

\* A SENSITIVE_REVIEW_REQ that names issue i arrives, or is lost.
RequestsReview(i) ==
    \/ HasClient /\ pending' = [pending EXCEPT ![i] = @ + 1]
    \/ pending' = pending

Reports(b) == reported' = IF HasClient THEN [reported EXCEPT ![b] = @ + 1] ELSE reported

-----------------------------------------------------------------------------
(* msg_cb: one message at a time, on the I/O thread                        *)

\* BUILD_TRIGGER, and Jenkins does not take the build.
TriggerFails(b) ==
    /\ io = None /\ thread[b] = "none"
    /\ thread' = [thread EXCEPT ![b] = "ended"]
    /\ Reports(b)
    /\ UsesClient
    /\ UNCHANGED <<table, io, watch, reviews, life, clashed>>

\* BUILD_TRIGGER, and Jenkins queues the build.  Without a build number the
\* handler gives up on it; with one it registers it, over another build's entry if
\* a job of the same number is in the table, and starts a poll thread.
Trigger(b) ==
    /\ io = None /\ thread[b] = "none"
    /\ IF NumberOf[b] = 0
       THEN /\ thread' = [thread EXCEPT ![b] = "queued"]
            /\ UNCHANGED table
       ELSE /\ thread' = [thread EXCEPT ![b] = "polling"]
            /\ table' = [table EXCEPT
                           ![NumberOf[b]] = [build |-> b, waiting_review |-> FALSE,
                                             trigger_time |-> Now]]
    /\ clashed' = clashed \cup ({NumberOf[b]} \cap Active)
    /\ UNCHANGED <<io, watch, reviews, reported, life, crashed>>

\* Faulty variant of WaitingFor: the issue is not compared.
WaitingForAny(i) == {n \in Active : table[n].waiting_review}

\* Entries of builds of issue i that wait for their review.
WaitingFor(i) ==
    {n \in Active : table[n].waiting_review /\ IssueOf[table[n].build] = i}

\* Faulty variants of Release: the number is kept instead of the build; the entry
\* stays.
ReleaseNumber(n) == io' = n /\ table' = [table EXCEPT ![n] = NoBuild]
ReleaseKeeping(n) == io' = table[n].build /\ UNCHANGED table

\* Copy the entry and erase it, under one lock.
Release(n) ==
    /\ io' = table[n].build
    /\ table' = [table EXCEPT ![n] = NoBuild]

\* SECOND_REVIEW_RESULT for issue i: take a waiting build out of the table, in
\* whatever order the map holds them; if there is none, drop the message.
ReviewResult(i) ==
    /\ io = None /\ pending[i] > 0
    /\ pending' = [pending EXCEPT ![i] = @ - 1]
    /\ answered' = [answered EXCEPT ![i] = @ + 1]
    /\ \/ \E n \in WaitingFor(i) : Release(n)
       \/ WaitingFor(i) = {} /\ UNCHANGED <<io, table>>
    /\ missed' = IF WaitingFor(i) = {} /\ \E b \in Builds : thread[b] = "mark" /\ IssueOf[b] = i
                 THEN missed \cup {i} ELSE missed
    /\ UNCHANGED <<thread, watch, asked, reported, life, crashed, clashed>>

\* ... fetch the build's status and log again, and send BUILD_RESULT.
ReviewReports ==
    /\ io # None /\ io' = None
    /\ Reports(io)
    /\ UsesClient
    /\ UNCHANGED <<thread, table, watch, reviews, life, clashed>>

-----------------------------------------------------------------------------
(* build_poll_thread                                                       *)

\* A final status, the deadline, or the end of g_running.
PollEnds(b) ==
    /\ thread[b] = "polling"
    /\ thread' = [thread EXCEPT ![b] = "built"]
    /\ UNCHANGED <<table, io, watch, reviews, reported, life, crashed, clashed>>

\* What git diff says of special.md; a pipe that does not open says no.
detect_special_md_change == BOOLEAN

\* The log, and whether special.md changed: then a review comes first.
ChecksSpecial(b) ==
    /\ thread[b] = "built"
    /\ \E special_changed \in detect_special_md_change :
         thread' = [thread EXCEPT ![b] = CASE special_changed /\ HasClient -> "ask"
                                           [] ~ special_changed /\ HasClient -> "report"
                                           [] OTHER -> "erase"]
    /\ UNCHANGED <<table, io, watch, reviews, reported, life, crashed, clashed>>

AsksForReview(b) ==
    /\ thread[b] = "ask"
    /\ thread' = [thread EXCEPT ![b] = "mark"]
    /\ asked' = asked \cup {b}
    /\ RequestsReview(IssueOf[b])
    /\ missed' = IF pending' = pending THEN missed \cup {IssueOf[b]} ELSE missed
    /\ UsesClient
    /\ UNCHANGED <<table, io, watch, answered, reported, life, clashed>>

\* Faulty variant of Marked: no entry is marked.
MarkedNothing(n) == table

Marked(n) ==
    IF n \in Active THEN [table EXCEPT ![n].waiting_review = TRUE] ELSE table

MarksWaiting(b) ==
    /\ thread[b] = "mark"
    /\ thread' = [thread EXCEPT ![b] = "ended"]
    /\ table' = Marked(NumberOf[b])
    /\ UNCHANGED <<io, watch, reviews, reported, life, crashed, clashed>>

SendsResult(b) ==
    /\ thread[b] = "report"
    /\ thread' = [thread EXCEPT ![b] = "erase"]
    /\ Reports(b)
    /\ UsesClient
    /\ UNCHANGED <<table, io, watch, reviews, life, clashed>>

\* Faulty variant of Erases: the thread ends and its entry stays.
ErasesNothing(b) ==
    /\ thread[b] = "erase"
    /\ thread' = [thread EXCEPT ![b] = "ended"]
    /\ UNCHANGED <<table, io, watch, reviews, reported, life, crashed, clashed>>

Erases(b) ==
    /\ thread[b] = "erase"
    /\ thread' = [thread EXCEPT ![b] = "ended"]
    /\ table' = [table EXCEPT ![NumberOf[b]] = NoBuild]
    /\ UNCHANGED <<io, watch, reviews, reported, life, crashed, clashed>>

-----------------------------------------------------------------------------
(* main                                                                    *)

\* special.md changed in the repository: the newest active build is picked.
\* (Without one the request names no issue, and nothing here depends on it.)
WatchPicks ==
    /\ life = "up" /\ monitor = None /\ requests < MaxRequests
    /\ \E n \in Active : Newest(n) /\ monitor' = IssueOf[table[n].build]
    /\ requests' = requests + 1
    /\ UNCHANGED <<thread, table, io, reviews, reported, life, crashed, clashed>>

WatchRequests ==
    /\ monitor # None /\ monitor' = None
    /\ RequestsReview(monitor)
    /\ UNCHANGED <<thread, table, io, requests, asked, answered, missed, reported, life, crashed,
                   clashed>>

Signal ==
    /\ life = "up" /\ life' = "stopping"
    /\ UNCHANGED <<thread, table, io, watch, reviews, reported, crashed, clashed>>

\* g_ws_client = nullptr and client.stop().
CutsClient ==
    /\ life = "stopping" /\ monitor = None /\ life' = "cut"
    /\ UNCHANGED <<thread, table, io, watch, reviews, reported, crashed, clashed>>

\* main returns without waiting for the detached threads.
Exit ==
    /\ life = "cut" /\ life' = "exited"
    /\ UNCHANGED <<thread, table, io, watch, reviews, reported, crashed, clashed>>

-----------------------------------------------------------------------------
Alive == life # "exited" /\ ~ crashed

PollStep(b) ==
    \/ PollEnds(b) \/ ChecksSpecial(b) \/ AsksForReview(b) \/ MarksWaiting(b)
    \/ SendsResult(b) \/ Erases(b)

Next ==
    /\ Alive
    /\ \/ \E b \in Builds : TriggerFails(b) \/ Trigger(b) \/ PollStep(b)
       \/ \E i \in Issues : ReviewResult(i)
       \/ ReviewReports
       \/ WatchPicks \/ WatchRequests
       \/ Signal \/ CutsClient \/ Exit

Spec == Init /\ [][Next]_vars

-----------------------------------------------------------------------------
(* Properties.  A number is mixed up once a build of another job took over *)
(* the entry of one that was still there (agent_main.cpp:494); only these  *)
(* builds, and their issues, are excepted below, from then on.             *)

MixedUp(b) == NumberOf[b] \in clashed
MixedIssues == {IssueOf[b] : b \in {c \in Builds : MixedUp(c)}}

\* A build's result is sent once at most, by its poll thread or, when the build
\* was handed over to a review, by the message callback, whatever the order in
\* which polls end, reviews come and the repository watch asks for more of them;
\* and of a number that is mixed up, where both may send it, twice at most
\* (agent_main.cpp:261-307, 364-378).
ReportedOnce == \A b \in Builds : reported[b] <= IF MixedUp(b) THEN 2 ELSE 1

\* A build whose poll thread asked for a review is not reported before its issue
\* has an answer, and no answer releases two of them (agent_main.cpp:177-181).
HeldForReview ==
    \A i \in Issues :
        Cardinality({b \in asked : IssueOf[b] = i /\ reported[b] > 0}) <= answered[i]

\* As many reviews are under way for an issue as builds of it wait for one, also
\* when the repository watch asks for more and when the builds of several issues
\* wait at once: a build waits in vain only if its request was lost, if an answer
\* came before the build was marked and was dropped, or if the issue has a build
\* of a number that is mixed up (agent_main.cpp:251-271, 344-378).
WaitsForAnAnswer ==
    \A i \in Issues \ (missed \cup MixedIssues) :
        Cardinality({n \in Active : table[n].waiting_review /\ IssueOf[table[n].build] = i})
            <= pending[i]

\* No entry of g_active_builds is left behind: it belongs to a running thread or
\* waits for a review (agent_main.cpp:261-271, 303-307).
NothingLeaks ==
    \A n \in Active : thread[table[n].build] \in Live \/ table[n].waiting_review

\* The invariant they rest on.  A build is in the table at its own number only, and
\* a live thread's build is there and does not wait; who is to report a build can
\* be told from its thread and its entry; an answer pays for each build that was
\* released, and a request for each that waits or is about to.  Of a build that is
\* mixed up only its own thread and its own entry can still make a report, once
\* each.
HasEntry(b) == NumberOf[b] # 0 /\ table[NumberOf[b]].build = b
WaitsInTable(b) == HasEntry(b) /\ table[NumberOf[b]].waiting_review

EntryAtItsNumber == \A n \in Active : NumberOf[table[n].build] = n

LiveHasEntry ==
    \A b \in Builds : thread[b] \in Live /\ ~ MixedUp(b) => HasEntry(b) /\ ~ WaitsInTable(b)

OneReporter ==
    \A b \in Builds : ~ MixedUp(b) =>
        /\ HasEntry(b) => thread[b] \in Live \cup {"ended"}
        /\ io = b => reported[b] = 0 /\ thread[b] = "ended" /\ ~ HasEntry(b)
        /\ reported[b] > 0 => thread[b] = "erase" \/ (thread[b] = "ended" /\ ~ HasEntry(b))
        /\ b \in asked => thread[b] \in {"mark", "ended"}

ThreadReports(b) == thread[b] \in {"polling", "built", "report"}
CallbackReports(b) == HasEntry(b) \/ io = b

TwoReporters ==
    \A b \in Builds :
        /\ io = b => ~ HasEntry(b)
        /\ reported[b] <= 2
        /\ ThreadReports(b) \/ CallbackReports(b) => reported[b] <= 1
        /\ ThreadReports(b) /\ CallbackReports(b) => reported[b] = 0

\* Builds that an answer took out of the table.  One whose own thread was still
\* running, because another build marked its entry, may report itself as well, and
\* is then no longer counted.
Released(i) ==
    {b \in Builds : /\ IssueOf[b] = i /\ (reported[b] > 0 \/ io = b)
                    /\ b \in asked \/ thread[b] \in Live \ {"erase"}}
AnswersCover == \A i \in Issues : Cardinality(Released(i)) <= answered[i]

WaitersOf(i) == {b \in Builds : IssueOf[b] = i /\ (thread[b] = "mark" \/ WaitsInTable(b))}
RequestsCover ==
    \A i \in Issues \ (missed \cup MixedIssues) : Cardinality(WaitersOf(i)) <= pending[i]

BuildInv ==
    /\ TypeOK
    /\ EntryAtItsNumber /\ NothingLeaks
    /\ LiveHasEntry /\ OneReporter /\ TwoReporters /\ ReportedOnce
    /\ AnswersCover /\ RequestsCover

\* Where a build stands at the review gate.
GateOf(b) ==
    IF MixedUp(b) THEN "loose"
    ELSE IF b \notin asked THEN "free"
    ELSE IF thread[b] = "mark" THEN "asked"
    ELSE IF WaitsInTable(b) THEN "ready" ELSE "released"

Abstract == INSTANCE ReviewGate WITH gate <- [b \in Builds |-> GateOf(b)]

\* The Agent, with its threads, its table and its callback, implements the review
\* gate: each step of a thread is one step of the gate or none, however polls,
\* answers, requests of the repository watch and the shutdown interleave, and the
\* builds of one number are let loose only when one takes over the entry of the
\* other (agent_main.cpp:182-311, 344-378, 494).
ImplementsReviewGate == Abstract!Spec

=============================================================================
