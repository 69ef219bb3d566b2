----------------------------- MODULE ReviewGate -----------------------------
(***************************************************************************)
(* What the Agent promises about reviews, without poll threads, the table  *)
(* of builds, Jenkins or a shutdown: a build is reported once at most;     *)
(* once a review is asked for, it is held until an answer to its issue     *)
(* lets it go; and an answer lets go one build that is ready for it, or,   *)
(* when there is none, nothing.  Requests may be lost, and more may be     *)
(* made than builds wait.  Builds of one number may be mixed up; the gate  *)
(* no longer holds them then, an answer may be used up by one of them, and *)
(* each is reported twice at most.                                         *)
(***************************************************************************)
EXTENDS Naturals

CONSTANTS Builds, IssueOf, NumberOf

Issues == {IssueOf[b] : b \in Builds}

VARIABLES
    gate,     \* "free", "asked", "ready" for an answer, "released" by one, or "loose"
    pending,  \* requests that arrived and have no answer
    reported  \* how often each build was reported

vars == <<gate, pending, reported>>

Init ==
    /\ gate = [b \in Builds |-> "free"]
    /\ pending = [i \in Issues |-> 0]
    /\ reported = [b \in Builds |-> 0]

OneMorePending(i) == [pending EXCEPT ![i] = @ + 1]

Ask(b) ==
    /\ gate[b] = "free" /\ reported[b] = 0
    /\ gate' = [gate EXCEPT ![b] = "asked"]
    /\ pending' \in {pending, OneMorePending(IssueOf[b])}
    /\ UNCHANGED reported

BecomeReady(b) ==
    /\ gate[b] = "asked"
    /\ gate' = [gate EXCEPT ![b] = "ready"]
    /\ UNCHANGED <<pending, reported>>

AskAgain(i) == pending' = OneMorePending(i) /\ UNCHANGED <<gate, reported>>

ReadyFor(i) == {b \in Builds : IssueOf[b] = i /\ gate[b] = "ready"}
LooseOf(i) == {b \in Builds : IssueOf[b] = i /\ gate[b] = "loose"}

Answer(i) ==
    /\ pending[i] > 0
    /\ pending' = [pending EXCEPT ![i] = @ - 1]
    /\ \/ \E b \in ReadyFor(i) : gate' = [gate EXCEPT ![b] = "released"]
       \/ ReadyFor(i) = {} /\ UNCHANGED gate
       \/ LooseOf(i) # {} /\ UNCHANGED gate
    /\ UNCHANGED reported

Report(b) ==
    /\ \/ gate[b] \in {"free", "released"} /\ reported[b] = 0
       \/ gate[b] = "loose" /\ reported[b] < 2
    /\ reported' = [reported EXCEPT ![b] = @ + 1]
    /\ UNCHANGED <<gate, pending>>

\* Build b, of which nothing is known yet, is taken for c, which has its number
\* and was not let go.
MixUp(b, c) ==
    /\ b # c /\ NumberOf[b] = NumberOf[c] /\ NumberOf[b] # 0
    /\ gate[b] = "free" /\ reported[b] = 0
    /\ gate[c] \in {"free", "asked", "ready"}
    /\ gate' = [d \in Builds |-> IF NumberOf[d] = NumberOf[b] THEN "loose" ELSE gate[d]]
    /\ UNCHANGED <<pending, reported>>

Next ==
    \/ \E b \in Builds : Ask(b) \/ BecomeReady(b) \/ Report(b) \/ \E c \in Builds : MixUp(b, c)
    \/ \E i \in Issues : AskAgain(i) \/ Answer(i)

Spec == Init /\ [][Next]_vars

=============================================================================
