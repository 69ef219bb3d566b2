----------------------------- MODULE AccessToken -----------------------------
(***************************************************************************)
(* DingTalkService's access token (services/dingtalk.py): a cache with a   *)
(* double-checked asyncio.Lock, shared by the requests that create, query  *)
(* and notify.  Each of them gets the token, leaves the event loop for the *)
(* executor, and only there presents the token to DingTalk.                *)
(*                                                                         *)
(* A token is named by the time at which DingTalk issued it; DingTalk      *)
(* accepts it for Lifetime from then on.  The code counts Lifetime from    *)
(* the moment it handles the answer, which is later.                       *)
(***************************************************************************)
EXTENDS Integers, FiniteSets

CONSTANTS
    Callers,     \* requests being served, each of which may call again
    Lifetime,    \* expire_in
    Margin,      \* the 300 s by which the code refreshes early
    MaxLatency,  \* longest time between a token's issue and the handling of the answer
    MaxDelay,    \* longest wait for the executor
    Horizon,     \* bound on the clock
    None

ASSUME TokenNoneAssumption == None \notin Callers /\ None \notin Int
ASSUME TokenTimesAssumption ==
    /\ Lifetime \in Nat /\ Margin \in Nat /\ MaxLatency \in Nat /\ MaxDelay \in Nat
    /\ Horizon \in Nat
    /\ MaxLatency + MaxDelay <= Margin
    /\ MaxLatency + MaxDelay < Lifetime

VARIABLES
    now,               \* time.time()
    access_token,      \* _access_token
    token_expires_at,  \* _token_expires_at
    token_lock,        \* who holds _token_lock
    pc,                \* where each caller is
    answer,            \* the token DingTalk issued to a caller that fetches
    held,              \* the token get_access_token returned to a caller
    since              \* when it did

cache == <<access_token, token_expires_at>>
local == <<answer, held, since>>
vars == <<now, cache, token_lock, pc, local>>

Tokens == Nat \cup {None}

TypeOK ==
    /\ now \in 0 .. Horizon
    /\ access_token \in Tokens /\ token_expires_at \in Nat
    /\ token_lock \in Callers \cup {None}
    /\ pc \in [Callers -> {"idle", "waiting", "fetching", "issued", "have"}]
    /\ answer \in [Callers -> Tokens] /\ held \in [Callers -> Tokens]
    /\ since \in [Callers -> Nat]

Init ==
    /\ now = 0
    /\ access_token = None /\ token_expires_at = 0
    /\ token_lock = None
    /\ pc = [c \in Callers |-> "idle"]
    /\ answer = [c \in Callers |-> None] /\ held = [c \in Callers |-> None]
    /\ since = [c \in Callers |-> 0]

-----------------------------------------------------------------------------
\* Faulty variant of Fresh: the margin is forgotten.
FreshToTheEnd == access_token # None /\ now < token_expires_at

\* The cached token may still be handed out.
Fresh == access_token # None /\ now < token_expires_at - Margin

Returns(c, t) ==
    /\ pc' = [pc EXCEPT ![c] = "have"]
    /\ held' = [held EXCEPT ![c] = t]
    /\ since' = [since EXCEPT ![c] = now]

CacheHit(c) ==
    /\ pc[c] = "idle" /\ Fresh
    /\ Returns(c, access_token)
    /\ UNCHANGED <<now, cache, token_lock, answer>>

CacheMiss(c) ==
    /\ pc[c] = "idle" /\ ~ Fresh
    /\ pc' = [pc EXCEPT ![c] = "waiting"]
    /\ UNCHANGED <<now, cache, token_lock, local>>

\* Faulty variant of Locked: no second look at the cache.
LockedFetches(c) ==
    /\ pc[c] = "waiting" /\ token_lock = None
    /\ token_lock' = c
    /\ pc' = [pc EXCEPT ![c] = "fetching"]
    /\ UNCHANGED <<now, cache, local>>

\* The lock is free: look at the cache again, or go and fetch under the lock.
Locked(c) ==
    /\ pc[c] = "waiting" /\ token_lock = None
    /\ \/ Fresh /\ Returns(c, access_token) /\ UNCHANGED <<token_lock, answer>>
       \/ /\ ~ Fresh
          /\ token_lock' = c
          /\ pc' = [pc EXCEPT ![c] = "fetching"]
          /\ UNCHANGED local
    /\ UNCHANGED <<now, cache>>

\* DingTalk issues a token; its answer is on the way to the event loop.
TokenIssued(c) ==
    /\ pc[c] = "fetching"
    /\ pc' = [pc EXCEPT ![c] = "issued"]
    /\ answer' = [answer EXCEPT ![c] = now]
    /\ UNCHANGED <<now, cache, token_lock, held, since>>

Fetched(c) ==
    /\ pc[c] = "issued"
    /\ access_token' = answer[c]
    /\ token_expires_at' = now + Lifetime
    /\ token_lock' = None
    /\ answer' = [answer EXCEPT ![c] = None]
    /\ Returns(c, answer[c])
    /\ UNCHANGED now

\* Faulty variant of FetchFails: the exception leaves the lock taken.
FetchFailsLocked(c) ==
    /\ pc[c] \in {"fetching", "issued"}
    /\ pc' = [pc EXCEPT ![c] = "idle"]
    /\ answer' = [answer EXCEPT ![c] = None]
    /\ UNCHANGED <<now, cache, token_lock, held, since>>

\* DingTalkError: the lock is released, the cache stays as it was.
FetchFails(c) ==
    /\ pc[c] \in {"fetching", "issued"}
    /\ pc' = [pc EXCEPT ![c] = "idle"]
    /\ token_lock' = None
    /\ answer' = [answer EXCEPT ![c] = None]
    /\ UNCHANGED <<now, cache, held, since>>

\* The executor runs the SDK call, with the token in its headers.
Use(c) ==
    /\ pc[c] = "have"
    /\ pc' = [pc EXCEPT ![c] = "idle"]
    /\ held' = [held EXCEPT ![c] = None] /\ since' = [since EXCEPT ![c] = 0]
    /\ UNCHANGED <<now, cache, token_lock, answer>>

\* Time passes, within the latencies assumed.
Tick ==
    /\ now < Horizon /\ now' = now + 1
    /\ \A c \in Callers :
         /\ pc[c] = "issued" => now < answer[c] + MaxLatency
         /\ pc[c] = "have" => now < since[c] + MaxDelay
    /\ UNCHANGED <<cache, token_lock, pc, local>>

CallerStep(c) ==
    \/ CacheHit(c) \/ CacheMiss(c) \/ Locked(c) \/ TokenIssued(c) \/ Fetched(c)
    \/ FetchFails(c) \/ Use(c)

Next == Tick \/ \E c \in Callers : CallerStep(c)

Spec == Init /\ [][Next]_vars

\* The SDK's call ends, one way or the other, and asyncio.Lock is handed over in
\* the order of arrival.
Fairness ==
    \A c \in Callers :
        /\ WF_vars(TokenIssued(c)) /\ WF_vars(Fetched(c) \/ FetchFails(c))
        /\ WF_vars(Use(c))
        /\ SF_vars(Locked(c))

FairSpec == Spec /\ Fairness

-----------------------------------------------------------------------------
(* Properties                                                              *)

\* A token is still good when the executor presents it: the margin outweighs the
\* age it had when the code began to count and the wait for the executor, for a
\* token from the cache as for one just fetched (dingtalk.py:73, 84, 124).
UsedWhileValid == \A c \in Callers : pc[c] = "have" => now < held[c] + Lifetime

\* Callers that missed the cache together fetch once: whoever starts a fetch
\* found the cache stale, and no other fetch is under way (dingtalk.py:76-79).
FetchesOnce ==
    [][\A c \in Callers :
          pc[c] # "fetching" /\ pc'[c] = "fetching" =>
              /\ ~ (access_token # None /\ now < token_expires_at - Margin)
              /\ \A d \in Callers : pc[d] \notin {"fetching", "issued"}]_vars

\* No caller waits for the token for ever, whatever fetches fail before its turn
\* (dingtalk.py:76, 82, 97).
WaiterIsServed ==
    \A c \in Callers : pc[c] = "waiting" ~> pc[c] \in {"have", "idle"}

=============================================================================
