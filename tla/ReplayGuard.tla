----------------------------- MODULE ReplayGuard -----------------------------
(***************************************************************************)
(* A ReplayGuard in use: check_and_record on messages that arrive any      *)
(* number of times, calls of purge_expired, and the clock, which is taken  *)
(* never to be set back.                                                   *)
(***************************************************************************)
EXTENDS ReplayGuardOps

CONSTANTS
    MaxTime,     \* bound on the clock
    FutureSkew   \* how far a message's timestamp may be ahead of the clock when it is made

ASSUME MaxTimeAssumption == MaxTime \in Nat
ASSUME FutureSkewAssumption == FutureSkew \in Nat

VARIABLES
    now,        \* now_ms()
    nonces,     \* _nonces
    timestamp,  \* the timestamp of the message with each nonce, once it exists
    fresh,      \* how often check_and_record said True for each nonce
    ahead       \* history: nonces found fresh when their message was stamped ahead of now

vars == <<now, nonces, timestamp, fresh, ahead>>

TypeOK ==
    /\ now \in Nat
    /\ nonces \in Caches
    /\ timestamp \in [Nonces -> Nat \cup {Absent}]
    /\ fresh \in [Nonces -> Nat]
    /\ ahead \subseteq Nonces

Init ==
    /\ now = 0
    /\ nonces = EmptyCache
    /\ timestamp = [n \in Nonces |-> Absent]
    /\ fresh = [n \in Nonces |-> 0]
    /\ ahead = {}

\* A peer makes a message, external.
Make(n) ==
    /\ timestamp[n] = Absent
    /\ \E t \in 0 .. (now + FutureSkew) : timestamp' = [timestamp EXCEPT ![n] = t]
    /\ UNCHANGED <<now, nonces, fresh, ahead>>

CheckAndRecord(n) ==
    /\ timestamp[n] # Absent
    /\ LET r == check_and_record(nonces, timestamp[n], n, now) IN
       /\ nonces' = r.cache
       /\ fresh' = [fresh EXCEPT ![n] = IF r.fresh THEN @ + 1 ELSE @]
       /\ ahead' = IF r.fresh /\ timestamp[n] > now THEN ahead \cup {n} ELSE ahead
    /\ UNCHANGED <<now, timestamp>>

Purge ==
    /\ nonces' = purge_expired(nonces, now)
    /\ UNCHANGED <<now, timestamp, fresh, ahead>>

Tick ==
    /\ now < MaxTime
    /\ now' = now + 1
    /\ UNCHANGED <<nonces, timestamp, fresh, ahead>>

Next == (\E n \in Nonces : Make(n) \/ CheckAndRecord(n)) \/ Purge \/ Tick

Spec == Init /\ [][Next]_vars

-----------------------------------------------------------------------------
\* A message is fresh once: "within window AND nonce not seen" (replay_guard.py:46).
\* Not so for one stamped ahead of the clock, which the window admits on purpose
\* (test_replay_guard.py:49): its nonce expires before its message does.
FreshOnce == \A n \in Nonces : fresh[n] <= 1

\* A message whose stamp was not ahead of the clock is fresh once, whatever is
\* purged: when the cache drops its nonce, it has left the window.  One that was
\* ahead is fresh twice at most: by the time its nonce is dropped the clock has
\* passed the stamp, and a second entry lasts as long as the message
\* (replay_guard.py:28-68).
FreshOnceUnlessAhead == \A n \in Nonces : fresh[n] <= IF n \in ahead THEN 2 ELSE 1

\* The purge at the limit works: no expired nonce stays behind a successful
\* check that leaves the cache over its limit (replay_guard.py:56-57).
PurgedAtLimit ==
    [][\A n \in Nonces :
          (fresh'[n] > fresh[n] /\ Cardinality(Cached(nonces')) > Limit) =>
              \A m \in Cached(nonces') : nonces'[m] >= now]_vars

\* Until the clock has passed t, the nonce is in the cache.
CachedUntil(n, t) == nonces[n] >= t \/ t < now

\* Why FreshOnceUnlessAhead holds: after the first time, the nonce of a message
\* that was ahead is cached until the clock reaches its stamp; any other, and any
\* after the second time, until the message has left the window.
GuardInv ==
    /\ TypeOK
    /\ FreshOnceUnlessAhead
    /\ \A n \in Nonces :
         /\ fresh[n] > 0 => timestamp[n] # Absent
         /\ n \in ahead => fresh[n] > 0
         /\ fresh[n] = 1 /\ n \in ahead => CachedUntil(n, timestamp[n])
         /\ fresh[n] = 1 /\ n \notin ahead => CachedUntil(n, timestamp[n] + Window)
         /\ fresh[n] = 2 => CachedUntil(n, timestamp[n] + Window)

=============================================================================
