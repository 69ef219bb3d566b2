--------------------------- MODULE ReplayGuardOps ---------------------------
(***************************************************************************)
(* ReplayGuard of both programs (forwarder/app/crypto/replay_guard.py and  *)
(* agent/crypto/src/replay_guard.cpp, which agree line by line), as        *)
(* operators over a nonce cache and the local wall clock.                  *)
(***************************************************************************)
EXTENDS Integers, FiniteSets

CONSTANTS
    Nonces,
    Window,  \* half width of the accepted timestamp window (300 s)
    Limit    \* cache size above which check_and_record purges (10000)

ASSUME WindowAssumption == Window \in Nat
ASSUME LimitAssumption == Limit \in Nat

\* _nonces maps a cached nonce to its expiry time.
Absent == -1
Caches == [Nonces -> Nat \cup {Absent}]
EmptyCache == [n \in Nonces |-> Absent]

Cached(cache) == {n \in Nonces : cache[n] # Absent}

is_within_window(timestamp, now) ==
    timestamp >= now - Window /\ timestamp <= now + Window

is_replay(cache, nonce) == cache[nonce] # Absent

\* Faulty variant of record_nonce: the entry expires at once.
record_nonce_without_window(cache, nonce, now) == [cache EXCEPT ![nonce] = now]

record_nonce(cache, nonce, now) == [cache EXCEPT ![nonce] = now + Window]

purge_expired(cache, now) ==
    [n \in Nonces |-> IF cache[n] < now THEN Absent ELSE cache[n]]

\* Faulty variant of check_and_record: it never purges.
check_and_record_unpurged(cache, timestamp, nonce, now) ==
    IF ~ is_within_window(timestamp, now) \/ is_replay(cache, nonce)
    THEN [fresh |-> FALSE, cache |-> cache]
    ELSE [fresh |-> TRUE, cache |-> record_nonce(cache, nonce, now)]

\* What check_and_record returns, and the cache it leaves.
check_and_record(cache, timestamp, nonce, now) ==
    IF ~ is_within_window(timestamp, now) \/ is_replay(cache, nonce)
    THEN [fresh |-> FALSE, cache |-> cache]
    ELSE LET recorded == record_nonce(cache, nonce, now) IN
         [fresh |-> TRUE,
          cache |-> IF Cardinality(Cached(recorded)) > Limit
                    THEN purge_expired(recorded, now) ELSE recorded]

=============================================================================
