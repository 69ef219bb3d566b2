-------------------------- MODULE ReplayGuardProofs --------------------------
(* Theorems about ReplayGuard, for any window, cache limit and message set. *)
EXTENDS ReplayGuard, TLAPS

\* What check_and_record does to the cache: it keeps an entry, drops an expired
\* one, or records the nonce it was asked about.
LEMMA CheckEffect ==
  ASSUME NEW cache \in Caches, NEW t \in Nat, NEW n \in Nonces, NEW clock \in Nat,
         NEW r, r = check_and_record(cache, t, n, clock)
  PROVE  /\ r.cache \in Caches
         /\ r.fresh \in BOOLEAN
         /\ r.fresh => /\ t >= clock - Window /\ t <= clock + Window
                       /\ cache[n] = Absent
                       /\ r.cache[n] = clock + Window
         /\ ~ r.fresh => r.cache = cache
         /\ \A m \in Nonces \ {n} :
              \/ r.cache[m] = cache[m]
              \/ r.cache[m] = Absent /\ cache[m] < clock
  <1> USE WindowAssumption
  <1>1. CASE ~ is_within_window(t, clock) \/ is_replay(cache, n)
    BY <1>1 DEF check_and_record
  <1>2. CASE is_within_window(t, clock) /\ ~ is_replay(cache, n)
    <2> DEFINE rec == record_nonce(cache, n, clock)
               c == IF Cardinality(Cached(rec)) > Limit THEN purge_expired(rec, clock) ELSE rec
    <2>1. r = [fresh |-> TRUE, cache |-> c]
      BY <1>2 DEF check_and_record
    <2>2. /\ rec \in Caches
          /\ rec[n] = clock + Window
          /\ \A m \in Nonces \ {n} : rec[m] = cache[m]
      BY DEF record_nonce, Caches
    <2>3. t >= clock - Window /\ t <= clock + Window /\ cache[n] = Absent
      BY <1>2 DEF is_within_window, is_replay
    <2>4. c = rec \/ c = purge_expired(rec, clock)
      OBVIOUS
    <2> HIDE DEF rec, c
    <2>5. /\ c \in Caches
          /\ c[n] = clock + Window
          /\ \A m \in Nonces \ {n} :
               \/ c[m] = cache[m]
               \/ c[m] = Absent /\ cache[m] < clock
      BY <2>2, <2>4 DEF purge_expired, Caches, Absent
    <2> QED
      BY <2>1, <2>3, <2>5
  <1> QED
    BY <1>1, <1>2

\* The empty cache satisfies the invariant.
LEMMA InitGuardInv == Init => GuardInv
  BY DEF Init, GuardInv, TypeOK, FreshOnceUnlessAhead, EmptyCache, Caches, Absent

\* Every step keeps the types.
LEMMA StepTypeOK == TypeOK /\ [Next]_vars => TypeOK'
  <1> SUFFICES ASSUME TypeOK, [Next]_vars PROVE TypeOK'
    OBVIOUS
  <1>1. ASSUME NEW n \in Nonces, Make(n) PROVE TypeOK'
    BY <1>1, FutureSkewAssumption DEF Make, TypeOK
  <1>2. ASSUME NEW n \in Nonces, CheckAndRecord(n) PROVE TypeOK'
    <2> DEFINE r == check_and_record(nonces, timestamp[n], n, now)
    <2>1. timestamp[n] \in Nat /\ now \in Nat /\ nonces \in Caches
      BY <1>2 DEF CheckAndRecord, TypeOK
    <2>2. r.cache \in Caches
      BY <2>1, CheckEffect
    <2>3. /\ nonces' = r.cache
          /\ fresh' = [fresh EXCEPT ![n] = IF r.fresh THEN @ + 1 ELSE @]
          /\ ahead' = IF r.fresh /\ timestamp[n] > now THEN ahead \cup {n} ELSE ahead
          /\ UNCHANGED <<now, timestamp>>
      BY <1>2 DEF CheckAndRecord
    <2> HIDE DEF r
    <2> QED
      BY <2>2, <2>3 DEF TypeOK
  <1>3. CASE Purge
    BY <1>3 DEF Purge, purge_expired, TypeOK, Caches
  <1>4. CASE Tick
    BY <1>4 DEF Tick, TypeOK
  <1>5. CASE UNCHANGED vars
    BY <1>5 DEF vars, TypeOK
  <1> QED
    BY <1>1, <1>2, <1>3, <1>4, <1>5 DEF Next

\* What GuardInv says of one nonce.
Guarded(n) ==
    /\ fresh[n] <= IF n \in ahead THEN 2 ELSE 1
    /\ fresh[n] > 0 => timestamp[n] # Absent
    /\ n \in ahead => fresh[n] > 0
    /\ fresh[n] = 1 /\ n \in ahead => CachedUntil(n, timestamp[n])
    /\ fresh[n] = 1 /\ n \notin ahead => CachedUntil(n, timestamp[n] + Window)
    /\ fresh[n] = 2 => CachedUntil(n, timestamp[n] + Window)

LEMMA GuardInvParts == GuardInv <=> TypeOK /\ \A n \in Nonces : Guarded(n)
  BY DEF GuardInv, Guarded, FreshOnceUnlessAhead

\* A nonce about which nothing is decided stays guarded while the clock runs on and
\* expired entries are dropped: what is dropped the clock has passed.
LEMMA GuardedStays ==
  ASSUME TypeOK, TypeOK', NEW n \in Nonces, Guarded(n), now' >= now,
         fresh'[n] = fresh[n], n \in ahead' <=> n \in ahead,
         fresh[n] > 0 => timestamp'[n] = timestamp[n],
         nonces'[n] = nonces[n] \/ nonces[n] < now
  PROVE  Guarded(n)'
  <1>t. /\ now \in Nat /\ now' \in Nat /\ nonces[n] \in Int /\ nonces'[n] \in Int
        /\ timestamp[n] \in Int /\ fresh[n] \in Nat
    BY DEF TypeOK, Caches, Absent
  <1>1. ASSUME NEW t \in Int, CachedUntil(n, t) PROVE nonces'[n] >= t \/ t < now'
    BY <1>1, <1>t DEF CachedUntil
  <1>2. CASE fresh[n] = 0
    BY <1>2 DEF Guarded
  <1>3. CASE fresh[n] > 0
    <2>1. timestamp'[n] = timestamp[n] /\ timestamp[n] + Window \in Int
      BY <1>3, <1>t, WindowAssumption
    <2>2. CachedUntil(n, timestamp[n]) =>
             (nonces'[n] >= timestamp'[n] \/ timestamp'[n] < now')
      BY <1>1, <1>t, <2>1
    <2>3. CachedUntil(n, timestamp[n] + Window) =>
             (nonces'[n] >= timestamp'[n] + Window \/ timestamp'[n] + Window < now')
      BY <1>1, <2>1
    <2>4. /\ CachedUntil(n, timestamp[n]) => CachedUntil(n, timestamp[n])'
          /\ CachedUntil(n, timestamp[n] + Window) => CachedUntil(n, timestamp[n] + Window)'
      BY <2>2, <2>3 DEF CachedUntil
    <2> QED
      BY <1>3, <2>1, <2>4 DEF Guarded
  <1> QED
    BY <1>t, <1>2, <1>3

\* A nonce found fresh is guarded: found fresh for the first time, it is cached as
\* long as its message is admitted, or at least until the clock reaches its stamp;
\* for the second time, that stamp has passed; a third time there is none.
LEMMA FoundFresh ==
  ASSUME TypeOK, NEW n \in Nonces, Guarded(n), timestamp[n] # Absent,
         timestamp[n] >= now - Window, timestamp[n] <= now + Window, nonces[n] = Absent,
         nonces'[n] = now + Window, fresh'[n] = fresh[n] + 1, now' = now,
         timestamp'[n] = timestamp[n],
         n \in ahead' <=> (n \in ahead \/ timestamp[n] > now)
  PROVE  Guarded(n)'
  <1>t. /\ now \in Nat /\ timestamp[n] \in Nat /\ fresh[n] \in Nat /\ Window \in Nat
    BY WindowAssumption DEF TypeOK
  <1>1. fresh[n] <= 2 /\ (n \notin ahead => fresh[n] <= 1)
    BY <1>t DEF Guarded
  <1>2. fresh[n] # 2
    <2>1. ~ CachedUntil(n, timestamp[n] + Window)
      BY <1>t DEF CachedUntil, Absent
    <2> QED
      BY <2>1 DEF Guarded
  <1>3. CASE fresh[n] = 0
    <2>1. fresh'[n] = 1 /\ n \notin ahead
      BY <1>3, <1>t DEF Guarded
    <2>2. CachedUntil(n, timestamp[n])'
      BY <1>t DEF CachedUntil
    <2>3. timestamp[n] <= now => CachedUntil(n, timestamp[n] + Window)'
      BY <1>t DEF CachedUntil
    <2> QED
      BY <1>t, <2>1, <2>2, <2>3 DEF Guarded
  <1>4. CASE fresh[n] = 1
    <2>1. n \in ahead
      <3>1. ~ CachedUntil(n, timestamp[n] + Window)
        BY <1>t DEF CachedUntil, Absent
      <3> QED
        BY <1>4, <3>1 DEF Guarded
    <2>2. timestamp[n] < now
      BY <1>4, <1>t, <2>1 DEF Guarded, CachedUntil, Absent
    <2>3. CachedUntil(n, timestamp[n] + Window)'
      BY <1>t, <2>2 DEF CachedUntil
    <2> QED
      BY <1>4, <1>t, <2>1, <2>3 DEF Guarded
  <1> QED
    BY <1>1, <1>2, <1>3, <1>4, <1>t

\* Every step keeps the invariant, however far messages are stamped ahead.
LEMMA StepGuardInv == GuardInv /\ [Next]_vars => GuardInv'
  <1> SUFFICES ASSUME GuardInv, [Next]_vars PROVE \A m \in Nonces : Guarded(m)'
    BY StepTypeOK, GuardInvParts DEF GuardInv, Guarded, FreshOnceUnlessAhead
  <1>g. TypeOK /\ TypeOK' /\ \A m \in Nonces : Guarded(m)
    BY StepTypeOK, GuardInvParts
  <1> SUFFICES ASSUME NEW m \in Nonces PROVE Guarded(m)'
    OBVIOUS
  <1>t. now \in Nat /\ now >= now
    BY <1>g DEF TypeOK
  <1>1. ASSUME NEW n \in Nonces, Make(n) PROVE Guarded(m)'
    <2>1. fresh[m] > 0 => timestamp'[m] = timestamp[m]
      BY <1>1, <1>g DEF Make, TypeOK, Guarded
    <2> QED
      BY <1>1, <1>g, <1>t, <2>1, GuardedStays DEF Make
  <1>2. ASSUME NEW n \in Nonces, CheckAndRecord(n) PROVE Guarded(m)'
    <2> DEFINE r == check_and_record(nonces, timestamp[n], n, now)
    <2>1. timestamp[n] \in Nat /\ now \in Nat /\ nonces \in Caches /\ timestamp[n] # Absent
      BY <1>2, <1>g DEF CheckAndRecord, TypeOK
    <2>2. /\ nonces' = r.cache
          /\ fresh' = [fresh EXCEPT ![n] = IF r.fresh THEN @ + 1 ELSE @]
          /\ ahead' = IF r.fresh /\ timestamp[n] > now THEN ahead \cup {n} ELSE ahead
          /\ UNCHANGED <<now, timestamp>>
      BY <1>2 DEF CheckAndRecord
    <2>3. /\ r.fresh \in BOOLEAN
          /\ r.fresh => /\ timestamp[n] >= now - Window /\ timestamp[n] <= now + Window
                        /\ nonces[n] = Absent
                        /\ r.cache[n] = now + Window
          /\ ~ r.fresh => r.cache = nonces
          /\ \A q \in Nonces \ {n} :
               \/ r.cache[q] = nonces[q]
               \/ r.cache[q] = Absent /\ nonces[q] < now
      BY <2>1, CheckEffect
    <2> HIDE DEF r
    <2>4. CASE m = n /\ r.fresh
      <3>1. fresh'[n] = fresh[n] + 1
        BY <1>g, <2>2, <2>4 DEF TypeOK
      <3> QED
        BY <1>g, <2>1, <2>2, <2>3, <2>4, <3>1, FoundFresh
    <2>5. CASE m # n \/ ~ r.fresh
      <3>1. fresh'[m] = fresh[m] /\ (m \in ahead' <=> m \in ahead)
        BY <1>g, <2>2, <2>5 DEF TypeOK
      <3>2. nonces'[m] = nonces[m] \/ nonces[m] < now
        BY <2>2, <2>3, <2>5
      <3> QED
        BY <1>g, <1>t, <2>2, <3>1, <3>2, GuardedStays
    <2> QED
      BY <2>3, <2>4, <2>5
  <1>3. CASE Purge
    <2>1. nonces'[m] = nonces[m] \/ nonces[m] < now
      BY <1>3 DEF Purge, purge_expired
    <2> QED
      BY <1>3, <1>g, <1>t, <2>1, GuardedStays DEF Purge
  <1>4. CASE Tick
    <2>1. now' >= now
      BY <1>4, <1>t DEF Tick
    <2> QED
      BY <1>4, <1>g, <2>1, GuardedStays DEF Tick
  <1>5. CASE UNCHANGED vars
    BY <1>5, <1>g, <1>t, GuardedStays DEF vars
  <1> QED
    BY <1>1, <1>2, <1>3, <1>4, <1>5 DEF Next

\* check_and_record finds a message fresh once if its stamp was not ahead of the
\* clock, and twice at most otherwise, whatever the window, the limit and the skew
\* and however often the cache is purged.
THEOREM FreshOnceUnlessAheadHolds == Spec => [](TypeOK /\ FreshOnceUnlessAhead)
  <1>1. GuardInv => TypeOK /\ FreshOnceUnlessAhead
    BY DEF GuardInv
  <1> QED
    BY <1>1, InitGuardInv, StepGuardInv, PTL DEF Spec

-----------------------------------------------------------------------------
(* The purge, whatever the clocks do                                         *)

\* After a check that leaves the cache over the limit, what is cached has not
\* expired: the limit was passed by recording, so the purge ran.
LEMMA CheckPurges ==
  ASSUME NEW cache \in Caches, NEW t \in Nat, NEW n \in Nonces, NEW clock \in Nat,
         NEW r, r = check_and_record(cache, t, n, clock), r.fresh,
         Cardinality(Cached(r.cache)) > Limit
  PROVE  \A m \in Cached(r.cache) : r.cache[m] >= clock
  <1> DEFINE rec == record_nonce(cache, n, clock)
  <1>1. ~ (~ is_within_window(t, clock) \/ is_replay(cache, n))
    BY DEF check_and_record
  <1>2. r.cache = IF Cardinality(Cached(rec)) > Limit THEN purge_expired(rec, clock) ELSE rec
    BY <1>1 DEF check_and_record
  <1>3. rec \in Caches
    BY WindowAssumption DEF record_nonce, Caches
  <1> HIDE DEF rec
  <1>4. r.cache = purge_expired(rec, clock)
    BY <1>2
  <1>5. \A m \in Nonces : r.cache[m] = IF rec[m] < clock THEN Absent ELSE rec[m]
    BY <1>4 DEF purge_expired
  <1> QED
    BY <1>3, <1>5 DEF Cached, Caches, Absent

\* A successful check that leaves the cache over its limit leaves no expired
\* nonce in it (replay_guard.py:56-57), for every window, limit and skew.
THEOREM NothingExpiredAtLimit == Spec => PurgedAtLimit
  <1> DEFINE Purged ==
        \A n \in Nonces :
          (fresh'[n] > fresh[n] /\ Cardinality(Cached(nonces')) > Limit) =>
              \A m \in Cached(nonces') : nonces'[m] >= now
  <1>1. Init => TypeOK
    BY DEF Init, TypeOK, EmptyCache, Caches
  <1>2. ASSUME TypeOK, [Next]_vars PROVE [Purged]_vars
    <2> SUFFICES ASSUME NEW k \in Nonces, fresh'[k] > fresh[k],
                        Cardinality(Cached(nonces')) > Limit
                 PROVE  \A m \in Cached(nonces') : nonces'[m] >= now
      OBVIOUS
    <2>0. fresh[k] \in Nat
      BY <1>2 DEF TypeOK
    <2>1. ASSUME NEW n \in Nonces, CheckAndRecord(n)
          PROVE  \A m \in Cached(nonces') : nonces'[m] >= now
      <3> DEFINE r == check_and_record(nonces, timestamp[n], n, now)
      <3>1. timestamp[n] \in Nat /\ now \in Nat /\ nonces \in Caches
        BY <1>2, <2>1 DEF CheckAndRecord, TypeOK
      <3>2. /\ nonces' = r.cache
            /\ fresh' = [fresh EXCEPT ![n] = IF r.fresh THEN @ + 1 ELSE @]
        BY <2>1 DEF CheckAndRecord
      <3>3. r.fresh
        BY <1>2, <2>0, <3>2 DEF TypeOK
      <3> QED
        BY <3>1, <3>2, <3>3, CheckPurges
    <2>2. fresh' # fresh
      BY <2>0
    <2> QED
      BY <1>2, <2>1, <2>2 DEF Next, vars, Make, Purge, Tick
  <1>3. TypeOK /\ [Next]_vars => [Purged]_vars
    BY <1>2
  <1> QED
    BY <1>1, <1>3, StepTypeOK, PTL DEF Spec, PurgedAtLimit

=============================================================================
