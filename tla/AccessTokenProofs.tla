-------------------------- MODULE AccessTokenProofs --------------------------
(***************************************************************************)
(* Proofs about AccessToken: the token presented to DingTalk is valid, and *)
(* at most one fetch runs, for any number of callers and any times that    *)
(* satisfy TokenTimesAssumption.                                           *)
(***************************************************************************)
EXTENDS AccessToken, TLAPS

Fetching == {"fetching", "issued"}

\* The lock is held by the one caller that fetches.
LockInv == \A c \in Callers : pc[c] \in Fetching <=> token_lock = c

\* A token is named and an answer is handled within MaxLatency of its issue.
AnswerInv ==
    \A c \in Callers :
        pc[c] = "issued" =>
            /\ answer[c] \in Nat
            /\ answer[c] <= now /\ now <= answer[c] + MaxLatency

\* The code's expiry lies at most MaxLatency after DingTalk's.
CacheInv ==
    access_token # None =>
        /\ access_token \in Nat
        /\ token_expires_at <= access_token + Lifetime + MaxLatency

\* Whoever holds a token got it early enough to wait for the executor.
HeldInv ==
    \A c \in Callers :
        pc[c] = "have" =>
            /\ held[c] \in Nat
            /\ since[c] <= now /\ now <= since[c] + MaxDelay
            /\ since[c] + MaxDelay < held[c] + Lifetime

TokenInv == TypeOK /\ LockInv /\ AnswerInv /\ CacheInv /\ HeldInv

-----------------------------------------------------------------------------

\* A token found Fresh in the cache lasts through the wait for the executor.
LEMMA FreshLasts ==
    ASSUME TypeOK, CacheInv, Fresh
    PROVE  access_token \in Nat /\ now + MaxDelay < access_token + Lifetime
BY TokenTimesAssumption DEF TypeOK, CacheInv, Fresh, Tokens

\* The initial state satisfies the invariant.
LEMMA TokenInvInit == Init => TokenInv
BY TokenTimesAssumption, TokenNoneAssumption
DEF Init, TokenInv, TypeOK, LockInv, AnswerInv, CacheInv, HeldInv, Tokens, Fetching

\* Handing a token out early enough keeps the invariant's part on held tokens.
LEMMA ReturnsKeepsHeld ==
    ASSUME TypeOK, HeldInv, NEW c \in Callers, NEW t \in Nat,
           now + MaxDelay < t + Lifetime, Returns(c, t), now' = now
    PROVE  HeldInv'
BY TokenTimesAssumption DEF TypeOK, HeldInv, Returns

\* Every step keeps the invariant.
LEMMA TokenInvStep == TokenInv /\ [Next]_vars => TokenInv'
<1> SUFFICES ASSUME TokenInv, [Next]_vars PROVE TokenInv'
  OBVIOUS
<1> USE TokenTimesAssumption, TokenNoneAssumption
<1>1. CASE UNCHANGED vars
  BY <1>1 DEF vars, cache, local, TokenInv, TypeOK, LockInv, AnswerInv, CacheInv, HeldInv
<1>2. CASE Tick
  BY <1>2 DEF Tick, cache, local, TokenInv, TypeOK, LockInv, AnswerInv, CacheInv, HeldInv, Tokens
<1>3. ASSUME NEW c \in Callers, CallerStep(c) PROVE TokenInv'
  <2>1. CASE CacheHit(c)
    <3>1. access_token \in Nat /\ now + MaxDelay < access_token + Lifetime
      BY <2>1, FreshLasts DEF CacheHit, TokenInv
    <3>2. HeldInv'
      BY <2>1, <3>1, ReturnsKeepsHeld DEF CacheHit, TokenInv
    <3>3. TypeOK' /\ LockInv' /\ AnswerInv' /\ CacheInv'
      BY <2>1, <3>1
      DEF CacheHit, Returns, cache, TokenInv, TypeOK, LockInv, AnswerInv, CacheInv, Tokens, Fetching
    <3>. QED BY <3>2, <3>3 DEF TokenInv
  <2>2. CASE CacheMiss(c)
    BY <2>2 DEF CacheMiss, cache, local, TokenInv, TypeOK, LockInv, AnswerInv, CacheInv,
                HeldInv, Tokens, Fetching
  <2>3. CASE Locked(c)
    <3>1. CASE Fresh /\ Returns(c, access_token) /\ UNCHANGED <<token_lock, answer>>
      <4>1. access_token \in Nat /\ now + MaxDelay < access_token + Lifetime
        BY <3>1, FreshLasts DEF TokenInv
      <4>2. HeldInv'
        BY <2>3, <3>1, <4>1, ReturnsKeepsHeld DEF Locked, TokenInv
      <4>3. TypeOK' /\ LockInv' /\ AnswerInv' /\ CacheInv'
        BY <2>3, <3>1, <4>1
        DEF Locked, Returns, cache, TokenInv, TypeOK, LockInv, AnswerInv, CacheInv, Tokens, Fetching
      <4>. QED BY <4>2, <4>3 DEF TokenInv
    <3>2. CASE ~ Fresh /\ token_lock' = c /\ pc' = [pc EXCEPT ![c] = "fetching"]
               /\ UNCHANGED local
      BY <2>3, <3>2
      DEF Locked, cache, local, TokenInv, TypeOK, LockInv, AnswerInv, CacheInv, HeldInv,
          Tokens, Fetching
    <3>. QED BY <2>3, <3>1, <3>2 DEF Locked
  <2>4. CASE TokenIssued(c)
    BY <2>4 DEF TokenIssued, cache, local, TokenInv, TypeOK, LockInv, AnswerInv, CacheInv,
                HeldInv, Tokens, Fetching
  <2>5. CASE Fetched(c)
    <3>1. answer[c] \in Nat /\ now + MaxDelay < answer[c] + Lifetime
      BY <2>5 DEF Fetched, TokenInv, TypeOK, AnswerInv
    <3>2. HeldInv'
      BY <2>5, <3>1, ReturnsKeepsHeld DEF Fetched, TokenInv
    <3>3. CacheInv'
      BY <2>5, <3>1 DEF Fetched, TokenInv, TypeOK, AnswerInv, CacheInv
    <3>4. TypeOK' /\ LockInv' /\ AnswerInv'
      BY <2>5, <3>1
      DEF Fetched, Returns, TokenInv, TypeOK, LockInv, AnswerInv, Tokens, Fetching
    <3>. QED BY <3>2, <3>3, <3>4 DEF TokenInv
  <2>6. CASE FetchFails(c)
    BY <2>6 DEF FetchFails, cache, local, TokenInv, TypeOK, LockInv, AnswerInv, CacheInv,
                HeldInv, Tokens, Fetching
  <2>7. CASE Use(c)
    BY <2>7 DEF Use, cache, local, TokenInv, TypeOK, LockInv, AnswerInv, CacheInv,
                HeldInv, Tokens, Fetching
  <2>. QED BY <1>3, <2>1, <2>2, <2>3, <2>4, <2>5, <2>6, <2>7 DEF CallerStep
<1>. QED BY <1>1, <1>2, <1>3 DEF Next

\* Every reachable state satisfies the invariant.
LEMMA TokenInvariant == Spec => []TokenInv
BY TokenInvInit, TokenInvStep, PTL DEF Spec

\* Whatever the number of concurrent requests and the instants at which fetches
\* answer or fail, no request presents an expired token to DingTalk, as long as
\* latency and executor delay together stay within the refresh margin and below
\* the token's lifetime (dingtalk.py:73, 78, 84).  The state stays well typed.
THEOREM TokensAreValidWhenUsed == Spec => [](TypeOK /\ UsedWhileValid)
<1>1. TokenInv => TypeOK /\ UsedWhileValid
  BY TokenTimesAssumption DEF TokenInv, TypeOK, HeldInv, UsedWhileValid
<1>. QED BY <1>1, TokenInvariant, PTL

\* The double-checked lock admits one fetch at a time, and only when the cached
\* token is stale (dingtalk.py:76-82).
THEOREM OneFetchPerExpiry == Spec => FetchesOnce
<1>1. TokenInv /\ [Next]_vars =>
        [\A c \in Callers :
            pc[c] # "fetching" /\ pc'[c] = "fetching" =>
                /\ ~ (access_token # None /\ now < token_expires_at - Margin)
                /\ \A d \in Callers : pc[d] \notin {"fetching", "issued"}]_vars
  <2> SUFFICES ASSUME TokenInv, [Next]_vars, NEW c \in Callers,
                      pc[c] # "fetching", pc'[c] = "fetching"
               PROVE  /\ ~ (access_token # None /\ now < token_expires_at - Margin)
                      /\ \A d \in Callers : pc[d] \notin {"fetching", "issued"}
    OBVIOUS
  <2>1. Locked(c) /\ ~ Fresh
    BY DEF Next, vars, Tick, CallerStep, CacheHit, CacheMiss, Locked, TokenIssued, Fetched,
           FetchFails, Use, Returns, TokenInv, TypeOK
  <2>2. token_lock \notin Callers
    BY <2>1, TokenNoneAssumption DEF Locked
  <2>. QED BY <2>1, <2>2 DEF Fresh, TokenInv, LockInv, Fetching
<1>. QED BY <1>1, TokenInvariant, PTL DEF Spec, FetchesOnce

=============================================================================
