-------------------------- MODULE RedisLock_proofs --------------------------
(***************************************************************************)
(* Proofs about the distributed lock for any number of tokens, processes,  *)
(* timeouts, faults and any capacity of the stop channel.                  *)
(***************************************************************************)
EXTENDS RedisLock, TLAPS

\* a token in the stop channel of its process
InStops(t) == \E p \in Process : \E i \in 1..Len(stops[p]) : stops[p][i] = t

\* before startAutoRenew there is no renewal
FreshOf(t) ==
  /\ stage[t] \in {"unused", "failed", "won"} => renew[t] = "none"
  /\ renew[t] = "none" => stage[t] \in {"unused", "failed", "won", "crashed"}
  /\ renew[t] = "none" => closes[t] = 0 /\ missed[t] = 0 /\ ~InStops(t) /\ \A p \in Process : activeLocks[p] # t

\* a registered renewal is open
Open == \A p \in Process : activeLocks[p] # NoToken => closes[activeLocks[p]] = 0

\* once a token has a stop request under way, or is released, it never is the
\* key's again
GoneOf(t) ==
  \/ redisKey # t
  \/ /\ stage[t] \notin {"unused", "stopping", "released"}
     /\ renew[t] # "stopping" /\ ~InStops(t)
     /\ t \in crossed \/ closes[t] = 0

\* an uncrossed renewal ends only when the key is lost or the process crashed
RunningOf(t) == t \notin crossed /\ stage[t] = "held" /\ redisKey = t => renew[t] = "ticking"

\* the ticker runs for an interval that fits the timeout three times, and one
\* renewal at most was missed
TickerOf(t) ==
  /\ t \notin frail => missed[t] <= 1
  /\ stage[t] = "won" => timeout[t] >= 3
  /\ renew[t] # "none" => timeout[t] >= 3 /\ due[t] <= Interval(timeout[t])

\* the lease of a prompt holder: what is left of it exceeds the time to the
\* next renewal by two intervals, or by one after a missed renewal
LeftOf(t) ==
  /\ stage[t] = "won" => ttl = timeout[t]
  /\ stage[t] = "held" => /\ missed[t] = 0 => ttl - due[t] >= timeout[t] - Interval(timeout[t])
                          /\ ttl - due[t] >= timeout[t] - 2 * Interval(timeout[t])

LeaseOf(t) == prompt /\ t \notin frail \cup crossed /\ redisKey = t => LeftOf(t)

Fresh   == \A t \in Token : FreshOf(t)
Gone    == \A t \in Token : GoneOf(t)
Running == \A t \in Token : RunningOf(t)
Ticker  == \A t \in Token : TickerOf(t)
Lease   == \A t \in Token : LeaseOf(t)

IInv == TypeOK /\ Fresh /\ Open /\ ClosedOnce /\ Gone /\ HolderKeepsKey /\ Running /\ Ticker /\ Lease /\ LeaseKept

\* A third of a timeout, and the interval between renewals that it bounds.
LEMMA IntervalFacts ==
  ASSUME NEW n \in Nat, n >= 3
  PROVE  Interval(n) \in Nat /\ Interval(n) >= 1 /\ 3 * Interval(n) <= n
<1>1. n \div 3 \in Nat /\ n \div 3 >= 1 /\ 3 * (n \div 3) <= n
  OBVIOUS
<1>2. DefaultTimeout \div 3 \in Int
  BY LockAssumption
<1>3. Configured \in Int
  BY Zenon, <1>2, LockAssumption DEF Configured
<1> QED
  BY <1>1, <1>3 DEF Interval

\* An effective timeout is at least three ticks.
LEMMA EffectiveFacts ==
  ASSUME NEW d \in Timeouts
  PROVE  Effective(d) \in Nat /\ Effective(d) >= 3
BY LockAssumption DEF Effective

\* One more fault stays within the bound.
LEMMA FaultFacts ==
  ASSUME TypeOK, Fault
  PROVE  faults' \in 0..MaxFaults
BY LockAssumption DEF Fault, TypeOK

\* The ticker is set to a number of ticks.
LEMMA NextTickFacts ==
  ASSUME TypeOK, NEW t \in Token, timeout[t] >= 3, NextTick(t)
  PROVE  due' \in [Token -> Nat]
<1>1. Interval(timeout[t]) \in Nat
  BY Zenon, IntervalFacts DEF TypeOK
<1> QED
  BY Zenon, <1>1 DEF NextTick, TypeOK

\* A stop request goes to the end of the channel.
LEMMA SendFacts ==
  ASSUME TypeOK, NEW t \in Token, SendStop(t)
  PROVE  /\ stops' \in [Process -> Seq(Token)]
         /\ \A p \in Process : Len(stops'[p]) <= StopCapacity
         /\ \A u \in Token : InStops(u)' => InStops(u) \/ u = t
<1>1. Owner[t] \in Process /\ stops[Owner[t]] \in Seq(Token)
  BY Zenon, LockAssumption DEF TypeOK
<1> DEFINE q == Owner[t]
           s == Append(stops[q], t)
<1>2. /\ s \in Seq(Token) /\ Len(s) = Len(stops[q]) + 1
      /\ \A i \in 1..Len(stops[q]) : s[i] = stops[q][i]
      /\ s[Len(stops[q]) + 1] = t
  BY <1>1
<1>3. Len(s) <= StopCapacity
  BY <1>1, <1>2, LockAssumption DEF SendStop, CanSend
<1>4. stops' = [stops EXCEPT ![q] = s]
  BY Zenon DEF SendStop
<1> HIDE DEF s
<1>5. \A p \in Process : stops'[p] = IF p = q THEN s ELSE stops[p]
  BY Zenon, <1>4, <1>1 DEF TypeOK
<1>6. stops' \in [Process -> Seq(Token)]
  BY Zenon, <1>4, <1>2, <1>1 DEF TypeOK
<1>7. \A p \in Process : Len(stops'[p]) <= StopCapacity
  BY Zenon, <1>3, <1>5 DEF TypeOK
<1>8. ASSUME NEW u \in Token, NEW p \in Process, NEW i \in 1..Len(stops'[p]), stops'[p][i] = u, u # t
      PROVE  InStops(u)
  <2>1. CASE p # q
    BY Zenon, <2>1, <1>5, <1>8 DEF InStops
  <2>2. CASE p = q
    <3>1. i \in 1..Len(s) /\ s[i] = u
      BY Zenon, <2>2, <1>5, <1>8
    <3>2. Len(stops[q]) \in Nat
      BY <1>1
    <3>3. i \in 1..Len(stops[q]) /\ stops[q][i] = u
      BY <3>1, <3>2, <1>2, <1>8
    <3> QED
      BY Zenon, <3>3, <1>1 DEF InStops
  <2> QED
    BY Zenon, <2>1, <2>2
<1> QED
  BY Zenon, <1>6, <1>7, <1>8 DEF InStops

\* Taking the first stop request leaves the others.
LEMMA TakeFacts ==
  ASSUME TypeOK, NEW p \in Process, stops[p] # <<>>, stops' = [stops EXCEPT ![p] = Tail(@)]
  PROVE  /\ stops' \in [Process -> Seq(Token)]
         /\ \A q \in Process : Len(stops'[q]) <= StopCapacity
         /\ \A u \in Token : InStops(u)' => InStops(u)
         /\ Head(stops[p]) \in Token /\ InStops(Head(stops[p]))
<1>1. stops[p] \in Seq(Token)
  BY Zenon DEF TypeOK
<1> DEFINE s == Tail(stops[p])
<1>2. /\ s \in Seq(Token) /\ Len(stops[p]) \in Nat \ {0} /\ Len(s) = Len(stops[p]) - 1
      /\ \A i \in 1..Len(s) : s[i] = stops[p][i + 1]
      /\ Head(stops[p]) = stops[p][1] /\ stops[p][1] \in Token
  BY <1>1
<1>3. stops' = [stops EXCEPT ![p] = s]
  BY Zenon
<1> HIDE DEF s
<1>4. \A q \in Process : stops'[q] = IF q = p THEN s ELSE stops[q]
  BY Zenon, <1>3 DEF TypeOK
<1>5. stops' \in [Process -> Seq(Token)]
  BY Zenon, <1>3, <1>2 DEF TypeOK
<1>6. \A q \in Process : Len(stops'[q]) <= StopCapacity
  <2>1. Len(stops[p]) <= StopCapacity
    BY Zenon DEF TypeOK
  <2>2. Len(s) <= StopCapacity
    BY <2>1, <1>2, LockAssumption
  <2> QED
    BY Zenon, <2>2, <1>4 DEF TypeOK
<1>7. ASSUME NEW u \in Token, NEW q \in Process, NEW i \in 1..Len(stops'[q]), stops'[q][i] = u
      PROVE  InStops(u)
  <2>1. CASE q # p
    BY Zenon, <2>1, <1>4, <1>7 DEF InStops
  <2>2. CASE q = p
    <3>1. i \in 1..Len(s) /\ s[i] = u
      BY Zenon, <2>2, <1>4, <1>7
    <3>2. i + 1 \in 1..Len(stops[p]) /\ stops[p][i + 1] = u
      BY <3>1, <1>2
    <3> QED
      BY Zenon, <3>2 DEF InStops
  <2> QED
    BY Zenon, <2>1, <2>2
<1>8. InStops(Head(stops[p]))
  <2>1. 1 \in 1..Len(stops[p])
    BY <1>2
  <2> QED
    BY Zenon, <2>1, <1>2 DEF InStops
<1> QED
  BY Zenon, <1>2, <1>5, <1>6, <1>7, <1>8 DEF InStops

\* Emptying a stop channel leaves the others.
LEMMA ClearFacts ==
  ASSUME TypeOK, NEW p \in Process, stops' = [stops EXCEPT ![p] = <<>>]
  PROVE  \A u \in Token : InStops(u)' => InStops(u)
<1>1. \A q \in Process : stops'[q] = IF q = p THEN <<>> ELSE stops[q]
  BY Zenon DEF TypeOK
<1>2. ASSUME NEW u \in Token, NEW q \in Process, NEW i \in 1..Len(stops'[q]), stops'[q][i] = u
      PROVE  InStops(u)
  <2>1. q # p
    BY <1>1, <1>2
  <2> QED
    BY Zenon, <1>1, <1>2, <2>1 DEF InStops
<1> QED
  BY Zenon, <1>2 DEF InStops

\* Every step keeps the types.
LEMMA TypeStep ==
  ASSUME TypeOK, Ticker, [Next]_vars
  PROVE  TypeOK'
<1> USE LockAssumption
<1>1. ASSUME NEW t \in Token, NEW d \in Timeouts, TryAcquire(t, d) PROVE TypeOK'
  BY Zenon, <1>1, EffectiveFacts DEF TryAcquire, TypeOK
<1>2. ASSUME NEW t \in Token, NEW d \in Timeouts, TryAcquireError(t, d) PROVE TypeOK'
  <2>1. faults' \in 0..MaxFaults
    BY Zenon, <1>2, FaultFacts DEF TryAcquireError
  <2> QED
    BY Zenon, <1>2, <2>1, EffectiveFacts DEF TryAcquireError, TypeOK
<1>3. ASSUME NEW t \in Token, NEW d \in Timeouts, Refresh(t, d) PROVE TypeOK'
  BY Zenon, <1>3, EffectiveFacts DEF Refresh, TypeOK, StillHeld
<1>4. ASSUME NEW t \in Token, StartAutoRenew(t) PROVE TypeOK'
  <2>1. timeout[t] >= 3 /\ timeout[t] \in Nat
    BY Zenon, <1>4 DEF Ticker, TickerOf, TypeOK, StartAutoRenew
  <2>2. due' \in [Token -> Nat]
    BY Zenon, <1>4, <2>1, NextTickFacts DEF StartAutoRenew
  <2>3. Owner[t] \in Process
    BY Zenon
  <2> QED
    BY Zenon, <1>4, <2>2, <2>3 DEF StartAutoRenew, TypeOK
<1>5. ASSUME NEW t \in Token, Release(t) PROVE TypeOK'
  BY Zenon, <1>5, EffectiveFacts DEF Release, Matches, TypeOK
<1>6. ASSUME NEW t \in Token, ReleaseError(t) PROVE TypeOK'
  BY <1>6, EffectiveFacts DEF ReleaseError, Matches, Fault, TypeOK
<1>7. ASSUME NEW t \in Token, ReleaseStop(t) PROVE TypeOK'
  BY Zenon, <1>7, SendFacts DEF ReleaseStop, TypeOK
<1>8. ASSUME NEW t \in Token, Renew(t) PROVE TypeOK'
  <2>1. timeout[t] >= 3 /\ timeout[t] \in Nat
    BY Zenon, <1>8 DEF Ticker, TickerOf, TypeOK, Renew, StillHeld, AfterLost
  <2>2. due' \in [Token -> Nat]
    BY Zenon, <1>8, <2>1, NextTickFacts DEF Renew, TypeOK, StillHeld, AfterLost
  <2>3. ttl' \in Nat /\ missed' \in [Token -> Nat]
    <3>1. CASE redisKey = t
      <4>1. ttl' = timeout[t] /\ missed' = [missed EXCEPT ![t] = 0]
        BY Zenon, <1>8, <3>1 DEF Renew, StillHeld, AfterLost
      <4> QED
        BY Zenon, <2>1, <4>1 DEF TypeOK
    <3>2. CASE redisKey # t
      BY Zenon, <1>8, <3>2 DEF Renew, TypeOK, StillHeld, AfterLost
    <3> QED
      BY Zenon, <3>1, <3>2
  <2>4. renew' \in [Token -> {"none", "ticking", "stopping", "ended"}]
    BY Zenon, <1>8 DEF Renew, TypeOK, StillHeld, AfterLost
  <2>5. UNCHANGED <<redisKey, stage, timeout, activeLocks, closes, stops, faults, prompt, expired, frail, crossed>>
    BY Zenon, <1>8 DEF Renew, StillHeld, AfterLost
  <2> QED
    BY Zenon, <2>2, <2>3, <2>4, <2>5 DEF TypeOK
<1>9. ASSUME NEW t \in Token, RenewError(t) PROVE TypeOK'
  <2>1. timeout[t] >= 3 /\ timeout[t] \in Nat
    BY Zenon, <1>9 DEF Ticker, TickerOf, TypeOK, RenewError, StillHeld
  <2>2. due' \in [Token -> Nat]
    BY Zenon, <1>9, <2>1, NextTickFacts DEF RenewError, StillHeld
  <2>3. faults' \in 0..MaxFaults
    BY Zenon, <1>9, FaultFacts DEF RenewError, StillHeld
  <2>4. ttl' \in Nat
    BY Zenon, <1>9, <2>1 DEF RenewError, TypeOK, StillHeld
  <2>5. missed' \in [Token -> Nat]
    BY <1>9 DEF RenewError, TypeOK, StillHeld
  <2>6. frail' \subseteq Token
    BY Zenon, <1>9 DEF RenewError, TypeOK, StillHeld
  <2>7. UNCHANGED <<redisKey, stage, timeout, renew, activeLocks, closes, stops, prompt, expired, crossed>>
    BY Zenon, <1>9 DEF RenewError, AfterError, StillHeld
  <2> QED
    BY Zenon, <2>2, <2>3, <2>4, <2>5, <2>6, <2>7 DEF TypeOK
<1>10. ASSUME NEW t \in Token, RenewStop(t) PROVE TypeOK'
  BY Zenon, <1>10, SendFacts DEF RenewStop, TypeOK
<1>11. ASSUME NEW t \in Token, RenewClosed(t) PROVE TypeOK'
  BY Zenon, <1>11, EffectiveFacts DEF RenewClosed, TypeOK
<1>12. ASSUME NEW p \in Process, HandleStop(p) PROVE TypeOK'
  <2>1. stops' \in [Process -> Seq(Token)] /\ \A q \in Process : Len(stops'[q]) <= StopCapacity
    BY Zenon, <1>12, TakeFacts DEF HandleStop
  <2>2. closes' \in [Token -> Nat]
    <3>1. CASE activeLocks[p] # NoToken
      <4>1. activeLocks[p] \in Token
        BY Zenon, <3>1 DEF TypeOK
      <4>2. closes' = [closes EXCEPT ![activeLocks[p]] = @ + 1]
        BY Zenon, <1>12, <3>1 DEF HandleStop
      <4>3. closes \in [Token -> Nat]
        BY Zenon DEF TypeOK
      <4> QED
        BY <4>1, <4>2, <4>3
    <3>2. CASE activeLocks[p] = NoToken
      BY Zenon, <1>12, <3>2 DEF HandleStop, TypeOK
    <3> QED
      BY Zenon, <3>1, <3>2
  <2>3. activeLocks' \in [Process -> Token \cup {NoToken}]
    <3>1. activeLocks \in [Process -> Token \cup {NoToken}]
      BY Zenon DEF TypeOK
    <3>2. activeLocks' = [activeLocks EXCEPT ![p] = NoToken] \/ activeLocks' = activeLocks
      BY Zenon, <1>12 DEF HandleStop, Forget
    <3> QED
      BY Zenon, <3>1, <3>2
  <2>4. \A q \in Process : activeLocks'[q] # NoToken => Owner[activeLocks'[q]] = q
    BY Zenon, <1>12 DEF HandleStop, Forget, TypeOK
  <2>5. crossed' \subseteq Token
    BY <1>12 DEF HandleStop, TypeOK
  <2>6. UNCHANGED <<redisKey, ttl, stage, timeout, renew, due, faults, prompt, missed, expired, frail>>
    BY Zenon, <1>12 DEF HandleStop
  <2> QED
    BY Zenon, <2>1, <2>2, <2>3, <2>4, <2>5, <2>6 DEF TypeOK
<1>13. ASSUME NEW p \in Process, Crash(p) PROVE TypeOK'
  <2>1. faults' \in 0..MaxFaults
    BY Zenon, <1>13, FaultFacts DEF Crash
  <2>2. stops' \in [Process -> Seq(Token)] /\ \A q \in Process : Len(stops'[q]) <= StopCapacity
    BY <1>13 DEF Crash, TypeOK
  <2> QED
    BY Zenon, <1>13, <2>1, <2>2 DEF Crash, Forget, TypeOK
<1>14. CASE Tick
  <2>1. due' \in [Token -> Nat]
    BY <1>14 DEF Tick, TypeOK
  <2>2. ttl' \in Nat
    BY <1>14 DEF Tick, TypeOK
  <2> QED
    BY Zenon, <1>14, <2>1, <2>2 DEF Tick, TypeOK
<1>15. CASE UNCHANGED vars
  BY Zenon, <1>15 DEF vars, TypeOK
<1> QED
  BY Zenon, <1>1, <1>2, <1>3, <1>4, <1>5, <1>6, <1>7, <1>8, <1>9, <1>10, <1>11, <1>12, <1>13, <1>14, <1>15 DEF Next, Renewal

\* Every step keeps what holds before startAutoRenew.
LEMMA FreshStep ==
  ASSUME IInv, TypeOK', [Next]_vars
  PROVE  Fresh'
<1> SUFFICES ASSUME NEW u \in Token PROVE FreshOf(u)'
  BY Zenon DEF Fresh
<1>a. TypeOK /\ FreshOf(u)
  BY Zenon DEF IInv, Fresh
<1>b. /\ stage \in [Token -> {"unused", "failed", "won", "held", "kept", "stopping", "released", "crashed"}]
      /\ renew \in [Token -> {"none", "ticking", "stopping", "ended"}]
      /\ closes \in [Token -> Nat] /\ missed \in [Token -> Nat]
      /\ activeLocks \in [Process -> Token \cup {NoToken}]
  BY Zenon, <1>a DEF TypeOK
<1>1. ASSUME NEW t \in Token, NEW d \in Timeouts, TryAcquire(t, d) PROVE FreshOf(u)'
  <2>1. stage[t] = "unused" /\ stage' = [stage EXCEPT ![t] = "won"]
    BY Zenon, <1>1 DEF TryAcquire
  <2>2. UNCHANGED <<renew, closes, missed, stops, activeLocks>>
    BY Zenon, <1>1 DEF TryAcquire
  <2>3. InStops(u)' = InStops(u)
    BY Zenon, <2>2 DEF InStops
  <2> QED
    BY Zenon, <1>a, <1>b, <2>1, <2>2, <2>3 DEF FreshOf
<1>2. ASSUME NEW t \in Token, NEW d \in Timeouts, TryAcquireError(t, d) PROVE FreshOf(u)'
  <2>1. stage[t] = "unused" /\ stage' = [stage EXCEPT ![t] = "failed"]
    BY Zenon, <1>2 DEF TryAcquireError
  <2>2. UNCHANGED <<renew, closes, missed, stops, activeLocks>>
    BY Zenon, <1>2 DEF TryAcquireError
  <2>3. InStops(u)' = InStops(u)
    BY Zenon, <2>2 DEF InStops
  <2> QED
    BY Zenon, <1>a, <1>b, <2>1, <2>2, <2>3 DEF FreshOf
<1>3. ASSUME NEW t \in Token, StartAutoRenew(t) PROVE FreshOf(u)'
  <2>1. /\ stage' = [stage EXCEPT ![t] = "held"] /\ renew' = [renew EXCEPT ![t] = "ticking"]
        /\ activeLocks' = [activeLocks EXCEPT ![Owner[t]] = t]
    BY Zenon, <1>3 DEF StartAutoRenew
  <2>2. UNCHANGED <<closes, missed, stops>>
    BY Zenon, <1>3 DEF StartAutoRenew
  <2>3. InStops(u)' = InStops(u)
    BY Zenon, <2>2 DEF InStops
  <2> QED
    BY Zenon, <1>a, <1>b, <2>1, <2>2, <2>3 DEF FreshOf
<1>4. ASSUME NEW t \in Token, Release(t) PROVE FreshOf(u)'
  <2>1. stage[t] \in {"held", "kept"} /\ \E v \in {"stopping", "released", "kept"} : stage' = [stage EXCEPT ![t] = v]
    BY Zenon, <1>4 DEF Release
  <2>2. UNCHANGED <<renew, closes, missed, stops, activeLocks>>
    BY Zenon, <1>4 DEF Release
  <2>3. InStops(u)' = InStops(u)
    BY Zenon, <2>2 DEF InStops
  <2> QED
    BY Zenon, <1>a, <1>b, <2>1, <2>2, <2>3 DEF FreshOf
<1>5. ASSUME NEW t \in Token, ReleaseError(t) PROVE FreshOf(u)'
  <2>1. stage[t] \in {"held", "kept"} /\ \E v \in {"stopping", "released", "kept"} : stage' = [stage EXCEPT ![t] = v]
    BY Zenon, <1>5 DEF ReleaseError
  <2>2. UNCHANGED <<renew, closes, missed, stops, activeLocks>>
    BY Zenon, <1>5 DEF ReleaseError
  <2>3. InStops(u)' = InStops(u)
    BY Zenon, <2>2 DEF InStops
  <2> QED
    BY Zenon, <1>a, <1>b, <2>1, <2>2, <2>3 DEF FreshOf
<1>6. ASSUME NEW t \in Token, ReleaseStop(t) PROVE FreshOf(u)'
  <2>1. stage[t] = "stopping" /\ stage' = [stage EXCEPT ![t] = "released"]
    BY Zenon, <1>6 DEF ReleaseStop
  <2>2. UNCHANGED <<renew, closes, missed, activeLocks>>
    BY Zenon, <1>6 DEF ReleaseStop
  <2>3. InStops(u)' => InStops(u) \/ u = t
    BY Zenon, <1>6, <1>a, SendFacts DEF ReleaseStop
  <2> QED
    BY Zenon, <1>a, <1>b, <2>1, <2>2, <2>3 DEF FreshOf
<1>7. ASSUME NEW t \in Token, Renew(t) PROVE FreshOf(u)'
  <2>1. /\ renew[t] = "ticking" /\ (UNCHANGED renew \/ renew' = [renew EXCEPT ![t] = "stopping"])
        /\ UNCHANGED missed \/ missed' = [missed EXCEPT ![t] = 0]
    BY Zenon, <1>7 DEF Renew, StillHeld, AfterLost
  <2>2. UNCHANGED <<stage, closes, stops, activeLocks>>
    BY Zenon, <1>7 DEF Renew, StillHeld, AfterLost
  <2>3. InStops(u)' = InStops(u)
    BY Zenon, <2>2 DEF InStops
  <2> QED
    BY Zenon, <1>a, <1>b, <2>1, <2>2, <2>3 DEF FreshOf
<1>8. ASSUME NEW t \in Token, RenewError(t) PROVE FreshOf(u)'
  <2>1. renew[t] = "ticking" /\ UNCHANGED renew /\ missed' = [missed EXCEPT ![t] = @ + 1]
    BY Zenon, <1>8 DEF RenewError, AfterError, StillHeld
  <2>2. UNCHANGED <<stage, closes, stops, activeLocks>>
    BY Zenon, <1>8 DEF RenewError, StillHeld
  <2>3. InStops(u)' = InStops(u)
    BY Zenon, <2>2 DEF InStops
  <2> QED
    BY Zenon, <1>a, <1>b, <2>1, <2>2, <2>3 DEF FreshOf
<1>9. ASSUME NEW t \in Token, RenewStop(t) PROVE FreshOf(u)'
  <2>1. renew[t] = "stopping" /\ renew' = [renew EXCEPT ![t] = "ended"]
    BY Zenon, <1>9 DEF RenewStop
  <2>2. UNCHANGED <<stage, closes, missed, activeLocks>>
    BY Zenon, <1>9 DEF RenewStop
  <2>3. InStops(u)' => InStops(u) \/ u = t
    BY Zenon, <1>9, <1>a, SendFacts DEF RenewStop
  <2> QED
    BY Zenon, <1>a, <1>b, <2>1, <2>2, <2>3 DEF FreshOf
<1>10. ASSUME NEW t \in Token, RenewClosed(t) PROVE FreshOf(u)'
  <2>1. renew[t] = "ticking" /\ renew' = [renew EXCEPT ![t] = "ended"]
    BY Zenon, <1>10 DEF RenewClosed
  <2>2. UNCHANGED <<stage, closes, missed, stops, activeLocks>>
    BY Zenon, <1>10 DEF RenewClosed
  <2>3. InStops(u)' = InStops(u)
    BY Zenon, <2>2 DEF InStops
  <2> QED
    BY Zenon, <1>a, <1>b, <2>1, <2>2, <2>3 DEF FreshOf
<1>11. ASSUME NEW p \in Process, HandleStop(p) PROVE FreshOf(u)'
  <2>1. \/ UNCHANGED <<closes, activeLocks>>
        \/ /\ closes' = [closes EXCEPT ![activeLocks[p]] = @ + 1]
           /\ activeLocks' = [activeLocks EXCEPT ![p] = NoToken]
    BY Zenon, <1>11 DEF HandleStop, Forget
  <2>2. UNCHANGED <<stage, renew, missed>>
    BY Zenon, <1>11 DEF HandleStop
  <2>3. InStops(u)' => InStops(u)
    BY Zenon, <1>11, <1>a, TakeFacts DEF HandleStop
  <2> QED
    BY Zenon, <1>a, <1>b, <2>1, <2>2, <2>3, LockAssumption DEF FreshOf
<1>12. ASSUME NEW p \in Process, Crash(p) PROVE FreshOf(u)'
  <2>1. /\ stage'[u] = stage[u] \/ (stage'[u] = "crashed" /\ stage[u] \in {"won", "held", "kept", "stopping"})
        /\ renew'[u] = renew[u] \/ (renew'[u] = "ended" /\ renew[u] # "none")
        /\ renew[u] = "none" => renew'[u] = "none"
    BY Zenon, <1>12 DEF Crash
  <2>2. UNCHANGED <<closes, missed>> /\ activeLocks' = [activeLocks EXCEPT ![p] = NoToken]
    BY Zenon, <1>12 DEF Crash, Forget
  <2>3. InStops(u)' => InStops(u)
    BY Zenon, <1>12, <1>a, ClearFacts DEF Crash
  <2> QED
    BY Zenon, <1>a, <1>b, <2>1, <2>2, <2>3, LockAssumption DEF FreshOf
<1>13. CASE \/ \E t \in Token, d \in Timeouts : Refresh(t, d)
            \/ Tick
            \/ UNCHANGED vars
  <2>1. UNCHANGED <<stage, renew, closes, missed, stops, activeLocks>>
    BY Zenon, <1>13 DEF Refresh, Tick, vars, StillHeld
  <2>2. InStops(u)' = InStops(u)
    BY Zenon, <2>1 DEF InStops
  <2> QED
    BY Zenon, <1>a, <2>1, <2>2 DEF FreshOf
<1> QED
  BY Zenon, <1>1, <1>2, <1>3, <1>4, <1>5, <1>6, <1>7, <1>8, <1>9, <1>10, <1>11, <1>12, <1>13 DEF Next, Renewal

\* A registered renewal is open, so none is closed twice.
LEMMA OpenStep ==
  ASSUME IInv, TypeOK', [Next]_vars
  PROVE  Open' /\ ClosedOnce'
<1>a. TypeOK /\ Fresh /\ Open /\ ClosedOnce
  BY Zenon DEF IInv
<1>b. /\ closes \in [Token -> Nat] /\ activeLocks \in [Process -> Token \cup {NoToken}]
      /\ \A p \in Process : activeLocks[p] # NoToken => Owner[activeLocks[p]] = p
  BY Zenon, <1>a DEF TypeOK
<1>1. ASSUME NEW t \in Token, StartAutoRenew(t) PROVE Open' /\ ClosedOnce'
  <2>1. closes[t] = 0
    BY Zenon, <1>1, <1>a DEF StartAutoRenew, Fresh, FreshOf
  <2>2. activeLocks' = [activeLocks EXCEPT ![Owner[t]] = t] /\ closes' = closes
    BY Zenon, <1>1 DEF StartAutoRenew
  <2> QED
    BY Zenon, <1>a, <1>b, <2>1, <2>2 DEF Open, ClosedOnce
<1>2. ASSUME NEW p \in Process, HandleStop(p) PROVE Open' /\ ClosedOnce'
  <2>1. CASE activeLocks[p] = NoToken
    <3>1. UNCHANGED <<closes, activeLocks>>
      BY Zenon, <1>2, <2>1 DEF HandleStop
    <3> QED
      BY Zenon, <1>a, <3>1 DEF Open, ClosedOnce
  <2>2. CASE activeLocks[p] # NoToken
    <3>1. /\ closes' = [closes EXCEPT ![activeLocks[p]] = @ + 1]
          /\ activeLocks' = [activeLocks EXCEPT ![p] = NoToken]
      BY Zenon, <1>2, <2>2 DEF HandleStop, Forget
    <3>2. closes[activeLocks[p]] = 0 /\ activeLocks[p] \in Token
      BY Zenon, <1>a, <1>b, <2>2 DEF Open
    <3>3. ClosedOnce'
      BY <1>a, <1>b, <3>1, <3>2 DEF ClosedOnce
    <3>4. Open'
      BY Zenon, <1>a, <1>b, <3>1, <3>2 DEF Open
    <3> QED
      BY Zenon, <3>3, <3>4
  <2> QED
    BY Zenon, <2>1, <2>2
<1>3. ASSUME NEW p \in Process, Crash(p) PROVE Open' /\ ClosedOnce'
  <2>1. closes' = closes /\ activeLocks' = [activeLocks EXCEPT ![p] = NoToken]
    BY Zenon, <1>3 DEF Crash, Forget
  <2> QED
    BY Zenon, <1>a, <1>b, <2>1 DEF Open, ClosedOnce
<1>4. CASE \/ \E t \in Token, d \in Timeouts : TryAcquire(t, d) \/ TryAcquireError(t, d) \/ Refresh(t, d)
           \/ \E t \in Token : Release(t) \/ ReleaseError(t) \/ ReleaseStop(t) \/ Renew(t) \/ RenewError(t) \/ RenewStop(t) \/ RenewClosed(t)
           \/ Tick
           \/ UNCHANGED vars
  <2>1. UNCHANGED <<closes, activeLocks>>
    BY Zenon, <1>4 DEF TryAcquire, TryAcquireError, Refresh, Release, ReleaseError, ReleaseStop, Renew, RenewError, RenewStop, RenewClosed, Tick, vars
  <2> QED
    BY Zenon, <1>a, <2>1 DEF Open, ClosedOnce
<1> QED
  BY Zenon, <1>1, <1>2, <1>3, <1>4 DEF Next, Renewal

\* A token that is given up never is the key's again.
LEMMA GoneStep ==
  ASSUME IInv, TypeOK', [Next]_vars
  PROVE  Gone'
<1> SUFFICES ASSUME NEW u \in Token PROVE GoneOf(u)'
  BY Zenon DEF Gone
<1>a. TypeOK /\ GoneOf(u) /\ FreshOf(u) /\ u # NoToken
  BY Zenon, LockAssumption DEF IInv, Gone, Fresh
<1>b. /\ stage \in [Token -> {"unused", "failed", "won", "held", "kept", "stopping", "released", "crashed"}]
      /\ renew \in [Token -> {"none", "ticking", "stopping", "ended"}]
      /\ closes \in [Token -> Nat]
  BY Zenon, <1>a DEF TypeOK
<1>1. ASSUME NEW t \in Token, NEW d \in Timeouts, TryAcquire(t, d) PROVE GoneOf(u)'
  <2>1. redisKey' = t /\ stage[t] = "unused" /\ stage' = [stage EXCEPT ![t] = "won"]
    BY Zenon, <1>1 DEF TryAcquire
  <2>2. UNCHANGED <<renew, closes, stops, crossed>>
    BY Zenon, <1>1 DEF TryAcquire
  <2>3. InStops(u)' = InStops(u)
    BY Zenon, <2>2 DEF InStops
  <2> QED
    BY Zenon, <1>a, <1>b, <2>1, <2>2, <2>3 DEF GoneOf, FreshOf
<1>2. ASSUME NEW t \in Token, NEW d \in Timeouts, TryAcquireError(t, d) PROVE GoneOf(u)'
  <2>1. redisKey' = t /\ stage[t] = "unused" /\ stage' = [stage EXCEPT ![t] = "failed"]
    BY Zenon, <1>2 DEF TryAcquireError
  <2>2. UNCHANGED <<renew, closes, stops, crossed>>
    BY Zenon, <1>2 DEF TryAcquireError
  <2>3. InStops(u)' = InStops(u)
    BY Zenon, <2>2 DEF InStops
  <2> QED
    BY Zenon, <1>a, <1>b, <2>1, <2>2, <2>3 DEF GoneOf, FreshOf
<1>3. ASSUME NEW t \in Token, StartAutoRenew(t) PROVE GoneOf(u)'
  <2>1. stage' = [stage EXCEPT ![t] = "held"] /\ renew' = [renew EXCEPT ![t] = "ticking"]
    BY Zenon, <1>3 DEF StartAutoRenew
  <2>2. UNCHANGED <<redisKey, closes, stops, crossed>>
    BY Zenon, <1>3 DEF StartAutoRenew
  <2>3. InStops(u)' = InStops(u)
    BY Zenon, <2>2 DEF InStops
  <2> QED
    BY Zenon, <1>a, <1>b, <2>1, <2>2, <2>3 DEF GoneOf
<1>4. ASSUME NEW t \in Token, Release(t) PROVE GoneOf(u)'
  <2>1. /\ redisKey' = NoToken \/ (redisKey' = redisKey /\ redisKey # t)
        /\ \A n \in Token \ {t} : stage'[n] = stage[n]
    BY Zenon, <1>4, <1>b DEF Release, Matches
  <2>2. UNCHANGED <<renew, closes, stops, crossed>>
    BY Zenon, <1>4 DEF Release
  <2>3. InStops(u)' = InStops(u)
    BY Zenon, <2>2 DEF InStops
  <2> QED
    BY Zenon, <1>a, <2>1, <2>2, <2>3 DEF GoneOf
<1>5. ASSUME NEW t \in Token, ReleaseError(t) PROVE GoneOf(u)'
  <2>1. /\ redisKey' = NoToken \/ redisKey' = redisKey
        /\ stage' = [stage EXCEPT ![t] = "kept"]
    BY Zenon, <1>5 DEF ReleaseError
  <2>2. UNCHANGED <<renew, closes, stops, crossed>>
    BY Zenon, <1>5 DEF ReleaseError
  <2>3. InStops(u)' = InStops(u)
    BY Zenon, <2>2 DEF InStops
  <2> QED
    BY Zenon, <1>a, <1>b, <2>1, <2>2, <2>3 DEF GoneOf
<1>6. ASSUME NEW t \in Token, ReleaseStop(t) PROVE GoneOf(u)'
  <2>1. stage[t] = "stopping" /\ stage' = [stage EXCEPT ![t] = "released"]
    BY Zenon, <1>6 DEF ReleaseStop
  <2>2. UNCHANGED <<redisKey, renew, closes, crossed>>
    BY Zenon, <1>6 DEF ReleaseStop
  <2>3. InStops(u)' => InStops(u) \/ u = t
    BY Zenon, <1>6, <1>a, SendFacts DEF ReleaseStop
  <2> QED
    BY Zenon, <1>a, <1>b, <2>1, <2>2, <2>3 DEF GoneOf
<1>7. ASSUME NEW t \in Token, Renew(t) PROVE GoneOf(u)'
  <2>1. UNCHANGED renew \/ (redisKey # t /\ renew' = [renew EXCEPT ![t] = "stopping"])
    BY Zenon, <1>7 DEF Renew, StillHeld, AfterLost
  <2>2. UNCHANGED <<redisKey, stage, closes, stops, crossed>>
    BY Zenon, <1>7 DEF Renew, StillHeld, AfterLost
  <2>3. InStops(u)' = InStops(u)
    BY Zenon, <2>2 DEF InStops
  <2> QED
    BY Zenon, <1>a, <1>b, <2>1, <2>2, <2>3 DEF GoneOf
<1>8. ASSUME NEW t \in Token, RenewStop(t) PROVE GoneOf(u)'
  <2>1. renew[t] = "stopping" /\ renew' = [renew EXCEPT ![t] = "ended"]
    BY Zenon, <1>8 DEF RenewStop
  <2>2. UNCHANGED <<redisKey, stage, closes, crossed>>
    BY Zenon, <1>8 DEF RenewStop
  <2>3. InStops(u)' => InStops(u) \/ u = t
    BY Zenon, <1>8, <1>a, SendFacts DEF RenewStop
  <2> QED
    BY Zenon, <1>a, <1>b, <2>1, <2>2, <2>3 DEF GoneOf
<1>9. ASSUME NEW t \in Token, RenewClosed(t) PROVE GoneOf(u)'
  <2>1. renew' = [renew EXCEPT ![t] = "ended"]
    BY Zenon, <1>9 DEF RenewClosed
  <2>2. UNCHANGED <<redisKey, stage, closes, stops, crossed>>
    BY Zenon, <1>9 DEF RenewClosed
  <2>3. InStops(u)' = InStops(u)
    BY Zenon, <2>2 DEF InStops
  <2> QED
    BY Zenon, <1>a, <1>b, <2>1, <2>2, <2>3 DEF GoneOf
<1>10. ASSUME NEW p \in Process, HandleStop(p) PROVE GoneOf(u)'
  <2>1. UNCHANGED <<redisKey, stage, renew>> /\ crossed \subseteq crossed'
    BY Zenon, <1>10 DEF HandleStop
  <2>2. InStops(u)' => InStops(u)
    BY Zenon, <1>10, <1>a, TakeFacts DEF HandleStop
  <2>3. CASE u # activeLocks[p]
    <3>1. closes'[u] = closes[u]
      BY Zenon, <1>10, <1>b, <2>3 DEF HandleStop
    <3> QED
      BY Zenon, <1>a, <2>1, <2>2, <3>1 DEF GoneOf
  <2>4. CASE u = activeLocks[p] /\ u = Head(stops[p])
    <3>1. InStops(u)
      BY Zenon, <1>10, <1>a, <2>4, TakeFacts DEF HandleStop
    <3> QED
      BY Zenon, <1>a, <2>1, <3>1 DEF GoneOf
  <2>5. CASE u = activeLocks[p] /\ u # Head(stops[p])
    <3>1. u \in crossed'
      BY Zenon, <1>10, <1>a, <2>5 DEF HandleStop
    <3> QED
      BY Zenon, <1>a, <2>1, <2>2, <3>1 DEF GoneOf
  <2> QED
    BY Zenon, <2>3, <2>4, <2>5
<1>11. ASSUME NEW p \in Process, Crash(p) PROVE GoneOf(u)'
  <2>1. /\ stage'[u] = stage[u] \/ stage'[u] = "crashed"
        /\ renew'[u] = renew[u] \/ renew'[u] = "ended"
    BY Zenon, <1>11 DEF Crash
  <2>2. UNCHANGED <<redisKey, closes, crossed>>
    BY Zenon, <1>11 DEF Crash
  <2>3. InStops(u)' => InStops(u)
    BY Zenon, <1>11, <1>a, ClearFacts DEF Crash
  <2> QED
    BY Zenon, <1>a, <2>1, <2>2, <2>3 DEF GoneOf
<1>12. CASE \/ \E t \in Token, d \in Timeouts : Refresh(t, d)
            \/ \E t \in Token : RenewError(t)
            \/ Tick
            \/ UNCHANGED vars
  <2>1. /\ UNCHANGED <<stage, renew, closes, stops, crossed>>
        /\ redisKey' = redisKey \/ redisKey' = NoToken
    BY Zenon, <1>12 DEF Refresh, RenewError, AfterError, Tick, vars, StillHeld
  <2>2. InStops(u)' = InStops(u)
    BY Zenon, <2>1 DEF InStops
  <2> QED
    BY Zenon, <1>a, <2>1, <2>2 DEF GoneOf
<1> QED
  BY Zenon, <1>1, <1>2, <1>3, <1>4, <1>5, <1>6, <1>7, <1>8, <1>9, <1>10, <1>11, <1>12 DEF Next, Renewal

\* A holder loses the key to nobody.
LEMMA HolderStep ==
  ASSUME IInv, TypeOK', [Next]_vars
  PROVE  HolderKeepsKey'
<1> SUFFICES ASSUME NEW u \in Token, stage'[u] \in {"won", "held"}, u \notin expired' PROVE redisKey' = u
  BY Zenon DEF HolderKeepsKey
<1>a. TypeOK /\ u # NoToken /\ (stage[u] \in {"won", "held"} /\ u \notin expired => redisKey = u)
  BY Zenon, LockAssumption DEF IInv, HolderKeepsKey
<1>b. stage \in [Token -> {"unused", "failed", "won", "held", "kept", "stopping", "released", "crashed"}]
  BY Zenon, <1>a DEF TypeOK
<1>1. ASSUME NEW t \in Token, NEW d \in Timeouts, TryAcquire(t, d) PROVE redisKey' = u
  <2>1. redisKey = NoToken /\ redisKey' = t /\ stage' = [stage EXCEPT ![t] = "won"] /\ UNCHANGED expired
    BY Zenon, <1>1 DEF TryAcquire
  <2> QED
    BY Zenon, <1>a, <1>b, <2>1
<1>2. ASSUME NEW t \in Token, NEW d \in Timeouts, TryAcquireError(t, d) PROVE redisKey' = u
  <2>1. redisKey = NoToken /\ redisKey' = t /\ stage' = [stage EXCEPT ![t] = "failed"] /\ UNCHANGED expired
    BY Zenon, <1>2 DEF TryAcquireError
  <2> QED
    BY Zenon, <1>a, <1>b, <2>1
<1>3. ASSUME NEW t \in Token, StartAutoRenew(t) PROVE redisKey' = u
  <2>1. stage[t] = "won" /\ stage' = [stage EXCEPT ![t] = "held"] /\ UNCHANGED <<redisKey, expired>>
    BY Zenon, <1>3 DEF StartAutoRenew
  <2> QED
    BY Zenon, <1>a, <1>b, <2>1
<1>4. ASSUME NEW t \in Token, Release(t) PROVE redisKey' = u
  <2>1. redisKey' = redisKey \/ redisKey = t
    BY Zenon, <1>4 DEF Release, Matches
  <2>2. stage'[t] \notin {"won", "held"} /\ \A n \in Token \ {t} : stage'[n] = stage[n]
    BY Zenon, <1>4, <1>b DEF Release
  <2>3. expired' = expired
    BY Zenon, <1>4 DEF Release
  <2> QED
    BY Zenon, <1>a, <2>1, <2>2, <2>3
<1>5. ASSUME NEW t \in Token, ReleaseError(t) PROVE redisKey' = u
  <2>1. redisKey' = redisKey \/ redisKey = t
    BY Zenon, <1>5 DEF ReleaseError, Matches
  <2>2. stage'[t] \notin {"won", "held"} /\ \A n \in Token \ {t} : stage'[n] = stage[n]
    BY Zenon, <1>5, <1>b DEF ReleaseError
  <2>3. expired' = expired
    BY Zenon, <1>5 DEF ReleaseError
  <2> QED
    BY Zenon, <1>a, <2>1, <2>2, <2>3
<1>6. ASSUME NEW t \in Token, ReleaseStop(t) PROVE redisKey' = u
  <2>1. stage' = [stage EXCEPT ![t] = "released"] /\ UNCHANGED <<redisKey, expired>>
    BY Zenon, <1>6 DEF ReleaseStop
  <2> QED
    BY Zenon, <1>a, <1>b, <2>1
<1>7. ASSUME NEW p \in Process, Crash(p) PROVE redisKey' = u
  <2>1. stage'[u] = stage[u] /\ UNCHANGED <<redisKey, expired>>
    BY Zenon, <1>7, <1>b DEF Crash
  <2> QED
    BY Zenon, <1>a, <2>1
<1>8. ASSUME Tick PROVE redisKey' = u
  <2>1. stage' = stage /\ expired \subseteq expired'
    BY Zenon, <1>8 DEF Tick
  <2>2. redisKey = u
    BY Zenon, <1>a, <2>1
  <2>3. ~(ttl <= 1)
    BY Zenon, <1>8, <2>1, <2>2 DEF Tick
  <2> QED
    BY Zenon, <1>8, <2>2, <2>3 DEF Tick
<1>9. CASE \/ \E t \in Token, d \in Timeouts : Refresh(t, d)
           \/ \E t \in Token : Renew(t) \/ RenewError(t) \/ RenewStop(t) \/ RenewClosed(t)
           \/ \E p \in Process : HandleStop(p)
           \/ UNCHANGED vars
  <2>1. UNCHANGED <<stage, redisKey, expired>>
    BY Zenon, <1>9 DEF Refresh, Renew, RenewError, RenewStop, RenewClosed, HandleStop, vars, StillHeld, AfterLost
  <2> QED
    BY Zenon, <1>a, <2>1
<1> QED
  BY Zenon, <1>1, <1>2, <1>3, <1>4, <1>5, <1>6, <1>7, <1>8, <1>9 DEF Next, Renewal

\* A renewal that is not crossed goes on while the lock is held.
LEMMA RunningStep ==
  ASSUME IInv, TypeOK', [Next]_vars
  PROVE  Running'
<1> SUFFICES ASSUME NEW u \in Token, u \notin crossed', stage'[u] = "held", redisKey' = u PROVE renew'[u] = "ticking"
  BY Zenon DEF Running, RunningOf
<1>a. TypeOK /\ u # NoToken /\ GoneOf(u) /\ RunningOf(u)
  BY Zenon, LockAssumption DEF IInv, Gone, Running
<1>b. /\ stage \in [Token -> {"unused", "failed", "won", "held", "kept", "stopping", "released", "crashed"}]
      /\ renew \in [Token -> {"none", "ticking", "stopping", "ended"}]
      /\ closes \in [Token -> Nat]
  BY Zenon, <1>a DEF TypeOK
<1>1. ASSUME NEW t \in Token, NEW d \in Timeouts, TryAcquire(t, d) PROVE renew'[u] = "ticking"
  <2>1. redisKey' = t /\ stage' = [stage EXCEPT ![t] = "won"]
    BY Zenon, <1>1 DEF TryAcquire
  <2> QED
    BY Zenon, <1>b, <2>1
<1>2. ASSUME NEW t \in Token, NEW d \in Timeouts, TryAcquireError(t, d) PROVE renew'[u] = "ticking"
  <2>1. redisKey' = t /\ stage' = [stage EXCEPT ![t] = "failed"]
    BY Zenon, <1>2 DEF TryAcquireError
  <2> QED
    BY Zenon, <1>b, <2>1
<1>3. ASSUME NEW t \in Token, StartAutoRenew(t) PROVE renew'[u] = "ticking"
  <2>1. stage' = [stage EXCEPT ![t] = "held"] /\ renew' = [renew EXCEPT ![t] = "ticking"] /\ UNCHANGED <<redisKey, crossed>>
    BY Zenon, <1>3 DEF StartAutoRenew
  <2> QED
    BY Zenon, <1>a, <1>b, <2>1 DEF RunningOf
<1>4. ASSUME NEW t \in Token, Release(t) PROVE renew'[u] = "ticking"
  <2>1. /\ redisKey' = redisKey \/ redisKey' = NoToken
        /\ UNCHANGED <<renew, crossed>>
    BY Zenon, <1>4 DEF Release, Matches
  <2>2. stage'[t] # "held" /\ \A n \in Token \ {t} : stage'[n] = stage[n]
    BY Zenon, <1>4, <1>b DEF Release
  <2> QED
    BY Zenon, <1>a, <2>1, <2>2 DEF RunningOf
<1>5. ASSUME NEW t \in Token, ReleaseError(t) PROVE renew'[u] = "ticking"
  <2>1. /\ redisKey' = redisKey \/ redisKey' = NoToken
        /\ UNCHANGED <<renew, crossed>>
    BY Zenon, <1>5 DEF ReleaseError, Matches
  <2>2. stage'[t] # "held" /\ \A n \in Token \ {t} : stage'[n] = stage[n]
    BY Zenon, <1>5, <1>b DEF ReleaseError
  <2> QED
    BY Zenon, <1>a, <2>1, <2>2 DEF RunningOf
<1>6. ASSUME NEW t \in Token, ReleaseStop(t) PROVE renew'[u] = "ticking"
  <2>1. stage' = [stage EXCEPT ![t] = "released"] /\ UNCHANGED <<redisKey, renew, crossed>>
    BY Zenon, <1>6 DEF ReleaseStop
  <2> QED
    BY Zenon, <1>a, <1>b, <2>1 DEF RunningOf
<1>7. ASSUME NEW t \in Token, Renew(t) PROVE renew'[u] = "ticking"
  <2>1. UNCHANGED renew \/ (redisKey # t /\ renew' = [renew EXCEPT ![t] = "stopping"])
    BY Zenon, <1>7 DEF Renew, StillHeld, AfterLost
  <2>2. UNCHANGED <<redisKey, stage, crossed>>
    BY Zenon, <1>7 DEF Renew, StillHeld, AfterLost
  <2> QED
    BY Zenon, <1>a, <1>b, <2>1, <2>2 DEF RunningOf
<1>8. ASSUME NEW t \in Token, RenewStop(t) PROVE renew'[u] = "ticking"
  <2>1. renew[t] = "stopping" /\ renew' = [renew EXCEPT ![t] = "ended"] /\ UNCHANGED <<redisKey, stage, crossed>>
    BY Zenon, <1>8 DEF RenewStop
  <2> QED
    BY Zenon, <1>a, <1>b, <2>1 DEF RunningOf
<1>9. ASSUME NEW t \in Token, RenewClosed(t) PROVE renew'[u] = "ticking"
  <2>1. closes[t] > 0 /\ renew' = [renew EXCEPT ![t] = "ended"] /\ UNCHANGED <<redisKey, stage, crossed>>
    BY Zenon, <1>9 DEF RenewClosed
  <2> QED
    BY <1>a, <1>b, <2>1 DEF RunningOf, GoneOf
<1>10. ASSUME NEW p \in Process, HandleStop(p) PROVE renew'[u] = "ticking"
  <2>1. UNCHANGED <<redisKey, stage, renew>> /\ crossed \subseteq crossed'
    BY Zenon, <1>10 DEF HandleStop
  <2> QED
    BY Zenon, <1>a, <2>1 DEF RunningOf
<1>11. ASSUME NEW p \in Process, Crash(p) PROVE renew'[u] = "ticking"
  <2>1. stage'[u] = stage[u] /\ renew'[u] = renew[u] /\ UNCHANGED <<redisKey, crossed>>
    BY Zenon, <1>11, <1>b DEF Crash
  <2> QED
    BY Zenon, <1>a, <2>1 DEF RunningOf
<1>12. ASSUME Tick PROVE renew'[u] = "ticking"
  <2>1. UNCHANGED <<stage, renew, crossed>> /\ (redisKey' = redisKey \/ redisKey' = NoToken)
    BY Zenon, <1>12 DEF Tick
  <2> QED
    BY Zenon, <1>a, <2>1 DEF RunningOf
<1>13. CASE \/ \E t \in Token, d \in Timeouts : Refresh(t, d)
            \/ \E t \in Token : RenewError(t)
            \/ UNCHANGED vars
  <2>1. UNCHANGED <<stage, redisKey, renew, crossed>>
    BY Zenon, <1>13 DEF Refresh, RenewError, AfterError, vars, StillHeld
  <2> QED
    BY Zenon, <1>a, <2>1 DEF RunningOf
<1> QED
  BY Zenon, <1>1, <1>2, <1>3, <1>4, <1>5, <1>6, <1>7, <1>8, <1>9, <1>10, <1>11, <1>12, <1>13 DEF Next, Renewal

\* The ticker is set to the interval at most.
LEMMA TickFacts ==
  ASSUME TypeOK, NEW t \in Token, timeout[t] >= 3, NextTick(t)
  PROVE  /\ due'[t] = IF prompt THEN Interval(timeout[t]) ELSE 0
         /\ \A n \in Token \ {t} : due'[n] = due[n]
         /\ Interval(timeout[t]) \in Nat /\ due'[t] \in Nat /\ due'[t] <= Interval(timeout[t])
<1>1. due \in [Token -> Nat] /\ timeout[t] \in Nat
  BY Zenon DEF TypeOK
<1>2. Interval(timeout[t]) \in Nat
  BY Zenon, <1>1, IntervalFacts
<1>3. /\ due'[t] = IF prompt THEN Interval(timeout[t]) ELSE 0
      /\ \A n \in Token \ {t} : due'[n] = due[n]
  BY Zenon, <1>1 DEF NextTick
<1> QED
  BY <1>2, <1>3

\* The ticker stays within its interval.
LEMMA TickerStep ==
  ASSUME IInv, TypeOK', [Next]_vars
  PROVE  Ticker'
<1> SUFFICES ASSUME NEW u \in Token PROVE TickerOf(u)'
  BY Zenon DEF Ticker
<1>a. TypeOK /\ Ticker /\ TickerOf(u) /\ FreshOf(u)
  BY Zenon DEF IInv, Fresh, Ticker
<1>b. /\ stage \in [Token -> {"unused", "failed", "won", "held", "kept", "stopping", "released", "crashed"}]
      /\ renew \in [Token -> {"none", "ticking", "stopping", "ended"}]
      /\ missed \in [Token -> Nat] /\ timeout \in [Token -> Nat] /\ due \in [Token -> Nat]
  BY Zenon, <1>a DEF TypeOK
<1>1. ASSUME NEW t \in Token, NEW d \in Timeouts, TryAcquire(t, d) PROVE TickerOf(u)'
  <2>1. /\ stage[t] = "unused" /\ stage' = [stage EXCEPT ![t] = "won"]
        /\ timeout' = [timeout EXCEPT ![t] = Effective(d)]
        /\ UNCHANGED <<missed, frail, renew, due>>
    BY Zenon, <1>1 DEF TryAcquire
  <2>2. CASE u = t
    <3>1. Effective(d) >= 3
      BY Zenon, <1>1, EffectiveFacts
    <3>2. timeout'[u] = Effective(d) /\ renew[u] = "none"
      BY Zenon, <1>a, <1>b, <2>1, <2>2 DEF FreshOf
    <3> QED
      BY Zenon, <1>a, <2>1, <2>2, <3>1, <3>2 DEF TickerOf
  <2>3. CASE u # t
    <3>1. timeout'[u] = timeout[u] /\ stage'[u] = stage[u]
      BY Zenon, <1>b, <2>1, <2>3
    <3> QED
      BY Zenon, <1>a, <2>1, <3>1 DEF TickerOf
  <2> QED
    BY Zenon, <2>2, <2>3
<1>2. ASSUME NEW t \in Token, NEW d \in Timeouts, TryAcquireError(t, d) PROVE TickerOf(u)'
  <2>1. stage' = [stage EXCEPT ![t] = "failed"] /\ UNCHANGED <<missed, frail, renew, timeout, due>>
    BY Zenon, <1>2 DEF TryAcquireError
  <2> QED
    BY Zenon, <1>a, <1>b, <2>1 DEF TickerOf
<1>3. ASSUME NEW t \in Token, NEW d \in Timeouts, Refresh(t, d) PROVE TickerOf(u)'
  <2>1. frail \subseteq frail' /\ UNCHANGED <<missed, stage, renew, timeout, due>>
    BY Zenon, <1>3 DEF Refresh, StillHeld
  <2> QED
    BY Zenon, <1>a, <2>1 DEF TickerOf
<1>4. ASSUME NEW t \in Token, StartAutoRenew(t) PROVE TickerOf(u)'
  <2>1. /\ stage[t] = "won" /\ stage' = [stage EXCEPT ![t] = "held"] /\ renew' = [renew EXCEPT ![t] = "ticking"]
        /\ UNCHANGED <<missed, frail, timeout>> /\ NextTick(t)
    BY Zenon, <1>4 DEF StartAutoRenew
  <2>2. timeout[t] >= 3
    BY Zenon, <1>4, <1>a, <2>1 DEF Ticker, TickerOf
  <2>3. due'[t] <= Interval(timeout[t]) /\ \A n \in Token \ {t} : due'[n] = due[n]
    BY Zenon, <1>4, <1>a, <2>1, <2>2, TickFacts
  <2> QED
    BY Zenon, <1>a, <1>b, <2>1, <2>2, <2>3 DEF TickerOf
<1>5. ASSUME NEW t \in Token, Release(t) PROVE TickerOf(u)'
  <2>1. stage'[u] # "won" \/ stage'[u] = stage[u]
    BY Zenon, <1>5, <1>b DEF Release
  <2>2. UNCHANGED <<missed, frail, renew, timeout, due>>
    BY Zenon, <1>5 DEF Release
  <2> QED
    BY Zenon, <1>a, <2>1, <2>2 DEF TickerOf
<1>6. ASSUME NEW t \in Token, ReleaseError(t) PROVE TickerOf(u)'
  <2>1. stage'[u] # "won" \/ stage'[u] = stage[u]
    BY Zenon, <1>6, <1>b DEF ReleaseError
  <2>2. UNCHANGED <<missed, frail, renew, timeout, due>>
    BY Zenon, <1>6 DEF ReleaseError
  <2> QED
    BY Zenon, <1>a, <2>1, <2>2 DEF TickerOf
<1>7. ASSUME NEW t \in Token, ReleaseStop(t) PROVE TickerOf(u)'
  <2>1. stage' = [stage EXCEPT ![t] = "released"] /\ UNCHANGED <<missed, frail, renew, timeout, due>>
    BY Zenon, <1>7 DEF ReleaseStop
  <2> QED
    BY Zenon, <1>a, <1>b, <2>1 DEF TickerOf
<1>8. ASSUME NEW t \in Token, Renew(t) PROVE TickerOf(u)'
  <2>1. renew[t] = "ticking" /\ UNCHANGED <<frail, stage, timeout>>
    BY Zenon, <1>8 DEF Renew, StillHeld, AfterLost
  <2>2. timeout[t] >= 3
    BY Zenon, <1>8, <1>a, <2>1 DEF Ticker, TickerOf
  <2>3. CASE redisKey = t
    <3>1. missed' = [missed EXCEPT ![t] = 0] /\ NextTick(t) /\ UNCHANGED renew
      BY Zenon, <1>8, <2>3 DEF Renew, StillHeld, AfterLost
    <3>2. due'[t] <= Interval(timeout[t]) /\ \A n \in Token \ {t} : due'[n] = due[n]
      BY Zenon, <1>8, <1>a, <2>2, <3>1, TickFacts
    <3> QED
      BY <1>a, <1>b, <2>1, <2>2, <3>1, <3>2 DEF TickerOf
  <2>4. CASE redisKey # t
    <3>1. renew' = [renew EXCEPT ![t] = "stopping"] /\ UNCHANGED <<missed, due>>
      BY Zenon, <1>8, <2>4 DEF Renew, StillHeld, AfterLost
    <3> QED
      BY Zenon, <1>a, <1>b, <2>1, <3>1 DEF TickerOf
  <2> QED
    BY Zenon, <2>3, <2>4
<1>9. ASSUME NEW t \in Token, RenewError(t) PROVE TickerOf(u)'
  <2>1. /\ renew[t] = "ticking" /\ UNCHANGED <<stage, timeout, renew>> /\ NextTick(t)
        /\ missed' = [missed EXCEPT ![t] = @ + 1] /\ (missed[t] > 0 => t \in frail') /\ frail \subseteq frail'
    BY Zenon, <1>9 DEF RenewError, AfterError, StillHeld
  <2>2. timeout[t] >= 3
    BY Zenon, <1>9, <1>a, <2>1 DEF Ticker, TickerOf
  <2>3. due'[t] <= Interval(timeout[t]) /\ \A n \in Token \ {t} : due'[n] = due[n]
    BY Zenon, <1>9, <1>a, <2>1, <2>2, TickFacts
  <2>4. u \notin frail' => missed'[u] <= 1
    BY <1>a, <1>b, <2>1 DEF TickerOf
  <2> QED
    BY Zenon, <1>a, <2>1, <2>2, <2>3, <2>4 DEF TickerOf
<1>10. ASSUME NEW t \in Token, RenewStop(t) PROVE TickerOf(u)'
  <2>1. renew[t] # "none" /\ renew' = [renew EXCEPT ![t] = "ended"] /\ UNCHANGED <<missed, frail, stage, timeout, due>>
    BY Zenon, <1>10 DEF RenewStop
  <2> QED
    BY Zenon, <1>a, <1>b, <2>1 DEF TickerOf
<1>11. ASSUME NEW t \in Token, RenewClosed(t) PROVE TickerOf(u)'
  <2>1. renew[t] # "none" /\ renew' = [renew EXCEPT ![t] = "ended"] /\ UNCHANGED <<missed, frail, stage, timeout, due>>
    BY Zenon, <1>11 DEF RenewClosed
  <2> QED
    BY Zenon, <1>a, <1>b, <2>1 DEF TickerOf
<1>12. ASSUME NEW p \in Process, Crash(p) PROVE TickerOf(u)'
  <2>1. /\ stage'[u] = "won" => stage[u] = "won"
        /\ renew'[u] # "none" => renew[u] # "none"
        /\ UNCHANGED <<missed, frail, timeout, due>>
    BY Zenon, <1>12 DEF Crash
  <2> QED
    BY Zenon, <1>a, <2>1 DEF TickerOf
<1>13. ASSUME Tick PROVE TickerOf(u)'
  <2>1. UNCHANGED <<missed, frail, stage, renew, timeout>> /\ due'[u] = IF due[u] > 0 THEN due[u] - 1 ELSE 0
    BY Zenon, <1>13 DEF Tick
  <2>2. timeout[u] >= 3 => Interval(timeout[u]) \in Nat
    BY Zenon, <1>b, IntervalFacts
  <2> QED
    BY <1>a, <1>b, <2>1, <2>2 DEF TickerOf
<1>14. CASE \/ \E p \in Process : HandleStop(p)
            \/ UNCHANGED vars
  <2>1. UNCHANGED <<missed, frail, stage, renew, timeout, due>>
    BY Zenon, <1>14 DEF HandleStop, vars
  <2> QED
    BY Zenon, <1>a, <2>1 DEF TickerOf
<1> QED
  BY Zenon, <1>1, <1>2, <1>3, <1>4, <1>5, <1>6, <1>7, <1>8, <1>9, <1>10, <1>11, <1>12, <1>13, <1>14 DEF Next, Renewal

\* The lease of a prompt holder outlasts the next renewal.
LEMMA LeaseStep ==
  ASSUME IInv, TypeOK', [Next]_vars
  PROVE  Lease'
<1> SUFFICES ASSUME NEW u \in Token, prompt', u \notin frail' \cup crossed', redisKey' = u PROVE LeftOf(u)'
  BY Zenon DEF Lease, LeaseOf
<1>a. TypeOK /\ Ticker /\ TickerOf(u) /\ FreshOf(u) /\ RunningOf(u) /\ LeaseOf(u) /\ u # NoToken
  BY Zenon, LockAssumption DEF IInv, Fresh, Ticker, Running, Lease
<1>b. /\ stage \in [Token -> {"unused", "failed", "won", "held", "kept", "stopping", "released", "crashed"}]
      /\ missed \in [Token -> Nat] /\ timeout \in [Token -> Nat] /\ due \in [Token -> Nat] /\ ttl \in Nat
  BY Zenon, <1>a DEF TypeOK
<1>c. stage[u] = "won" \/ renew[u] # "none" =>
        timeout[u] >= 3 /\ Interval(timeout[u]) \in Nat /\ Interval(timeout[u]) >= 1 /\ 3 * Interval(timeout[u]) <= timeout[u]
  <2>1. stage[u] = "won" \/ renew[u] # "none" => timeout[u] >= 3
    BY Zenon, <1>a DEF TickerOf
  <2>2. timeout[u] \in Nat
    BY Zenon, <1>b
  <2> QED
    BY Zenon, <2>1, <2>2, IntervalFacts
<1>1. ASSUME NEW t \in Token, NEW d \in Timeouts, TryAcquire(t, d) PROVE LeftOf(u)'
  <2>1. redisKey' = t /\ stage' = [stage EXCEPT ![t] = "won"] /\ ttl' = Effective(d) /\ timeout' = [timeout EXCEPT ![t] = Effective(d)]
    BY Zenon, <1>1 DEF TryAcquire
  <2>2. stage'[u] = "won" /\ ttl' = timeout'[u]
    BY Zenon, <1>b, <2>1
  <2> QED
    BY Zenon, <2>2 DEF LeftOf
<1>2. ASSUME NEW t \in Token, NEW d \in Timeouts, TryAcquireError(t, d) PROVE LeftOf(u)'
  <2>1. redisKey' = t /\ stage' = [stage EXCEPT ![t] = "failed"]
    BY Zenon, <1>2 DEF TryAcquireError
  <2>2. stage'[u] = "failed"
    BY Zenon, <1>b, <2>1
  <2> QED
    BY Zenon, <2>2 DEF LeftOf
<1>3. ASSUME NEW t \in Token, NEW d \in Timeouts, Refresh(t, d) PROVE LeftOf(u)'
  <2>1. /\ redisKey = t /\ stage[t] \in {"held", "kept"} /\ ttl' = Effective(d) /\ (Effective(d) < timeout[t] => t \in frail')
        /\ UNCHANGED <<redisKey, stage, timeout, missed, due, crossed, renew>>
    BY Zenon, <1>3 DEF Refresh, StillHeld
  <2>2. u = t /\ Effective(d) \in Nat /\ Effective(d) >= timeout[u]
    BY <1>3, <1>b, <2>1, EffectiveFacts
  <2>3. CASE stage[u] = "kept"
    BY Zenon, <2>1, <2>3 DEF LeftOf
  <2> SUFFICES ASSUME stage[u] = "held" PROVE LeftOf(u)'
    BY Zenon, <2>1, <2>2, <2>3
  <2>a. renew[u] = "ticking"
    BY Zenon, <1>a, <2>1, <2>2 DEF RunningOf
  <2>4. due[u] <= Interval(timeout[u])
    BY Zenon, <1>a, <2>a DEF TickerOf
  <2>5. due[u] \in Nat /\ timeout[u] \in Nat /\ Interval(timeout[u]) \in Nat
    BY Zenon, <1>b, <1>c, <2>a
  <2> QED
    BY <2>1, <2>2, <2>4, <2>5 DEF LeftOf
<1>4. ASSUME NEW t \in Token, StartAutoRenew(t) PROVE LeftOf(u)'
  <2>1. /\ stage[t] = "won" /\ stage' = [stage EXCEPT ![t] = "held"] /\ NextTick(t)
        /\ UNCHANGED <<redisKey, ttl, timeout, missed, prompt, frail, crossed>>
    BY Zenon, <1>4 DEF StartAutoRenew
  <2>2. timeout[t] >= 3
    BY Zenon, <1>4, <1>a, <2>1 DEF Ticker, TickerOf
  <2>3. due'[t] = Interval(timeout[t]) /\ \A n \in Token \ {t} : due'[n] = due[n]
    BY Zenon, <1>4, <1>a, <2>1, <2>2, TickFacts
  <2>4. LeftOf(u)
    BY Zenon, <1>a, <2>1 DEF LeaseOf
  <2>5. CASE u = t
    <3>1. ttl = timeout[u] /\ missed[u] = 0 /\ stage'[u] = "held" /\ due'[u] = Interval(timeout[u])
      BY Zenon, <1>a, <1>b, <2>1, <2>3, <2>4, <2>5 DEF LeftOf, FreshOf
    <3>2. timeout[u] \in Nat /\ Interval(timeout[u]) \in Nat
      BY Zenon, <1>b, <1>c, <2>1, <2>5
    <3>3. ttl' = timeout[u] /\ timeout'[u] = timeout[u] /\ stage'[u] = "held"
      BY Zenon, <2>1, <3>1
    <3>4. due'[u] = Interval(timeout[u])
      BY Zenon, <3>1
    <3>5. ttl' - due'[u] >= timeout'[u] - Interval(timeout'[u]) /\ ttl' - due'[u] >= timeout'[u] - 2 * Interval(timeout'[u])
      <4>1. \A x, n \in Nat : x - n >= x - n /\ x - n >= x - 2 * n
        OBVIOUS
      <4> QED
        BY Zenon, <3>2, <3>3, <3>4, <4>1
    <3>6. stage'[u] # "won"
      BY Zenon, <3>3
    <3> QED
      BY Zenon, <3>5, <3>6 DEF LeftOf
  <2>6. CASE u # t
    <3>1. stage'[u] = stage[u] /\ due'[u] = due[u]
      BY Zenon, <1>b, <2>1, <2>3, <2>6
    <3> QED
      BY Zenon, <2>1, <2>4, <3>1 DEF LeftOf
  <2> QED
    BY Zenon, <2>5, <2>6
<1>5. ASSUME NEW t \in Token, Release(t) PROVE LeftOf(u)'
  <2>1. u # t /\ redisKey = u /\ ttl' = ttl
    BY Zenon, <1>5, <1>a DEF Release, Matches
  <2>2. stage'[u] = stage[u] /\ UNCHANGED <<timeout, missed, due, prompt, frail, crossed>>
    BY Zenon, <1>5, <1>b, <2>1 DEF Release
  <2>3. LeftOf(u)
    BY Zenon, <1>a, <2>1, <2>2 DEF LeaseOf
  <2> QED
    BY Zenon, <2>1, <2>2, <2>3 DEF LeftOf
<1>6. ASSUME NEW t \in Token, ReleaseError(t) PROVE LeftOf(u)'
  <2>1. /\ redisKey = u /\ ttl' = ttl
        /\ stage' = [stage EXCEPT ![t] = "kept"] /\ UNCHANGED <<timeout, missed, due, prompt, frail, crossed>>
    BY Zenon, <1>6, <1>a DEF ReleaseError, Matches
  <2>2. stage'[u] = stage[u] \/ stage'[u] = "kept"
    BY Zenon, <1>b, <2>1
  <2>3. LeftOf(u)
    BY Zenon, <1>a, <2>1 DEF LeaseOf
  <2> QED
    BY Zenon, <2>1, <2>2, <2>3 DEF LeftOf
<1>7. ASSUME NEW t \in Token, ReleaseStop(t) PROVE LeftOf(u)'
  <2>1. stage' = [stage EXCEPT ![t] = "released"] /\ UNCHANGED <<redisKey, ttl, timeout, missed, due, prompt, frail, crossed>>
    BY Zenon, <1>7 DEF ReleaseStop
  <2>2. stage'[u] = stage[u] \/ stage'[u] = "released"
    BY Zenon, <1>b, <2>1
  <2>3. LeftOf(u)
    BY Zenon, <1>a, <2>1 DEF LeaseOf
  <2> QED
    BY Zenon, <2>1, <2>2, <2>3 DEF LeftOf
<1>8. ASSUME NEW t \in Token, Renew(t) PROVE LeftOf(u)'
  <2>1. renew[t] = "ticking" /\ UNCHANGED <<redisKey, stage, timeout, prompt, frail, crossed>>
    BY Zenon, <1>8 DEF Renew, StillHeld, AfterLost
  <2>2. timeout[t] >= 3
    BY Zenon, <1>8, <1>a, <2>1 DEF Ticker, TickerOf
  <2>3. LeftOf(u)
    BY Zenon, <1>a, <2>1 DEF LeaseOf
  <2>4. CASE u = t
    <3>1. missed' = [missed EXCEPT ![t] = 0] /\ NextTick(t) /\ ttl' = timeout[t]
      BY Zenon, <1>8, <2>1, <2>4 DEF Renew, StillHeld, AfterLost
    <3>2. due'[u] = Interval(timeout[u])
      BY Zenon, <1>8, <1>a, <2>1, <2>2, <2>4, <3>1, TickFacts
    <3>3. timeout[u] \in Nat /\ Interval(timeout[u]) \in Nat /\ renew[u] = "ticking"
      BY Zenon, <1>b, <1>c, <2>1, <2>4
    <3>4. stage[u] # "won"
      BY Zenon, <1>a, <3>3 DEF FreshOf
    <3>5. ttl' = timeout[u] /\ timeout'[u] = timeout[u] /\ stage'[u] = stage[u]
      BY Zenon, <2>1, <2>4, <3>1
    <3> QED
      BY <3>2, <3>3, <3>4, <3>5 DEF LeftOf
  <2>5. CASE u # t
    <3>1. UNCHANGED <<missed, due, ttl>>
      BY Zenon, <1>8, <2>1, <2>5 DEF Renew, StillHeld, AfterLost
    <3> QED
      BY Zenon, <2>1, <2>3, <3>1 DEF LeftOf
  <2> QED
    BY Zenon, <2>4, <2>5
<1>9. ASSUME NEW t \in Token, RenewError(t) PROVE LeftOf(u)'
  <2>1. /\ renew[t] = "ticking" /\ due[t] = 0 /\ NextTick(t)
        /\ UNCHANGED <<redisKey, stage, timeout, prompt, crossed>>
        /\ ttl' = ttl \/ (redisKey = t /\ ttl' = timeout[t])
        /\ missed' = [missed EXCEPT ![t] = @ + 1] /\ (missed[t] > 0 => t \in frail') /\ frail \subseteq frail'
    BY Zenon, <1>9 DEF RenewError, StillHeld
  <2>2. timeout[t] >= 3
    BY Zenon, <1>9, <1>a, <2>1 DEF Ticker, TickerOf
  <2>3. due'[t] = Interval(timeout[t]) /\ \A n \in Token \ {t} : due'[n] = due[n]
    BY Zenon, <1>9, <1>a, <2>1, <2>2, TickFacts
  <2>4. u \notin frail
    BY Zenon, <2>1
  <2>5. LeftOf(u)
    BY Zenon, <1>a, <2>1, <2>4 DEF LeaseOf
  <2>6. CASE u = t
    <3>a. ~(missed[u] > 0)
      BY Zenon, <2>1, <2>6
    <3>b. missed[u] \in Nat /\ timeout[u] \in Nat /\ ttl \in Nat
      BY Zenon, <1>b
    <3>c. missed'[u] = missed[u] + 1
      BY Zenon, <1>b, <2>1, <2>6
    <3>1. missed[u] = 0 /\ missed'[u] = 1
      BY <3>a, <3>b, <3>c
    <3>d. renew[u] = "ticking"
      BY Zenon, <2>1, <2>6
    <3>e. Interval(timeout[u]) \in Nat /\ 3 * Interval(timeout[u]) <= timeout[u]
      BY Zenon, <1>c, <3>d
    <3>2. timeout[u] \in Nat /\ Interval(timeout[u]) \in Nat /\ ttl \in Nat /\ renew[u] = "ticking" /\ Interval(timeout[u]) <= timeout[u]
      BY <3>b, <3>d, <3>e
    <3>3. stage[u] # "won"
      BY Zenon, <1>a, <3>2 DEF FreshOf
    <3>4. stage[u] = "held" => ttl >= timeout[u] - Interval(timeout[u])
      BY <2>1, <2>5, <2>6, <3>1, <3>2 DEF LeftOf
    <3>5. UNCHANGED <<stage, timeout>> /\ (ttl' = ttl \/ ttl' = timeout[u]) /\ due'[u] = Interval(timeout[u])
      BY Zenon, <2>1, <2>3, <2>6
    <3> QED
      BY <3>1, <3>2, <3>3, <3>4, <3>5 DEF LeftOf
  <2>7. CASE u # t
    <3>1. missed'[u] = missed[u] /\ due'[u] = due[u] /\ ttl' = ttl
      BY Zenon, <1>b, <2>1, <2>3, <2>7
    <3> QED
      BY Zenon, <2>1, <2>5, <3>1 DEF LeftOf
  <2> QED
    BY Zenon, <2>6, <2>7
<1>10. ASSUME NEW p \in Process, HandleStop(p) PROVE LeftOf(u)'
  <2>1. UNCHANGED <<redisKey, ttl, stage, timeout, missed, due, prompt, frail>> /\ crossed \subseteq crossed'
    BY Zenon, <1>10 DEF HandleStop
  <2>2. LeftOf(u)
    BY Zenon, <1>a, <2>1 DEF LeaseOf
  <2> QED
    BY Zenon, <2>1, <2>2 DEF LeftOf
<1>11. ASSUME NEW p \in Process, Crash(p) PROVE LeftOf(u)'
  <2>1. UNCHANGED <<redisKey, ttl, timeout, missed, due, prompt, frail, crossed>>
    BY Zenon, <1>11 DEF Crash
  <2>2. stage'[u] = stage[u] \/ stage'[u] = "crashed"
    BY Zenon, <1>11 DEF Crash
  <2>3. LeftOf(u)
    BY Zenon, <1>a, <2>1 DEF LeaseOf
  <2> QED
    BY Zenon, <2>1, <2>2, <2>3 DEF LeftOf
<1>12. ASSUME Tick PROVE LeftOf(u)'
  <2>1. /\ UNCHANGED <<stage, timeout, renew, missed, prompt, frail, crossed>> /\ NothingDue
        /\ redisKey = u /\ ~(ttl <= 1) /\ due'[u] = IF due[u] > 0 THEN due[u] - 1 ELSE 0
        /\ ttl' = IF ttl > 0 THEN ttl - 1 ELSE 0
    BY Zenon, <1>12, <1>a DEF Tick
  <2>2. LeftOf(u)
    BY Zenon, <1>a, <2>1 DEF LeaseOf
  <2>3. stage[u] # "won"
    BY Zenon, <2>1 DEF NothingDue
  <2>4. stage[u] = "held" => due[u] > 0
    BY Zenon, <1>a, <2>1 DEF RunningOf, NothingDue
  <2>5. stage[u] = "held" => timeout[u] \in Nat /\ Interval(timeout[u]) \in Nat /\ due[u] \in Nat /\ ttl \in Nat
    BY Zenon, <1>a, <1>b, <1>c, <2>1 DEF RunningOf
  <2> QED
    BY <2>1, <2>2, <2>3, <2>4, <2>5 DEF LeftOf
<1>13. CASE \/ \E t \in Token : RenewStop(t) \/ RenewClosed(t)
            \/ UNCHANGED vars
  <2>1. UNCHANGED <<redisKey, ttl, stage, timeout, missed, due, prompt, frail, crossed>>
    BY Zenon, <1>13 DEF RenewStop, RenewClosed, vars
  <2>2. LeftOf(u)
    BY Zenon, <1>a, <2>1 DEF LeaseOf
  <2> QED
    BY Zenon, <2>1, <2>2 DEF LeftOf
<1> QED
  BY Zenon, <1>1, <1>2, <1>3, <1>4, <1>5, <1>6, <1>7, <1>8, <1>9, <1>10, <1>11, <1>12, <1>13 DEF Next, Renewal

\* A lease is lost only for the reasons LeaseKept names.
LEMMA KeptStep ==
  ASSUME IInv, TypeOK', [Next]_vars
  PROVE  LeaseKept'
<1> SUFFICES ASSUME prompt', NEW u \in expired' PROVE u \in frail' \cup crossed'
  BY Zenon DEF LeaseKept
<1>a. TypeOK /\ (prompt => expired \subseteq frail \cup crossed)
  BY Zenon DEF IInv, LeaseKept
<1>1. ASSUME Tick PROVE u \in frail' \cup crossed'
  <2>1. UNCHANGED <<prompt, frail, crossed, stage, renew>> /\ NothingDue
    BY Zenon, <1>1 DEF Tick
  <2>2. CASE u \in expired
    BY Zenon, <1>a, <2>1, <2>2
  <2>3. CASE u \notin expired
    <3>1. u \in Token /\ redisKey = u /\ ttl <= 1 /\ stage[u] \in {"won", "held"}
      BY Zenon, <1>1, <2>3 DEF Tick
    <3>2. stage[u] = "held"
      BY Zenon, <2>1, <3>1 DEF NothingDue
    <3> SUFFICES ASSUME u \notin frail \cup crossed PROVE FALSE
      BY Zenon, <2>1
    <3>3. renew[u] = "ticking" /\ TickerOf(u) /\ LeftOf(u)
      BY Zenon, <1>a, <2>1, <3>1, <3>2 DEF IInv, Running, RunningOf, Ticker, Lease, LeaseOf
    <3>4. due[u] > 0
      BY Zenon, <2>1, <3>1, <3>3 DEF NothingDue
    <3>5. timeout[u] \in Nat /\ due[u] \in Nat /\ ttl \in Nat
      BY Zenon, <1>a, <3>1 DEF TypeOK
    <3>6. timeout[u] >= 3
      BY Zenon, <3>3 DEF TickerOf
    <3>7. Interval(timeout[u]) \in Nat /\ Interval(timeout[u]) >= 1 /\ 3 * Interval(timeout[u]) <= timeout[u]
      BY Zenon, <3>5, <3>6, IntervalFacts
    <3>8. ttl - due[u] >= timeout[u] - 2 * Interval(timeout[u])
      BY Zenon, <3>2, <3>3 DEF LeftOf
    <3> QED
      BY <3>1, <3>4, <3>5, <3>7, <3>8
  <2> QED
    BY Zenon, <2>2, <2>3
<1>2. CASE \/ \E t \in Token, d \in Timeouts : TryAcquire(t, d) \/ TryAcquireError(t, d) \/ Refresh(t, d)
           \/ \E t \in Token : StartAutoRenew(t) \/ Release(t) \/ ReleaseError(t) \/ ReleaseStop(t) \/ Renew(t) \/ RenewError(t) \/ RenewStop(t) \/ RenewClosed(t)
           \/ \E p \in Process : HandleStop(p) \/ Crash(p)
           \/ UNCHANGED vars
  <2>1. UNCHANGED <<prompt, expired>> /\ frail \subseteq frail' /\ crossed \subseteq crossed'
    <3>1. ASSUME NEW t \in Token, NEW d \in Timeouts, TryAcquire(t, d) \/ TryAcquireError(t, d) \/ Refresh(t, d)
          PROVE  UNCHANGED <<prompt, expired>> /\ frail \subseteq frail' /\ crossed \subseteq crossed'
      BY Zenon, <3>1 DEF TryAcquire, TryAcquireError, Refresh, StillHeld
    <3>2. ASSUME NEW t \in Token, StartAutoRenew(t) \/ Release(t) \/ ReleaseError(t) \/ ReleaseStop(t)
          PROVE  UNCHANGED <<prompt, expired>> /\ frail \subseteq frail' /\ crossed \subseteq crossed'
      BY Zenon, <3>2 DEF StartAutoRenew, Release, ReleaseError, ReleaseStop
    <3>3. ASSUME NEW t \in Token, Renew(t) \/ RenewError(t) \/ RenewStop(t) \/ RenewClosed(t)
          PROVE  UNCHANGED <<prompt, expired>> /\ frail \subseteq frail' /\ crossed \subseteq crossed'
      BY Zenon, <3>3 DEF Renew, RenewError, RenewStop, RenewClosed, StillHeld, AfterLost
    <3>4. ASSUME NEW p \in Process, HandleStop(p) \/ Crash(p)
          PROVE  UNCHANGED <<prompt, expired>> /\ frail \subseteq frail' /\ crossed \subseteq crossed'
      BY Zenon, <3>4 DEF HandleStop, Crash
    <3> QED
      BY Zenon, <1>2, <3>1, <3>2, <3>3, <3>4 DEF vars
  <2> QED
    BY Zenon, <1>a, <2>1
<1> QED
  BY Zenon, <1>1, <1>2 DEF Next, Renewal

\* The invariant holds at the start.
LEMMA InitInv == Init => IInv
<1> SUFFICES ASSUME Init PROVE IInv
  BY Zenon
<1>1. TypeOK
  BY LockAssumption DEF Init, TypeOK
<1>2. ASSUME NEW t \in Token PROVE FreshOf(t) /\ GoneOf(t) /\ RunningOf(t) /\ TickerOf(t) /\ LeaseOf(t) /\ closes[t] <= 1 /\ stage[t] = "unused"
  <2>1. stage[t] = "unused" /\ renew[t] = "none" /\ closes[t] = 0 /\ missed[t] = 0 /\ redisKey # t /\ \A p \in Process : activeLocks[p] # t
    BY Zenon, LockAssumption DEF Init
  <2>2. ~InStops(t)
    <3>1. \A p \in Process : Len(stops[p]) = 0
      BY Zenon DEF Init
    <3> QED
      BY <3>1 DEF InStops
  <2> QED
    BY <2>1, <2>2 DEF FreshOf, GoneOf, RunningOf, TickerOf, LeaseOf
<1>3. Open /\ LeaseKept
  BY Zenon DEF Init, Open, LeaseKept
<1> QED
  BY Zenon, <1>1, <1>2, <1>3 DEF IInv, Fresh, Gone, Running, Ticker, Lease, ClosedOnce, HolderKeepsKey

\* Every step keeps the invariant.
LEMMA NextInv == IInv /\ [Next]_vars => IInv'
<1> SUFFICES ASSUME IInv, [Next]_vars PROVE IInv'
  BY Zenon
<1>1. TypeOK'
  BY Zenon, TypeStep DEF IInv
<1>2. Fresh' /\ Open' /\ ClosedOnce' /\ Gone'
  BY Zenon, <1>1, FreshStep, OpenStep, GoneStep
<1>3. HolderKeepsKey' /\ Running' /\ Ticker' /\ Lease' /\ LeaseKept'
  BY Zenon, <1>1, HolderStep, RunningStep, TickerStep, LeaseStep, KeptStep
<1> QED
  BY Zenon, <1>1, <1>2, <1>3 DEF IInv

\* The inductive invariant holds of every behaviour.
THEOREM Invariance == Spec => []IInv
<1> QED
  BY InitInv, NextInv, PTL DEF Spec

\* The state keeps its shape, and the stop channel its capacity (TypeOK).
THEOREM TypeCorrect == Spec => []TypeOK
<1>1. IInv => TypeOK
  BY Zenon DEF IInv
<1> QED
  BY <1>1, Invariance, PTL

\* Until its lease expires nobody takes the key from a holder, for any number
\* of tokens and processes, late releases, renewals, errors and crashes
\* (Release, Refresh).
THEOREM Exclusion == Spec => []HolderKeepsKey
<1>1. IInv => HolderKeepsKey
  BY Zenon DEF IInv
<1> QED
  BY <1>1, Invariance, PTL

\* handleStopRenewals closes no channel twice.
THEOREM NoDoubleClose == Spec => []ClosedOnce
<1>1. IInv => ClosedOnce
  BY Zenon DEF IInv
<1> QED
  BY <1>1, Invariance, PTL

\* While a lock is held its renewal runs, unless a stop request of another
\* token closed it (startAutoRenew, handleStopRenewals).
THEOREM Renewed == Spec => []RenewedUnlessCrossed
<1>1. IInv => RenewedUnlessCrossed
  BY Zenon DEF IInv, Running, RunningOf, Gone, GoneOf, RenewedUnlessCrossed
<1> QED
  BY <1>1, Invariance, PTL

\* With prompt goroutines one failed renewal is survived, whatever timeouts
\* and interval are configured (NewLock, startAutoRenew).
THEOREM LeaseSurvives == Spec => []LeaseKept
<1>1. IInv => LeaseKept
  BY Zenon DEF IInv
<1> QED
  BY <1>1, Invariance, PTL
=============================================================================
