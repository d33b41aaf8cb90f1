----------------------------- MODULE RedisLock -----------------------------
(***************************************************************************)
(* The distributed lock (pkg/redis/lock.go): one Redis key with an expiry, *)
(* taken with SetNX under a random token, renewed by a goroutine per       *)
(* token, and released by a script that compares the token.  Renewals are  *)
(* stopped through a channel per process that carries only the key.        *)
(*                                                                         *)
(* Keys are independent but for the capacity of that channel, so there is  *)
(* one.  A token belongs to the process that drew it and is drawn once.    *)
(* AutoRenew is on, as DefaultLockConfig has it.  Time is counted in       *)
(* ticks.  If prompt holds, goroutines do what is due before the next      *)
(* tick; otherwise they run at any time.  lockInfo.timeout is written and  *)
(* never read, and is left out.                                            *)
(***************************************************************************)
EXTENDS Integers, Sequences

CONSTANTS
  Token,           \* tokens that may be drawn
  Process,         \* processes, each with one RedisLock
  Owner,           \* the process that draws each token
  Timeouts,        \* timeouts callers may ask for
  DefaultTimeout,  \* LockConfig.DefaultTimeout
  RenewInterval,   \* LockConfig.RenewInterval
  StopCapacity,    \* capacity of renewalStopChan (100 in the code)
  MaxFaults,       \* bound on Redis errors and crashes
  NoToken          \* "no token"

\* NewLock corrects config.RenewInterval
Configured == IF RenewInterval >= DefaultTimeout \div 3 THEN DefaultTimeout \div 3 ELSE RenewInterval

\* mutant: the interval is taken as configured
IntervalAsIs(timeout) == Configured

\* startAutoRenew: at most a third of the timeout
Interval(timeout) ==
  IF Configured <= 0 \/ Configured >= timeout \div 3 THEN timeout \div 3 ELSE Configured

\* TryAcquire and Refresh: no timeout means the default
Effective(timeout) == IF timeout <= 0 THEN DefaultTimeout ELSE timeout

ASSUME LockAssumption ==
  /\ Owner \in [Token -> Process]
  /\ Timeouts \subseteq Int
  /\ RenewInterval \in Int /\ DefaultTimeout \in Nat
  /\ DefaultTimeout >= 3 /\ \A d \in Timeouts : d <= 0 \/ d >= 3
  /\ StopCapacity \in Nat \ {0}
  /\ MaxFaults \in Nat
  /\ NoToken \notin Token

VARIABLES
  redisKey,   \* Redis: the token stored under the key, or NoToken
  ttl,        \* Redis: ticks until it expires
  stage,      \* where the client of each token stands
  timeout,    \* the timeout each token was acquired with
  renew,      \* the renewal goroutine of each token
  due,        \* ticks until its ticker fires
  activeLocks, \* each process: the token whose renewal is registered, or NoToken
  closes,     \* how often renewChan of each token was closed
  stops,      \* renewalStopChan; only the key travels, the sender's token is history
  faults,     \* Redis errors and crashes so far
  prompt,     \* goroutines are never late
  missed,     \* history: renewals of each token that failed since the last success
  expired,    \* history: tokens whose key expired while their client held it
  frail,      \* history: tokens that missed two renewals or asked for a shorter timeout
  crossed     \* history: tokens whose renewal was stopped for another token

vars == <<redisKey, ttl, stage, timeout, renew, due, activeLocks, closes, stops, faults,
          prompt, missed, expired, frail, crossed>>

Init ==
  /\ redisKey = NoToken
  /\ ttl = 0
  /\ stage = [t \in Token |-> "unused"]
  /\ timeout = [t \in Token |-> 0]
  /\ renew = [t \in Token |-> "none"]
  /\ due = [t \in Token |-> 0]
  /\ activeLocks = [p \in Process |-> NoToken]
  /\ closes = [t \in Token |-> 0]
  /\ stops = [p \in Process |-> <<>>]
  /\ faults = 0
  /\ prompt \in BOOLEAN
  /\ missed = [t \in Token |-> 0]
  /\ expired = {}
  /\ frail = {}
  /\ crossed = {}

\* a Redis call returns an error
Fault == faults < MaxFaults /\ faults' = faults + 1

\* the ticker's next tick; if goroutines may be late it may be taken at any time
NextTick(t) == due' = [due EXCEPT ![t] = IF prompt THEN Interval(timeout[t]) ELSE 0]

-----------------------------------------------------------------------------
(* Clients.                                                                 *)

\* SetNX wins; an attempt that does not win leaves no trace, and Acquire
\* tries again with a new token
TryAcquire(t, d) ==
  /\ stage[t] = "unused"
  /\ redisKey = NoToken
  /\ redisKey' = t
  /\ ttl' = Effective(d)
  /\ timeout' = [timeout EXCEPT ![t] = Effective(d)]
  /\ stage' = [stage EXCEPT ![t] = "won"]
  /\ UNCHANGED <<renew, due, activeLocks, closes, stops, faults, prompt, missed, expired, frail, crossed>>

\* SetNX wins but its answer is lost: the caller gets an error
TryAcquireError(t, d) ==
  /\ stage[t] = "unused"
  /\ redisKey = NoToken
  /\ Fault
  /\ redisKey' = t
  /\ ttl' = Effective(d)
  /\ stage' = [stage EXCEPT ![t] = "failed"]
  /\ UNCHANGED <<timeout, renew, due, activeLocks, closes, stops, prompt, missed, expired, frail, crossed>>

\* startAutoRenew, after which the caller has the lock; an entry of an
\* earlier token is replaced and its goroutine goes on
StartAutoRenew(t) ==
  /\ stage[t] = "won"
  /\ stage' = [stage EXCEPT ![t] = "held"]
  /\ activeLocks' = [activeLocks EXCEPT ![Owner[t]] = t]
  /\ renew' = [renew EXCEPT ![t] = "ticking"]
  /\ NextTick(t)
  /\ UNCHANGED <<redisKey, ttl, timeout, closes, stops, faults, prompt, missed, expired, frail, crossed>>

\* mutant: the key is deleted whoever holds it
MatchesAny(t) == redisKey # NoToken

\* Release's script deletes the key only under the caller's token
Matches(t) == redisKey = t

\* Release: the script runs; on success the renewal is still to be stopped
Release(t) ==
  /\ stage[t] \in {"held", "kept"}
  /\ redisKey' = IF Matches(t) THEN NoToken ELSE redisKey
  /\ ttl' = IF Matches(t) THEN 0 ELSE ttl
  /\ stage' = [stage EXCEPT ![t] = IF Matches(t) THEN "stopping" ELSE "released"]
  /\ UNCHANGED <<timeout, renew, due, activeLocks, closes, stops, faults, prompt, missed, expired, frail, crossed>>

\* Release fails, applied or not: it returns before the renewal is stopped
ReleaseError(t) ==
  /\ stage[t] \in {"held", "kept"}
  /\ Fault
  /\ \/ UNCHANGED <<redisKey, ttl>>
     \/ Matches(t) /\ redisKey' = NoToken /\ ttl' = 0
  /\ stage' = [stage EXCEPT ![t] = "kept"]
  /\ UNCHANGED <<timeout, renew, due, activeLocks, closes, stops, prompt, missed, expired, frail, crossed>>

\* stopAutoRenew: waits for room in the channel
CanSend(t) == Len(stops[Owner[t]]) < StopCapacity

SendStop(t) == CanSend(t) /\ stops' = [stops EXCEPT ![Owner[t]] = Append(@, t)]

\* Release: stopAutoRenew, then return
ReleaseStop(t) ==
  /\ stage[t] = "stopping"
  /\ SendStop(t)
  /\ stage' = [stage EXCEPT ![t] = "released"]
  /\ UNCHANGED <<redisKey, ttl, timeout, renew, due, activeLocks, closes, faults, prompt, missed, expired, frail, crossed>>

\* mutant: the lease is extended whoever holds it
StillHeldByAny(t) == redisKey # NoToken

\* Refresh's script extends the lease only under the caller's token
StillHeld(t) == redisKey = t

\* Refresh by the client; one that fails unapplied, or whose token does not
\* match, changes nothing
Refresh(t, d) ==
  /\ stage[t] \in {"held", "kept"} /\ StillHeld(t)
  /\ ttl' = Effective(d)
  /\ frail' = IF Effective(d) < timeout[t] THEN frail \cup {t} ELSE frail
  /\ UNCHANGED <<redisKey, stage, timeout, renew, due, activeLocks, closes, stops, faults, prompt, missed,
                 expired, crossed>>

-----------------------------------------------------------------------------
(* The renewal goroutine.                                                   *)

\* mutant: the goroutine goes on although the lease is gone
AfterLostGoesOn(t) == UNCHANGED renew

\* the goroutine is about to stop
AfterLost(t) == renew' = [renew EXCEPT ![t] = "stopping"]

\* a tick: Refresh extends the lease, or finds that the lease is gone
Renew(t) ==
  /\ renew[t] = "ticking" /\ due[t] = 0
  /\ IF StillHeld(t)
     THEN /\ ttl' = timeout[t]
          /\ missed' = [missed EXCEPT ![t] = 0]
          /\ NextTick(t)
          /\ UNCHANGED renew
     ELSE /\ AfterLost(t)
          /\ UNCHANGED <<ttl, missed, due>>
  /\ UNCHANGED <<redisKey, stage, timeout, activeLocks, closes, stops, faults, prompt, expired, frail, crossed>>

\* mutant: an error ends the renewal
AfterErrorStops(t) == renew' = [renew EXCEPT ![t] = "stopping"]

\* an error is logged and the goroutine goes on
AfterError(t) == UNCHANGED renew

\* a tick whose Refresh fails, applied or not
RenewError(t) ==
  /\ renew[t] = "ticking" /\ due[t] = 0
  /\ Fault
  /\ \/ UNCHANGED ttl
     \/ StillHeld(t) /\ ttl' = timeout[t]
  /\ missed' = [missed EXCEPT ![t] = @ + 1]
  /\ frail' = IF missed[t] > 0 THEN frail \cup {t} ELSE frail
  /\ NextTick(t)
  /\ AfterError(t)
  /\ UNCHANGED <<redisKey, stage, timeout, activeLocks, closes, stops, prompt, expired, crossed>>

\* the goroutine whose lease is gone calls stopAutoRenew and ends
RenewStop(t) ==
  /\ renew[t] = "stopping"
  /\ SendStop(t)
  /\ renew' = [renew EXCEPT ![t] = "ended"]
  /\ UNCHANGED <<redisKey, ttl, stage, timeout, due, activeLocks, closes, faults, prompt, missed, expired, frail, crossed>>

\* renewChan is closed
RenewClosed(t) ==
  /\ renew[t] = "ticking" /\ closes[t] > 0
  /\ renew' = [renew EXCEPT ![t] = "ended"]
  /\ UNCHANGED <<redisKey, ttl, stage, timeout, due, activeLocks, closes, stops, faults, prompt, missed, expired,
                 frail, crossed>>

\* mutant: the entry stays in activeLocks
ForgetNot(p) == activeLocks

Forget(p) == [activeLocks EXCEPT ![p] = NoToken]

\* handleStopRenewals: the entry registered by now is closed and removed
HandleStop(p) ==
  /\ stops[p] # <<>>
  /\ stops' = [stops EXCEPT ![p] = Tail(@)]
  /\ IF activeLocks[p] # NoToken
     THEN /\ closes' = [closes EXCEPT ![activeLocks[p]] = @ + 1]
          /\ activeLocks' = Forget(p)
          /\ crossed' = IF activeLocks[p] # Head(stops[p]) THEN crossed \cup {activeLocks[p]} ELSE crossed
     ELSE UNCHANGED <<closes, activeLocks, crossed>>
  /\ UNCHANGED <<redisKey, ttl, stage, timeout, renew, due, faults, prompt, missed, expired, frail>>

-----------------------------------------------------------------------------
(* Time and crashes.                                                        *)

\* nothing that a goroutine ought to have done is left
NothingDue ==
  /\ \A t \in Token : stage[t] \notin {"won", "stopping"} /\ renew[t] # "stopping"
  /\ \A t \in Token : renew[t] = "ticking" => due[t] > 0 /\ closes[t] = 0
  /\ \A p \in Process : stops[p] = <<>>

\* a tick of the clock; a key whose time is over is gone
Tick ==
  /\ prompt => NothingDue
  /\ redisKey # NoToken \/ \E t \in Token : renew[t] = "ticking" /\ due[t] > 0
  /\ due' = [t \in Token |-> IF due[t] > 0 THEN due[t] - 1 ELSE 0]
  /\ ttl' = IF ttl > 0 THEN ttl - 1 ELSE 0
  /\ redisKey' = IF ttl <= 1 THEN NoToken ELSE redisKey
  /\ expired' = expired \cup {t \in Token : redisKey = t /\ ttl <= 1 /\ stage[t] \in {"won", "held"}}
  /\ UNCHANGED <<stage, timeout, renew, activeLocks, closes, stops, faults, prompt, missed, frail, crossed>>

\* a process ends with its goroutines, and is started again
Crash(p) ==
  /\ Fault
  /\ stage' = [t \in Token |->
       IF Owner[t] = p /\ stage[t] \in {"won", "held", "kept", "stopping"} THEN "crashed" ELSE stage[t]]
  /\ renew' = [t \in Token |-> IF Owner[t] = p /\ renew[t] # "none" THEN "ended" ELSE renew[t]]
  /\ activeLocks' = Forget(p)
  /\ stops' = [stops EXCEPT ![p] = <<>>]
  /\ UNCHANGED <<redisKey, ttl, timeout, due, closes, prompt, missed, expired, frail, crossed>>

-----------------------------------------------------------------------------
Renewal(t) == Renew(t) \/ RenewError(t) \/ RenewStop(t) \/ RenewClosed(t)

Next ==
  \/ \E t \in Token, d \in Timeouts : TryAcquire(t, d) \/ TryAcquireError(t, d) \/ Refresh(t, d)
  \/ \E t \in Token : StartAutoRenew(t) \/ Release(t) \/ ReleaseError(t) \/ ReleaseStop(t) \/ Renewal(t)
  \/ \E p \in Process : HandleStop(p) \/ Crash(p)
  \/ Tick

Spec == Init /\ [][Next]_vars

(* Fairness: time passes, and goroutines that can run do.  No client is     *)
(* obliged to acquire or to release.                                        *)
FairSpec ==
  /\ Spec
  /\ WF_vars(Tick)
  /\ \A t \in Token : WF_vars(StartAutoRenew(t)) /\ WF_vars(ReleaseStop(t)) /\ WF_vars(Renewal(t))
  /\ \A p \in Process : WF_vars(HandleStop(p))

-----------------------------------------------------------------------------
(* Properties.                                                              *)

\* The shape of the state; the channel never exceeds its capacity, and what
\* a process has registered is one of its own tokens.
TypeOK ==
  /\ redisKey \in Token \cup {NoToken} /\ ttl \in Nat
  /\ stage \in [Token -> {"unused", "failed", "won", "held", "kept", "stopping", "released", "crashed"}]
  /\ timeout \in [Token -> Nat]
  /\ renew \in [Token -> {"none", "ticking", "stopping", "ended"}]
  /\ due \in [Token -> Nat]
  /\ activeLocks \in [Process -> Token \cup {NoToken}]
  /\ \A p \in Process : activeLocks[p] # NoToken => Owner[activeLocks[p]] = p
  /\ closes \in [Token -> Nat]
  /\ stops \in [Process -> Seq(Token)] /\ \A p \in Process : Len(stops[p]) <= StopCapacity
  /\ faults \in 0..MaxFaults /\ prompt \in BOOLEAN
  /\ missed \in [Token -> Nat]
  /\ expired \subseteq Token /\ frail \subseteq Token /\ crossed \subseteq Token

\* Mutual exclusion as far as a lease gives it: whoever won the lock and has
\* not released it holds the key until it expires, whatever late releases,
\* renewals and errors of other tokens do (Release, Refresh).
HolderKeepsKey ==
  \A t \in Token : stage[t] \in {"won", "held"} /\ t \notin expired => redisKey = t

\* No renewChan is closed twice, which would end the process, however many
\* stop requests for a key are under way (handleStopRenewals).
ClosedOnce == \A t \in Token : closes[t] <= 1

\* While its client holds the lock, the renewal goroutine runs, through Redis
\* errors and a full stop channel, unless a stop request sent for another
\* token of the key has closed it (startAutoRenew, handleStopRenewals).
RenewedUnlessCrossed ==
  \A t \in Token \ crossed : stage[t] = "held" /\ redisKey = t => renew[t] = "ticking" /\ closes[t] = 0

\* If goroutines are prompt, one failed renewal is survived: a held lock
\* expires only after two failed renewals in a row, a Refresh with a shorter
\* timeout, or a crossed stop request (RenewInterval, "小于超时时间的1/3").
LeaseKept == prompt => expired \subseteq frail \cup crossed

\* "追踪当前持有的锁，用于自动续期" (lock.go:62): the renewal of a lock that is
\* held is not stopped.
RenewedWhileHeld ==
  \A t \in Token : stage[t] = "held" /\ redisKey = t => renew[t] = "ticking" /\ closes[t] = 0

\* A lock whose process crashed, or whose acquisition reported an error after
\* it had won, is free in the end (the expiry given to SetNX).
FreedInTheEnd ==
  \A t \in Token : redisKey = t /\ stage[t] \in {"crashed", "failed"} ~> redisKey # t

\* The renewal of a token that is no longer the key's ends, also when its stop
\* request hit another token or found nothing (startAutoRenew).
RenewalEnds ==
  \A t \in Token : renew[t] = "ticking" /\ redisKey # t ~> renew[t] = "ended"
=============================================================================
