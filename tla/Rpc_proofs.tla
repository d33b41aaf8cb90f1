----------------------------- MODULE Rpc_proofs -----------------------------
(***************************************************************************)
(* The inductive invariants of the gRPC client and server and of the RPC   *)
(* registry: that they hold initially, that every step keeps them, and     *)
(* what follows from them.  Services states the theorems.                  *)
(***************************************************************************)
EXTENDS GrpcCall, RpcRegistry, FiniteSetTheorems, TLAPS

-----------------------------------------------------------------------------
(* The gRPC client and server.                                              *)

\* A set of attempts is finite.
LEMMA GrpcTries ==
  ASSUME NEW n \in Nat, NEW X \in SUBSET (1..n)
  PROVE  IsFiniteSet(X) /\ Cardinality(X) \in Nat /\ Cardinality(X) <= n
<1>1. IsFiniteSet(1..n) /\ Cardinality(1..n) = n
  <2>1. 1 \in Int /\ n \in Int
    BY SMT
  <2>2. /\ IsFiniteSet(1..n)
        /\ Cardinality(1..n) = IF 1 > n THEN 0 ELSE n - 1 + 1
    BY Zenon, <2>1, FS_Interval
  <2>. QED  BY <2>2
<1>. QED  BY Zenon, <1>1, FS_Subset, FS_CardinalityType

\* The invariant is enough.
LEMMA GrpcEnough ==
  ASSUME IInv  PROVE RunsMatchAttempts /\ SignalledOnce
<1>1. ASSUME NEW c \in All
      PROVE  runs[c] <= try[c] /\ (runs[c] > 1 => retried[c])
  <2>1. /\ runs[c] \in Nat /\ try[c] \in Nat /\ Cardinality(Behind(c)) \in Nat
        /\ Cardinality(Behind(c)) <= try[c]
    <3>1. runs[c] \in Nat /\ try[c] \in Nat /\ Behind(c) \subseteq 1..try[c]
      BY DEF IInv, Types, Behind
    <3>. QED  BY Zenon, <3>1, GrpcTries
  <2>2. runs[c] <= try[c]
    BY <2>1 DEF IInv, RunsAreBehind
  <2>3. runs[c] > 1 => try[c] > 1
    BY <2>1, <2>2
  <2>. QED  BY Zenon, <2>2, <2>3 DEF IInv, RetriedBefore
<1>2. RunsMatchAttempts
  BY Zenon, <1>1 DEF IInv, SuccessRan, RanFor, RunsMatchAttempts
<1>3. ASSUME NEW g \in GoCalls, g \in pending  PROVE signals[g] = 0
  <2>1. pc[g] = "await" /\ g \notin cut
    BY Zenon, <1>3 DEF IInv, SignalledAt
  <2>. QED  BY <2>1 DEF IInv, SignalledAt
<1>4. SignalledOnce
  BY Zenon, <1>3 DEF IInv, SignalledAt, SignalledOnce
<1>. QED  BY Zenon, <1>2, <1>4

\* The invariant holds initially.
LEMMA GrpcInit ==
  ASSUME Init  PROVE IInv
<1>1. Types
  BY DEF Init, Types
<1>2. RunsAreBehind
  <2>. SUFFICES ASSUME NEW c \in All  PROVE runs[c] <= Cardinality(Behind(c))
    BY Zenon DEF RunsAreBehind
  <2>1. runs[c] = 0 /\ try[c] \in Nat /\ Behind(c) \subseteq 1..try[c]
    BY DEF Init, Behind
  <2>2. Cardinality(Behind(c)) \in Nat
    BY Zenon, <2>1, GrpcTries
  <2>. QED  BY <2>1, <2>2
<1>3. RetriedBefore /\ SuccessRan
  BY DEF Init, RetriedBefore, SuccessRan, RanFor
<1>4. \A g \in GoCalls : SignalledAt(g)
  BY DEF Init, SignalledAt, All
<1>5. RequestsAreSent
  BY Zenon DEF Init, RequestsAreSent
<1>. QED  BY Zenon, <1>1, <1>2, <1>3, <1>4, <1>5 DEF IInv

-----------------------------------------------------------------------------
(* What keeps each part of the invariant.                                   *)

\* No attempt that is behind can come back.
LEMMA GrpcGrow ==
  ASSUME IInv, Types', UNCHANGED runs,
         \A c \in All : Behind(c) \subseteq Behind(c)'
  PROVE  RunsAreBehind'
<1>. SUFFICES ASSUME NEW c \in All  PROVE runs[c] <= Cardinality(Behind(c)')
  BY Zenon DEF RunsAreBehind
<1>1. /\ try'[c] \in Nat /\ Behind(c)' \subseteq 1..try'[c]
      /\ try[c] \in Nat /\ Behind(c) \subseteq 1..try[c] /\ runs[c] \in Nat
  BY DEF IInv, Types, Behind
<1>2. /\ IsFiniteSet(Behind(c)') /\ Cardinality(Behind(c)') \in Nat
      /\ Cardinality(Behind(c)) \in Nat
  BY Zenon, <1>1, GrpcTries
<1>3. Cardinality(Behind(c)) <= Cardinality(Behind(c)')
  BY Zenon, <1>2, FS_Subset
<1>4. runs[c] <= Cardinality(Behind(c))
  BY Zenon DEF IInv, RunsAreBehind
<1>. QED  BY <1>1, <1>2, <1>3, <1>4

\* One call goes on: it sends its attempt, or begins the next.
LEMMA GrpcOne ==
  ASSUME IInv, NEW c \in All, NEW l, pc' = [pc EXCEPT ![c] = l],
         \/ UNCHANGED requests
         \/ requests' = requests \cup {Request(c)} /\ Unsent(c),
         \/ UNCHANGED try /\ (l \in {"new", "attempt", "register"} => Unsent(c))
         \/ /\ try' = [try EXCEPT ![c] = try[c] + 1]
            /\ ~Unsent(c) /\ UNCHANGED requests,
         NEW d \in All
  PROVE  Behind(d) \subseteq Behind(d)'
<1>. SUFFICES ASSUME NEW t \in Behind(d)  PROVE t \in Behind(d)'
  BY Zenon
<1>1. /\ t \in 1..try[d] /\ <<d, t>> \notin requests
      /\ t = try[d] => ~Unsent(d)
      /\ try[d] \in Nat
  BY DEF Behind, IInv, Types
<1>2. pc'[d] = IF d = c THEN l ELSE pc[d]
  BY Zenon DEF IInv, Types
<1>3. <<d, t>> \notin requests'
  <2>1. CASE UNCHANGED requests
    BY Zenon, <1>1, <2>1
  <2>2. CASE requests' = requests \cup {Request(c)} /\ Unsent(c)
    BY <1>1, <2>2 DEF Request
  <2>. QED  BY Zenon, <2>1, <2>2
<1>4. CASE UNCHANGED try /\ (l \in {"new", "attempt", "register"} => Unsent(c))
  <2>1. Unsent(d)' => Unsent(d)
    BY Zenon, <1>2, <1>4 DEF Unsent
  <2>. QED  BY Zenon, <1>1, <1>3, <1>4, <2>1 DEF Behind
<1>5. CASE try' = [try EXCEPT ![c] = try[c] + 1] /\ d = c
  <2>1. t \in 1..try'[d] /\ t # try'[d]
    BY <1>1, <1>5 DEF IInv, Types
  <2>. QED  BY Zenon, <1>3, <2>1 DEF Behind
<1>6. CASE try' = [try EXCEPT ![c] = try[c] + 1] /\ d # c
  <2>1. try'[d] = try[d] /\ (Unsent(d)' => Unsent(d))
    BY Zenon, <1>2, <1>6 DEF IInv, Types, Unsent
  <2>. QED  BY Zenon, <1>1, <1>3, <2>1 DEF Behind
<1>. QED  BY Zenon, <1>4, <1>5, <1>6

\* ... and every request stays behind its call.
LEMMA GrpcSent ==
  ASSUME IInv, NEW c \in All, NEW l, pc' = [pc EXCEPT ![c] = l],
         \/ UNCHANGED requests
         \/ requests' = requests \cup {Request(c)} /\ Unsent(c) /\ l = "await",
         \/ UNCHANGED try /\ (l \in {"new", "attempt", "register"} => Unsent(c))
         \/ /\ try' = [try EXCEPT ![c] = try[c] + 1]
            /\ ~Unsent(c) /\ UNCHANGED requests
  PROVE  RequestsAreSent'
<1>. SUFFICES ASSUME NEW r \in requests', r[2] = try'[r[1]]
              PROVE  ~Unsent(r[1])'
  BY Zenon DEF RequestsAreSent
<1>1. CASE r \in requests
  <2>1. /\ r[1] \in All /\ r[2] \in 1..try[r[1]] /\ try[r[1]] \in Nat
        /\ r[2] = try[r[1]] => ~Unsent(r[1])
    BY <1>1 DEF IInv, Types, RequestsAreSent
  <2>2. pc'[r[1]] = IF r[1] = c THEN l ELSE pc[r[1]]
    BY Zenon, <2>1 DEF IInv, Types
  <2>3. CASE try'[r[1]] = try[r[1]] /\ r[1] # c
    BY Zenon, <2>1, <2>2, <2>3 DEF Unsent
  <2>4. CASE /\ UNCHANGED try /\ r[1] = c
             /\ l \in {"new", "attempt", "register"} => Unsent(c)
    BY Zenon, <2>1, <2>2, <2>4 DEF Unsent
  <2>5. CASE try' = [try EXCEPT ![c] = try[c] + 1] /\ r[1] = c
    BY <2>1, <2>5 DEF IInv, Types
  <2>6. r[1] # c => try'[r[1]] = try[r[1]]
    BY Zenon, <2>1 DEF IInv, Types
  <2>. QED  BY Zenon, <2>3, <2>4, <2>5, <2>6
<1>2. CASE r = Request(c) /\ l = "await"
  <2>1. r[1] = c
    BY <1>2 DEF Request
  <2>2. pc'[c] = "await"
    BY Zenon, <1>2 DEF IInv, Types
  <2>. QED  BY Zenon, <2>1, <2>2 DEF Unsent
<1>. QED  BY Zenon, <1>1, <1>2

\* No success without a run.
LEMMA GrpcSuccess ==
  ASSUME IInv, UNCHANGED <<runs, kind>>, answers' \subseteq answers,
         \A c \in All : result'[c] = result[c] \/ RanFor(c, result'[c])
  PROVE  SuccessRan'
<1>1. UNCHANGED runs /\ UNCHANGED kind
  BY Zenon
<1>. QED  BY Zenon, <1>1 DEF IInv, SuccessRan, RanFor

\* A step of a synchronous call.
LEMMA GrpcCallStep ==
  ASSUME Constants, IInv, NEW c \in Calls,
         NEW l \in {"new", "attempt", "await", "backoff", "returned"},
         pc' = [pc EXCEPT ![c] = l],
         UNCHANGED <<kind, pending, signals, own, cut, lost, runs>>,
         answers' \subseteq answers,
         \/ UNCHANGED requests
         \/ requests' = requests \cup {Request(c)} /\ Unsent(c) /\ l = "await",
         \/ UNCHANGED try /\ (l \in {"new", "attempt", "register"} => Unsent(c))
         \/ /\ try' = [try EXCEPT ![c] = try[c] + 1]
            /\ ~Unsent(c) /\ UNCHANGED requests /\ retried[c],
         UNCHANGED retried \/ retried' = [retried EXCEPT ![c] = TRUE],
         l = "backoff" => retried'[c],
         \/ UNCHANGED result
         \/ \E r : /\ result' = [result EXCEPT ![c] = r]
                   /\ RanFor(c, r)
  PROVE  IInv'
<1>1. c \in All /\ c \notin GoCalls
  BY Zenon DEF All, Constants
<1>2. Types'
  <2>1. /\ pc' \in [All -> {"new", "attempt", "await", "backoff", "register",
                            "returned"}]
        /\ retried' \in [All -> BOOLEAN] /\ DOMAIN result' = All
        /\ pending' \subseteq GoCalls /\ signals' \in [GoCalls -> Nat]
        /\ answers' \subseteq (All \X Nat) \X {"ok", "empty", "temporary", "error"}
        /\ runs' \in [All -> Nat]
    BY Zenon, <1>1 DEF IInv, Types
  <2>2. try' \in [All -> Nat \ {0}]
    <3>1. try[c] + 1 \in Nat \ {0}
      BY <1>1 DEF IInv, Types
    <3>. QED  BY Zenon, <1>1, <3>1 DEF IInv, Types
  <2>3. Request(c) \in All \X Nat /\ Request(c)[2] \in 1..try[Request(c)[1]]
    BY <1>1 DEF IInv, Types, Request
  <2>4. requests' \subseteq All \X Nat
    BY Zenon, <2>3 DEF IInv, Types
  <2>5. ASSUME NEW r \in requests'  PROVE r[2] \in 1..try'[r[1]]
    <3>1. r \in All \X Nat /\ r[2] \in 1..try[r[1]]
      BY Zenon, <2>3 DEF IInv, Types
    <3>2. r[1] \in All
      BY <3>1
    <3>3. try[r[1]] \in Nat /\ try'[r[1]] \in {try[r[1]], try[r[1]] + 1}
      BY <1>1, <3>2 DEF IInv, Types
    <3>. QED  BY <3>1, <3>3
  <2>. QED  BY Zenon, <2>1, <2>2, <2>4, <2>5 DEF Types
<1>3. RunsAreBehind'
  <2>1. ASSUME NEW d \in All  PROVE Behind(d) \subseteq Behind(d)'
    BY Zenon, <1>1, GrpcOne
  <2>. QED  BY Zenon, <1>2, <2>1, GrpcGrow
<1>4. RetriedBefore'
  <2>. SUFFICES ASSUME NEW d \in All, try'[d] > 1 \/ pc'[d] = "backoff"
                PROVE  retried'[d]
    BY Zenon DEF RetriedBefore
  <2>1. (try[d] > 1 \/ pc[d] = "backoff") => retried[d]
    BY Zenon DEF IInv, RetriedBefore
  <2>2. retried[d] => retried'[d]
    BY Zenon, <1>1 DEF IInv, Types
  <2>3. CASE d # c
    <3>1. try'[d] = try[d] /\ pc'[d] = pc[d]
      BY Zenon, <2>3 DEF IInv, Types
    <3>. QED  BY Zenon, <2>1, <2>2, <3>1
  <2>4. CASE d = c
    <3>1. pc'[c] = l
      BY Zenon, <1>1 DEF IInv, Types
    <3>2. CASE try' = try
      BY Zenon, <2>1, <2>2, <2>4, <3>1, <3>2
    <3>3. CASE try' # try
      BY Zenon, <2>2, <2>4, <3>3
    <3>. QED  BY Zenon, <3>2, <3>3
  <2>. QED  BY Zenon, <2>3, <2>4
<1>5. SuccessRan'
  <2>1. \A d \in All : result'[d] = result[d] \/ RanFor(d, result'[d])
    BY Zenon, <1>1 DEF IInv, Types
  <2>. QED  BY Zenon, <2>1, GrpcSuccess
<1>6. ASSUME NEW g \in GoCalls  PROVE SignalledAt(g)'
  <2>1. pc'[g] = pc[g]
    BY Zenon, <1>1 DEF IInv, Types, All
  <2>. QED  BY Zenon, <2>1 DEF IInv, SignalledAt
<1>7. RequestsAreSent'
  BY Zenon, <1>1, GrpcSent
<1>. QED  BY Zenon, <1>2, <1>3, <1>4, <1>5, <1>6, <1>7 DEF IInv

\* A call returns.
LEMMA GrpcCallReturns ==
  ASSUME Constants, IInv, NEW c \in Calls, NEW r, Finish(c, r),
         RanFor(c, r),
         UNCHANGED <<kind, pending, signals, own, cut, lost, runs, requests, try>>,
         answers' \subseteq answers,
         UNCHANGED retried \/ retried' = [retried EXCEPT ![c] = TRUE]
  PROVE  IInv'
<1>1. /\ "returned" \in {"new", "attempt", "await", "backoff", "returned"}
      /\ "returned" \notin {"new", "attempt", "register"}
      /\ "returned" # "backoff"
  BY SMT
<1>. QED  BY Zenon, <1>1, GrpcCallStep DEF Finish

\* The steps of Call.
LEMMA GrpcCallNext ==
  ASSUME Constants, IInv, NEW c \in Calls,
         \/ CallBegins(c) \/ Attempt(c) \/ CallAnswered(c) \/ CallFails(c)
         \/ BackedOff(c)
  PROVE  IInv'
<1>0. c \in All /\ \A r \in {"closed", "error"} : RanFor(c, r)
  BY Zenon DEF All, RanFor
<1>1. CASE CallBegins(c)
  <2>1. CASE pc' = [pc EXCEPT ![c] = "attempt"] /\ UNCHANGED result
    <3>1. Unsent(c) /\ "attempt" # "backoff"
      BY Zenon, <1>1 DEF CallBegins, Unsent
    <3>. QED  BY Zenon, <1>1, <2>1, <3>1, GrpcCallStep DEF CallBegins
  <2>2. ASSUME NEW r \in {"closed", "error"}, Finish(c, r)  PROVE IInv'
    BY Zenon, <1>0, <1>1, <2>2, GrpcCallReturns DEF CallBegins
  <2>. QED  BY Zenon, <1>1, <2>1, <2>2 DEF CallBegins
<1>2. CASE Attempt(c)
  <2>1. CASE closed
    BY Zenon, <1>0, <1>2, <2>1, GrpcCallReturns DEF Attempt
  <2>2. CASE ~closed
    <3>1. /\ Unsent(c) /\ "await" # "backoff"
          /\ "await" \notin {"new", "attempt", "register"}
      BY Zenon, <1>2 DEF Attempt, Unsent
    <3>2. /\ pc' = [pc EXCEPT ![c] = "await"] /\ UNCHANGED result
          /\ requests' = requests \cup {Request(c)}
      BY Zenon, <1>2, <2>2 DEF Attempt
    <3>. QED  BY Zenon, <1>2, <3>1, <3>2, GrpcCallStep DEF Attempt
  <2>. QED  BY Zenon, <2>1, <2>2
<1>3. ASSUME RetryOrGiveUp(c), pc[c] = "await", answers' \subseteq answers,
             UNCHANGED <<kind, try, pending, signals, own, cut, lost, requests,
                         runs>>
      PROVE  IInv'
  <2>1. retried'[c]
    BY Zenon, <1>0, <1>3 DEF RetryOrGiveUp, IInv, Types
  <2>2. CASE try[c] < MaxRetries
    <3>1. pc' = [pc EXCEPT ![c] = "backoff"] /\ UNCHANGED result
      BY Zenon, <1>3, <2>2 DEF RetryOrGiveUp
    <3>2. "backoff" \notin {"new", "attempt", "register"}
      BY Zenon
    <3>. QED  BY Zenon, <1>3, <2>1, <3>1, <3>2, GrpcCallStep DEF RetryOrGiveUp
  <2>3. CASE ~(try[c] < MaxRetries)
    <3>1. Finish(c, "error")
      BY Zenon, <1>3, <2>3 DEF RetryOrGiveUp
    <3>. QED  BY Zenon, <1>0, <1>3, <3>1, GrpcCallReturns DEF RetryOrGiveUp
  <2>. QED  BY Zenon, <2>2, <2>3
<1>4. CASE CallFails(c)
  <2>1. CASE RetryOrGiveUp(c)
    BY Zenon, <1>3, <1>4, <2>1 DEF CallFails
  <2>2. CASE Finish(c, "error") /\ UNCHANGED retried
    BY Zenon, <1>0, <1>4, <2>2, GrpcCallReturns DEF CallFails
  <2>. QED  BY Zenon, <1>4, <2>1, <2>2 DEF CallFails
<1>5. CASE CallAnswered(c)
  <2>1. PICK a \in answers :
          /\ a[1] = Request(c)
          /\ answers' = answers \ {a}
          /\ CASE a[2] \in {"ok", "empty"} -> Finish(c, a[2]) /\ UNCHANGED retried
               [] a[2] = "temporary" -> RetryOrGiveUp(c)
               [] a[2] = "error" -> Finish(c, "error") /\ UNCHANGED retried
    BY Zenon, <1>5 DEF CallAnswered
  <2>2. a[2] \in {"ok", "empty", "temporary", "error"} /\ a[1][1] = c
    BY <2>1 DEF IInv, Types, Request
  <2>3. CASE a[2] = "temporary"
    <3>1. RetryOrGiveUp(c)
      BY <2>1, <2>3
    <3>. QED  BY Zenon, <1>3, <1>5, <2>1, <3>1 DEF CallAnswered
  <2>4. CASE a[2] = "error"
    <3>1. Finish(c, "error") /\ UNCHANGED retried
      BY <2>1, <2>4
    <3>. QED  BY Zenon, <1>0, <1>5, <2>1, <3>1, GrpcCallReturns DEF CallAnswered
  <2>5. CASE a[2] \in {"ok", "empty"}
    <3>1. Finish(c, a[2]) /\ UNCHANGED retried
      BY <2>1, <2>5
    <3>2. RanFor(c, a[2])
      BY Zenon, <2>2 DEF IInv, SuccessRan
    <3>. QED  BY Zenon, <1>5, <2>1, <3>1, <3>2, GrpcCallReturns DEF CallAnswered
  <2>. QED  BY Zenon, <2>2, <2>3, <2>4, <2>5
<1>6. CASE BackedOff(c)
  <2>1. retried[c] /\ ~Unsent(c)
    BY Zenon, <1>0, <1>6 DEF BackedOff, IInv, RetriedBefore, Unsent
  <2>2. CASE Finish(c, "error") /\ UNCHANGED try
    BY Zenon, <1>0, <1>6, <2>2, GrpcCallReturns DEF BackedOff
  <2>3. CASE /\ try' = [try EXCEPT ![c] = try[c] + 1]
             /\ pc' = [pc EXCEPT ![c] = "attempt"] /\ UNCHANGED result
    <3>1. "attempt" # "backoff"
      BY Zenon
    <3>. QED  BY Zenon, <1>6, <2>1, <2>3, <3>1, GrpcCallStep DEF BackedOff
  <2>. QED  BY Zenon, <1>6, <2>2, <2>3 DEF BackedOff, NextTry
<1>. QED  BY Zenon, <1>1, <1>2, <1>4, <1>5, <1>6

\* A step of an asynchronous call, given what it does to the signals.
LEMMA GrpcGoStep ==
  ASSUME IInv, NEW g \in GoCalls, NEW l \in {"register", "await", "returned"},
         pc' = [pc EXCEPT ![g] = l], UNCHANGED <<kind, try, retried, runs>>,
         answers' \subseteq answers,
         \/ UNCHANGED requests
         \/ requests' = requests \cup {Request(g)} /\ Unsent(g) /\ l = "await",
         l = "register" => Unsent(g),
         \/ UNCHANGED result
         \/ \E r : /\ result' = [result EXCEPT ![g] = r]
                   /\ RanFor(g, r),
         pending' \subseteq GoCalls, signals' \in [GoCalls -> Nat],
         \A h \in GoCalls : SignalledAt(h)'
  PROVE  IInv'
<1>1. g \in All
  BY Zenon DEF All
<1>2. Types'
  <2>1. /\ pc' \in [All -> {"new", "attempt", "await", "backoff", "register",
                            "returned"}]
        /\ DOMAIN result' = All /\ try' = try
        /\ answers' \subseteq (All \X Nat) \X {"ok", "empty", "temporary", "error"}
    BY Zenon, <1>1 DEF IInv, Types
  <2>2. Request(g) \in All \X Nat /\ Request(g)[2] \in 1..try[Request(g)[1]]
    BY <1>1 DEF IInv, Types, Request
  <2>. QED  BY Zenon, <2>1, <2>2 DEF IInv, Types
<1>3. RunsAreBehind'
  <2>1. l \in {"new", "attempt", "register"} => Unsent(g)
    BY Zenon
  <2>2. ASSUME NEW d \in All  PROVE Behind(d) \subseteq Behind(d)'
    BY Zenon, <1>1, <2>1, GrpcOne
  <2>. QED  BY Zenon, <1>2, <2>2, GrpcGrow
<1>4. RetriedBefore'
  <2>1. \A d \in All : pc'[d] = "backoff" => pc[d] = "backoff"
    BY Zenon, <1>1 DEF IInv, Types
  <2>. QED  BY Zenon, <2>1 DEF IInv, RetriedBefore
<1>5. SuccessRan'
  <2>1. \A d \in All : result'[d] = result[d] \/ RanFor(d, result'[d])
    BY Zenon, <1>1 DEF IInv, Types
  <2>. QED  BY Zenon, <2>1, GrpcSuccess
<1>6. RequestsAreSent'
  <2>1. l \in {"new", "attempt", "register"} => Unsent(g)
    BY Zenon
  <2>. QED  BY Zenon, <1>1, <2>1, GrpcSent
<1>. QED  BY Zenon, <1>2, <1>3, <1>4, <1>5, <1>6 DEF IInv

\* Signalling a set of calls.
LEMMA GrpcSignal ==
  ASSUME IInv, NEW G, signals' = Signal(signals, G)
  PROVE  /\ signals' \in [GoCalls -> Nat]
         /\ \A h \in GoCalls : h \in G => signals'[h] = signals[h] + 1
         /\ \A h \in GoCalls : h \notin G => signals'[h] = signals[h]
<1>1. \A h \in GoCalls : signals[h] \in Nat /\ signals[h] + 1 \in Nat
  BY DEF IInv, Types
<1>. QED  BY Zenon, <1>1 DEF Signal

\* The steps of Go.
LEMMA GrpcGoNext ==
  ASSUME Constants, IInv, NEW g \in GoCalls, GoBegins(g) \/ GoRegisters(g) \/ GoEnds(g)
  PROVE  IInv'
<1>0. /\ g \in All /\ SignalledAt(g) /\ signals[g] \in Nat
      /\ \A h \in GoCalls : h \in All
  BY DEF All, IInv, Types
<1>1. ASSUME NEW l, pc' = [pc EXCEPT ![g] = l], UNCHANGED <<own, cut>>,
             \A h \in GoCalls : h # g =>
               /\ signals'[h] = signals[h] /\ (h \in pending' <=> h \in pending)
               /\ h \in lost' => h \in lost,
             SignalledAt(g)'
      PROVE  \A h \in GoCalls : SignalledAt(h)'
  <2>. SUFFICES ASSUME NEW h \in GoCalls, h # g  PROVE SignalledAt(h)'
    BY Zenon, <1>1
  <2>1. /\ pc'[h] = pc[h] /\ signals'[h] = signals[h] /\ (h \in pending' <=> h \in pending)
        /\ (h \in lost' => h \in lost) /\ UNCHANGED own /\ UNCHANGED cut
    BY Zenon, <1>0, <1>1 DEF IInv, Types
  <2>2. SignalledAt(h)
    BY Zenon DEF IInv
  <2>. QED  BY Zenon, <2>1, <2>2 DEF SignalledAt
<1>2. ASSUME NEW r, Finish(g, r), signals' = Signal(signals, {g}),
             \E L \in SUBSET MayLose({g}) : lost' = lost \cup L,
             pending' = pending \ {g} \/ (UNCHANGED pending /\ g \notin pending),
             pc[g] # "returned", RanFor(g, r), answers' \subseteq answers,
             UNCHANGED <<kind, own, cut, try, retried, runs, requests>>
      PROVE  IInv'
  <2>1. signals' \in [GoCalls -> Nat] /\ signals'[g] = signals[g] + 1
    BY Zenon, <1>2, GrpcSignal
  <2>2. pc'[g] = "returned" /\ g \notin pending'
    BY Zenon, <1>0, <1>2 DEF Finish, IInv, Types
  <2>3. SignalledAt(g)'
    <3>1. UNCHANGED own /\ UNCHANGED cut
      BY Zenon, <1>2
    <3>2. ~(signals[g] >= DoneRoom)
      BY <1>0, <1>2 DEF SignalledAt, Constants
    <3>3. g \in own => g \notin MayLose({g})
      BY Zenon, <3>2 DEF MayLose
    <3>4. g \in own' => g \notin lost'
      BY Zenon, <1>0, <1>2, <3>1, <3>3 DEF SignalledAt
    <3>5. signals'[g] = 1 + (IF g \in cut' THEN 1 ELSE 0)
      BY <1>0, <1>2, <2>1, <3>1 DEF SignalledAt
    <3>. QED  BY Zenon, <2>2, <3>4, <3>5 DEF SignalledAt
  <2>4. \A h \in GoCalls : h # g =>
          /\ signals'[h] = signals[h] /\ (h \in pending' <=> h \in pending)
          /\ h \in lost' => h \in lost
    <3>1. \A h \in GoCalls : h \notin {g} => signals'[h] = signals[h]
      BY Zenon, <1>2, GrpcSignal
    <3>2. \A h \in MayLose({g}) : h = g
      BY Zenon DEF MayLose
    <3>. QED  BY Zenon, <1>2, <3>1, <3>2
  <2>5. \A h \in GoCalls : SignalledAt(h)'
    BY Zenon, <1>1, <1>2, <2>3, <2>4 DEF Finish
  <2>6. "returned" # "register" /\ pending' \subseteq GoCalls
    BY Zenon, <1>2 DEF IInv, Types
  <2>. QED  BY Zenon, <1>2, <2>1, <2>5, <2>6, GrpcGoStep DEF Finish
<1>3. CASE GoBegins(g)
  <2>1. /\ pc[g] = "new" /\ pc[g] # "returned" /\ g \notin pending
        /\ g \notin cut /\ Unsent(g)
    BY Zenon, <1>0, <1>3 DEF GoBegins, SignalledAt, Unsent
  <2>2. ASSUME NEW r \in {"closed", "error"}, Finish(g, r),
               signals' = Signal(signals, {g}),
               \E L \in SUBSET MayLose({g}) : lost' = lost \cup L
        PROVE  IInv'
    <3>1. RanFor(g, r)
      BY Zenon DEF RanFor
    <3>. QED  BY Zenon, <1>2, <1>3, <2>1, <2>2, <3>1 DEF GoBegins
  <2>3. CASE pc' = [pc EXCEPT ![g] = "register"] /\ UNCHANGED <<result, signals, lost>>
    <3>1. UNCHANGED <<kind, own, cut, lost, try, retried, pending, requests,
                      answers, runs>>
      BY Zenon, <1>3, <2>3 DEF GoBegins
    <3>2. pc'[g] = "register"
      BY Zenon, <1>0, <2>3 DEF IInv, Types
    <3>3. SignalledAt(g)'
      BY <1>0, <2>1, <2>3, <3>1, <3>2 DEF SignalledAt
    <3>4. \A h \in GoCalls : SignalledAt(h)'
      BY Zenon, <1>1, <2>3, <3>1, <3>3
    <3>5. pending' \subseteq GoCalls /\ signals' \in [GoCalls -> Nat]
      BY Zenon, <2>3, <3>1 DEF IInv, Types
    <3>. QED  BY Zenon, <2>1, <2>3, <3>1, <3>4, <3>5, GrpcGoStep
  <2>. QED  BY Zenon, <1>3, <2>2, <2>3 DEF GoBegins
<1>4. CASE GoRegisters(g)
  <2>1. pc[g] = "register" /\ g \notin cut /\ Unsent(g)
    BY Zenon, <1>0, <1>4 DEF GoRegisters, SignalledAt, Unsent
  <2>2. /\ pc' = [pc EXCEPT ![g] = "await"] /\ pending' = pending \cup {g}
        /\ requests' = requests \cup {Request(g)}
        /\ UNCHANGED <<kind, own, cut, lost, try, retried, result, signals,
                       answers, runs>>
    BY Zenon, <1>4 DEF GoRegisters
  <2>3. pc'[g] = "await"
    BY Zenon, <1>0, <2>2 DEF IInv, Types
  <2>4. SignalledAt(g)'
    BY <1>0, <2>1, <2>2, <2>3 DEF SignalledAt
  <2>5. \A h \in GoCalls : SignalledAt(h)'
    BY Zenon, <1>1, <2>2, <2>4
  <2>6. /\ pending' \subseteq GoCalls /\ signals' \in [GoCalls -> Nat]
        /\ "await" # "register"
    BY Zenon, <2>2 DEF IInv, Types
  <2>. QED  BY Zenon, <2>1, <2>2, <2>5, <2>6, GrpcGoStep
<1>5. CASE GoEnds(g)
  <2>1. pc[g] # "returned" /\ RanFor(g, "error") /\ RanFor(g, result[g])
    BY Zenon, <1>0, <1>5 DEF GoEnds, RanFor, IInv, SuccessRan
  <2>2. CASE Finish(g, "error") /\ UNCHANGED answers
    BY Zenon, <1>2, <1>5, <2>1, <2>2 DEF GoEnds
  <2>3. ASSUME NEW a \in answers, a[1] = Request(g), answers' = answers \ {a},
               NEW r, Finish(g, r),
               r = CASE a[2] \notin {"ok", "empty"} -> "error"
                     [] a[2] \in {"ok", "empty"} /\ result[g] = "none" -> a[2]
                     [] OTHER -> result[g]
        PROVE  IInv'
    <3>1. a[1][1] = g
      BY <2>3 DEF Request
    <3>2. r \in {"error", a[2], result[g]}
      BY <2>3
    <3>3. RanFor(g, r)
      BY Zenon, <2>1, <3>1, <3>2 DEF IInv, SuccessRan
    <3>. QED  BY Zenon, <1>2, <1>5, <2>1, <2>3, <3>3 DEF GoEnds
  <2>. QED  BY Zenon, <1>5, <2>2, <2>3 DEF GoEnds
<1>. QED  BY Zenon, <1>3, <1>4, <1>5

-----------------------------------------------------------------------------
(* Close and the server.                                                    *)

\* Close signals the calls in the table and empties it.
LEMMA GrpcClose ==
  ASSUME Constants, IInv, Close  PROVE IInv'
<1>1. /\ pending' = {} /\ signals' = Signal(signals, pending)
      /\ cut' = cut \cup pending
      /\ \E L \in SUBSET MayLose(pending) : lost' = lost \cup L
      /\ result' = [c \in All |-> IF c \in pending THEN "closed" ELSE result[c]]
      /\ UNCHANGED <<pc, kind, own, try, retried, requests, answers, runs>>
  BY Zenon DEF Close, PendingAfterClose
<1>2. ASSUME NEW g \in GoCalls  PROVE SignalledAt(g)'
  <2>1. signals[g] \in Nat /\ SignalledAt(g)
    BY Zenon DEF IInv, Types
  <2>2. g \notin pending => signals'[g] = signals[g]
    BY Zenon, <1>1, GrpcSignal
  <2>3. g \in pending => signals'[g] = signals[g] + 1
    BY Zenon, <1>1, GrpcSignal
  <2>4. UNCHANGED own /\ UNCHANGED pc
    BY Zenon, <1>1
  <2>5. g \in pending => g \notin own \/ g \notin MayLose(pending)
    <3>1. g \in pending => ~(signals[g] >= DoneRoom)
      BY <2>1 DEF SignalledAt, Constants
    <3>. QED  BY Zenon, <3>1 DEF MayLose
  <2>6. g \in own' => g \notin lost'
    BY Zenon, <1>1, <2>1, <2>4, <2>5 DEF SignalledAt, MayLose
  <2>7. /\ signals'[g] = (IF pc'[g] = "returned" THEN 1 ELSE 0)
                          + (IF g \in cut' THEN 1 ELSE 0)
        /\ g \in cut' => pc'[g] \in {"await", "returned"}
        /\ g \notin pending'
    BY <1>1, <2>1, <2>2, <2>3, <2>4 DEF SignalledAt
  <2>. QED  BY Zenon, <2>6, <2>7 DEF SignalledAt
<1>3. Types'
  <2>1. signals' \in [GoCalls -> Nat]
    BY Zenon, <1>1, GrpcSignal
  <2>. QED  BY Zenon, <1>1, <2>1 DEF IInv, Types
<1>4. RunsAreBehind'
  <2>1. \A c \in All : Behind(c) \subseteq Behind(c)'
    BY Zenon, <1>1 DEF Behind, Unsent
  <2>. QED  BY Zenon, <1>1, <1>3, <2>1, GrpcGrow
<1>5. RetriedBefore'
  BY Zenon, <1>1 DEF IInv, RetriedBefore
<1>6. SuccessRan'
  <2>1. \A c : RanFor(c, "closed")
    BY Zenon DEF RanFor
  <2>2. \A c \in All : result'[c] = result[c] \/ RanFor(c, result'[c])
    BY Zenon, <1>1, <2>1
  <2>. QED  BY Zenon, <1>1, <2>2, GrpcSuccess
<1>7. RequestsAreSent'
  BY Zenon, <1>1 DEF IInv, RequestsAreSent, Unsent
<1>. QED  BY Zenon, <1>2, <1>3, <1>4, <1>5, <1>6, <1>7 DEF IInv

\* A request leaves the wire: its attempt is behind, one more than before.
LEMMA GrpcTaken ==
  ASSUME IInv, NEW r \in requests, requests' = requests \ {r},
         UNCHANGED <<pc, try>>, NEW c \in All
  PROVE  /\ Behind(c) \subseteq Behind(c)'
         /\ r[1] = c =>
              /\ Cardinality(Behind(c)') = Cardinality(Behind(c)) + 1
              /\ Cardinality(Behind(c)) \in Nat
<1>1. Behind(c) \subseteq Behind(c)'
  BY Zenon DEF Behind, Unsent
<1>2. ASSUME r[1] = c
      PROVE  /\ Cardinality(Behind(c)') = Cardinality(Behind(c)) + 1
             /\ Cardinality(Behind(c)) \in Nat
  <2>1. r \in All \X Nat /\ r[2] \in 1..try[r[1]]
    BY Zenon DEF IInv, Types
  <2>2. r = <<c, r[2]>> /\ r[2] \in 1..try[c]
    BY <1>2, <2>1
  <2>3. r[2] = try[c] => ~Unsent(c)
    BY Zenon, <1>2 DEF IInv, RequestsAreSent
  <2>4. r[2] \notin Behind(c) /\ r[2] \in Behind(c)'
    BY Zenon, <2>2, <2>3 DEF Behind, Unsent
  <2>5. \A t : <<c, t>> = r => t = r[2]
    BY SMT
  <2>6. Behind(c)' = Behind(c) \cup {r[2]}
    BY Zenon, <1>1, <2>4, <2>5 DEF Behind, Unsent
  <2>7. try[c] \in Nat /\ Behind(c) \subseteq 1..try[c]
    BY Zenon DEF IInv, Types, Behind
  <2>8. IsFiniteSet(Behind(c)) /\ Cardinality(Behind(c)) \in Nat
    BY Zenon, <2>7, GrpcTries
  <2>. QED  BY Zenon, <2>4, <2>6, <2>8, FS_AddElement
<1>. QED  BY Zenon, <1>1, <1>2

\* A request is lost.
LEMMA GrpcLose ==
  ASSUME IInv, NEW r, Lose(r)  PROVE IInv'
<1>1. /\ r \in requests /\ requests' = requests \ {r}
      /\ UNCHANGED <<pc, kind, try, retried, result, pending, signals, own, cut,
                     lost, answers, runs>>
  BY Zenon DEF Lose
<1>2. Types'
  BY Zenon, <1>1 DEF IInv, Types
<1>3. RunsAreBehind'
  BY Zenon, <1>1, <1>2, GrpcTaken, GrpcGrow
<1>. QED  BY Zenon, <1>1, <1>2, <1>3
            DEF IInv, RequestsAreSent, Unsent, RetriedBefore,
                SuccessRan, RanFor, SignalledAt

\* A request is served: the method runs at most once, and only a method that
\* ran, or one whose types make the server panic, answers without an error.
LEMMA GrpcServe ==
  ASSUME IInv, NEW r, Serve(r)  PROVE IInv'
<1>1. /\ r \in requests /\ requests' = requests \ {r}
      /\ UNCHANGED <<pc, kind, try, retried, result, pending, signals, own, cut,
                     lost>>
      /\ runs' = [runs EXCEPT ![r[1]] = IF Runs(r[1]) THEN @ + 1 ELSE @]
  BY Zenon DEF Serve
<1>2. r \in All \X Nat /\ r[1] \in All
  BY <1>1 DEF IInv, Types
<1>3. PICK o \in Outcomes(r[1]) : answers' = answers \cup {<<r, o>>}
  BY Zenon DEF Serve
<1>4. /\ o \in {"ok", "empty", "temporary", "error"}
      /\ o = "ok" => Runs(r[1])
      /\ o = "empty" => Runs(r[1]) \/ kind[r[1]] = "builtin"
  BY <1>3 DEF Outcomes, Panics
<1>5. ASSUME NEW c \in All
      PROVE  /\ runs[c] \in Nat /\ runs'[c] \in Nat
             /\ runs[c] <= runs'[c] /\ runs'[c] <= runs[c] + 1
             /\ c # r[1] => runs'[c] = runs[c]
             /\ c = r[1] /\ Runs(c) => runs'[c] >= 1
  BY <1>1, <1>2 DEF IInv, Types
<1>6. Types'
  <2>1. runs' \in [All -> Nat]
    BY <1>1, <1>5 DEF IInv, Types
  <2>2. <<r, o>> \in (All \X Nat) \X {"ok", "empty", "temporary", "error"}
    BY <1>2, <1>4
  <2>. QED  BY Zenon, <1>1, <1>3, <2>1, <2>2 DEF IInv, Types
<1>7. RunsAreBehind'
  <2>. SUFFICES ASSUME NEW c \in All  PROVE runs'[c] <= Cardinality(Behind(c)')
    BY Zenon DEF RunsAreBehind
  <2>1. /\ runs[c] <= Cardinality(Behind(c))
        /\ try[c] \in Nat /\ Behind(c) \subseteq 1..try[c]
        /\ try'[c] \in Nat /\ Behind(c)' \subseteq 1..try'[c]
    BY Zenon, <1>6 DEF IInv, Types, RunsAreBehind, Behind
  <2>2. CASE c = r[1]
    <3>1. /\ Cardinality(Behind(c)') = Cardinality(Behind(c)) + 1
          /\ Cardinality(Behind(c)) \in Nat
      BY Zenon, <1>1, <2>2, GrpcTaken
    <3>. QED  BY <1>5, <2>1, <3>1
  <2>3. CASE c # r[1]
    <3>1. Behind(c) \subseteq Behind(c)'
      BY Zenon, <1>1, GrpcTaken
    <3>2. /\ IsFiniteSet(Behind(c)') /\ Cardinality(Behind(c)') \in Nat
          /\ Cardinality(Behind(c)) \in Nat
      BY Zenon, <2>1, GrpcTries
    <3>3. Cardinality(Behind(c)) <= Cardinality(Behind(c)')
      BY Zenon, <3>1, <3>2, FS_Subset
    <3>. QED  BY <1>5, <2>1, <2>3, <3>2, <3>3
  <2>. QED  BY Zenon, <2>2, <2>3
<1>8. SuccessRan'
  <2>0. /\ UNCHANGED kind
        /\ \A c \in All : runs[c] >= 1 => runs'[c] >= 1
    BY <1>1, <1>5
  <2>1. ASSUME NEW a \in answers'  PROVE RanFor(a[1][1], a[2])'
    <3>1. CASE a \in answers
      <4>1. a[1][1] \in All
        BY <3>1 DEF IInv, Types
      <4>. QED  BY Zenon, <2>0, <3>1, <4>1 DEF IInv, SuccessRan, RanFor
    <3>2. CASE a = <<r, o>>
      <4>1. a[1][1] = r[1] /\ a[2] = o
        BY <3>2
      <4>2. Runs(r[1]) => runs'[r[1]] >= 1
        BY Zenon, <1>2, <1>5
      <4>. QED  BY Zenon, <1>4, <2>0, <4>1, <4>2 DEF RanFor
    <3>. QED  BY Zenon, <1>3, <2>1, <3>1, <3>2
  <2>2. \A c \in All : RanFor(c, result[c])'
    BY Zenon, <1>1, <2>0 DEF IInv, SuccessRan, RanFor
  <2>. QED  BY Zenon, <2>1, <2>2 DEF SuccessRan
<1>9. RequestsAreSent'
  BY Zenon, <1>1 DEF IInv, RequestsAreSent, Unsent
<1>. QED  BY Zenon, <1>1, <1>6, <1>7, <1>8, <1>9
            DEF IInv, RetriedBefore, SignalledAt

\* A step that leaves the calls alone.
LEMMA GrpcOther ==
  ASSUME IInv,
         UNCHANGED <<pc, kind, try, retried, result, pending, signals, own, cut,
                     lost, requests, answers, runs>>
  PROVE  IInv'
<1>1. Types' /\ RetriedBefore' /\ SuccessRan' /\ \A g \in GoCalls : SignalledAt(g)'
  BY Zenon DEF IInv, Types, RetriedBefore, SuccessRan, RanFor, SignalledAt
<1>2. \A c \in All : Behind(c) \subseteq Behind(c)'
  BY Zenon DEF Behind, Unsent
<1>3. RunsAreBehind'
  BY Zenon, <1>1, <1>2, GrpcGrow
<1>4. RequestsAreSent'
  BY Zenon DEF IInv, RequestsAreSent, Unsent
<1>. QED  BY Zenon, <1>1, <1>3, <1>4 DEF IInv

\* Every step keeps the invariant.
LEMMA GrpcNext ==
  ASSUME Constants, IInv, [Next]_vars  PROVE IInv'
<1>1. ASSUME Next  PROVE IInv'
  <2>1. CASE \E c \in Calls : \/ CallBegins(c) \/ Attempt(c) \/ CallAnswered(c)
                              \/ CallFails(c) \/ BackedOff(c)
    BY Zenon, <2>1, GrpcCallNext
  <2>2. CASE \E g \in GoCalls : GoBegins(g) \/ GoRegisters(g) \/ GoEnds(g)
    BY Zenon, <2>2, GrpcGoNext
  <2>3. CASE \E r \in All \X (1..MaxRetries) : Serve(r) \/ Lose(r)
    BY Zenon, <2>3, GrpcServe, GrpcLose
  <2>4. CASE Register \/ Start \/ StopBegins \/ StopEnds
    BY Zenon, <2>4, GrpcOther DEF Register, Start, StopBegins, StopEnds
  <2>. QED  BY Zenon, <1>1, <2>1, <2>2, <2>3, <2>4, GrpcClose DEF Next
<1>2. CASE UNCHANGED vars
  BY Zenon, <1>2, GrpcOther DEF vars
<1>. QED  BY Zenon, <1>1, <1>2

-----------------------------------------------------------------------------
(* The RPC registry.                                                        *)

\* The positions kept by Active are numbered without gaps: a position's rank
\* among them takes every value up to their number, each once.
LEMMA RegRanks ==
  ASSUME NEW n \in Nat, NEW K \in SUBSET (1..n)
  PROVE  /\ Cardinality(K) \in 0..n
         /\ \A k \in 1..Cardinality(K) : \E i \in K : Rank(K, i) = k
         /\ \A i \in K : /\ Rank(K, i) \in 1..Cardinality(K)
                         /\ \A h \in K : Rank(K, h) = Rank(K, i) => h = i
<1>. DEFINE B(i) == {j \in K : j <= i}
            f == [h \in K |-> Rank(K, h)]
<1>0. \A i : Rank(K, i) = Cardinality(B(i))
  BY Zenon DEF Rank
<1>1. IsFiniteSet(K) /\ Cardinality(K) \in 0..n /\ Cardinality(K) \in Nat
  <2>1. IsFiniteSet(1..n) /\ Cardinality(1..n) = n
    BY FS_Interval
  <2>2. IsFiniteSet(K) /\ Cardinality(K) <= n
    BY <2>1, FS_Subset
  <2>3. Cardinality(K) \in Nat
    BY <2>2, FS_CardinalityType
  <2>. QED  BY <2>2, <2>3
<1>2. \A i \in K : IsFiniteSet(B(i)) /\ Cardinality(B(i)) \in 1..Cardinality(K)
  <2>. SUFFICES ASSUME NEW i \in K
                PROVE  IsFiniteSet(B(i))
                         /\ Cardinality(B(i)) \in 1..Cardinality(K)
    OBVIOUS
  <2>1. B(i) \in SUBSET K /\ i \in B(i)
    OBVIOUS
  <2>2. IsFiniteSet(B(i)) /\ Cardinality(B(i)) <= Cardinality(K)
    BY Zenon, <1>1, <2>1, FS_Subset
  <2>3. Cardinality(B(i)) \in Nat /\ Cardinality(B(i)) # 0
    BY Zenon, <2>1, <2>2, FS_CardinalityType, FS_EmptySet
  <2>. HIDE DEF B
  <2>. QED  BY <1>1, <2>2, <2>3
<1>3. \A i \in K : \A h \in K : Cardinality(B(h)) = Cardinality(B(i)) => h = i
  <2>0. \A i \in K : i <= i
    OBVIOUS
  <2>1. \A i \in K : \A h \in K : h <= i
          /\ Cardinality(B(h)) = Cardinality(B(i)) => h = i
    <3>. SUFFICES ASSUME NEW i \in K, NEW h \in K, h <= i,
                         Cardinality(B(h)) = Cardinality(B(i))
                  PROVE  h = i
      OBVIOUS
    <3>a. \A j \in K : j <= h => j <= i
      OBVIOUS
    <3>1. B(h) \in SUBSET B(i) /\ i \in B(i)
      BY Zenon, <3>a, <2>0
    <3>2. B(i) = B(h)
      BY Zenon, <1>2, <3>1, FS_Subset
    <3>3. i <= h
      BY <3>1, <3>2
    <3>. QED  BY <3>3
  <2>2. \A i \in K : \A h \in K : h <= i \/ i <= h
    OBVIOUS
  <2>. HIDE DEF B
  <2>. QED  BY Zenon, <2>1, <2>2
<1>4. f \in Injection(K, 1..Cardinality(K))
  <2>. HIDE DEF B
  <2>. QED  BY <1>0, <1>2, <1>3 DEF Injection, IsInjective
<1>5. f \in Surjection(K, 1..Cardinality(K))
  <2>1. IsFiniteSet(1..Cardinality(K))
          /\ Cardinality(1..Cardinality(K)) = Cardinality(K)
    BY <1>1, FS_Interval
  <2>. HIDE DEF f
  <2>. QED  BY Zenon, <1>4, <2>1, FS_Injection
<1>6. \A k \in 1..Cardinality(K) : \E i \in K : Rank(K, i) = k
  <2>1. \A i \in K : f[i] = Rank(K, i)
    OBVIOUS
  <2>. HIDE DEF f
  <2>. QED  BY Zenon, <1>5, <2>1 DEF Surjection
<1>. HIDE DEF B
<1>. QED  BY Zenon, <1>0, <1>1, <1>2, <1>3, <1>6

\* Active keeps the active instances of a list and nothing else.
LEMMA RegActive ==
  ASSUME NEW s \in Lists
  PROVE  /\ Active(s) \in Lists
         /\ Len(Active(s)) <= Len(s)
         /\ \A inst \in Range(s) : IsActive(inst) => inst \in Range(Active(s))
         /\ \A inst \in Range(Active(s)) : IsActive(inst) /\ inst \in Range(s)
<1>. DEFINE K == {i \in DOMAIN s : IsActive(s[i])}
            at(k) == CHOOSE i \in K : Rank(K, i) = k
            t == [k \in 1..Cardinality(K) |-> s[at(k)]]
<1>1. DOMAIN s = 1..Len(s) /\ Len(s) \in Nat
  BY DEF Lists
<1>2. \A i \in DOMAIN s : s[i] \in Instances
  BY DEF Lists
<1>. K \in SUBSET (1..Len(s))
  BY Zenon, <1>1
<1>. HIDE DEF K
<1>3. Cardinality(K) \in 0..Len(s)
  BY Zenon, <1>1, RegRanks
<1>4. \A k \in 1..Cardinality(K) : \E i \in K : Rank(K, i) = k
  BY Zenon, <1>1, RegRanks
<1>5. \A i \in K : /\ Rank(K, i) \in 1..Cardinality(K)
                   /\ \A h \in K : Rank(K, h) = Rank(K, i) => h = i
  BY Zenon, <1>1, RegRanks
<1>6. Active(s) = t
  BY Zenon DEF Active, K
<1>7. \A k \in 1..Cardinality(K) : at(k) \in K
  BY Zenon, <1>4
<1>8. \A i \in K : at(Rank(K, i)) = i
  BY Zenon, <1>5
<1>. HIDE DEF at
<1>9. \A k \in 1..Cardinality(K) : s[at(k)] \in Instances
  BY Zenon, <1>2, <1>7 DEF K
<1>10. t \in Lists /\ Len(t) = Cardinality(K)
  BY <1>3, <1>9 DEF Lists
<1>11. \A inst \in Range(s) : IsActive(inst) => inst \in Range(t)
  <2>. SUFFICES ASSUME NEW i \in DOMAIN s, IsActive(s[i])
                PROVE  s[i] \in Range(t)
    BY Zenon DEF Range
  <2>1. i \in K
    BY Zenon DEF K
  <2>2. Rank(K, i) \in DOMAIN t /\ t[Rank(K, i)] = s[i]
    BY Zenon, <1>5, <1>8, <2>1
  <2>. QED  BY Zenon, <2>2 DEF Range
<1>12. \A inst \in Range(t) : IsActive(inst) /\ inst \in Range(s)
  <2>1. \A i \in K : IsActive(s[i]) /\ s[i] \in Range(s)
    BY Zenon DEF K, Range
  <2>2. \A inst \in Range(t) : \E k \in 1..Cardinality(K) : inst = s[at(k)]
    BY Zenon DEF Range
  <2>. QED  BY Zenon, <1>7, <2>1, <2>2
<1>. QED  BY <1>3, <1>6, <1>10, <1>11, <1>12

\* The notification of watchers keeps the types of the channels.
LEMMA RegNotify ==
  ASSUME NEW c \in [Watchers -> Seq(Views)], \A w \in Watchers : Len(c[w]) <= 1,
         NEW v \in Views
  PROVE  /\ NotifyWatchers(c, v) \in [Watchers -> Seq(Views)]
         /\ \A w \in Watchers : Len(NotifyWatchers(c, v)[w]) <= 1
<1>1. <<v>> \in Seq(Views) /\ Len(<<v>>) <= 1
  OBVIOUS
<1>. QED  BY Zenon, <1>1 DEF NotifyWatchers

\* A list is a view, shared or not, and stays one when a cell is written.
LEMMA RegView ==
  /\ \A s \in Lists : \A b \in BOOLEAN : View(s, b) \in Views
  /\ \A v \in Views : v.insts \in Lists
  /\ \A v \in Views : \A inst \in Instances :
       \A i \in Nat \ {0} : WriteView(v, i, inst) \in Views
<1>1. \A s \in Lists : \A b \in BOOLEAN : View(s, b) \in Views
  BY DEF View, Views
<1>2. \A v \in Views : v.insts \in Lists
  BY DEF Views
<1>3. ASSUME NEW v \in Views, NEW inst \in Instances, NEW i \in Nat \ {0}
      PROVE  WriteView(v, i, inst) \in Views
  <2>1. ASSUME NEW s \in Seq(Instances)
        PROVE  [s EXCEPT ![i] = inst] \in Seq(Instances)
    <3>1. s \in [1..Len(s) -> Instances] /\ Len(s) \in Nat
      OBVIOUS
    <3>2. [s EXCEPT ![i] = inst] \in [1..Len(s) -> Instances]
      BY Zenon, <3>1
    <3>. QED  BY <3>1, <3>2
  <2>2. [v.insts EXCEPT ![i] = inst] \in Lists
    BY Zenon, <1>2, <2>1 DEF Lists
  <2>. QED  BY Zenon, <1>1, <2>2 DEF WriteView
<1>. QED  BY Zenon, <1>1, <1>2, <1>3

\* Writing a cell, or moving the registry to a new array, keeps the types.
LEMMA RegMap ==
  ASSUME chan \in [Watchers -> Seq(Views)],
         \A w \in Watchers : Len(chan[w]) <= 1,
         last \in [Watchers -> Views]
  PROVE  /\ Unshare(chan) \in [Watchers -> Seq(Views)]
         /\ \A w \in Watchers : Len(Unshare(chan)[w]) <= 1
         /\ UnshareLast \in [Watchers -> Views]
         /\ \A inst \in Instances : \A i \in Nat \ {0} :
              /\ WriteChan(i, inst) \in [Watchers -> Seq(Views)]
              /\ \A w \in Watchers : Len(WriteChan(i, inst)[w]) <= 1
              /\ WriteLast(i, inst) \in [Watchers -> Views]
<1>1. \A w \in Watchers : /\ chan[w] \in Seq(Views)
                          /\ \A j \in DOMAIN chan[w] : chan[w][j] \in Views
                          /\ DOMAIN chan[w] = 1..Len(chan[w])
                          /\ Len(chan[w]) \in Nat
  OBVIOUS
<1>2. ASSUME NEW w \in Watchers
      PROVE  LET d == [i \in DOMAIN chan[w] |-> View(chan[w][i].insts, FALSE)]
             IN d \in Seq(Views) /\ Len(d) = Len(chan[w])
  <2>1. \A i \in DOMAIN chan[w] : View(chan[w][i].insts, FALSE) \in Views
    BY Zenon, <1>1, RegView
  <2>. DEFINE d == [i \in DOMAIN chan[w] |-> View(chan[w][i].insts, FALSE)]
  <2>2. d \in [1..Len(chan[w]) -> Views] /\ Len(chan[w]) \in Nat
    BY Zenon, <1>1, <2>1
  <2>. HIDE DEF d
  <2>3. d \in Seq(Views) /\ Len(d) = Len(chan[w])
    BY <2>2
  <2>. QED  BY <2>3 DEF d
<1>3. ASSUME NEW inst \in Instances, NEW i \in Nat \ {0}, NEW w \in Watchers
      PROVE  LET d == [j \in DOMAIN chan[w] |-> WriteView(chan[w][j], i, inst)]
             IN d \in Seq(Views) /\ Len(d) = Len(chan[w])
  <2>1. \A j \in DOMAIN chan[w] : WriteView(chan[w][j], i, inst) \in Views
    BY Zenon, <1>1, RegView
  <2>. DEFINE d == [j \in DOMAIN chan[w] |-> WriteView(chan[w][j], i, inst)]
  <2>2. d \in [1..Len(chan[w]) -> Views] /\ Len(chan[w]) \in Nat
    BY Zenon, <1>1, <2>1
  <2>. HIDE DEF d
  <2>3. d \in Seq(Views) /\ Len(d) = Len(chan[w])
    BY <2>2
  <2>. QED  BY <2>3 DEF d
<1>4. Unshare(chan) \in [Watchers -> Seq(Views)] /\ \A w \in Watchers :
        Len(Unshare(chan)[w]) <= 1
  BY <1>2 DEF Unshare
<1>5. UnshareLast \in [Watchers -> Views]
  BY Zenon, RegView DEF UnshareLast
<1>6. ASSUME NEW inst \in Instances, NEW i \in Nat \ {0}
      PROVE  /\ WriteChan(i, inst) \in [Watchers -> Seq(Views)]
             /\ \A w \in Watchers : Len(WriteChan(i, inst)[w]) <= 1
  BY <1>3 DEF WriteChan
<1>7. ASSUME NEW inst \in Instances, NEW i \in Nat \ {0}
      PROVE  WriteLast(i, inst) \in [Watchers -> Views]
  BY Zenon, RegView DEF WriteLast
<1>. QED  BY Zenon, <1>4, <1>5, <1>6, <1>7

\* The invariant holds initially.
LEMMA RegInitInv ==
  ASSUME RegConstants
  PROVE  RegInit => RegIInv
<1>. SUFFICES ASSUME RegInit PROVE RegIInv
  OBVIOUS
<1>1. <<>> \in Seq(Views) /\ Len(<<>>) <= 1 /\ <<>> \in Lists
  BY DEF Lists
<1>2. RegTypes
  <2>1. reg \in [Ids -> 0..MaxReg]
    BY DEF RegInit, RegConstants
  <2>2. chan \in [Watchers -> Seq(Views)] /\ \A w \in Watchers :
          Len(chan[w]) <= 1
    BY Zenon, <1>1 DEF RegInit
  <2>3. last \in [Watchers -> Views]
    BY Zenon, <1>1, RegView DEF RegInit
  <2>. QED  BY <2>1, <2>2, <2>3 DEF RegTypes, RegInit
<1>3. LatestListed
  BY DEF RegInit, LatestListed
<1>. QED  BY Zenon, <1>2, <1>3 DEF RegIInv

\* A registration keeps it.
LEMMA RegRegister ==
  ASSUME RegConstants, RegIInv, NEW id \in Ids, RegisterInstance(id)
  PROVE  RegIInv'
<1>. DEFINE inst == <<id, reg[id] + 1>>
<1>1. RegTypes /\ LatestListed
  BY Zenon DEF RegIInv
<1>2. inst \in Instances /\ IdOf(inst) = id /\ reg'[id] = reg[id] + 1
  BY <1>1 DEF RegTypes, RegisterInstance, Instances, IdOf, RegConstants
<1>3. /\ reg' \in [Ids -> 0..MaxReg]
      /\ \A o \in Ids : o # id => reg'[o] = reg[o]
      /\ down' = down /\ watches' = watches
      /\ <<id, reg'[id]>> = inst
  BY <1>1, <1>2 DEF RegTypes, RegisterInstance, RegConstants
<1>. HIDE DEF inst
<1>4. CASE RegisterFirst(id, inst)
  <2>1. services' = <<inst>> /\ cap' = 1 /\ last' = last
        /\ chan' = NotifyWatchers(chan, View(<<inst>>, FALSE))
    BY Zenon, <1>4 DEF RegisterFirst
  <2>2. <<inst>> \in Lists /\ Len(<<inst>>) = 1 /\ inst \in Range(<<inst>>)
    BY <1>2 DEF Lists, Range
  <2>3. RegTypes'
    <3>1. services' \in Lists /\ cap' \in Nat /\ Len(services') <= cap'
            /\ 0 < cap'
      BY <2>1, <2>2
    <3>2. chan' \in [Watchers -> Seq(Views)] /\ \A w \in Watchers :
            Len(chan'[w]) <= 1
      BY Zenon, <1>1, <2>1, <2>2, RegView, RegNotify DEF RegTypes
    <3>. QED  BY Zenon, <1>1, <1>3, <2>1, <3>1, <3>2 DEF RegTypes
  <2>4. \A o \in Ids : ~(0 < reg[o])
    BY Zenon, <1>1, <1>4 DEF LatestListed, RegisterFirst
  <2>5. LatestListed'
    BY Zenon, <1>3, <2>1, <2>2, <2>4 DEF LatestListed, RegConstants
  <2>. QED  BY Zenon, <2>3, <2>5 DEF RegIInv
<1>5. CASE RegisterAgain(id, inst)
  <2>1. services \in Lists
    BY Zenon, <1>1, <1>5 DEF RegTypes, RegisterAgain
  <2>2. PICK i \in DOMAIN services :
          /\ IdOf(services[i]) = id
          /\ services' = [services EXCEPT ![i] = inst]
          /\ chan' = NotifyWatchers(WriteChan(i, inst), View(services', TRUE))
          /\ last' = WriteLast(i, inst)
    BY Zenon, <1>5 DEF RegisterAgain
  <2>3. i \in Nat \ {0}
    BY <2>1 DEF Lists
  <2>4. services' \in Lists /\ Len(services') = Len(services)
    <3>1. services \in [1..Len(services) -> Instances] /\ Len(services) \in Nat
      BY <2>1 DEF Lists
    <3>2. services' \in [1..Len(services) -> Instances]
      BY Zenon, <1>2, <2>2, <3>1
    <3>. QED  BY <3>1, <3>2 DEF Lists
  <2>5. RegTypes'
    <3>1. cap' \in Nat /\ Len(services') <= cap' /\ 0 < cap'
      BY Zenon, <1>1, <1>5, <2>4 DEF RegTypes, RegisterAgain
    <3>2. /\ chan' \in [Watchers -> Seq(Views)]
          /\ \A w \in Watchers : Len(chan'[w]) <= 1
          /\ last' \in [Watchers -> Views]
      BY Zenon, <1>1, <1>2, <2>2, <2>3, <2>4, RegView, RegMap, RegNotify
         DEF RegTypes
    <3>. QED  BY Zenon, <1>1, <1>3, <2>4, <3>1, <3>2 DEF RegTypes
  <2>6. inst \in Range(services') /\ services' # None
    BY Zenon, <2>1, <2>2, <2>4 DEF Range, RegConstants
  <2>7. ASSUME NEW o \in Ids, o # id, 0 < reg[o],
               <<o, reg[o]>> \in Range(services)
        PROVE  <<o, reg[o]>> \in Range(services')
    <3>1. PICK j \in DOMAIN services : services[j] = <<o, reg[o]>>
      BY Zenon, <2>7 DEF Range
    <3>2. j # i
      BY <2>2, <2>7, <3>1 DEF IdOf
    <3>3. j \in DOMAIN services' /\ services'[j] = <<o, reg[o]>>
      BY Zenon, <2>2, <3>1, <3>2
    <3>. QED  BY Zenon, <3>3 DEF Range
  <2>8. LatestListed'
    BY Zenon, <1>1, <1>3, <2>6, <2>7 DEF LatestListed
  <2>. QED  BY Zenon, <2>5, <2>8 DEF RegIInv
<1>6. CASE RegisterNew(id, inst)
  <2>1. services \in Lists /\ services' = Append(services, inst)
    BY Zenon, <1>1, <1>6 DEF RegTypes, RegisterNew, Appended
  <2>2. services' \in Lists /\ Len(services') = Len(services) + 1
          /\ Len(services) \in Nat
    BY <1>2, <2>1 DEF Lists
  <2>3. inst \in Range(services') /\ Range(services) \subseteq Range(services')
    BY <1>2, <2>1 DEF Lists, Range
  <2>4. View(services', TRUE) \in Views
    BY Zenon, <2>2, RegView
  <2>5. RegTypes'
    <3>1. cap' \in Nat /\ Len(services') <= cap' /\ 0 < cap'
      <4>1. cap \in Nat /\ Len(services) <= cap /\ 0 < cap
        BY Zenon, <1>1, <1>6 DEF RegTypes, RegisterNew
      <4>2. IF Len(services) < cap THEN cap' = cap ELSE cap' = 2 * cap
        BY Zenon, <1>6 DEF RegisterNew
      <4>. QED  BY <2>2, <4>1, <4>2
    <3>2. /\ chan' \in [Watchers -> Seq(Views)]
          /\ \A w \in Watchers : Len(chan'[w]) <= 1
          /\ last' \in [Watchers -> Views]
      <4>1. CASE Len(services) < cap
        BY Zenon, <1>1, <1>6, <2>4, <4>1, RegNotify DEF RegTypes, RegisterNew
      <4>2. CASE ~(Len(services) < cap)
        <5>1. /\ Unshare(chan) \in [Watchers -> Seq(Views)]
              /\ \A w \in Watchers : Len(Unshare(chan)[w]) <= 1
              /\ UnshareLast \in [Watchers -> Views]
          BY Zenon, <1>1, RegMap DEF RegTypes
        <5>2. /\ chan' = NotifyWatchers(Unshare(chan), View(services', TRUE))
              /\ last' = UnshareLast
          BY Zenon, <1>6, <4>2 DEF RegisterNew
        <5>. QED  BY Zenon, <2>4, <5>1, <5>2, RegNotify
      <4>. QED  BY Zenon, <4>1, <4>2
    <3>. QED  BY Zenon, <1>1, <1>3, <2>2, <3>1, <3>2 DEF RegTypes
  <2>6. LatestListed'
    BY Zenon, <1>1, <1>3, <2>2, <2>3 DEF LatestListed, RegConstants
  <2>. QED  BY Zenon, <2>5, <2>6 DEF RegIInv
<1>. QED  BY Zenon, <1>4, <1>5, <1>6 DEF RegisterInstance, inst

\* Every step keeps it.
LEMMA RegNextInv ==
  ASSUME RegConstants
  PROVE  RegIInv /\ [RegNext]_regVars => RegIInv'
<1>. SUFFICES ASSUME RegIInv, [RegNext]_regVars
              PROVE  RegIInv'
  OBVIOUS
<1>1. RegTypes /\ LatestListed
  BY Zenon DEF RegIInv
<1>2. ASSUME NEW id \in Ids, Deregister(id)
      PROVE  RegIInv'
  <2>1. services \in Lists
    BY Zenon, <1>1, <1>2 DEF RegTypes, Deregister
  <2>2. PICK i \in DOMAIN services : down' = down \cup {services[i]}
    BY Zenon, <1>2 DEF Deregister
  <2>3. services[i] \in Instances
    BY <2>1 DEF Lists
  <2>4. chan' \in [Watchers -> Seq(Views)] /\ \A w \in Watchers :
          Len(chan'[w]) <= 1
    BY Zenon, <1>1, <1>2, <2>1, RegView, RegNotify DEF RegTypes, Deregister
  <2>5. RegTypes'
    BY Zenon, <1>1, <1>2, <2>2, <2>3, <2>4 DEF RegTypes, Deregister
  <2>6. LatestListed'
    BY Zenon, <1>1, <1>2, <2>2 DEF LatestListed, Deregister
  <2>. QED  BY Zenon, <2>5, <2>6 DEF RegIInv
<1>3. CASE Cleanup
  <2>1. services \in Lists /\ services' = Active(services)
          /\ Active(services) # services
    BY Zenon, <1>1, <1>3 DEF RegTypes, Cleanup
  <2>2. /\ services' \in Lists
        /\ Len(services') <= Len(services)
        /\ \A inst \in Range(services) : IsActive(inst)
          => inst \in Range(services')
    BY Zenon, <2>1, RegActive
  <2>3. Len(services) \in Nat /\ Len(services') \in Nat
    BY <2>1, <2>2 DEF Lists
  <2>4. Len(services) # 0
    <3>. SUFFICES ASSUME Len(services) = 0 PROVE FALSE
      OBVIOUS
    <3>1. Len(services') = 0
      BY <2>2, <2>3
    <3>2. services = <<>> /\ services' = <<>>
      BY <2>1, <2>2, <3>1 DEF Lists
    <3>. QED  BY Zenon, <2>1, <3>2
  <2>5. RegTypes'
    <3>1. cap' = Len(services) /\ 0 < cap' /\ cap' \in Nat
      BY <1>3, <2>3, <2>4 DEF Cleanup
    <3>2. /\ chan' \in [Watchers -> Seq(Views)]
          /\ \A w \in Watchers : Len(chan'[w]) <= 1
          /\ last' \in [Watchers -> Views]
      BY Zenon, <1>1, <1>3, <2>2, RegView, RegMap, RegNotify
         DEF RegTypes, Cleanup
    <3>. QED  BY Zenon, <1>1, <1>3, <2>2, <3>1, <3>2 DEF RegTypes, Cleanup
  <2>6. LatestListed'
    BY Zenon, <1>1, <1>3, <2>2 DEF LatestListed, Cleanup, IsActive, RegConstants
  <2>. QED  BY Zenon, <2>5, <2>6 DEF RegIInv
<1>4. ASSUME NEW w \in Watchers, WatchService(w) \/ Receive(w)
      PROVE  RegIInv'
  <2>1. <<>> \in Lists /\ <<>> \in Seq(Views) /\ Len(<<>>) <= 1
    BY DEF Lists
  <2>2. GetInstances \in Lists
    BY Zenon, <1>1, <2>1, RegActive DEF RegTypes, GetInstances
  <2>3. <<View(GetInstances, FALSE)>> \in Seq(Views)
          /\ Len(<<View(GetInstances, FALSE)>>) <= 1
    <3>1. View(GetInstances, FALSE) \in Views
      BY Zenon, <2>2, RegView
    <3>2. ASSUME NEW v \in Views
          PROVE  <<v>> \in Seq(Views) /\ Len(<<v>>) <= 1
      OBVIOUS
    <3>. QED  BY Zenon, <3>1, <3>2
  <2>4. chan[w] # <<>> => Head(chan[w]) \in Views
    BY <1>1 DEF RegTypes
  <2>5. chan' \in [Watchers -> Seq(Views)] /\ \A x \in Watchers :
          Len(chan'[x]) <= 1
    BY Zenon, <1>1, <1>4, <2>1, <2>3 DEF RegTypes, WatchService, Receive
  <2>6. last' \in [Watchers -> Views] /\ watches' \subseteq Watchers
    BY Zenon, <1>1, <1>4, <2>4 DEF RegTypes, WatchService, Receive
  <2>7. UNCHANGED <<services, cap, reg, down>>
    BY Zenon, <1>4 DEF WatchService, Receive
  <2>. QED  BY Zenon, <1>1, <2>5, <2>6, <2>7 DEF RegIInv, RegTypes, LatestListed
<1>5. ASSUME UNCHANGED <<services, cap, reg, down, chan, last>>,
             watches' \subseteq watches
      PROVE  RegIInv'
  BY Zenon, <1>1, <1>5 DEF RegIInv, RegTypes, LatestListed
<1>6. ASSUME NEW w \in Watchers, WatchEnds(w)
      PROVE  RegIInv'
  BY Zenon, <1>5, <1>6 DEF WatchEnds
<1>7. CASE Balancing
  BY Zenon, <1>5, <1>7 DEF Balancing, SetSelector, GetInstanceList, GetInstance
<1>8. CASE UNCHANGED regVars
  BY Zenon, <1>5, <1>8 DEF regVars
<1>. QED  BY Zenon, <1>2, <1>3, <1>4, <1>6, <1>7, <1>8, RegRegister
          DEF RegNext, Registering, Watching

\* What a watcher shows as up is registered.
LEMMA RegEnough ==
  ASSUME RegConstants
  PROVE  RegIInv => NoPhantom
<1>. SUFFICES ASSUME RegIInv, NEW w \in Watchers,
                     NEW v \in Range(chan[w]) \cup {last[w]},
                     NEW inst \in Range(v.insts),
                     IsActive(inst), inst[2] = reg[IdOf(inst)]
              PROVE  services # None /\ inst \in Range(services)
  BY Zenon DEF NoPhantom
<1>1. RegTypes /\ LatestListed
  BY Zenon DEF RegIInv
<1>2. v.insts \in Lists
  <2>1. Range(chan[w]) \subseteq Views
    BY <1>1 DEF RegTypes, Range
  <2>. QED  BY Zenon, <1>1, <2>1, RegView DEF RegTypes
<1>3. inst \in Instances
  BY <1>2 DEF Lists, Range
<1>4. IdOf(inst) \in Ids /\ 0 < reg[IdOf(inst)]
        /\ inst = <<IdOf(inst), reg[IdOf(inst)]>>
  BY <1>3 DEF Instances, IdOf, RegConstants
<1>. QED  BY Zenon, <1>1, <1>4 DEF LatestListed, IsActive

-----------------------------------------------------------------------------
(* The types of the gRPC client and server, and of the registry.           *)

\* The types hold initially.
LEMMA GrpcTypesInit ==
  ASSUME Constants, Init  PROVE TypeOK /\ TriesLeft
<1>1. /\ \A n \in Nat \ {0} : 1 \in 1..n /\ 0 \in 0..n
      /\ 0 \in 0..2
  BY SMT
<1>2. try \in [All -> 1..MaxRetries] /\ runs \in [All -> 0..MaxRetries]
  BY Zenon, <1>1 DEF Init, Constants
<1>3. signals \in [GoCalls -> 0..2]
  BY Zenon, <1>1 DEF Init
<1>4. TriesLeft
  BY Zenon DEF Init, TriesLeft
<1>. QED  BY Zenon, <1>2, <1>3, <1>4 DEF Init, TypeOK

\* Every step keeps the types: no call has more attempts, or runs, than
\* MaxRetries, and none is signalled three times.
LEMMA GrpcTypesNext ==
  ASSUME Constants, IInv, IInv', TypeOK, TriesLeft, [Next]_vars
  PROVE  TypeOK' /\ TriesLeft'
<1>. DEFINE Results == {"none", "ok", "empty", "error", "closed"}
            Wire == All \X (1..MaxRetries)
            Tries == try' \in [All -> 1..MaxRetries] /\ TriesLeft'
            Ends == result' \in [All -> Results]
            Done == /\ signals' \in [GoCalls -> 0..2]
                    /\ own' \cup cut' \cup lost' \subseteq GoCalls
            Sends == requests' \subseteq Wire
            Back == answers' \subseteq Wire \X {"ok", "empty", "temporary", "error"}
            Flags == /\ closed' \in BOOLEAN /\ kind' \in [All -> Kinds]
                     /\ offered' \in BOOLEAN
                     /\ server' \in {"new", "up", "stopping", "stopped"}
            Good == Tries /\ Ends /\ Done /\ Sends /\ Back /\ Flags
<1>1. SUFFICES Good
  <2>1. /\ pc' \in [All -> {"new", "attempt", "await", "backoff", "register", "returned"}]
        /\ retried' \in [All -> BOOLEAN] /\ pending' \subseteq GoCalls
    BY Zenon DEF IInv, Types
  <2>2. runs' \in [All -> 0..MaxRetries]
    <3>1. runs' \in [All -> Nat] /\ \A c \in All : runs'[c] <= try'[c]
      <4>1. RunsMatchAttempts'
        BY PTL, GrpcEnough
      <4>. QED  BY Zenon, <4>1 DEF RunsMatchAttempts, IInv, Types
    <3>2. \A c \in All : runs'[c] \in Nat /\ try'[c] \in 1..MaxRetries
      BY Zenon, <1>1, <3>1
    <3>3. \A m \in Nat, n \in 1..MaxRetries : m <= n => m \in 0..MaxRetries
      BY DEF Constants
    <3>. QED  BY Zenon, <3>1, <3>2, <3>3
  <2>. QED  BY Zenon, <1>1, <2>1, <2>2 DEF TypeOK
<1>2. /\ try \in [All -> 1..MaxRetries] /\ result \in [All -> Results]
      /\ signals \in [GoCalls -> 0..2] /\ own \cup cut \cup lost \subseteq GoCalls
      /\ requests \subseteq Wire
      /\ answers \subseteq Wire \X {"ok", "empty", "temporary", "error"}
      /\ closed \in BOOLEAN /\ kind \in [All -> Kinds] /\ offered \in BOOLEAN
      /\ server \in {"new", "up", "stopping", "stopped"}
  BY Zenon DEF TypeOK
<1>3. pc \in [All -> {"new", "attempt", "await", "backoff", "register", "returned"}]
  BY Zenon DEF TypeOK
<1>4. ASSUME NEW c \in All, NEW l, l # "backoff", pc' = [pc EXCEPT ![c] = l],
             UNCHANGED try
      PROVE  Tries
  BY Zenon, <1>2, <1>3, <1>4 DEF TriesLeft
<1>5. ASSUME NEW c \in All, NEW r \in Results, Finish(c, r)
      PROVE  Ends /\ (UNCHANGED try => Tries)
  <2>1. Ends
    BY Zenon, <1>2, <1>5 DEF Finish
  <2>2. "returned" # "backoff" /\ pc' = [pc EXCEPT ![c] = "returned"]
    BY Zenon, <1>5 DEF Finish
  <2>. QED  BY Zenon, <1>4, <2>1, <2>2
<1>6. ASSUME NEW c \in All, RetryOrGiveUp(c), UNCHANGED try  PROVE Ends /\ Tries
  <2>1. CASE try[c] < MaxRetries
    <3>1. pc' = [pc EXCEPT ![c] = "backoff"] /\ UNCHANGED result
      BY Zenon, <1>6, <2>1 DEF RetryOrGiveUp
    <3>2. TriesLeft'
      BY Zenon, <1>3, <1>6, <2>1, <3>1 DEF TriesLeft
    <3>. QED  BY Zenon, <1>2, <1>6, <3>1, <3>2
  <2>2. CASE ~(try[c] < MaxRetries)
    BY Zenon, <1>5, <1>6, <2>2 DEF RetryOrGiveUp
  <2>. QED  BY Zenon, <2>1, <2>2
<1>7. ASSUME NEW c \in All  PROVE Request(c) \in Wire
  BY Zenon, <1>2 DEF Request
<1>8. ASSUME NEW G \in SUBSET GoCalls, signals' = Signal(signals, G),
             \A g \in GoCalls : g \in G => signals[g] <= 1,
             \E L \in SUBSET MayLose(G) : lost' = lost \cup L,
             UNCHANGED own, cut' = cut \/ cut' = cut \cup G
      PROVE  Done
  <2>1. \A n \in 0..2 : n <= 1 => n + 1 \in 0..2
    BY SMT
  <2>2. signals' \in [GoCalls -> 0..2]
    BY Zenon, <1>2, <1>8, <2>1 DEF Signal
  <2>3. own' \cup cut' \cup lost' \subseteq GoCalls
    BY Zenon, <1>2, <1>8 DEF MayLose
  <2>. QED  BY Zenon, <2>2, <2>3
<1>9. \A c : (c \in Calls => c \in All) /\ (c \in GoCalls => c \in All)
  BY Zenon DEF All
<1>10. /\ result' = result => Ends
       /\ signals' = signals /\ own' = own /\ cut' = cut /\ lost' = lost => Done
       /\ requests' \subseteq requests => Sends
       /\ \A c \in All : requests' = requests \cup {Request(c)} => Sends
       /\ answers' \subseteq answers => Back
       /\ pc' = pc /\ try' = try => Tries
       /\ kind' = kind /\ closed' = closed /\ offered' = offered /\ server' = server => Flags
  <2>1. signals' = signals /\ own' = own /\ cut' = cut /\ lost' = lost => Done
    BY Zenon, <1>2
  <2>2. pc' = pc /\ try' = try => Tries
    BY Zenon, <1>2 DEF TriesLeft
  <2>3. kind' = kind /\ closed' = closed /\ offered' = offered /\ server' = server => Flags
    BY Zenon, <1>2
  <2>4. \A c \in All : requests' = requests \cup {Request(c)} => Sends
    BY Zenon, <1>2, <1>7
  <2>. QED  BY Zenon, <1>2, <2>1, <2>2, <2>3, <2>4
<1>11. ASSUME NEW c \in Calls, Attempt(c)  PROVE Good
  <2>0. c \in All /\ "await" # "backoff" /\ "closed" \in Results
    BY Zenon, <1>9
  <2>1. Flags /\ Done /\ Back /\ UNCHANGED try
    BY Zenon, <1>10, <1>11 DEF Attempt
  <2>2. \/ Finish(c, "closed") /\ requests' = requests
        \/ /\ requests' = requests \cup {Request(c)} /\ result' = result
           /\ pc' = [pc EXCEPT ![c] = "await"]
    BY Zenon, <1>11 DEF Attempt
  <2>3. Tries
    BY Zenon, <1>4, <1>5, <2>0, <2>1, <2>2
  <2>4. Ends
    BY Zenon, <1>5, <1>10, <2>0, <2>2
  <2>5. Sends
    BY Zenon, <1>10, <2>0, <2>2
  <2>. QED  BY Zenon, <2>1, <2>3, <2>4, <2>5
<1>12. ASSUME NEW c \in Calls, CallBegins(c) \/ CallAnswered(c) \/ CallFails(c)
       PROVE  Good
  <2>0. c \in All /\ "attempt" # "backoff" /\ {"closed", "error", "ok", "empty"} \subseteq Results
    BY Zenon, <1>9
  <2>1. Flags /\ Done /\ Sends /\ UNCHANGED try
    BY Zenon, <1>10, <1>12 DEF CallBegins, CallAnswered, CallFails
  <2>2. \/ \E r \in {"closed", "error", "ok", "empty"} : Finish(c, r)
        \/ RetryOrGiveUp(c)
        \/ pc' = [pc EXCEPT ![c] = "attempt"] /\ result' = result
    <3>1. CASE CallAnswered(c)
      <4>1. PICK a \in answers :
              CASE a[2] \in {"ok", "empty"} -> Finish(c, a[2]) /\ UNCHANGED retried
                [] a[2] = "temporary" -> RetryOrGiveUp(c)
                [] a[2] = "error" -> Finish(c, "error") /\ UNCHANGED retried
        BY Zenon, <3>1 DEF CallAnswered
      <4>2. a[2] \in {"ok", "empty", "temporary", "error"}
        BY SMT, <1>2
      <4>. QED  BY <4>1, <4>2
    <3>. QED  BY Zenon, <1>12, <3>1 DEF CallBegins, CallFails
  <2>3. Back
    <3>1. answers' \subseteq answers
      BY Zenon, <1>12 DEF CallBegins, CallAnswered, CallFails
    <3>. QED  BY Zenon, <1>10, <3>1
  <2>4. Tries
    BY Zenon, <1>4, <1>5, <1>6, <2>0, <2>1, <2>2
  <2>5. Ends
    BY Zenon, <1>5, <1>6, <1>10, <2>0, <2>1, <2>2
  <2>. QED  BY Zenon, <2>1, <2>3, <2>4, <2>5
<1>13. ASSUME NEW c \in Calls, BackedOff(c)  PROVE Good
  <2>0. c \in All /\ "error" \in Results
    BY Zenon, <1>9
  <2>1. Flags /\ Done /\ Sends /\ Back
    BY Zenon, <1>10, <1>13 DEF BackedOff
  <2>2. \/ /\ try' = [try EXCEPT ![c] = try[c] + 1] /\ result' = result
           /\ pc' = [pc EXCEPT ![c] = "attempt"]
        \/ Finish(c, "error") /\ UNCHANGED try
    BY Zenon, <1>13 DEF BackedOff, NextTry
  <2>3. Ends
    BY Zenon, <1>5, <1>10, <2>0, <2>2
  <2>4. try[c] \in 1..MaxRetries /\ try[c] < MaxRetries
    BY Zenon, <1>2, <1>13, <2>0 DEF BackedOff, TriesLeft
  <2>5. try[c] + 1 \in 1..MaxRetries
    BY <2>4 DEF Constants
  <2>6. Tries
    BY Zenon, <1>2, <1>3, <1>5, <2>0, <2>2, <2>5 DEF TriesLeft
  <2>. QED  BY Zenon, <2>1, <2>3, <2>6
<1>14. ASSUME NEW g \in GoCalls, GoBegins(g) \/ GoRegisters(g) \/ GoEnds(g)
       PROVE  Good
  <2>0. /\ g \in All /\ {"closed", "error", "ok", "empty"} \subseteq Results
        /\ "register" # "backoff" /\ "await" # "backoff" /\ result[g] \in Results
    BY Zenon, <1>2, <1>9
  <2>1. Flags /\ UNCHANGED try
    BY Zenon, <1>10, <1>14 DEF GoBegins, GoRegisters, GoEnds
  <2>2. Back
    <3>1. answers' \subseteq answers
      BY Zenon, <1>14 DEF GoBegins, GoRegisters, GoEnds
    <3>. QED  BY Zenon, <1>10, <3>1
  <2>3. Sends
    <3>1. requests' = requests \/ requests' = requests \cup {Request(g)}
      BY Zenon, <1>14 DEF GoBegins, GoRegisters, GoEnds
    <3>. QED  BY Zenon, <1>10, <2>0, <3>1
  <2>4. \/ \E r \in Results : Finish(g, r)
        \/ /\ result' = result
           /\ \E l \in {"register", "await"} : pc' = [pc EXCEPT ![g] = l]
    BY Zenon, <1>14, <2>0 DEF GoBegins, GoRegisters, GoEnds
  <2>5. Tries /\ Ends
    BY Zenon, <1>4, <1>5, <1>10, <2>0, <2>1, <2>4
  <2>6. Done
    <3>1. /\ pc[g] # "returned" /\ own' = own /\ cut' = cut
          /\ \/ signals' = signals /\ lost' = lost
             \/ /\ signals' = Signal(signals, {g})
                /\ \E L \in SUBSET MayLose({g}) : lost' = lost \cup L
      BY Zenon, <1>14 DEF GoBegins, GoRegisters, GoEnds
    <3>2. signals[g] <= 1
      BY <3>1 DEF IInv, SignalledAt
    <3>3. {g} \in SUBSET GoCalls /\ \A h \in GoCalls : h \in {g} => signals[h] <= 1
      BY Zenon, <3>2
    <3>. QED  BY Zenon, <1>8, <1>10, <3>1, <3>3
  <2>. QED  BY Zenon, <2>1, <2>2, <2>3, <2>5, <2>6
<1>15. CASE Close
  <2>1. Sends /\ Back /\ Tries
    BY Zenon, <1>10, <1>15 DEF Close
  <2>2. Flags
    BY Zenon, <1>2, <1>15 DEF Close, Flags
  <2>3. Ends
    <3>1. "closed" \in Results
      BY Zenon
    <3>. QED  BY Zenon, <1>2, <1>15, <3>1 DEF Close, Ends
  <2>4. Done
    <3>1. \A h \in GoCalls : h \in pending => signals[h] = 0
      BY Zenon, GrpcEnough DEF SignalledOnce
    <3>2. \A h \in GoCalls : h \in pending => signals[h] <= 1
      BY SMT, <3>1
    <3>3. pending \in SUBSET GoCalls
      BY Zenon DEF IInv, Types
    <3>. QED  BY Zenon, <1>8, <1>15, <3>2, <3>3 DEF Close
  <2>. QED  BY Zenon, <2>1, <2>2, <2>3, <2>4
<1>16. ASSUME NEW r \in Wire, Serve(r) \/ Lose(r)  PROVE Good
  <2>1. Flags /\ Done /\ Ends /\ Tries
    BY Zenon, <1>10, <1>16 DEF Serve, Lose
  <2>2. Sends
    <3>1. requests' \subseteq requests
      BY Zenon, <1>16 DEF Serve, Lose
    <3>. QED  BY Zenon, <1>10, <3>1
  <2>3. Back
    <3>1. CASE Serve(r)
      <4>1. PICK o \in Outcomes(r[1]) : answers' = answers \cup {<<r, o>>}
        BY Zenon, <3>1 DEF Serve
      <4>2. o \in {"ok", "empty", "temporary", "error"}
        BY Zenon DEF Outcomes
      <4>3. <<r, o>> \in Wire \X {"ok", "empty", "temporary", "error"}
        BY Zenon, <4>2
      <4>. QED  BY Zenon, <1>2, <4>1, <4>3 DEF Back
    <3>2. CASE Lose(r)
      BY Zenon, <1>10, <3>2 DEF Lose
    <3>. QED  BY Zenon, <1>16, <3>1, <3>2
  <2>. QED  BY Zenon, <2>1, <2>2, <2>3
<1>17. CASE Register \/ Start \/ StopBegins \/ StopEnds
  <2>1. Tries /\ Ends /\ Done /\ Sends /\ Back
    BY Zenon, <1>10, <1>17 DEF Register, Start, StopBegins, StopEnds
  <2>2. Flags
    BY Zenon, <1>2, <1>17 DEF Register, Start, StopBegins, StopEnds, Flags
  <2>. QED  BY Zenon, <2>1, <2>2
<1>18. CASE UNCHANGED vars
  BY Zenon, <1>10, <1>18 DEF vars
<1>. HIDE DEF Good
<1>. QED
  BY Zenon, <1>11, <1>12, <1>13, <1>14, <1>15, <1>16, <1>17, <1>18 DEF Next

\* The types hold in every state of the invariant.
LEMMA RegTypesHold ==
  ASSUME RegIInv  PROVE RegTypeOK
<1>1. \A v \in Views : v.insts \in Lists
  BY SMT DEF Views
<1>. QED  BY Zenon, <1>1 DEF RegIInv, RegTypes, RegTypeOK
=============================================================================
