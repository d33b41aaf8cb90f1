------------------------------- MODULE Services -------------------------------
(***************************************************************************)
(* The components that share no state with each other, in one              *)
(* specification: a behaviour is one of the component `part'.  The state   *)
(* variables v1 to v16 stand for the variables of that component, in the   *)
(* order of its VARIABLES declaration; those it does not need keep None.   *)
(*                                                                         *)
(* The registry has two parts, for its watchers and for the load balancer, *)
(* which meet in the registered instances only.                            *)
(*                                                                         *)
(* Each component is followed by the proof that its inductive invariant,   *)
(* the IInv of its module, holds initially and is kept by every step.  The *)
(* theorems about the whole specification are at the end.                  *)
(***************************************************************************)
EXTENDS Naturals, Sequences, TLAPS

CONSTANTS NetClients, SendCap,               \* WebSocket server
          ConnCallers, MaxCalls,             \* gRPC connection manager
          RegIds, RegWeight, Watchers, MaxReg, IdxPeriod,  \* RPC registry
          Calls, GoCalls, MaxRetries, DoneRoom,  \* gRPC client and server
          SimpleCalls,                       \* stand-alone RPC client
          Handlers, PHandlers, MaxRegs, Messages, MaxOpen,  \* publish/subscribe
          Sessions, MaxPairs,                \* secure connections
          RouteIds, RouteWeight, RouteCallers, MaxChanges, Caps, Period,
          None,                              \* nothing, nobody
          Failed                             \* a call returned an error

VARIABLES part, v1, v2, v3, v4, v5, v6, v7, v8, v9, v10, v11, v12, v13, v14,
          v15, v16

vars == <<part, v1, v2, v3, v4, v5, v6, v7, v8, v9, v10, v11, v12, v13, v14,
          v15, v16>>

\* The names of the parts differ.
LEMMA PartNames ==
  /\ "network" \notin {"conn", "watchers", "balancer", "grpc", "simple",
                       "pubsub", "secure", "router"}
  /\ "conn" \notin {"watchers", "balancer", "grpc", "simple", "pubsub",
                    "secure", "router"}
  /\ "watchers" \notin {"balancer", "grpc", "simple", "pubsub", "secure",
                        "router"}
  /\ "balancer" \notin {"grpc", "simple", "pubsub", "secure", "router"}
  /\ "grpc" \notin {"simple", "pubsub", "secure", "router"}
  /\ "simple" \notin {"pubsub", "secure", "router"}
  /\ "pubsub" \notin {"secure", "router"}
  /\ "secure" \notin {"router"}
<1>1. "network" \notin {"conn", "watchers", "balancer", "grpc", "simple",
                        "pubsub", "secure", "router"}
  BY SMT
<1>2. /\ "conn" \notin {"watchers", "balancer", "grpc", "simple", "pubsub",
                        "secure", "router"}
      /\ "watchers" \notin {"balancer", "grpc", "simple", "pubsub", "secure",
                            "router"}
  BY SMT
<1>3. /\ "balancer" \notin {"grpc", "simple", "pubsub", "secure", "router"}
      /\ "grpc" \notin {"simple", "pubsub", "secure", "router"}
      /\ "simple" \notin {"pubsub", "secure", "router"}
      /\ "pubsub" \notin {"secure", "router"}
      /\ "secure" \notin {"router"}
  BY SMT
<1>. QED  BY Zenon, <1>1, <1>2, <1>3

-----------------------------------------------------------------------------
(* The gRPC connection manager.                                             *)

Conn == INSTANCE ConnManager WITH
          Callers <- ConnCallers, Error <- Failed,
          registered <- v1, state <- v2, lock <- v3, pc <- v4, entry <- v5,
          result <- v6, calls <- v7, stopped <- v8, dead <- v9

\* None stands for no entry.
ASSUME ConnAssumption == Conn!Constants

\* The invariant holds initially.
LEMMA ConnInit ==
  ASSUME Conn!Init  PROVE Conn!IInv
BY ConnAssumption
   DEF Conn!Init, Conn!IInv, Conn!Types, Conn!OnlyRegistered, Conn!DialsItsOwn,
       Conn!Live, Conn!Constants

\* One step of any caller, or of the manager, keeps IInv.
LEMMA ConnNext ==
  ASSUME Conn!IInv, [Conn!Next]_(Conn!vars)
  PROVE  Conn!IInv'
<1>. USE ConnAssumption
         DEF Conn!IInv, Conn!Types, Conn!OnlyRegistered, Conn!DialsItsOwn,
             Conn!Live
<1>1. CASE UNCHANGED Conn!vars
  BY Zenon, <1>1 DEF Conn!vars
<1>2. ASSUME NEW p \in ConnCallers, ~v9, Conn!FirstLook(p)  PROVE Conn!IInv'
  BY <1>2 DEF Conn!FirstLook, Conn!Await, Conn!Return, Conn!Constants
<1>3. ASSUME NEW p \in ConnCallers, ~v9, Conn!WaitedOutside(p)  PROVE Conn!IInv'
  BY Zenon, <1>3 DEF Conn!WaitedOutside, Conn!Return
<1>4. ASSUME NEW p \in ConnCallers, ~v9, Conn!TimedOutOutside(p)
      PROVE  Conn!IInv'
  BY Zenon, <1>4 DEF Conn!TimedOutOutside, Conn!Return
<1>5. ASSUME NEW p \in ConnCallers, ~v9, Conn!SecondLook(p)  PROVE Conn!IInv'
  <2>1. Conn!Types'
    BY SMTT(30), <1>5
       DEF Conn!SecondLook, Conn!Await, Conn!Return, Conn!InCreation,
           Conn!Usable, Conn!Entries, Conn!Constants
  <2>2. Conn!OnlyRegistered'
    BY <1>5
       DEF Conn!SecondLook, Conn!Await, Conn!Return, Conn!InCreation,
           Conn!Usable, Conn!Entries, Conn!Constants
  <2>3. Conn!DialsItsOwn'
    BY <1>5
       DEF Conn!SecondLook, Conn!Await, Conn!Return, Conn!InCreation,
           Conn!Usable, Conn!Entries, Conn!Constants
  <2>. QED  BY Zenon, <2>1, <2>2, <2>3
<1>6. ASSUME NEW p \in ConnCallers, ~v9,
             Conn!TimedOutInside(p) \/ Conn!WaitedInside(p) \/ Conn!UnlockAgain(p)
      PROVE  Conn!IInv'
  BY Zenon, <1>6
     DEF Conn!TimedOutInside, Conn!WaitedInside, Conn!UnlockAgain, Conn!Return
<1>7. ASSUME NEW p \in ConnCallers, ~v9, Conn!Dialled(p)  PROVE Conn!IInv'
  <2>1. Conn!Types'
    BY Zenon, <1>7 DEF Conn!Dialled, Conn!Return, Conn!Entries
  <2>2. Conn!OnlyRegistered'
    BY Zenon, <1>7 DEF Conn!Dialled, Conn!Return, Conn!Entries
  <2>3. Conn!DialsItsOwn'
    BY <1>7 DEF Conn!Dialled, Conn!Return, Conn!Entries
  <2>. QED  BY Zenon, <2>1, <2>2, <2>3
<1>8. ASSUME NEW p \in ConnCallers, ~v9, Conn!DialFails(p)  PROVE Conn!IInv'
  <2>1. Conn!Types'
    BY Zenon, <1>8 DEF Conn!DialFails, Conn!Return, Conn!Entries, Conn!Constants
  <2>2. Conn!OnlyRegistered'
    BY <1>8 DEF Conn!DialFails, Conn!Return, Conn!Entries, Conn!Constants
  <2>3. Conn!DialsItsOwn'
    BY <1>8 DEF Conn!DialFails, Conn!Return, Conn!Entries, Conn!Constants
  <2>. QED  BY Zenon, <2>1, <2>2, <2>3
<1>9. ASSUME ~v9, Conn!Fails \/ Conn!Recovers  PROVE Conn!IInv'
  <2>1. Conn!Types'
    BY Zenon, <1>9 DEF Conn!Fails, Conn!Recovers, Conn!Constants
  <2>2. Conn!OnlyRegistered'
    BY Zenon, <1>9 DEF Conn!Fails, Conn!Recovers, Conn!Constants
  <2>3. Conn!DialsItsOwn'
    <3>1. CASE Conn!Fails
      BY <1>9, <3>1 DEF Conn!Fails, Conn!Constants
    <3>2. CASE Conn!Recovers
      BY <1>9, <3>2 DEF Conn!Recovers, Conn!Constants
    <3>. QED  BY Zenon, <1>9, <3>1, <3>2
  <2>. QED  BY Zenon, <2>1, <2>2, <2>3
<1>10. ASSUME ~v9, v1 # None, Conn!Drop, UNCHANGED <<v4, v5, v7>>
       PROVE  Conn!IInv'
  <2>1. CASE v2[v1] = "creating"
    BY Zenon, <1>10, <2>1 DEF Conn!Drop
  <2>2. CASE v2[v1] # "creating"
    <3>1. /\ v1' = None /\ v9' = v9
          /\ v2' = [v2 EXCEPT ![v1] = "shut"]
      BY Zenon, <1>10, <2>2 DEF Conn!Drop
    <3>2. ASSUME NEW p \in ConnCallers, v4'[p] = "dial"
          PROVE  v5'[p] = <<p, v7'[p]>> /\ v2'[v5'[p]] = "creating"
      <4>1. /\ v5' = v5 /\ v7' = v7 /\ v4[p] = "dial"
            /\ v5[p] = <<p, v7[p]>> /\ v2[v5[p]] = "creating"
        BY Zenon, <1>10, <3>2
      <4>2. v5[p] # v1 /\ v5[p] \in Conn!Entries
        <5>1. v7[p] \in 1..MaxCalls
          BY <4>1 DEF Conn!Constants
        <5>. QED  BY <4>1, <5>1, <2>2 DEF Conn!Entries
      <4>3. v2'[v5[p]] = v2[v5[p]]
        BY Zenon, <3>1, <4>2
      <4>. QED  BY Zenon, <4>1, <4>3
    <3>3. Conn!Types'
      BY Zenon, <1>10, <3>1 DEF Conn!Constants
    <3>4. Conn!OnlyRegistered'
      BY Zenon, <1>10, <3>1 DEF Conn!Constants
    <3>. QED  BY Zenon, <3>2, <3>3, <3>4
  <2>. QED  BY Zenon, <2>1, <2>2
<1>11. ASSUME ~v9, Conn!Close \/ Conn!CleanupIdleConnections  PROVE Conn!IInv'
  BY Zenon, <1>10, <1>11 DEF Conn!Close, Conn!CleanupIdleConnections
<1>12. ASSUME ~v9, Conn!CloseAll  PROVE Conn!IInv'
  <2>1. CASE v8
    BY Zenon, <1>12, <2>1 DEF Conn!CloseAll
  <2>2. CASE ~v8 /\ v1 = None
    BY Zenon, <1>12, <2>2 DEF Conn!CloseAll
  <2>3. CASE ~v8 /\ v1 # None
    BY Zenon, <1>10, <1>12, <2>3 DEF Conn!CloseAll
  <2>. QED  BY Zenon, <2>1, <2>2, <2>3
<1>. QED
  BY Zenon, <1>1, <1>2, <1>3, <1>4, <1>5, <1>6, <1>7, <1>8, <1>9, <1>10, <1>11,
     <1>12 DEF Conn!Next, Conn!Step

\* The types hold initially.
LEMMA ConnTypesInit ==
  ASSUME Conn!Init  PROVE Conn!TypeOK
<1>1. 0 \in 0..MaxCalls
  BY ConnAssumption DEF Conn!Constants
<1>. QED  BY Zenon, <1>1 DEF Conn!Init, Conn!TypeOK

\* Every step keeps them.
LEMMA ConnTypesNext ==
  ASSUME Conn!IInv, Conn!IInv', Conn!TypeOK, [Conn!Next]_(Conn!vars)
  PROVE  Conn!TypeOK'
<1>. DEFINE Answers == Conn!Entries \cup {None, Failed}
            Good == /\ v3' \in ConnCallers \cup {None}
                    /\ v6' \in [ConnCallers -> Answers]
                    /\ v8' \in BOOLEAN /\ v9' \in BOOLEAN
<1>1. SUFFICES Good
  BY Zenon, <1>1 DEF Conn!TypeOK, Conn!IInv, Conn!Types
<1>2. /\ v3 \in ConnCallers \cup {None} /\ v6 \in [ConnCallers -> Answers]
      /\ v8 \in BOOLEAN /\ v9 \in BOOLEAN
      /\ v1 \in Answers /\ Failed \in Answers
      /\ \A p \in ConnCallers : v5[p] \in Answers
  BY Zenon DEF Conn!TypeOK
<1>3. ASSUME NEW p \in ConnCallers, Conn!Step(p)  PROVE Good
  <2>1. \/ v6' = v6
        \/ \E r \in Answers : Conn!Return(p, r)
    <3>1. CASE Conn!FirstLook(p)
      BY Zenon, <1>2, <3>1 DEF Conn!FirstLook, Conn!Await
    <3>2. CASE Conn!SecondLook(p)
      BY Zenon, <1>2, <3>2 DEF Conn!SecondLook, Conn!Await
    <3>3. CASE \/ Conn!WaitedOutside(p) \/ Conn!TimedOutOutside(p)
               \/ Conn!Dialled(p) \/ Conn!DialFails(p)
      BY Zenon, <1>2, <3>3
         DEF Conn!WaitedOutside, Conn!TimedOutOutside, Conn!Dialled, Conn!DialFails
    <3>4. CASE Conn!TimedOutInside(p) \/ Conn!WaitedInside(p) \/ Conn!UnlockAgain(p)
      BY Zenon, <1>2, <3>4
         DEF Conn!TimedOutInside, Conn!WaitedInside, Conn!UnlockAgain
    <3>. QED  BY Zenon, <1>3, <3>1, <3>2, <3>3, <3>4 DEF Conn!Step
  <2>2. v6' \in [ConnCallers -> Answers]
    BY Zenon, <1>2, <2>1 DEF Conn!Return
  <2>3. v8' = v8 /\ v9' \in {v9, TRUE} /\ v3' \in {v3, p, None}
    <3>1. CASE Conn!FirstLook(p)
      BY Zenon, <3>1 DEF Conn!FirstLook
    <3>2. CASE Conn!SecondLook(p)
      BY Zenon, <3>2 DEF Conn!SecondLook
    <3>3. CASE \/ Conn!WaitedOutside(p) \/ Conn!TimedOutOutside(p)
               \/ Conn!Dialled(p) \/ Conn!DialFails(p)
      BY Zenon, <3>3
         DEF Conn!WaitedOutside, Conn!TimedOutOutside, Conn!Dialled, Conn!DialFails
    <3>4. CASE Conn!TimedOutInside(p) \/ Conn!WaitedInside(p) \/ Conn!UnlockAgain(p)
      BY Zenon, <3>4
         DEF Conn!TimedOutInside, Conn!WaitedInside, Conn!UnlockAgain, Conn!Unlock
    <3>. QED  BY Zenon, <1>3, <3>1, <3>2, <3>3, <3>4 DEF Conn!Step
  <2>. QED  BY Zenon, <1>2, <2>2, <2>3
<1>4. CASE \/ Conn!Fails \/ Conn!Recovers \/ Conn!Close
           \/ Conn!CleanupIdleConnections \/ Conn!CloseAll \/ UNCHANGED Conn!vars
  <2>1. v3' = v3 /\ v6' = v6 /\ v8' \in {v8, TRUE} /\ v9' \in {v9, TRUE}
    BY Zenon, <1>4
       DEF Conn!Fails, Conn!Recovers, Conn!Close, Conn!CleanupIdleConnections,
           Conn!CloseAll, Conn!Drop, Conn!vars
  <2>. QED  BY Zenon, <1>2, <2>1
<1>. HIDE DEF Good
<1>. QED  BY Zenon, <1>3, <1>4 DEF Conn!Next

-----------------------------------------------------------------------------
(* The secure connection.                                                   *)

Link == INSTANCE SecureLink WITH
          privateKey <- v1, publicKey <- v2, made <- v3, outdated <- v4,
          rotator <- v5, sessionKeys <- v6, pc <- v7, secret <- v8,
          sent <- v9, crossed <- v10, up <- v11, down <- v12

\* The manager makes a pair at the start.
ASSUME LinkAssumption == Link!Constants

\* The invariant holds initially.
LEMMA LinkInit == Link!Init => Link!IInv
BY DEF Link!Init, Link!IInv, Link!Types, Link!PairIsWhole, Link!DerivedFromPair,
       Link!QuietBefore, Link!KeysAgree

\* Each step of a handshake, a rotation or an open connection keeps IInv.
LEMMA LinkNext ==
  ASSUME Link!IInv, [Link!Next]_(Link!vars)
  PROVE  Link!IInv'
<1>. USE DEF Link!IInv, Link!keyVars, Link!linkVars, Link!Goto
<1>1. CASE UNCHANGED Link!vars
  BY Zenon, <1>1
     DEF Link!vars, Link!Types, Link!PairIsWhole, Link!DerivedFromPair,
         Link!QuietBefore, Link!KeysAgree
<1>2. ASSUME Link!Expire  PROVE Link!IInv'
  <2>1. Link!Types'
    BY Zenon, <1>2 DEF Link!Expire, Link!Types
  <2>2. Link!PairIsWhole'
    BY Zenon, <1>2 DEF Link!Expire, Link!Types, Link!PairIsWhole
  <2>3. Link!DerivedFromPair'
    BY Zenon, <1>2
       DEF Link!Expire, Link!Types, Link!PairIsWhole, Link!DerivedFromPair
  <2>4. Link!QuietBefore'
    BY Zenon, <1>2 DEF Link!Expire, Link!Types, Link!QuietBefore
  <2>5. Link!KeysAgree'
    BY Zenon, <1>2 DEF Link!Expire, Link!Types, Link!KeysAgree
  <2>. QED  BY Zenon, <2>1, <2>2, <2>3, <2>4, <2>5
<1>3. ASSUME NEW s \in Sessions, Link!ReadRequest(s)  PROVE Link!IInv'
  <2>1. Link!Types'
    BY Zenon, <1>3 DEF Link!ReadRequest, Link!Types
  <2>2. Link!PairIsWhole'
    BY Zenon, <1>3 DEF Link!ReadRequest, Link!Types, Link!PairIsWhole
  <2>3. Link!DerivedFromPair'
    BY Zenon, <1>3
       DEF Link!ReadRequest, Link!Types, Link!PairIsWhole, Link!DerivedFromPair
  <2>4. Link!QuietBefore'
    BY Zenon, <1>3 DEF Link!ReadRequest, Link!Types, Link!QuietBefore
  <2>5. Link!KeysAgree'
    BY Zenon, <1>3 DEF Link!ReadRequest, Link!Types, Link!KeysAgree
  <2>. QED  BY Zenon, <2>1, <2>2, <2>3, <2>4, <2>5
<1>4. ASSUME NEW s \in Sessions, Link!CheckExpiration(s)  PROVE Link!IInv'
  <2>1. Link!Types'
    BY Zenon, <1>4 DEF Link!CheckExpiration, Link!Types
  <2>2. Link!PairIsWhole'
    BY Zenon, <1>4 DEF Link!CheckExpiration, Link!Types, Link!PairIsWhole
  <2>3. Link!DerivedFromPair'
    BY Zenon, <1>4
       DEF Link!CheckExpiration, Link!Types, Link!PairIsWhole,
           Link!DerivedFromPair
  <2>4. Link!QuietBefore'
    BY Zenon, <1>4 DEF Link!CheckExpiration, Link!Types, Link!QuietBefore
  <2>5. Link!KeysAgree'
    BY Zenon, <1>4 DEF Link!CheckExpiration, Link!Types, Link!KeysAgree
  <2>. QED  BY Zenon, <2>1, <2>2, <2>3, <2>4, <2>5
<1>5. ASSUME NEW s \in Sessions, Link!RotatePrivate(s)  PROVE Link!IInv'
  <2>1. Link!Types'
    BY <1>5 DEF Link!RotatePrivate, Link!Cross, Link!Between, Link!Types
  <2>2. Link!PairIsWhole'
    BY Zenon, <1>5
       DEF Link!RotatePrivate, Link!Cross, Link!Between, Link!Types,
           Link!PairIsWhole
  <2>3. Link!DerivedFromPair'
    BY Zenon, <1>5
       DEF Link!RotatePrivate, Link!Cross, Link!Between, Link!Types,
           Link!PairIsWhole, Link!DerivedFromPair
  <2>4. Link!QuietBefore'
    BY Zenon, <1>5
       DEF Link!RotatePrivate, Link!Cross, Link!Between, Link!Types,
           Link!QuietBefore
  <2>5. Link!KeysAgree'
    BY Zenon, <1>5
       DEF Link!RotatePrivate, Link!Cross, Link!Between, Link!Types,
           Link!KeysAgree
  <2>. QED  BY Zenon, <2>1, <2>2, <2>3, <2>4, <2>5
<1>6. ASSUME NEW s \in Sessions, Link!RotatePublic(s)  PROVE Link!IInv'
  <2>1. Link!Types'
    BY Zenon, <1>6
       DEF Link!RotatePublic, Link!Cross, Link!Between, Link!NewPublicKey,
           Link!Types
  <2>2. Link!PairIsWhole'
    BY Zenon, <1>6
       DEF Link!RotatePublic, Link!Cross, Link!Between, Link!NewPublicKey,
           Link!Types, Link!PairIsWhole
  <2>3. Link!DerivedFromPair'
    BY Zenon, <1>6
       DEF Link!RotatePublic, Link!Cross, Link!Between, Link!NewPublicKey,
           Link!Types, Link!PairIsWhole, Link!DerivedFromPair
  <2>4. Link!QuietBefore'
    BY Zenon, <1>6
       DEF Link!RotatePublic, Link!Cross, Link!Between, Link!NewPublicKey,
           Link!Types, Link!QuietBefore
  <2>5. Link!KeysAgree'
    BY Zenon, <1>6
       DEF Link!RotatePublic, Link!Cross, Link!Between, Link!NewPublicKey,
           Link!Types, Link!KeysAgree
  <2>. QED  BY Zenon, <2>1, <2>2, <2>3, <2>4, <2>5
<1>7. ASSUME NEW s \in Sessions, Link!Derive(s)  PROVE Link!IInv'
  <2>1. Link!Types'
    <3>1. v10' \in [Sessions -> BOOLEAN]
      <4>1. (v5 # {}) \in BOOLEAN
        BY Zenon
      <4>2. \A b \in BOOLEAN : [v10 EXCEPT ![s] = b] \in [Sessions -> BOOLEAN]
        BY Zenon DEF Link!Types
      <4>. QED  BY Zenon, <1>7, <4>1, <4>2 DEF Link!Derive, Link!Types
    <3>2. /\ {v6, v8, v9, v11, v12}' \subseteq [Sessions -> Nat]
          /\ {v1, v2, v3}' \subseteq Nat
      BY <1>7 DEF Link!Derive, Link!Types
    <3>3. v7' \in [Sessions -> {"request", "check", "rotate", "rotating",
                                "derive", "store", "publish", "open",
                                "closing", "closed", "failed"}]
      BY Zenon, <1>7 DEF Link!Derive, Link!Types
    <3>. QED  BY Zenon, <3>1, <3>2, <3>3 DEF Link!Types
  <2>2. Link!PairIsWhole'
    BY Zenon, <1>7 DEF Link!Derive, Link!Types, Link!PairIsWhole
  <2>3. Link!DerivedFromPair'
    BY <1>7 DEF Link!Derive, Link!Types, Link!PairIsWhole, Link!DerivedFromPair
  <2>4. Link!QuietBefore'
    BY Zenon, <1>7 DEF Link!Derive, Link!Types, Link!QuietBefore
  <2>5. Link!KeysAgree'
    BY <1>7 DEF Link!Derive, Link!Types, Link!KeysAgree
  <2>. QED  BY Zenon, <2>1, <2>2, <2>3, <2>4, <2>5
<1>8. ASSUME NEW s \in Sessions, Link!StoreKey(s)  PROVE Link!IInv'
  <2>1. Link!Types'
    BY <1>8 DEF Link!StoreKey, Link!Types
  <2>2. Link!PairIsWhole'
    BY Zenon, <1>8 DEF Link!StoreKey, Link!Types, Link!PairIsWhole
  <2>3. Link!DerivedFromPair'
    BY Zenon, <1>8
       DEF Link!StoreKey, Link!Types, Link!PairIsWhole, Link!DerivedFromPair
  <2>4. Link!QuietBefore'
    BY Zenon, <1>8 DEF Link!StoreKey, Link!Types, Link!QuietBefore
  <2>5. Link!KeysAgree'
    BY Zenon, <1>8 DEF Link!StoreKey, Link!Types, Link!KeysAgree
  <2>. QED  BY Zenon, <2>1, <2>2, <2>3, <2>4, <2>5
<1>9. ASSUME NEW s \in Sessions, Link!Respond(s)  PROVE Link!IInv'
  <2>1. Link!Types'
    BY <1>9 DEF Link!Respond, Link!Types
  <2>2. Link!PairIsWhole'
    BY Zenon, <1>9 DEF Link!Respond, Link!Types, Link!PairIsWhole
  <2>3. Link!DerivedFromPair'
    BY Zenon, <1>9
       DEF Link!Respond, Link!Types, Link!PairIsWhole, Link!DerivedFromPair
  <2>4. Link!QuietBefore'
    BY Zenon, <1>9 DEF Link!Respond, Link!Types, Link!QuietBefore
  <2>5. Link!KeysAgree'
    BY <1>9
       DEF Link!Respond, Link!Types, Link!PairIsWhole, Link!DerivedFromPair,
           Link!QuietBefore, Link!KeysAgree
  <2>. QED  BY Zenon, <2>1, <2>2, <2>3, <2>4, <2>5
<1>10. ASSUME NEW s \in Sessions, Link!Send(s)  PROVE Link!IInv'
  <2>1. Link!Types'
    BY <1>10 DEF Link!Send, Link!Encrypt, Link!Types
  <2>2. Link!PairIsWhole'
    BY Zenon, <1>10 DEF Link!Send, Link!Encrypt, Link!Types, Link!PairIsWhole
  <2>3. Link!DerivedFromPair'
    BY Zenon, <1>10
       DEF Link!Send, Link!Encrypt, Link!Types, Link!PairIsWhole,
           Link!DerivedFromPair
  <2>4. Link!QuietBefore'
    BY Zenon, <1>10 DEF Link!Send, Link!Encrypt, Link!Types, Link!QuietBefore
  <2>5. Link!KeysAgree'
    BY Zenon, <1>10 DEF Link!Send, Link!Encrypt, Link!Types, Link!KeysAgree
  <2>. QED  BY Zenon, <2>1, <2>2, <2>3, <2>4, <2>5
<1>11. ASSUME NEW s \in Sessions, Link!ClientSends(s)  PROVE Link!IInv'
  <2>1. Link!Types'
    BY <1>11 DEF Link!ClientSends, Link!Types
  <2>2. Link!PairIsWhole'
    BY Zenon, <1>11 DEF Link!ClientSends, Link!Types, Link!PairIsWhole
  <2>3. Link!DerivedFromPair'
    BY Zenon, <1>11
       DEF Link!ClientSends, Link!Types, Link!PairIsWhole, Link!DerivedFromPair
  <2>4. Link!QuietBefore'
    BY Zenon, <1>11 DEF Link!ClientSends, Link!Types, Link!QuietBefore
  <2>5. Link!KeysAgree'
    BY Zenon, <1>11 DEF Link!ClientSends, Link!Types, Link!KeysAgree
  <2>. QED  BY Zenon, <2>1, <2>2, <2>3, <2>4, <2>5
<1>12. ASSUME NEW s \in Sessions, Link!ClientReceives(s)  PROVE Link!IInv'
  <2>1. Link!Types'
    BY <1>12 DEF Link!ClientReceives, Link!Types
  <2>2. Link!PairIsWhole'
    BY Zenon, <1>12 DEF Link!ClientReceives, Link!Types, Link!PairIsWhole
  <2>3. Link!DerivedFromPair'
    BY Zenon, <1>12
       DEF Link!ClientReceives, Link!Types, Link!PairIsWhole,
           Link!DerivedFromPair
  <2>4. Link!QuietBefore'
    BY Zenon, <1>12 DEF Link!ClientReceives, Link!Types, Link!QuietBefore
  <2>5. Link!KeysAgree'
    BY Zenon, <1>12 DEF Link!ClientReceives, Link!Types, Link!KeysAgree
  <2>. QED  BY Zenon, <2>1, <2>2, <2>3, <2>4, <2>5
<1>13. ASSUME NEW s \in Sessions, Link!Receive(s)  PROVE Link!IInv'
  <2>1. Link!Types'
    BY <1>13 DEF Link!Receive, Link!Decrypts, Link!Types
  <2>2. Link!PairIsWhole'
    BY Zenon, <1>13
       DEF Link!Receive, Link!Decrypts, Link!Types, Link!PairIsWhole
  <2>3. Link!DerivedFromPair'
    BY Zenon, <1>13
       DEF Link!Receive, Link!Decrypts, Link!Types, Link!PairIsWhole,
           Link!DerivedFromPair
  <2>4. Link!QuietBefore'
    BY Zenon, <1>13
       DEF Link!Receive, Link!Decrypts, Link!Types, Link!QuietBefore
  <2>5. Link!KeysAgree'
    BY Zenon, <1>13 DEF Link!Receive, Link!Decrypts, Link!Types, Link!KeysAgree
  <2>. QED  BY Zenon, <2>1, <2>2, <2>3, <2>4, <2>5
<1>14. ASSUME NEW s \in Sessions, Link!Close(s)  PROVE Link!IInv'
  <2>1. Link!Types'
    BY <1>14 DEF Link!Close, Link!Types
  <2>2. Link!PairIsWhole'
    BY Zenon, <1>14 DEF Link!Close, Link!Types, Link!PairIsWhole
  <2>3. Link!DerivedFromPair'
    BY Zenon, <1>14
       DEF Link!Close, Link!Types, Link!PairIsWhole, Link!DerivedFromPair
  <2>4. Link!QuietBefore'
    BY Zenon, <1>14 DEF Link!Close, Link!Types, Link!QuietBefore
  <2>5. Link!KeysAgree'
    BY Zenon, <1>14 DEF Link!Close, Link!Types, Link!KeysAgree
  <2>. QED  BY Zenon, <2>1, <2>2, <2>3, <2>4, <2>5
<1>. QED
  BY Zenon, <1>1, <1>2, <1>3, <1>4, <1>5, <1>6, <1>7,
     <1>8, <1>9, <1>10, <1>11, <1>12, <1>13, <1>14 DEF Link!Next

\* The types hold initially.
LEMMA LinkTypesInit ==
  ASSUME Link!Init  PROVE Link!TypeOK
<1>1. /\ v1 \in 1..v3 /\ v2 \in 1..v3 /\ v3 \in 1..MaxPairs /\ 0 \in 0..v3
  BY LinkAssumption DEF Link!Constants, Link!Init
<1>2. \A f \in {v6, v8, v9, v11, v12} : f \in [Sessions -> 0..v3]
  BY Zenon, <1>1 DEF Link!Init
<1>. QED  BY Zenon, <1>1, <1>2 DEF Link!Init, Link!TypeOK

\* Every step keeps them: no session has a key of a pair not yet made, and no
\* more pairs are made than MaxPairs.
LEMMA LinkTypesNext ==
  ASSUME Link!IInv', Link!TypeOK, [Link!Next]_(Link!vars)
  PROVE  Link!TypeOK'
<1>. DEFINE Kept(f, g) ==
              \/ g = f
              \/ \E s \in Sessions, n \in 0..v3 : g = [f EXCEPT ![s] = n]
            Keys == /\ Kept(v6, v6') /\ Kept(v8, v8') /\ Kept(v9, v9')
                    /\ Kept(v11, v11') /\ Kept(v12, v12')
            Made == v3' = v3 \/ (v3' = v3 + 1 /\ v3 < MaxPairs)
            Pair == /\ v1' \in {v1, v3'} /\ v2' \in {v2, v1}
                    /\ v4' \in BOOLEAN /\ v5' \subseteq Sessions
            Good == Keys /\ Made /\ Pair
<1>1. /\ v1 \in 1..v3 /\ v2 \in 1..v3 /\ v3 \in 1..MaxPairs
      /\ v4 \in BOOLEAN /\ v5 \subseteq Sessions
      /\ \A f \in {v6, v8, v9, v11, v12} : f \in [Sessions -> 0..v3]
  BY Zenon DEF Link!TypeOK
<1>2. SUFFICES Good
  <2>1. /\ v3' \in 1..MaxPairs
        /\ \A n \in 1..v3 : n \in 1..v3'
        /\ \A n \in 0..v3 : n \in 0..v3'
        /\ v3' \in 1..v3'
    BY SMT, <1>1, <1>2, LinkAssumption DEF Link!Constants
  <2>2. v1' \in 1..v3' /\ v2' \in 1..v3' /\ v4' \in BOOLEAN /\ v5' \subseteq Sessions
    BY Zenon, <1>1, <1>2, <2>1
  <2>3. ASSUME NEW f \in [Sessions -> 0..v3], NEW g, Kept(f, g)
        PROVE  g \in [Sessions -> 0..v3']
    BY Zenon, <2>1, <2>3
  <2>4. \A f \in {v6', v8', v9', v11', v12'} : f \in [Sessions -> 0..v3']
    BY Zenon, <1>1, <1>2, <2>3
  <2>. QED  BY Zenon, <2>1, <2>2, <2>4 DEF Link!TypeOK, Link!IInv, Link!Types
<1>3. /\ \A n \in 1..v3 : n \in 0..v3
      /\ 0 \in 0..v3
  BY SMT, <1>1
<1>4. ASSUME UNCHANGED <<v1, v2, v3>>, v4' \in {v4, TRUE}, UNCHANGED v5
      PROVE  Made /\ Pair
  BY Zenon, <1>1, <1>4
<1>5. CASE Link!Expire \/ UNCHANGED Link!vars
  BY Zenon, <1>4, <1>5 DEF Link!Expire, Link!vars, Link!linkVars
<1>6. ASSUME NEW s \in Sessions, Link!RotatePrivate(s)  PROVE Good
  BY Zenon, <1>1, <1>6 DEF Link!RotatePrivate
<1>7. ASSUME NEW s \in Sessions, Link!RotatePublic(s)  PROVE Good
  BY Zenon, <1>1, <1>7 DEF Link!RotatePublic, Link!NewPublicKey
<1>8. ASSUME NEW s \in Sessions,
             \/ Link!ReadRequest(s) \/ Link!CheckExpiration(s) \/ Link!Derive(s)
             \/ Link!StoreKey(s) \/ Link!Respond(s) \/ Link!Send(s)
             \/ Link!ClientSends(s) \/ Link!ClientReceives(s) \/ Link!Receive(s)
             \/ Link!Close(s)
      PROVE  Good
  <2>1. /\ v1 \in 0..v3 /\ v2 \in 0..v3 /\ 0 \in 0..v3
        /\ \A f \in {v6, v8, v9, v11, v12} : f[s] \in 0..v3
    BY Zenon, <1>1, <1>3
  <2>2. UNCHANGED Link!keyVars
    BY Zenon, <1>8
       DEF Link!ReadRequest, Link!CheckExpiration, Link!Derive, Link!StoreKey,
           Link!Respond, Link!Send, Link!ClientSends, Link!ClientReceives,
           Link!Receive, Link!Close
  <2>3. Made /\ Pair
    BY Zenon, <1>4, <2>2 DEF Link!keyVars
  <2>4. Kept(v6, v6')
    BY Zenon, <1>8, <2>1
       DEF Link!ReadRequest, Link!CheckExpiration, Link!Derive, Link!StoreKey,
           Link!Respond, Link!Send, Link!ClientSends, Link!ClientReceives,
           Link!Receive, Link!Close
  <2>5. Kept(v8, v8') /\ Kept(v9, v9')
    BY Zenon, <1>8, <2>1
       DEF Link!ReadRequest, Link!CheckExpiration, Link!Derive, Link!StoreKey,
           Link!Respond, Link!Send, Link!ClientSends, Link!ClientReceives,
           Link!Receive, Link!Close, Link!linkVars
  <2>6. Kept(v11, v11') /\ Kept(v12, v12')
    BY Zenon, <1>8, <2>1
       DEF Link!ReadRequest, Link!CheckExpiration, Link!Derive, Link!StoreKey,
           Link!Respond, Link!Send, Link!ClientSends, Link!ClientReceives,
           Link!Receive, Link!Close, Link!linkVars, Link!Encrypt
  <2>. QED  BY Zenon, <2>3, <2>4, <2>5, <2>6
<1>. HIDE DEF Good
<1>. QED  BY Zenon, <1>5, <1>6, <1>7, <1>8 DEF Link!Next

-----------------------------------------------------------------------------
(* The stand-alone RPC client.                                              *)

Simple == INSTANCE SimpleRpc WITH
            Calls <- SimpleCalls, Error <- Failed,
            pc <- v1, echo <- v2, pending <- v3, box <- v4, result <- v5,
            conn <- v6, serving <- v7, up <- v8, down <- v9, working <- v10,
            arrived <- v11

\* An error is not a response to a call.
ASSUME SimpleAssumption == Simple!Constants

\* The invariant holds initially.
LEMMA SimpleInit ==
  ASSUME Simple!Constants, Simple!Init  PROVE Simple!IInv
BY DEF Simple!Init, Simple!IInv, Simple!Types, Simple!OwnResponse,
       Simple!CallsSettle, Simple!Constants

\* What leaves the calls, the table and the channels alone.
LEMMA SimpleOther ==
  ASSUME Simple!IInv, UNCHANGED <<v1, v3, v4, v5>>
  PROVE  Simple!IInv'
BY Zenon DEF Simple!IInv, Simple!Types, Simple!OwnResponse, Simple!CallsSettle

\* A call that fails is taken out of the table.
LEMMA SimpleFail ==
  ASSUME Simple!IInv, NEW c \in SimpleCalls, v1[c] # "new", Simple!Fail(c),
         UNCHANGED v4
  PROVE  Simple!IInv'
<1>. USE DEF Simple!IInv, Simple!Fail, Simple!Types, Simple!OwnResponse,
             Simple!CallsSettle
<1>1. Simple!Types'
  BY Zenon
<1>2. Simple!OwnResponse'
  BY Zenon
<1>3. Simple!CallsSettle'
  BY Zenon
<1>. QED  BY Zenon, <1>1, <1>2, <1>3

\* A response is that of a call that waits for it.
LEMMA SimpleProcess ==
  ASSUME Simple!Constants, Simple!IInv, NEW r \in Simple!Replies,
         Simple!ProcessResponse(r)
  PROVE  Simple!IInv'
<1>1. CASE r.seq \in v3
  <2>1. PICK c \in SimpleCalls : r = Simple!Reply(c) /\ r.seq = c
    BY <1>1
       DEF Simple!Replies, Simple!Reply, Simple!Refusal, Simple!Constants,
           Simple!IInv, Simple!Types
  <2>2. /\ v3' = v3 \ {c} /\ v4' = [v4 EXCEPT ![c] = <<Simple!Reply(c)>>]
        /\ v1' = v1 /\ v5' = v5
    BY Zenon, <1>1, <2>1 DEF Simple!ProcessResponse
  <2>3. Simple!Types'
    BY Zenon, <2>2 DEF Simple!IInv, Simple!Types
  <2>4. c \in v3
    BY Zenon, <1>1, <2>1
  <2>5. Simple!OwnResponse'
    BY Zenon, <2>2, <2>4 DEF Simple!IInv, Simple!Types, Simple!OwnResponse
  <2>6. Simple!CallsSettle'
    BY Zenon, <2>2 DEF Simple!IInv, Simple!Types, Simple!CallsSettle
  <2>. QED  BY Zenon, <2>3, <2>5, <2>6 DEF Simple!IInv
<1>2. CASE r.seq \notin v3
  BY Zenon, <1>2, SimpleOther DEF Simple!ProcessResponse
<1>. QED  BY Zenon, <1>1, <1>2

\* Every step keeps the invariant.
LEMMA SimpleNext ==
  ASSUME Simple!Constants, Simple!IInv, [Simple!Next]_(Simple!vars)
  PROVE  Simple!IInv'
<1>. USE DEF Simple!IInv
<1>1. CASE UNCHANGED Simple!vars
  BY Zenon, <1>1, SimpleOther DEF Simple!vars
<1>2. ASSUME NEW c \in SimpleCalls, Simple!Register(c)  PROVE Simple!IInv'
  BY Zenon, <1>2
     DEF Simple!Register, Simple!Types, Simple!OwnResponse, Simple!CallsSettle
<1>3. ASSUME NEW c \in SimpleCalls, Simple!Send(c)  PROVE Simple!IInv'
  <2>1. CASE v6 = "open" /\ v7
    BY Zenon, <1>3, <2>1
       DEF Simple!Send, Simple!Types, Simple!OwnResponse, Simple!CallsSettle
  <2>2. CASE ~(v6 = "open" /\ v7)
    BY Zenon, <1>3, <2>2, SimpleFail DEF Simple!Send
  <2>. QED  BY Zenon, <2>1, <2>2
<1>4. ASSUME NEW c \in SimpleCalls, Simple!TakeResponse(c)  PROVE Simple!IInv'
  <2>1. Head(v4[c]).message = c
    <3>1. v4[c] = <<Simple!Reply(c)>>
      BY Zenon, <1>4 DEF Simple!TakeResponse, Simple!OwnResponse
    <3>. QED  BY <3>1 DEF Simple!Reply
  <2>2. /\ v5' = [v5 EXCEPT ![c] = c] /\ v3' = v3
        /\ v4' = [v4 EXCEPT ![c] = <<>>]
        /\ v1' = [v1 EXCEPT ![c] = "returned"] /\ v1[c] # "new"
    BY Zenon, <1>4, <2>1 DEF Simple!TakeResponse
  <2>3. Simple!Types'
    BY Zenon, <2>2 DEF Simple!Types
  <2>4. Simple!OwnResponse'
    BY Zenon, <2>2 DEF Simple!Types, Simple!OwnResponse
  <2>5. Simple!CallsSettle'
    BY Zenon, <1>4, <2>2
       DEF Simple!TakeResponse, Simple!Types, Simple!OwnResponse,
           Simple!CallsSettle
  <2>. QED  BY Zenon, <2>3, <2>4, <2>5
<1>5. ASSUME NEW c \in SimpleCalls, Simple!GiveUp(c)  PROVE Simple!IInv'
  BY Zenon, <1>5, SimpleFail DEF Simple!GiveUp
<1>6. CASE Simple!ReadResponses
  BY Zenon, <1>6, SimpleOther DEF Simple!ReadResponses
<1>7. CASE Simple!ReadFails \/ Simple!Close
  BY Zenon, <1>7, SimpleOther DEF Simple!ReadFails, Simple!Close
<1>8. CASE Simple!ServerReads \/ Simple!ServerEnds
  BY Zenon, <1>8, SimpleOther DEF Simple!ServerReads, Simple!ServerEnds
<1>9. ASSUME NEW r \in Simple!Replies, Simple!ServerWrites(r)
      PROVE  Simple!IInv'
  BY Zenon, <1>9, SimpleOther DEF Simple!ServerWrites
<1>. QED
  BY Zenon, SimpleProcess, <1>1, <1>2, <1>3, <1>4, <1>5, <1>6, <1>7, <1>8, <1>9
  DEF Simple!Next

\* The types hold initially.
LEMMA SimpleTypesInit ==
  ASSUME Simple!Init  PROVE Simple!TypeOK
<1>1. /\ v8 \in Seq(SimpleCalls) /\ v9 \in Seq(Simple!Replies)
  BY DEF Simple!Init
<1>. QED  BY Zenon, <1>1 DEF Simple!Init, Simple!TypeOK

\* Every step keeps them: what was not read of the two streams are whole
\* requests and whole responses.
LEMMA SimpleTypesNext ==
  ASSUME Simple!IInv', Simple!TypeOK, [Simple!Next]_(Simple!vars)
  PROVE  Simple!TypeOK'
<1>. DEFINE Good == /\ v2' \in [SimpleCalls -> BOOLEAN]
                    /\ v6' \in {"open", "closed", "nil"} /\ v7' \in BOOLEAN
                    /\ v8' \in Seq(SimpleCalls) /\ v9' \in Seq(Simple!Replies)
                    /\ v11' \subseteq Simple!Replies
                    /\ v5' = [c \in SimpleCalls |-> v5'[c]]
<1>1. SUFFICES Good
  <2>1. v5' \in [SimpleCalls -> SimpleCalls \cup {Failed}]
    <3>1. \A c \in SimpleCalls : v5'[c] \in SimpleCalls \cup {Failed}
      BY Zenon DEF Simple!IInv, Simple!OwnResponse
    <3>. QED  BY Zenon, <1>1, <3>1
  <2>. QED  BY Zenon, <1>1, <2>1 DEF Simple!TypeOK, Simple!IInv, Simple!Types
<1>2. /\ v2 \in [SimpleCalls -> BOOLEAN]
      /\ v6 \in {"open", "closed", "nil"} /\ v7 \in BOOLEAN
      /\ v8 \in Seq(SimpleCalls) /\ v9 \in Seq(Simple!Replies)
      /\ v11 \subseteq Simple!Replies
      /\ v5' = v5 => v5' = [c \in SimpleCalls |-> v5'[c]]
  BY Zenon DEF Simple!TypeOK
<1>3. ASSUME NEW S, NEW q \in Seq(S), NEW n \in 1..Len(q)
      PROVE  SubSeq(q, n + 1, Len(q)) \in Seq(S) /\ Head(q) \in S
  OBVIOUS
<1>4. ASSUME NEW c \in SimpleCalls,
             \/ Simple!Register(c) \/ Simple!Send(c) \/ Simple!TakeResponse(c)
             \/ Simple!GiveUp(c)
      PROVE  Good
  <2>1. /\ v2' = v2 /\ v6' = v6 /\ v7' = v7 /\ v9' = v9 /\ v11' = v11
        /\ v8' = v8 \/ v8' = Append(v8, c)
    BY Zenon, <1>4
       DEF Simple!Register, Simple!Send, Simple!TakeResponse, Simple!GiveUp
  <2>2. Append(v8, c) \in Seq(SimpleCalls)
    BY SMT, <1>2
  <2>3. v5' = v5 \/ \E m : v5' = [v5 EXCEPT ![c] = m]
    BY Zenon, <1>4
       DEF Simple!Register, Simple!Send, Simple!TakeResponse, Simple!GiveUp,
           Simple!Fail
  <2>4. v5' = [d \in SimpleCalls |-> v5'[d]]
    BY Zenon, <2>3 DEF Simple!TypeOK
  <2>. QED  BY Zenon, <1>2, <2>1, <2>2, <2>4
<1>5. CASE Simple!ReadResponses
  <2>1. PICK n \in 1..Len(v9) :
          /\ v11' = IF n = 1 THEN v11 \cup {Head(v9)} ELSE v11
          /\ v9' = SubSeq(v9, n + 1, Len(v9))
    BY Zenon, <1>5 DEF Simple!ReadResponses
  <2>2. v9' \in Seq(Simple!Replies) /\ Head(v9) \in Simple!Replies
    BY Zenon, <1>2, <1>3, <2>1
  <2>3. v11' \subseteq Simple!Replies
    BY Zenon, <1>2, <2>1, <2>2
  <2>4. v2' = v2 /\ v5' = v5 /\ v6' = v6 /\ v7' = v7 /\ v8' = v8
    BY Zenon, <1>5 DEF Simple!ReadResponses
  <2>. QED  BY Zenon, <1>2, <2>2, <2>3, <2>4
<1>6. CASE Simple!ServerReads
  <2>1. PICK n \in 1..Len(v8) : v8' = SubSeq(v8, n + 1, Len(v8))
    BY Zenon, <1>6 DEF Simple!ServerReads
  <2>2. v8' \in Seq(SimpleCalls)
    BY Zenon, <1>2, <1>3, <2>1
  <2>3. v2' = v2 /\ v5' = v5 /\ v6' = v6 /\ v7' = v7 /\ v9' = v9 /\ v11' = v11
    BY Zenon, <1>6 DEF Simple!ServerReads
  <2>. QED  BY Zenon, <1>2, <2>2, <2>3
<1>7. ASSUME NEW r \in Simple!Replies,
             Simple!ProcessResponse(r) \/ Simple!ServerWrites(r)
      PROVE  Good
  <2>1. /\ v2' = v2 /\ v5' = v5 /\ v6' = v6 /\ v7' = v7 /\ v8' = v8 /\ v11' \subseteq v11
        /\ v9' = v9 \/ v9' = Append(v9, r)
    BY Zenon, <1>7 DEF Simple!ProcessResponse, Simple!ServerWrites
  <2>2. Append(v9, r) \in Seq(Simple!Replies)
    BY SMT, <1>2
  <2>. QED  BY Zenon, <1>2, <2>1, <2>2
<1>8. CASE \/ Simple!ReadFails \/ Simple!Close \/ Simple!ServerEnds
           \/ UNCHANGED Simple!vars
  <2>1. /\ v2' = v2 /\ v5' = v5 /\ v8' = v8 /\ v9' = v9 /\ v11' = v11
        /\ v6' \in {v6, "nil", "closed"} /\ v7' \in {v7, FALSE}
    BY Zenon, <1>8
       DEF Simple!ReadFails, Simple!Close, Simple!ServerEnds, Simple!vars
  <2>. QED  BY Zenon, <1>2, <2>1
<1>. HIDE DEF Good
<1>. QED  BY Zenon, <1>4, <1>5, <1>6, <1>7, <1>8 DEF Simple!Next

-----------------------------------------------------------------------------
(* The parts proved about elsewhere: the WebSocket server, publish/         *)
(* subscribe and the router in Messaging_proofs, the gRPC client and server *)
(* and the RPC registry in Rpc_proofs.                                      *)

Msg == INSTANCE Messaging_proofs WITH
         Clients <- NetClients, Free <- None,
         clients <- v1, conn <- v2, closed <- v3, closing <- v4, wlock <- v5,
         rlock <- v6, send <- v7, late <- v8, stopped <- v9, pc <- v10,
         todo <- v11, target <- v12,
         pubsub <- v1, opened <- v2, handlers <- v3, patternHandlers <- v4,
         activeChannels <- v5, isRunning <- v6, stopClosed <- v7,
         loops <- v8, subs <- v9, stream <- v10, published <- v11,
         double <- v12, calls <- v13, dead <- v14,
         Callers <- RouteCallers, Nil <- None,
         array <- v1, instances <- v2, changes <- v3, watched <- v4,
         notes <- v5, balancer <- v6, counter <- v7, call <- v8

\* A lock that is free has no holder; a channel has a capacity.
ASSUME NetAssumption == Msg!Constants

\* The subscriptions are bounded.
ASSUME PubAssumption == Msg!PubConstants

\* There is an array for a list that grows by one.
ASSUME RouteAssumption == Msg!RouteConstants

Rpc == INSTANCE Rpc_proofs WITH
         closed <- v1, pc <- v2, kind <- v3, try <- v4, retried <- v5,
         result <- v6, pending <- v7, signals <- v8, own <- v9, cut <- v10,
         lost <- v11, requests <- v12, answers <- v13, runs <- v14,
         offered <- v15, server <- v16,
         Ids <- RegIds, Weight <- RegWeight,
         services <- v1, cap <- v2, reg <- v3, down <- v4,
         watches <- v5, chan <- v6, last <- v7, selector <- v8,
         nextIdx <- v9, listed <- v10, chosen <- v11

\* A call is synchronous or not, and makes an attempt; a channel has room for
\* two signals.
ASSUME GrpcAssumption == Rpc!Constants

\* The absence of a list is no list.
ASSUME RegAssumption == Rpc!RegConstants

-----------------------------------------------------------------------------
(* The parts together.                                                      *)

Init ==
  \/ part = "network"  /\ Msg!Init
                       /\ v13 = None /\ v14 = None /\ v15 = None /\ v16 = None
  \/ part = "conn"     /\ Conn!Init
                       /\ v10 = None /\ v11 = None /\ v12 = None /\ v13 = None
                       /\ v14 = None /\ v15 = None /\ v16 = None
  \/ part \in {"watchers", "balancer"}
                       /\ Rpc!RegInit
                       /\ v12 = None /\ v13 = None /\ v14 = None /\ v15 = None
                       /\ v16 = None
  \/ part = "grpc"     /\ Rpc!Init
  \/ part = "simple"   /\ Simple!Init
                       /\ v12 = None /\ v13 = None /\ v14 = None /\ v15 = None
                       /\ v16 = None
  \/ part = "pubsub"   /\ Msg!PubInit
                       /\ v15 = None /\ v16 = None
  \/ part = "secure"   /\ Link!Init
                       /\ v13 = None /\ v14 = None /\ v15 = None /\ v16 = None
  \/ part = "router"   /\ Msg!RouteInit
                       /\ v9 = None /\ v10 = None /\ v11 = None /\ v12 = None
                       /\ v13 = None /\ v14 = None /\ v15 = None /\ v16 = None

Next ==
  \/ part = "network"  /\ Msg!Next
                       /\ UNCHANGED <<part, v13, v14, v15, v16>>
  \/ part = "conn"     /\ Conn!Next
                       /\ UNCHANGED <<part, v10, v11, v12, v13, v14, v15, v16>>
  \/ part = "watchers" /\ (Rpc!Registering \/ Rpc!Watching)
                       /\ UNCHANGED <<part, v12, v13, v14, v15, v16>>
  \/ part = "balancer" /\ (Rpc!Registering \/ Rpc!Balancing)
                       /\ UNCHANGED <<part, v12, v13, v14, v15, v16>>
  \/ part = "grpc"     /\ Rpc!Next
                       /\ UNCHANGED part
  \/ part = "simple"   /\ Simple!Next
                       /\ UNCHANGED <<part, v12, v13, v14, v15, v16>>
  \/ part = "pubsub"   /\ Msg!PubNext
                       /\ UNCHANGED <<part, v15, v16>>
  \/ part = "secure"   /\ Link!Next
                       /\ UNCHANGED <<part, v13, v14, v15, v16>>
  \/ part = "router"   /\ Msg!RouteNext
                       /\ UNCHANGED <<part, v9, v10, v11, v12, v13, v14, v15, v16>>

Spec == Init /\ [][Next]_vars
-----------------------------------------------------------------------------
\* Every component keeps its types; in particular no Send channel of the
\* WebSocket server holds more messages than its capacity.
TypeOK ==
  /\ part = "network" => Msg!TypeOK
  /\ part = "conn" => Conn!TypeOK
  /\ part \in {"watchers", "balancer"} => Rpc!RegTypeOK
  /\ part = "grpc" => Rpc!TypeOK
  /\ part = "simple" => Simple!TypeOK
  /\ part = "pubsub" => Msg!PubTypeOK
  /\ part = "secure" => Link!TypeOK
  /\ part = "router" => Msg!RouteTypeOK

\* WebSocket server: clientsLock and the clients' closeMutex never hold up
\* everyone, except through a Close called from a loop over the table.
SomeoneCanStep == part = "network" => Msg!SomeoneCanStep

\* gRPC connection manager: an endpoint has one live connection.
OneLiveConnection == part = "conn" => Conn!OneLiveConnection

\* RPC registry: what a watcher sees as up is registered.
NoPhantom == part = "watchers" => Rpc!NoPhantom

\* gRPC client and server: runs of a method match the attempts of its call.
RunsMatchAttempts == part = "grpc" => Rpc!RunsMatchAttempts

\* gRPC client: Call.done runs at the end of a call, and again if and only if
\* Close found it waiting.
SignalledOnce == part = "grpc" => Rpc!SignalledOnce

\* Stand-alone RPC client: a call that returned left nothing behind and has
\* its own answer.
CallsSettle == part = "simple" => Simple!CallsSettle

\* Publish/subscribe: no subscription of a handler is called twice for a
\* message, but for one that Redis sends twice.
HandledOnce == part = "pubsub" => Msg!HandledOnce

\* Secure connection: both ends hold the same key, unless a rotation crossed
\* the handshake.
KeysAgree == part = "secure" => Link!KeysAgree

\* Router: messages go to instances registered since the lookup.
RoutedToRegistered == part = "router" => Msg!RoutedToRegistered

-----------------------------------------------------------------------------
(* Theorems.                                                                *)

\* The inductive invariant: that of the component the behaviour is of.
Inv ==
  /\ part = "network" => Msg!IInv
  /\ part = "conn" => Conn!IInv
  /\ part = "grpc" => Rpc!IInv
  /\ part = "simple" => Simple!IInv
  /\ part = "pubsub" => Msg!PubIInv
  /\ part = "secure" => Link!IInv
  /\ part \in {"watchers", "balancer"} => Rpc!RegIInv
  /\ part = "router" => Msg!RouteIInv

\* A behaviour starts as one of the component it is of ...
LEMMA PartInits ==
  ASSUME Init
  PROVE  /\ part = "network" => Msg!Init
         /\ part = "conn" => Conn!Init
         /\ part = "grpc" => Rpc!Init
         /\ part = "simple" => Simple!Init
         /\ part = "pubsub" => Msg!PubInit
         /\ part = "secure" => Link!Init
         /\ part \in {"watchers", "balancer"} => Rpc!RegInit
         /\ part = "router" => Msg!RouteInit
BY Zenon, PartNames DEF Init

\* ... and each of its steps is one of that component.
LEMMA PartSteps ==
  ASSUME [Next]_vars
  PROVE  /\ part' = part
         /\ part = "network" => [Msg!Next]_(Msg!vars)
         /\ part = "conn" => [Conn!Next]_(Conn!vars)
         /\ part = "grpc" => [Rpc!Next]_(Rpc!vars)
         /\ part = "simple" => [Simple!Next]_(Simple!vars)
         /\ part = "pubsub" => [Msg!PubNext]_(Msg!pubVars)
         /\ part = "secure" => [Link!Next]_(Link!vars)
         /\ part \in {"watchers", "balancer"} => [Rpc!RegNext]_(Rpc!regVars)
         /\ part = "router" => [Msg!RouteNext]_(Msg!routeVars)
<1>1. CASE UNCHANGED vars
  BY Zenon, <1>1 DEF vars, Msg!vars, Conn!vars, Rpc!vars, Simple!vars,
                     Msg!pubVars, Link!vars, Rpc!regVars, Msg!routeVars
<1>2. CASE Next
  BY Zenon, PartNames, <1>2 DEF Next, Rpc!RegNext
<1>. QED  BY Zenon, <1>1, <1>2

\* The invariant holds initially.
LEMMA InitInv == Init => Inv
BY Zenon, PartInits, ConnInit, LinkInit, SimpleAssumption, SimpleInit,
   NetAssumption, Msg!NetInit, Msg!PubInitInv, Rpc!GrpcInit, RegAssumption,
   Rpc!RegInitInv, RouteAssumption, Msg!RouteInitInv
   DEF Inv

\* Every step of a component keeps its invariant.
LEMMA NextInv == Inv /\ [Next]_vars => Inv'
BY Zenon, PartSteps, ConnNext, LinkNext, SimpleAssumption, SimpleNext,
   NetAssumption, Msg!NetNext, Msg!PubNextInv, GrpcAssumption, Rpc!GrpcNext,
   RegAssumption, Rpc!RegNextInv, RouteAssumption, Msg!RouteNextInv
   DEF Inv

\* What the invariant says of each component.
LEMMA InvEnough ==
  Inv => /\ OneLiveConnection /\ KeysAgree /\ CallsSettle /\ SomeoneCanStep
         /\ RunsMatchAttempts /\ SignalledOnce /\ HandledOnce /\ NoPhantom
         /\ RoutedToRegistered
<1>1. Conn!IInv => Conn!OneLiveConnection
  BY Zenon DEF Conn!IInv, Conn!OnlyRegistered, Conn!OneLiveConnection, Conn!Live
<1>2. Link!IInv => Link!KeysAgree
  BY Zenon DEF Link!IInv
<1>3. Simple!IInv => Simple!CallsSettle
  BY Zenon DEF Simple!IInv
<1>. QED  BY Zenon, <1>1, <1>2, <1>3, NetAssumption, Msg!NetEnough, Rpc!GrpcEnough,
             Msg!PubEnough, PartNames, RegAssumption, Rpc!RegEnough, Msg!RouteEnough
          DEF Inv, OneLiveConnection, KeysAgree, CallsSettle, SomeoneCanStep,
              RunsMatchAttempts, SignalledOnce, HandledOnce, NoPhantom,
              RoutedToRegistered

\* The types are kept as well; that a retry stays within MaxRetries needs that
\* a call that backs off has an attempt left.
Types == TypeOK /\ (part = "grpc" => Rpc!TriesLeft)

\* The types hold initially.
LEMMA InitTypes == Init => Types
<1>. SUFFICES ASSUME Init  PROVE Types
  BY Zenon
<1>1. Inv
  BY Zenon, InitInv
<1>. QED  BY Zenon, <1>1, PartInits, ConnTypesInit, LinkTypesInit,
             SimpleTypesInit, NetAssumption, Msg!NetTypesInit, PubAssumption,
             Msg!PubTypesInit, GrpcAssumption, Rpc!GrpcTypesInit,
             Rpc!RegTypesHold, Msg!RouteEnough
          DEF Inv, Types, TypeOK

\* Every step of a component keeps its types.
LEMMA NextTypes == Inv /\ Types /\ [Next]_vars => Types'
<1>. SUFFICES ASSUME Inv, Types, [Next]_vars  PROVE Types'
  BY Zenon
<1>1. Inv' /\ part' = part
  BY Zenon, NextInv, PartSteps
<1>2. /\ part = "conn" => Conn!TypeOK'
      /\ part = "secure" => Link!TypeOK'
      /\ part = "simple" => Simple!TypeOK'
  BY Zenon, <1>1, PartSteps, ConnTypesNext, LinkTypesNext, SimpleTypesNext
     DEF Inv, Types, TypeOK
<1>3. /\ part = "network" => Msg!TypeOK'
      /\ part = "pubsub" => Msg!PubTypeOK'
      /\ part = "grpc" => Rpc!TypeOK' /\ Rpc!TriesLeft'
  BY Zenon, <1>1, PartSteps, NetAssumption, Msg!NetTypesNext, PubAssumption,
     Msg!PubTypesNext, GrpcAssumption, Rpc!GrpcTypesNext
     DEF Inv, Types, TypeOK
<1>4. /\ part \in {"watchers", "balancer"} => Rpc!RegTypeOK'
      /\ part = "router" => Msg!RouteTypeOK'
  <2>1. Rpc!RegIInv' => Rpc!RegTypeOK'
    BY PTL, Rpc!RegTypesHold
  <2>2. Msg!RouteIInv' => Msg!RouteTypeOK'
    BY PTL, Msg!RouteEnough
  <2>. QED  BY Zenon, <1>1, <2>1, <2>2 DEF Inv
<1>. QED  BY Zenon, <1>1, <1>2, <1>3, <1>4 DEF Types, TypeOK

\* The inductive invariant holds throughout a behaviour of any component.
THEOREM Invariance == Spec => []Inv
BY InitInv, NextInv, PTL DEF Spec

\* Every component keeps its types: no Send channel holds more than SendCap
\* messages, no call makes more than MaxRetries attempts or is signalled three
\* times, no subscription is called three times for a message, no session has
\* a key of a pair not yet made (server.go, grpc_client.go, pubsub.go,
\* crypto.go).
THEOREM TypeCorrect == Spec => []TypeOK
<1>1. Types => TypeOK
  BY Zenon DEF Types
<1>. QED  BY <1>1, Invariance, InitTypes, NextTypes, PTL DEF Spec

\* An endpoint has one live connection, however many callers ask for it,
\* however dials fail, and whatever Close and the cleanup do in between
\* (conn_manager.go, GetConnection).
THEOREM ConnectionIsUnique == Spec => []OneLiveConnection
BY Invariance, InvEnough, PTL

\* The two ends of an open connection hold the same key, whatever rotations
\* other connections cause before, during or after its handshake, unless one
\* fell between the derivation and the response (secure_connection.go,
\* Handshake over CryptoManager).
THEOREM KeysAlwaysAgree == Spec => []KeysAgree
BY Invariance, InvEnough, PTL

\* A call of the stand-alone client that returned has left no entry in the
\* table of pending calls, and its result is an error or the response to it,
\* in whatever order responses arrive, calls time out and the connection
\* breaks (simple_rpc.go, Call and processResponses).
THEOREM CallsAlwaysSettle == Spec => []CallsSettle
BY Invariance, InvEnough, PTL

\* The goroutines of the WebSocket server never wait for one another in a
\* circle over clientsLock and the clients' closeMutex, for any number of
\* clients, except through a Close called from a loop over the table
\* (server.go, Client.Close and the loops over clients).
THEOREM SomeoneAlwaysCanStep == Spec => []SomeoneCanStep
BY Invariance, InvEnough, PTL

\* For any number of calls and of retries: a call that returned a reply ran its
\* method, one that returned neither a reply nor an error did so or named a
\* method over which the server panics, no attempt runs it twice, and a second
\* run follows a retryable error, whatever requests and answers are lost or
\* late (grpc_client.go, Call; grpc_server.go, Start and Call).
THEOREM RunsAlwaysMatchAttempts == Spec => []RunsMatchAttempts
BY Invariance, InvEnough, PTL

\* Call.done runs once for every asynchronous call that is over, and once more
\* if and only if Close found it in the table of pending calls, for any
\* interleaving of Go, of the answers and of Close; a channel Go made itself
\* loses no signal (grpc_client.go, Go and Close; call.go, done).
THEOREM AlwaysSignalledOnce == Spec => []SignalledOnce
BY Invariance, InvEnough, PTL

\* No subscription of a handler, of however many, is called twice for one
\* message Redis sent once, for any number of message loops, losses and
\* restarts of the service (pubsub.go, Subscribe, messageLoop, handleMessage).
THEOREM AlwaysHandledOnce == Spec => []HandledOnce
BY Invariance, InvEnough, PTL

\* What a watcher shows as up is registered, for any number of instances and
\* watchers, although notifications are dropped and lists already sent are
\* written to (load_balancer.go, Deregister, cleanup and notifyWatchers).
THEOREM NeverAPhantom == Spec => []NoPhantom
BY Invariance, InvEnough, PTL

\* A message goes to, and a watcher is told of, instances registered at some
\* time since the lookup, for any number of callers, although the array they
\* read is rewritten under them (router.go, RegisterServiceInstance and
\* DeregisterServiceInstance against SelectInstance and Broadcast).
THEOREM AlwaysRoutedToRegistered == Spec => []RoutedToRegistered
BY Invariance, InvEnough, PTL
=============================================================================
