------------------------------ MODULE SecureLink ------------------------------
(***************************************************************************)
(* The secure WebSocket connection (src/pkg/gateway/secure_connection.go)  *)
(* over the CryptoManager that all connections of a server share           *)
(* (src/pkg/security/crypto.go).                                           *)
(*                                                                         *)
(* The manager's key pairs are numbered; the secret a session derives is   *)
(* told apart by the number of the server's pair, the client's pair being  *)
(* its own.  RotateKeys replaces private key, public key and expiration    *)
(* under the lock; the handshake reads the three without it, in different  *)
(* calls, so a rotation by another handshake may fall between.             *)
(***************************************************************************)
EXTENDS Naturals

CONSTANTS Sessions,
          MaxPairs   \* bound: key pairs the manager makes

VARIABLES privateKey, publicKey,  \* number of the pair each belongs to
          made,        \* pairs made so far
          outdated,    \* keyExpiration has passed
          rotator,     \* sessions whose rotation holds the lock
          sessionKeys, \* the pair each session's key comes from; 0: no key
          pc,          \* each connection's Handshake, and its life after
          secret,      \* the pair the session's derivation has used
          sent,        \* the pair whose public key the response carries
          crossed,     \* a rotation ran between the two
          up, down     \* an encrypted message on its way: the key's pair, or 0

vars == <<privateKey, publicKey, made, outdated, rotator, sessionKeys, pc, secret,
          sent, crossed, up, down>>

Init ==
  /\ privateKey = 1
  /\ publicKey = 1
  /\ made = 1
  /\ outdated = FALSE
  /\ rotator = {}
  /\ sessionKeys = [s \in Sessions |-> 0]
  /\ pc = [s \in Sessions |-> "request"]
  /\ secret = [s \in Sessions |-> 0]
  /\ sent = [s \in Sessions |-> 0]
  /\ crossed = [s \in Sessions |-> FALSE]
  /\ up = [s \in Sessions |-> 0]
  /\ down = [s \in Sessions |-> 0]

keyVars == <<privateKey, publicKey, made, outdated, rotator>>
linkVars == <<secret, sent, crossed, up, down>>

Goto(s, l) == pc' = [pc EXCEPT ![s] = l]

\* The rotation period ends.
Expire ==
  /\ ~outdated
  /\ made < MaxPairs
  /\ outdated' = TRUE
  /\ UNCHANGED <<privateKey, publicKey, made, rotator, sessionKeys, pc, linkVars>>

\* The client's request is read and its form and session id are checked; the
\* connection is closed when they are wrong, or the read fails.
ReadRequest(s) ==
  /\ pc[s] = "request"
  /\ Goto(s, "check") \/ Goto(s, "failed")
  /\ UNCHANGED <<keyVars, sessionKeys, linkVars>>

\* DeriveSharedKey: rotate first when the keys are outdated, which fails when
\* no new pair can be generated.
CheckExpiration(s) ==
  /\ pc[s] = "check"
  /\ \/ Goto(s, IF outdated THEN "rotate" ELSE "derive")
     \/ outdated /\ Goto(s, "failed")
  /\ UNCHANGED <<keyVars, sessionKeys, linkVars>>

\* Handshakes that have read one key of the manager and not yet the other.
Between == {s \in Sessions : pc[s] \in {"store", "publish"}}
Cross == crossed' = [s \in Sessions |-> crossed[s] \/ s \in Between]

\* RotateKeys, with the lock held: the private key, then the rest.
RotatePrivate(s) ==
  /\ pc[s] = "rotate"
  /\ rotator = {}
  /\ made < MaxPairs
  /\ made' = made + 1
  /\ privateKey' = made + 1
  /\ rotator' = {s}
  /\ Goto(s, "rotating")
  /\ Cross
  /\ UNCHANGED <<publicKey, outdated, sessionKeys, secret, sent, up, down>>

\* mutant: the public key is not replaced
NewPublicKeyOld == publicKey

NewPublicKey == privateKey

RotatePublic(s) ==
  /\ pc[s] = "rotating"
  /\ publicKey' = NewPublicKey
  /\ outdated' = FALSE
  /\ rotator' = {}
  /\ Goto(s, "derive")
  /\ Cross
  /\ UNCHANGED <<privateKey, made, sessionKeys, secret, sent, up, down>>

\* The peer's public key is unmarshalled, which fails unless its text is a
\* point of the curve, and the secret computed with the private key of now.
Derive(s) ==
  /\ pc[s] = "derive"
  /\ \/ /\ secret' = [secret EXCEPT ![s] = privateKey]
        /\ crossed' = [crossed EXCEPT ![s] = rotator # {}]
        /\ Goto(s, "store")
     \/ Goto(s, "failed") /\ UNCHANGED <<secret, crossed>>
  /\ UNCHANGED <<keyVars, sessionKeys, sent, up, down>>

\* The session's key is stored under the lock.
StoreKey(s) ==
  /\ pc[s] = "store"
  /\ rotator = {}
  /\ sessionKeys' = [sessionKeys EXCEPT ![s] = secret[s]]
  /\ Goto(s, "publish")
  /\ UNCHANGED <<keyVars, linkVars>>

\* The response, with the public key of now; the handshake is then done.
\* When it cannot be written the connection is closed, and the key stays.
Respond(s) ==
  /\ pc[s] = "publish"
  /\ \/ sent' = [sent EXCEPT ![s] = publicKey] /\ Goto(s, "open")
     \/ Goto(s, "failed") /\ UNCHANGED sent
  /\ UNCHANGED <<keyVars, sessionKeys, secret, crossed, up, down>>

\* A message under the session's key; 0, an error, without one.
Encrypt(s) == sessionKeys[s]

Send(s) ==
  /\ pc[s] = "open"
  /\ down[s] = 0
  /\ rotator = {}
  /\ down' = [down EXCEPT ![s] = Encrypt(s)]
  /\ UNCHANGED <<keyVars, sessionKeys, pc, secret, sent, crossed, up>>

\* The client, which derives its key from the response, sends and receives.
ClientSends(s) ==
  /\ pc[s] = "open"
  /\ up[s] = 0
  /\ up' = [up EXCEPT ![s] = sent[s]]
  /\ UNCHANGED <<keyVars, sessionKeys, pc, secret, sent, crossed, down>>

ClientReceives(s) ==
  /\ down[s] # 0
  /\ down' = [down EXCEPT ![s] = 0]
  /\ UNCHANGED <<keyVars, sessionKeys, pc, secret, sent, crossed, up>>

\* A message can be decrypted with the key it was encrypted under.
Decrypts(s) == up[s] = sessionKeys[s]

\* Receive: a message under another key, past its TTL or from the future is
\* an error, on which the session is closed; a ping is answered.
Receive(s) ==
  /\ pc[s] = "open"
  /\ up[s] # 0
  /\ up' = [up EXCEPT ![s] = 0]
  /\ \/ rotator = {} /\ Decrypts(s) /\ UNCHANGED pc
     \/ Goto(s, "closing")
  /\ UNCHANGED <<keyVars, sessionKeys, secret, sent, crossed, down>>

\* Close: tell the client, forget the key, close the connection.
Close(s) ==
  /\ pc[s] \in {"open", "closing"}
  /\ rotator = {}
  /\ sessionKeys' = [sessionKeys EXCEPT ![s] = 0]
  /\ Goto(s, "closed")
  /\ up' = [up EXCEPT ![s] = 0]
  /\ UNCHANGED <<keyVars, secret, sent, crossed, down>>

Next ==
  \/ Expire
  \/ \E s \in Sessions :
       \/ ReadRequest(s) \/ CheckExpiration(s) \/ RotatePrivate(s) \/ RotatePublic(s)
       \/ Derive(s) \/ StoreKey(s) \/ Respond(s) \/ Send(s) \/ ClientSends(s)
       \/ ClientReceives(s) \/ Receive(s) \/ Close(s)

Spec == Init /\ [][Next]_vars

-----------------------------------------------------------------------------
TypeOK ==
  /\ {privateKey, publicKey} \subseteq 1..made
  /\ made \in 1..MaxPairs
  /\ outdated \in BOOLEAN
  /\ rotator \subseteq Sessions
  /\ {sessionKeys, secret, sent, up, down} \subseteq [Sessions -> 0..made]
  /\ pc \in [Sessions -> {"request", "check", "rotate", "rotating", "derive", "store",
                          "publish", "open", "closing", "closed", "failed"}]
  /\ crossed \in [Sessions -> BOOLEAN]

\* The two ends of an open connection hold the same key, and what is on its
\* way can be decrypted, unless a rotation ran between the derivation and the
\* response's public key; rotations before or after, by whichever connection,
\* do no harm.
KeysAgree ==
  \A s \in Sessions :
    pc[s] = "open" /\ ~crossed[s]
      => sent[s] = sessionKeys[s] /\ {up[s], down[s]} \subseteq {0, sessionKeys[s]}

-----------------------------------------------------------------------------
Types ==
  /\ {sessionKeys, secret, sent, up, down} \subseteq [Sessions -> Nat]
  /\ pc \in [Sessions -> {"request", "check", "rotate", "rotating", "derive",
                          "store", "publish", "open", "closing", "closed",
                          "failed"}]
  /\ crossed \in [Sessions -> BOOLEAN]
  /\ {privateKey, publicKey, made} \subseteq Nat

\* The two keys of the manager belong together unless a rotation is under way,
\* which is then the rotation of one connection.
PairIsWhole ==
  /\ rotator = {} => privateKey = publicKey
  /\ \A s \in Sessions : pc[s] = "rotating" => rotator = {s}

\* A handshake that no rotation has crossed since its derivation sees the pair
\* it derived from.
DerivedFromPair ==
  \A s \in Sessions :
    /\ pc[s] \in {"store", "publish"} /\ ~crossed[s]
         => rotator = {} /\ secret[s] = publicKey
    /\ pc[s] = "publish" => sessionKeys[s] = secret[s]

\* Nothing is sent before the handshake is done.
QuietBefore ==
  \A s \in Sessions :
    pc[s] \in {"request", "check", "rotate", "rotating", "derive", "store",
               "publish"} => up[s] = 0 /\ down[s] = 0

IInv == Types /\ PairIsWhole /\ DerivedFromPair /\ QuietBefore /\ KeysAgree

\* The manager makes a pair at the start.
Constants == MaxPairs \in Nat \ {0}
=============================================================================
