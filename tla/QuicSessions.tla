----------------------------- MODULE QuicSessions -----------------------------
(***************************************************************************)
(* The QUIC side of the gateway: the accept loop and connection count of   *)
(* quic_server.go, the stream handler of quic_stream_handler.go, and the   *)
(* SessionManager of session.go they share.  A connection's streams run    *)
(* concurrently and share the handler's sessionID and authenticated flag,  *)
(* sessionID without a lock.  A session has no owner: the handler's Close  *)
(* is never called, and the heartbeat checker alone takes sessions out.    *)
(*                                                                         *)
(* The checker collects the expired ids under the lock, lets it go, and    *)
(* then removes the ids one at a time, whatever they stand for by then.    *)
(***************************************************************************)
EXTENDS Naturals, FiniteSets

CONSTANTS Conns,    \* connections a client may open
          Streams,  \* streams it may open on each
          Ids,      \* session ids a client may present
          Empty,    \* the empty id
          None

VARIABLES serving,    \* the accept loop runs
          conn,       \* each connection: "none", "open", "broken", "done"
          connCount,
          pc,         \* each stream's goroutine
          found,      \* id of the session a message's lookup found, or None
          presented,  \* the id each stream's authentication message carried
          sessionID,  \* the handler's field, of each connection
          authenticated,
          sessions,   \* ids in the SessionManager
          old,        \* those whose LastActivity is past heartbeatTTL
          expired     \* expiredSessions of the checker

vars == <<serving, conn, connCount, pc, found, presented, sessionID,
          authenticated, sessions, old, expired>>

S == Conns \X Streams

\* utils.GenerateSessionID: an id of its own for each call, the accepting
\* handler's (0) and, when no id is presented, a stream's.
Generated(c, k) == <<c, k>>
AllIds == Ids \cup {Empty} \cup (Conns \X (Streams \cup {0}))

Init ==
  /\ serving = TRUE
  /\ conn = [c \in Conns |-> "none"]
  /\ connCount = 0
  /\ pc = [x \in S |-> "none"]
  /\ found = [x \in S |-> None]
  /\ presented = [x \in S |-> None]
  /\ sessionID = [c \in Conns |-> None]
  /\ authenticated = [c \in Conns |-> FALSE]
  /\ sessions = {}
  /\ old = {}
  /\ expired = {}

(***************************************************************************)
(* Connections.                                                            *)
(***************************************************************************)
AddSession(id) == sessions' = sessions \cup {id}

\* The accept loop counts the connection; Handle makes its session.
AcceptConnection(c) ==
  /\ serving
  /\ conn[c] = "none"
  /\ conn' = [conn EXCEPT ![c] = "open"]
  /\ connCount' = connCount + 1
  /\ sessionID' = [sessionID EXCEPT ![c] = Generated(c, 0)]
  /\ AddSession(Generated(c, 0))
  /\ UNCHANGED <<serving, pc, found, presented, authenticated, old, expired>>

AcceptStream(x) ==
  /\ conn[x[1]] = "open"
  /\ pc[x] = "none"
  /\ pc' = [pc EXCEPT ![x] = "check"]
  /\ UNCHANGED <<serving, conn, connCount, found, presented, sessionID, authenticated,
                 sessions, old, expired>>

\* The client goes away, or the connection's idle timeout passes.
Break(c) ==
  /\ conn[c] = "open"
  /\ conn' = [conn EXCEPT ![c] = "broken"]
  /\ UNCHANGED <<serving, connCount, pc, found, presented, sessionID, authenticated,
                 sessions, old, expired>>

\* AcceptStream fails, Handle returns, and the deferred function closes the
\* connection and takes it from the count; the session stays.
HandleReturns(c) ==
  /\ conn[c] = "broken"
  /\ conn' = [conn EXCEPT ![c] = "done"]
  /\ connCount' = connCount - 1
  /\ UNCHANGED <<serving, pc, found, presented, sessionID, authenticated, sessions, old,
                 expired>>

\* Stop cancels the accept loop's context and closes the listener.
Stop ==
  /\ serving
  /\ serving' = FALSE
  /\ UNCHANGED <<conn, connCount, pc, found, presented, sessionID, authenticated,
                 sessions, old, expired>>

(***************************************************************************)
(* A stream's goroutine, handleStream.                                     *)
(***************************************************************************)
\* mutant: the flag is not looked at
IsAuthenticatedAlways(x) == TRUE

IsAuthenticated(x) == authenticated[x[1]]

CheckAuthenticated(x) ==
  /\ pc[x] = "check"
  /\ pc' = [pc EXCEPT ![x] = IF IsAuthenticated(x) THEN "read" ELSE "present"]
  /\ UNCHANGED <<serving, conn, connCount, found, presented, sessionID, authenticated,
                 sessions, old, expired>>

\* performAuthentication: the message's id, which may be empty, becomes the
\* handler's.  The read or the conversion may fail.
Present(x) ==
  /\ pc[x] = "present"
  /\ \/ /\ conn[x[1]] = "open"
        /\ \E id \in Ids \cup {Empty} :
             /\ presented' = [presented EXCEPT ![x] = id]
             /\ sessionID' = [sessionID EXCEPT ![x[1]] = id]
        /\ pc' = [pc EXCEPT ![x] = "generate"]
     \/ /\ pc' = [pc EXCEPT ![x] = "ended"]
        /\ UNCHANGED <<presented, sessionID>>
  /\ UNCHANGED <<serving, conn, connCount, found, authenticated, sessions, old, expired>>

\* The field is read again, and replaced by a generated id when it is empty.
Generate(x) ==
  /\ pc[x] = "generate"
  /\ pc' = [pc EXCEPT ![x] = "create"]
  /\ IF sessionID[x[1]] = Empty
       THEN /\ presented' = [presented EXCEPT ![x] = Generated(x[1], x[2])]
            /\ sessionID' = [sessionID EXCEPT ![x[1]] = Generated(x[1], x[2])]
       ELSE UNCHANGED <<presented, sessionID>>
  /\ UNCHANGED <<serving, conn, connCount, found, authenticated, sessions, old, expired>>

\* GetOrCreate of the handler's id, read again.
GetOrCreate(x) ==
  /\ pc[x] = "create"
  /\ sessions' = sessions \cup {sessionID[x[1]]}
  /\ old' = old \ {sessionID[x[1]]}
  /\ pc' = [pc EXCEPT ![x] = "reply"]
  /\ UNCHANGED <<serving, conn, connCount, found, presented, sessionID, authenticated,
                 expired>>

\* The response is written, or authentication fails.
Reply(x) ==
  /\ pc[x] = "reply"
  /\ \/ /\ conn[x[1]] = "open"
        /\ authenticated' = [authenticated EXCEPT ![x[1]] = TRUE]
        /\ pc' = [pc EXCEPT ![x] = "read"]
     \/ pc' = [pc EXCEPT ![x] = "ended"] /\ UNCHANGED authenticated
  /\ UNCHANGED <<serving, conn, connCount, found, presented, sessionID, sessions, old,
                 expired>>

\* A message is read and the handler's session looked up.
LookUp(x) ==
  /\ pc[x] = "read"
  /\ conn[x[1]] = "open"
  /\ pc' = [pc EXCEPT ![x] = "handle"]
  /\ found' = [found EXCEPT ![x] = IF sessionID[x[1]] \in sessions
                                   THEN sessionID[x[1]] ELSE None]
  /\ UNCHANGED <<serving, conn, connCount, presented, sessionID, authenticated,
                 sessions, old, expired>>

\* It is dropped when it cannot be converted; else it takes the handler's id,
\* read again, the session found is kept alive, and the message handled.
HandleMessage(x) ==
  /\ pc[x] = "handle"
  /\ pc' = [pc EXCEPT ![x] = "read"]
  /\ found' = [found EXCEPT ![x] = None]
  /\ old' \in {old \ {found[x]}, old}
  /\ UNCHANGED <<serving, conn, connCount, presented, sessionID, authenticated,
                 sessions, expired>>

\* The stream is closed or fails.
StreamEnds(x) ==
  /\ pc[x] = "read"
  /\ pc' = [pc EXCEPT ![x] = "ended"]
  /\ UNCHANGED <<serving, conn, connCount, found, presented, sessionID, authenticated,
                 sessions, old, expired>>

(***************************************************************************)
(* The heartbeat checker.                                                  *)
(***************************************************************************)
GrowOld(id) ==
  /\ id \in sessions \ old
  /\ old' = old \cup {id}
  /\ UNCHANGED <<serving, conn, connCount, pc, found, presented, sessionID,
                 authenticated, sessions, expired>>

CheckHeartbeats ==
  /\ expired = {}
  /\ old # {}
  /\ expired' = old
  /\ UNCHANGED <<serving, conn, connCount, pc, found, presented, sessionID,
                 authenticated, sessions, old>>

\* mutant: the session stays in the map
WithoutNone(id) == sessions

Without(id) == sessions \ {id}

\* The id is removed, whichever session it stands for by now.
RemoveSession(id) ==
  /\ id \in expired
  /\ expired' = expired \ {id}
  /\ sessions' = Without(id)
  /\ old' = old \ {id}
  /\ found' = [x \in S |-> IF found[x] = id THEN None ELSE found[x]]
  /\ UNCHANGED <<serving, conn, connCount, pc, presented, sessionID,
                 authenticated>>

StreamStep(x) ==
  \/ CheckAuthenticated(x) \/ Present(x) \/ Generate(x) \/ GetOrCreate(x)
  \/ Reply(x) \/ LookUp(x) \/ HandleMessage(x) \/ StreamEnds(x)

Next ==
  \/ Stop \/ CheckHeartbeats
  \/ \E c \in Conns : AcceptConnection(c) \/ Break(c) \/ HandleReturns(c)
  \/ \E x \in S : AcceptStream(x) \/ StreamStep(x)
  \/ \E id \in AllIds : GrowOld(id) \/ RemoveSession(id)

\* Time passes and the checker's ticker goes on.
Fairness ==
  /\ \A id \in AllIds : WF_vars(GrowOld(id))
  /\ WF_vars(CheckHeartbeats \/ \E id \in AllIds : RemoveSession(id))

Spec == Init /\ [][Next]_vars /\ Fairness

-----------------------------------------------------------------------------
TypeOK ==
  /\ serving \in BOOLEAN
  /\ conn \in [Conns -> {"none", "open", "broken", "done"}]
  /\ connCount \in 0..Cardinality(Conns)
  /\ pc \in [S -> {"none", "check", "present", "generate", "create",
                    "reply", "read", "handle", "ended"}]
  /\ {presented, found} \subseteq [S -> AllIds \cup {None}]
  /\ sessionID \in [Conns -> AllIds \cup {None}]
  /\ authenticated \in [Conns -> BOOLEAN]
  /\ old \subseteq sessions
  /\ sessions \cup expired \subseteq AllIds

\* A message is handled under an id that a stream of its own connection
\* presented or, having presented none, generated (under the empty id until
\* then), and never under the id the handler generated on accept, however the
\* streams interleave; and the count is that of the connections whose handler
\* has not returned.
HandledAsPresented ==
  /\ \A x \in S : pc[x] = "handle" =>
       sessionID[x[1]] \in {presented[<<x[1], k>>] : k \in Streams}
  /\ connCount = Cardinality({c \in Conns : conn[c] \in {"open", "broken"}})

\* The goroutines that may still use the session.
Users(id) ==
  {x \in S : pc[x] \notin {"none", "ended"} /\ sessionID[x[1]] = id}
    \cup {c \in Conns : conn[c] = "open" /\ sessionID[c] = id}

\* A session that nobody uses any more leaves the manager, or is taken up
\* again: the checker finds it although the connection that made it is gone
\* and the handler no longer names it.
OrphansExpire ==
  \A id \in AllIds :
    id \in sessions /\ Users(id) = {} ~> id \notin sessions \/ Users(id) # {}
=============================================================================
