------------------------------- MODULE Gateway -------------------------------
(***************************************************************************)
(* The gateway's sessions: GatewayHandler (src/pkg/gateway/handler.go), a  *)
(* Session's read, write and close (session.go) and the accept paths of    *)
(* the WebSocket servers.  Each session has a goroutine that reads,        *)
(* handles and answers; the cleanup loop, Stop and a broadcast run beside  *)
(* them.  sessionsMutex guards the table; a session's mu is held for       *)
(* reading across the blocking read, and for writing by WriteMessage and   *)
(* Close.                                                                  *)
(*                                                                         *)
(* The accept path sets the connection's read and write deadline once and  *)
(* nothing extends it: Deadline is a step, after which reads and writes    *)
(* fail.  A read may fail earlier, when the client goes away.              *)
(***************************************************************************)
EXTENDS FiniteSets

CONSTANTS Sessions, None

VARIABLES gate,      \* "new", "running", "stopping", "stopped"
          service,   \* the gateway's own instance is in the discovery
          pc,        \* where each session's goroutine is
          sessions,  \* h.sessions
          closed,    \* session.closed
          conn,      \* the connection is open on this side
          late,      \* the deadline has passed
          cleaner,   \* sessionCleanupLoop runs
          mutex,     \* holder of sessionsMutex: None, "cleaner" or "stop"
          todo,      \* sessions the holder has still to visit
          target,    \* the session the holder is closing
          bcast,     \* sessions a broadcast has still to write to
          btarget,   \* the session it is writing to
          called     \* bound: one broadcast in a behaviour

vars == <<gate, service, pc, sessions, closed, conn, late, cleaner,
          mutex, todo, target, bcast, btarget, called>>

handlerVars == <<gate, service, cleaner, mutex, todo, target, bcast, btarget, called>>

Init ==
  /\ gate = "new"
  /\ service = FALSE
  /\ pc = [s \in Sessions |-> "none"]
  /\ sessions = {}
  /\ closed = [s \in Sessions |-> FALSE]
  /\ conn = [s \in Sessions |-> FALSE]
  /\ late = [s \in Sessions |-> FALSE]
  /\ cleaner = FALSE
  /\ mutex = None
  /\ todo = {}
  /\ target = None
  /\ bcast = {}
  /\ btarget = None
  /\ called = FALSE

RegisterServiceInstance == service' = TRUE

\* The instance is registered, the servers listen, the cleanup loop starts.
Start ==
  /\ gate = "new"
  /\ gate' = "running"
  /\ RegisterServiceInstance
  /\ cleaner' = TRUE
  /\ UNCHANGED <<pc, sessions, closed, conn, late, mutex, todo, target,
                 bcast, btarget, called>>

\* A server upgrades the request (and, for the secure one, shakes hands), sets
\* the deadlines and starts the connection handler.
Accept(s) ==
  /\ gate = "running"
  /\ pc[s] = "none"
  /\ pc' = [pc EXCEPT ![s] = "accepted"]
  /\ conn' = [conn EXCEPT ![s] = TRUE]
  /\ UNCHANGED <<handlerVars, sessions, closed, late>>

\* The secure server closes the connection when the handshake fails; no
\* session is made.
HandshakeFails(s) ==
  /\ gate = "running"
  /\ pc[s] = "none"
  /\ pc' = [pc EXCEPT ![s] = "done"]
  /\ UNCHANGED <<handlerVars, sessions, closed, conn, late>>

RegisterSession(s) ==
  /\ mutex = None
  /\ sessions' = sessions \cup {s}

\* The session is made and registered and its goroutine started.
HandleConnection(s) ==
  /\ pc[s] = "accepted"
  /\ RegisterSession(s)
  /\ pc' = [pc EXCEPT ![s] = "read"]
  /\ UNCHANGED <<handlerVars, closed, conn, late>>

\* The deadline set at accept passes.
Deadline(s) ==
  /\ pc[s] \notin {"none", "done"}
  /\ ~late[s]
  /\ late' = [late EXCEPT ![s] = TRUE]
  /\ UNCHANGED <<handlerVars, pc, sessions, closed, conn>>

(***************************************************************************)
(* A session's goroutine.                                                  *)
(***************************************************************************)
\* ReadMessage takes mu for reading and, unless the session is closed, keeps
\* it until the read returns.  (A goroutine about to call Lock does not keep
\* the reader out; one that waits in Lock does, which is not needed here.)
ReadMessage(s) ==
  /\ pc[s] = "read"
  /\ pc' = [pc EXCEPT ![s] = IF closed[s] THEN "unregister" ELSE "reading"]
  /\ UNCHANGED <<handlerVars, sessions, closed, conn, late>>

\* A message arrives before the deadline, or the client goes away.  Neither
\* need ever happen.
ReadReturns(s) ==
  /\ pc[s] = "reading"
  /\ \/ ~late[s] /\ pc' = [pc EXCEPT ![s] = "handle"]
     \/ pc' = [pc EXCEPT ![s] = "unregister"]
  /\ UNCHANGED <<handlerVars, sessions, closed, conn, late>>

\* mutant: no deadline is set
TimesOutNever(s) == FALSE

TimesOut(s) == late[s]

\* The deadline ends a read in progress.
ReadTimesOut(s) ==
  /\ pc[s] = "reading"
  /\ TimesOut(s)
  /\ pc' = [pc EXCEPT ![s] = "unregister"]
  /\ UNCHANGED <<handlerVars, sessions, closed, conn, late>>

\* Conversion or routing fails, or there is a response to write.  Route
\* always gives one, or an error after its timeout.
HandleMessage(s) ==
  /\ pc[s] = "handle"
  /\ \E next \in {"respond", "complain"} : pc' = [pc EXCEPT ![s] = next]
  /\ UNCHANGED <<handlerVars, sessions, closed, conn, late>>

\* WriteMessage: the outcomes the write can have now.
Writes(s) == IF closed[s] \/ late[s] THEN {FALSE} ELSE BOOLEAN

\* The response; when it cannot be written the error is reported to the
\* client, and when that fails too the goroutine returns.
WriteMessage(s) ==
  /\ pc[s] \in {"respond", "complain"}
  /\ \E ok \in Writes(s) :
       pc' = [pc EXCEPT ![s] = IF ok THEN "read"
                               ELSE IF @ = "respond" THEN "complain"
                               ELSE "unregister"]
  /\ UNCHANGED <<handlerVars, sessions, closed, conn, late>>

UnregisterSession(s) ==
  /\ mutex = None
  /\ sessions' = sessions \ {s}

\* The goroutine returns: its deferred function unregisters the session.
MessagesEnd(s) ==
  /\ pc[s] = "unregister"
  /\ UnregisterSession(s)
  /\ pc' = [pc EXCEPT ![s] = "close"]
  /\ UNCHANGED <<handlerVars, closed, conn, late>>

\* Session.Close: only the first closes the connection.
Close(s) ==
  /\ closed' = [closed EXCEPT ![s] = TRUE]
  /\ conn' = [conn EXCEPT ![s] = @ /\ closed[s]]

\* And then closes it.
CloseSession(s) ==
  /\ pc[s] = "close"
  /\ Close(s)
  /\ pc' = [pc EXCEPT ![s] = "done"]
  /\ late' = [late EXCEPT ![s] = TRUE]
  /\ UNCHANGED <<handlerVars, sessions>>

(***************************************************************************)
(* The cleanup loop, Stop and the broadcast.                               *)
(***************************************************************************)
LockSessions(who) ==
  /\ mutex = None
  /\ mutex' = who
  /\ todo' = sessions

\* A tick; with shutdownCh closed the select may still choose it.
CleanupBegins ==
  /\ cleaner
  /\ LockSessions("cleaner")
  /\ UNCHANGED <<gate, service, pc, sessions, closed, conn, late, cleaner,
                 target, bcast, btarget, called>>

CleanerEnds ==
  /\ cleaner
  /\ gate \in {"stopping", "stopped"}
  /\ mutex # "cleaner"
  /\ cleaner' = FALSE
  /\ UNCHANGED <<gate, service, pc, sessions, closed, conn, late, mutex,
                 todo, target, bcast, btarget, called>>

\* The next session of the range: one whose LastActivity is too old is removed
\* from the table and Close called on it.  Any time may have passed since the
\* session's goroutine last set LastActivity, so each session may be too old.
CleanupVisits(s) ==
  /\ mutex = "cleaner"
  /\ target = None
  /\ s \in todo
  /\ todo' = todo \ {s}
  /\ \/ sessions' = sessions \ {s} /\ target' = s
     \/ UNCHANGED <<sessions, target>>
  /\ UNCHANGED <<gate, service, pc, closed, conn, late, cleaner, mutex,
                 bcast, btarget, called>>

\* Stop closes every session and leaves the table to the goroutines.
StopVisits(s) ==
  /\ mutex = "stop"
  /\ target = None
  /\ s \in todo
  /\ todo' = todo \ {s}
  /\ target' = s
  /\ UNCHANGED <<gate, service, pc, sessions, closed, conn, late, cleaner,
                 mutex, bcast, btarget, called>>

\* Close waits for the read in progress, with sessionsMutex held.
CloseTarget ==
  /\ target # None
  /\ pc[target] # "reading"
  /\ Close(target)
  /\ target' = None
  /\ UNCHANGED <<gate, service, pc, sessions, late, cleaner, mutex, todo,
                 bcast, btarget, called>>

CleanupEnds ==
  /\ mutex = "cleaner"
  /\ todo = {} /\ target = None
  /\ mutex' = None
  /\ UNCHANGED <<gate, service, pc, sessions, closed, conn, late, cleaner,
                 todo, target, bcast, btarget, called>>

\* Stop closes shutdownCh and shuts the servers down, which does not touch
\* the connections already upgraded.
StopBegins ==
  /\ gate = "running"
  /\ gate' = "stopping"
  /\ UNCHANGED <<service, pc, sessions, closed, conn, late, cleaner, mutex,
                 todo, target, bcast, btarget, called>>

StopLocks ==
  /\ gate = "stopping"
  /\ LockSessions("stop")
  /\ UNCHANGED <<gate, service, pc, sessions, closed, conn, late, cleaner,
                 target, bcast, btarget, called>>

StopEnds ==
  /\ mutex = "stop"
  /\ todo = {} /\ target = None
  /\ mutex' = None
  /\ gate' = "stopped"
  /\ service' = FALSE
  /\ UNCHANGED <<pc, sessions, closed, conn, late, cleaner, todo, target,
                 bcast, btarget, called>>

\* BroadcastToAll copies the table and writes without sessionsMutex.
BroadcastToAll ==
  /\ ~called
  /\ called' = TRUE
  /\ mutex = None
  /\ gate = "running"
  /\ bcast' = sessions
  /\ UNCHANGED <<gate, service, pc, sessions, closed, conn, late, cleaner,
                 mutex, todo, target, btarget>>

BroadcastVisits(s) ==
  /\ btarget = None
  /\ s \in bcast
  /\ bcast' = bcast \ {s}
  /\ btarget' = s
  /\ UNCHANGED <<gate, service, pc, sessions, closed, conn, late, cleaner,
                 mutex, todo, target, called>>

\* WriteMessage waits for the read in progress; its error is only logged.
BroadcastWrites ==
  /\ btarget # None
  /\ pc[btarget] # "reading"
  /\ btarget' = None
  /\ UNCHANGED <<gate, service, pc, sessions, closed, conn, late, cleaner, mutex,
                 todo, target, bcast, called>>

SessionStep(s) ==
  ReadMessage(s) \/ ReadTimesOut(s) \/ HandleMessage(s) \/ WriteMessage(s)

BroadcastStep == BroadcastWrites \/ \E s \in Sessions : BroadcastVisits(s)

HolderStep ==
  \/ \E s \in Sessions : CleanupVisits(s) \/ StopVisits(s)
  \/ CloseTarget \/ CleanupEnds \/ StopEnds

\* The steps that wait for sessionsMutex.
LockingStep ==
  StopLocks \/ \E s \in Sessions : HandleConnection(s) \/ MessagesEnd(s)

Next ==
  \/ Start \/ StopBegins \/ CleanupBegins \/ CleanerEnds \/ BroadcastToAll
  \/ \E s \in Sessions : Accept(s) \/ HandshakeFails(s) \/ Deadline(s)
                         \/ ReadReturns(s) \/ SessionStep(s) \/ CloseSession(s)
  \/ HolderStep \/ BroadcastStep \/ LockingStep

\* Goroutines run, time passes (but no client is obliged to send), Route
\* returns by its timeout, and a sync mutex hands itself to a waiter of 1 ms:
\* sessionsMutex is not kept from anyone by the cleanup loop taking it again
\* and again.
Fairness ==
  /\ \A s \in Sessions : WF_vars(SessionStep(s))
  /\ WF_vars(\E s \in Sessions : Deadline(s) \/ CloseSession(s))
  /\ WF_vars(HolderStep)
  /\ WF_vars(BroadcastStep)
  /\ SF_vars(LockingStep)

Spec == Init /\ [][Next]_vars /\ Fairness

-----------------------------------------------------------------------------
TypeOK ==
  /\ gate \in {"new", "running", "stopping", "stopped"}
  /\ {service, cleaner, called} \subseteq BOOLEAN
  /\ pc \in [Sessions -> {"none", "accepted", "read", "reading", "handle", "respond",
                         "complain", "unregister", "close", "done"}]
  /\ sessions \cup todo \cup bcast \subseteq Sessions
  /\ {closed, conn, late} \subseteq [Sessions -> BOOLEAN]
  /\ mutex \in {None, "cleaner", "stop"}
  /\ {target, btarget} \subseteq Sessions \cup {None}

\* Every accepted connection is in the end closed and its session out of the
\* table, and Stop returns, although Stop and the cleanup loop wait, with the
\* table locked, for reads in progress.
SessionsEnd ==
  /\ \A s \in Sessions :
       pc[s] = "accepted" ~> pc[s] = "done" /\ s \notin sessions /\ ~conn[s]
  /\ gate = "stopping" ~> gate = "stopped"
=============================================================================
