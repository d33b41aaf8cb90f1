------------------------------ MODULE NetServer ------------------------------
(***************************************************************************)
(* The WebSocket server of src/pkg/network: its table of clients, the two  *)
(* goroutines of every client (readPump, writePump), the heartbeat checker *)
(* and Stop, with the two locks they take.  clientsLock guards the table;  *)
(* each client's closeMutex guards its Close, which takes clientsLock in   *)
(* turn.  The processors of message_handler.go are modelled by what they   *)
(* do to this state: an answer in the client's Send channel, a fresh       *)
(* lastPing, or a Broadcast to the whole table.                            *)
(*                                                                         *)
(* Requests are well formed (they have their header and position);         *)
(* messages that are too short, unknown or do not unmarshal change nothing *)
(* and have no action.                                                     *)
(***************************************************************************)
EXTENDS Naturals, FiniteSets

CONSTANTS Clients,        \* connections that may be made; each has its own ID
          SendCap,        \* capacity of a client's Send channel (256 in code)
          Free            \* a lock that nobody holds

VARIABLES clients,  \* s.clients: the clients in the table
          conn,     \* the connection: "none", "open", "broken" or "shut"
          closed,   \* c.closed, and with it the client's cancelled context
          closing,  \* the holder of c.closeMutex
          wlock,    \* the goroutine holding clientsLock for writing
          rlock,    \* the goroutines holding clientsLock for reading
          send,     \* the number of messages in c.Send
          late,     \* lastPing is older than two heartbeat intervals
          stopped,  \* s.ctx is cancelled
          pc,       \* where each goroutine is
          todo,     \* the clients its loop over s.clients has yet to visit
          target    \* the client whose Close it runs

vars == <<clients, conn, closed, closing, wlock, rlock, send, late, stopped,
          pc, todo, target>>

Reader(c) == <<"readPump", c>>
Writer(c) == <<"writePump", c>>
Checker   == <<"heartbeatChecker">>
Stopper   == <<"Stop">>
Pumps     == {Reader(c) : c \in Clients} \cup {Writer(c) : c \in Clients}
Procs     == Pumps \cup {Checker, Stopper}

Init ==
  /\ clients = {}
  /\ conn = [c \in Clients |-> "none"]
  /\ closed = [c \in Clients |-> FALSE]
  /\ closing = [c \in Clients |-> Free]
  /\ wlock = Free
  /\ rlock = {}
  /\ send = [c \in Clients |-> 0]
  /\ late = [c \in Clients |-> FALSE]
  /\ stopped = FALSE
  /\ pc = [p \in Procs |-> IF p \in Pumps THEN "off" ELSE "idle"]
  /\ todo = [p \in Procs |-> {}]
  /\ target = [p \in Procs |-> Free]

\* sync.RWMutex: a writer needs the lock for itself, a reader only a lock
\* without a writer.  (A writer about to call Lock and one that waits in it are
\* in the same state here; the second would keep a new reader out.)
WriteFree == wlock = Free /\ rlock = {}
ReadFree  == wlock = Free
Holds(p)  == wlock = p \/ p \in rlock

Goto(p, l) == pc' = [pc EXCEPT ![p] = l]
CallClose(p, c) ==
  /\ pc' = [pc EXCEPT ![p] = "close"]
  /\ target' = [target EXCEPT ![p] = c]

(***************************************************************************)
(* Accepting a client.                                                     *)
(***************************************************************************)
\* Start's handler: the connection is upgraded and hijacked from the HTTP
\* server, whose Shutdown therefore does not wait for the rest.
Accept(c) ==
  /\ ~stopped
  /\ conn[c] = "none"
  /\ conn' = [conn EXCEPT ![c] = "open"]
  /\ Goto(Reader(c), "enlist")
  /\ UNCHANGED <<clients, closed, closing, wlock, rlock, send, late, stopped,
                 todo, target>>

\* The client is entered in the table and its two pumps start.
NewClientFromWS(c) ==
  /\ pc[Reader(c)] = "enlist"
  /\ WriteFree
  /\ clients' = clients \cup {c}
  /\ pc' = [pc EXCEPT ![Reader(c)] = "idle", ![Writer(c)] = "idle"]
  /\ UNCHANGED <<conn, closed, closing, wlock, rlock, send, late, stopped,
                 todo, target>>

\* The peer goes away.
Break(c) ==
  /\ conn[c] = "open"
  /\ conn' = [conn EXCEPT ![c] = "broken"]
  /\ UNCHANGED <<clients, closed, closing, wlock, rlock, send, late, stopped,
                 pc, todo, target>>

\* Time passes without a pong or a heartbeat request.
GoSilent(c) ==
  /\ c \in clients
  /\ ~late[c]
  /\ late' = [late EXCEPT ![c] = TRUE]
  /\ UNCHANGED <<clients, conn, closed, closing, wlock, rlock, send, stopped,
                 pc, todo, target>>

(***************************************************************************)
(* readPump and the message processors.                                    *)
(***************************************************************************)
\* mutant: the channel's capacity is not looked at
SendMessageAlways(c) == [send EXCEPT ![c] = @ + 1]

\* SendMessage never blocks: a message that finds the channel full is lost.
SendMessage(c) == [send EXCEPT ![c] = IF @ < SendCap THEN @ + 1 ELSE @]

Receives(c) == pc[Reader(c)] = "idle" /\ conn[c] = "open"

\* Requests whose processor only answers.
Answer(c) ==
  /\ Receives(c)
  /\ send' = SendMessage(c)
  /\ UNCHANGED <<clients, conn, closed, closing, wlock, rlock, late, stopped,
                 pc, todo, target>>

HandleLoginRequest(c)         == Answer(c)
HandlePositionSyncRequest(c)  == Answer(c)
HandleCombatCommandRequest(c) == Answer(c)

\* A heartbeat request is answered and counts as a ping; a pong only counts.
HandleHeartbeatRequest(c) ==
  /\ Receives(c)
  /\ late' = [late EXCEPT ![c] = FALSE]
  /\ send' \in {send, SendMessage(c)}
  /\ UNCHANGED <<clients, conn, closed, closing, wlock, rlock, stopped, pc,
                 todo, target>>

\* A chat request is answered; one to the world is first broadcast, by the
\* read pump itself.
HandleOtherChat(c) == Answer(c)
HandleChatRequest(c) ==
  /\ Receives(c)
  /\ ReadFree
  /\ rlock' = rlock \cup {Reader(c)}
  /\ todo' = [todo EXCEPT ![Reader(c)] = clients]
  /\ Goto(Reader(c), "loop")
  /\ UNCHANGED <<clients, conn, closed, closing, wlock, send, late, stopped,
                 target>>

\* Broadcast, one client: a full channel makes it close that client.
Broadcast(c) ==
  LET p == Reader(c) IN
  /\ pc[p] = "loop"
  /\ \E d \in todo[p] :
       /\ todo' = [todo EXCEPT ![p] = @ \ {d}]
       /\ IF send[d] < SendCap
            THEN send' = SendMessage(d) /\ UNCHANGED <<pc, target>>
            ELSE CallClose(p, d) /\ UNCHANGED send
  /\ UNCHANGED <<clients, conn, closed, closing, wlock, rlock, late, stopped>>

\* The end of Broadcast; the chat request itself is then answered.
BroadcastEnd(c) ==
  LET p == Reader(c) IN
  /\ pc[p] = "loop"
  /\ todo[p] = {}
  /\ rlock' = rlock \ {p}
  /\ send' = SendMessage(c)
  /\ Goto(p, "idle")
  /\ UNCHANGED <<clients, conn, closed, closing, wlock, late, stopped, todo,
                 target>>

\* ReadMessage fails: the connection is gone or the deadline has passed.
ReadFails(c) ==
  /\ pc[Reader(c)] = "idle"
  /\ CallClose(Reader(c), c)
  /\ UNCHANGED <<clients, conn, closed, closing, wlock, rlock, send, late,
                 stopped, todo>>

(***************************************************************************)
(* writePump.                                                              *)
(***************************************************************************)
\* All queued messages leave in one WebSocket message.
WritePumpSend(c) ==
  /\ pc[Writer(c)] = "idle"
  /\ send[c] > 0
  /\ conn[c] = "open"
  /\ send' = [send EXCEPT ![c] = 0]
  /\ UNCHANGED <<clients, conn, closed, closing, wlock, rlock, late, stopped,
                 pc, todo, target>>

\* The context is cancelled, or a write or a ping fails.
WritePumpEnds(c) ==
  /\ pc[Writer(c)] = "idle"
  /\ CallClose(Writer(c), c)
  /\ UNCHANGED <<clients, conn, closed, closing, wlock, rlock, send, late,
                 stopped, todo>>

(***************************************************************************)
(* Close, run by any goroutine for any client.                             *)
(***************************************************************************)
Returns(p) ==
  /\ Goto(p, IF Holds(p) THEN "loop" ELSE "done")
  /\ target' = [target EXCEPT ![p] = Free]

\* Up to the connection: closeMutex is taken, and given back at once when
\* the client is closed already.  The checker then deletes the client itself.
CloseConn(p) ==
  LET c == target[p] IN
  /\ pc[p] = "close"
  /\ closing[c] = Free
  /\ IF closed[c]
       THEN /\ Returns(p)
            /\ clients' = IF p = Checker THEN clients \ {c} ELSE clients
            /\ UNCHANGED <<closed, conn, closing>>
       ELSE /\ closed' = [closed EXCEPT ![c] = TRUE]
            /\ conn' = [conn EXCEPT ![c] = "shut"]
            /\ closing' = [closing EXCEPT ![c] = p]
            /\ Goto(p, "unlist")
            /\ UNCHANGED <<clients, target>>
  /\ UNCHANGED <<wlock, rlock, send, late, stopped, todo>>

\* mutant: closeMutex is not given back
UnlockCloseNot(c) == closing

UnlockClose(c) == [closing EXCEPT ![c] = Free]

\* The client leaves the table; what is left in its channel, and its
\* lastPing, are never looked at again.
CloseUnlist(p) ==
  LET c == target[p] IN
  /\ pc[p] = "unlist"
  /\ WriteFree
  /\ clients' = clients \ {c}
  /\ closing' = UnlockClose(c)
  /\ send' = [send EXCEPT ![c] = 0]
  /\ late' = [late EXCEPT ![c] = FALSE]
  /\ Returns(p)
  /\ UNCHANGED <<conn, closed, wlock, rlock, stopped, todo>>

(***************************************************************************)
(* The heartbeat checker and Stop: two loops under the write lock.         *)
(***************************************************************************)
LockAll(p) ==
  /\ WriteFree
  /\ wlock' = p
  /\ todo' = [todo EXCEPT ![p] = clients]
  /\ Goto(p, "loop")

\* A tick; both cases of the select may be ready, so it can follow Stop's
\* cancellation.
CheckHeartbeats ==
  /\ pc[Checker] = "idle"
  /\ LockAll(Checker)
  /\ UNCHANGED <<clients, conn, closed, closing, rlock, send, late, stopped,
                 target>>

CheckerEnds ==
  /\ pc[Checker] = "idle"
  /\ stopped
  /\ Goto(Checker, "done")
  /\ UNCHANGED <<clients, conn, closed, closing, wlock, rlock, send, late,
                 stopped, todo, target>>

StopCancel ==
  /\ ~stopped
  /\ stopped' = TRUE
  /\ Goto(Stopper, "wait")
  /\ UNCHANGED <<clients, conn, closed, closing, wlock, rlock, send, late,
                 todo, target>>

StopAll ==
  /\ pc[Stopper] = "wait"
  /\ LockAll(Stopper)
  /\ UNCHANGED <<clients, conn, closed, closing, rlock, send, late, stopped,
                 target>>

\* One client of the loop: the checker closes the late ones, Stop all.
Visit(p) ==
  /\ pc[p] = "loop"
  /\ wlock = p
  /\ \E d \in todo[p] :
       /\ todo' = [todo EXCEPT ![p] = @ \ {d}]
       /\ IF p = Stopper \/ late[d]
            THEN CallClose(p, d)
            ELSE UNCHANGED <<pc, target>>
  /\ UNCHANGED <<clients, conn, closed, closing, wlock, rlock, send, late,
                 stopped>>

VisitEnd(p) ==
  /\ pc[p] = "loop"
  /\ wlock = p
  /\ todo[p] = {}
  /\ wlock' = Free
  /\ Goto(p, IF p = Stopper THEN "done" ELSE "idle")
  /\ UNCHANGED <<clients, conn, closed, closing, rlock, send, late, stopped,
                 todo, target>>

Next ==
  \/ \E c \in Clients :
       \/ Accept(c) \/ NewClientFromWS(c) \/ Break(c) \/ GoSilent(c)
       \/ HandleLoginRequest(c) \/ HandlePositionSyncRequest(c)
       \/ HandleCombatCommandRequest(c) \/ HandleOtherChat(c)
       \/ HandleHeartbeatRequest(c) \/ HandleChatRequest(c)
       \/ Broadcast(c) \/ BroadcastEnd(c) \/ ReadFails(c)
       \/ WritePumpSend(c) \/ WritePumpEnds(c)
  \/ \E p \in Procs : CloseConn(p) \/ CloseUnlist(p)
  \/ CheckHeartbeats \/ CheckerEnds \/ StopCancel \/ StopAll
  \/ \E p \in {Checker, Stopper} : Visit(p) \/ VisitEnd(p)

Spec == Init /\ [][Next]_vars

-----------------------------------------------------------------------------
TypeOK ==
  /\ clients \subseteq Clients
  /\ conn \in [Clients -> {"none", "open", "broken", "shut"}]
  /\ closed \in [Clients -> BOOLEAN]
  /\ closing \in [Clients -> Procs \cup {Free}]
  /\ wlock \in {Free, Checker, Stopper}
  /\ rlock \subseteq {Reader(c) : c \in Clients}
  /\ send \in [Clients -> 0..SendCap]
  /\ late \in [Clients -> BOOLEAN]
  /\ stopped \in BOOLEAN
  /\ pc \in [Procs -> {"off", "enlist", "idle", "wait", "loop", "close",
                       "unlist", "done"}]
  /\ todo \in [Procs -> SUBSET Clients]
  /\ target \in [Procs -> Clients \cup {Free}]

\* A goroutine runs Close while it holds clientsLock, which Close needs.
ClosesUnderLock == \E p \in Procs : Holds(p) /\ pc[p] \in {"close", "unlist"}

\* The goroutine can take its next step inside a loop or a Close.
CanStep(p) ==
  \/ pc[p] = "loop"
  \/ pc[p] = "close" /\ closing[target[p]] = Free
  \/ pc[p] \in {"unlist", "enlist"} /\ WriteFree

\* The two locks never hold everyone up: while a goroutine is in Close or
\* waits to enlist its client, some goroutine can go on, unless one of them
\* called Close from a loop that holds clientsLock (Broadcast on a full
\* channel, checkHeartbeats on a late client, Stop).
SomeoneCanStep ==
  (\E p \in Procs : pc[p] \in {"close", "unlist", "enlist"}) =>
    ClosesUnderLock \/ \E p \in Procs : CanStep(p)

-----------------------------------------------------------------------------
Types ==
  /\ clients \subseteq Clients
  /\ DOMAIN conn = Clients
  /\ closing \in [Clients -> Procs \cup {Free}]
  /\ wlock \in {Free, Checker, Stopper}
  /\ rlock \subseteq {Reader(c) : c \in Clients}
  /\ pc \in [Procs -> {"off", "enlist", "idle", "wait", "loop", "close",
                       "unlist", "done"}]
  /\ todo \in [Procs -> SUBSET Clients]
  /\ target \in [Procs -> Clients \cup {Free}]

\* clientsLock is held in a loop over the table, and in a Close called there.
HolderLoops ==
  \A p \in Procs : Holds(p) => pc[p] \in {"loop", "close", "unlist"}

\* A Close is for a client.
CloseHasClient ==
  \A p \in Procs : pc[p] \in {"close", "unlist"} => target[p] \in Clients

\* A held closeMutex is held by a Close of that client that is about to take
\* the client out of the table.
CloserUnlists ==
  \A c \in Clients : closing[c] # Free =>
    pc[closing[c]] = "unlist" /\ target[closing[c]] = c

\* A client's goroutines start when it is accepted and when it is enlisted,
\* and Stop's when the context is cancelled.
StartsOnce ==
  /\ \A c \in Clients :
       /\ conn[c] = "none" => pc[Reader(c)] = "off"
       /\ pc[Reader(c)] \in {"off", "enlist"} => pc[Writer(c)] = "off"
  /\ ~stopped => pc[Stopper] = "idle"

IInv == Types /\ HolderLoops /\ CloseHasClient /\ CloserUnlists /\ StartsOnce

\* Nobody is no goroutine and no client.
Constants == Free \notin Procs \cup Clients /\ SendCap \in Nat
=============================================================================
