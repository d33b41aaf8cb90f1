-------------------------- MODULE Messaging_proofs --------------------------
(***************************************************************************)
(* The inductive invariants of the WebSocket server, of publish/subscribe  *)
(* and of the router: that they hold initially, that every step keeps      *)
(* them, and what follows from them.  Services states the theorems.        *)
(***************************************************************************)
EXTENDS NetServer, PubSub, Router, TLAPS

-----------------------------------------------------------------------------
(* The WebSocket server.                                                    *)

\* The goroutines are different ones.
LEMMA NetProcs ==
  ASSUME NEW c \in Clients, NEW d \in Clients
  PROVE  /\ Reader(c) \in Procs /\ Writer(c) \in Procs
         /\ Reader(c) = Reader(d) => c = d
         /\ Writer(c) = Writer(d) => c = d
         /\ Reader(c) # Writer(d)
         /\ Reader(c) # Checker /\ Reader(c) # Stopper
         /\ Writer(c) # Checker /\ Writer(c) # Stopper
BY DEF Procs, Pumps, Reader, Writer, Checker, Stopper

\* ... and the two loops are different ones.
LEMMA NetLoops == Checker \in Procs /\ Stopper \in Procs /\ Checker # Stopper
BY DEF Procs, Checker, Stopper

\* The invariant holds initially.
LEMMA NetInit ==
  ASSUME Constants, Init  PROVE IInv
<1>1. \A p \in Procs : pc[p] \in {"off", "idle"}
  BY Zenon DEF Init
<1>2. Types
  <2>1. pc \in [Procs -> {"off", "enlist", "idle", "wait", "loop", "close",
                          "unlist", "done"}]
    BY DEF Init
  <2>. QED  BY <2>1 DEF Init, Types
<1>3. HolderLoops /\ CloseHasClient /\ CloserUnlists
  BY Zenon, <1>1 DEF Init, HolderLoops, CloseHasClient, CloserUnlists, Holds, Constants
<1>4. StartsOnce
  <2>1. ASSUME NEW c \in Clients
        PROVE  pc[Reader(c)] = "off" /\ pc[Writer(c)] = "off"
    BY Zenon, NetProcs DEF Init, Pumps
  <2>2. pc[Stopper] = "idle"
    <3>1. Stopper \notin Pumps
      BY Zenon, NetProcs DEF Pumps
    <3>. QED  BY Zenon, <3>1, NetLoops DEF Init
  <2>. QED  BY Zenon, <2>1, <2>2 DEF StartsOnce
<1>. QED  BY Zenon, <1>2, <1>3, <1>4 DEF IInv

\* The invariant is enough: with nobody in a loop the lock is free, and then
\* every Close is either first in line for its client or waits for one that
\* can go on.
LEMMA NetEnough ==
  ASSUME Constants, IInv  PROVE SomeoneCanStep
<1>. SUFFICES ASSUME NEW p \in Procs, pc[p] \in {"close", "unlist", "enlist"},
                     ~ClosesUnderLock, \A q \in Procs : pc[q] # "loop"
              PROVE  \E q \in Procs : CanStep(q)
  BY Zenon DEF SomeoneCanStep, CanStep
<1>1. \A q \in Procs : ~Holds(q)
  BY Zenon DEF IInv, HolderLoops, ClosesUnderLock
<1>2. WriteFree
  <2>1. wlock = Free
    BY Zenon, <1>1, NetLoops DEF IInv, Types, Holds
  <2>2. \A c \in Clients : Reader(c) \notin rlock
    BY Zenon, <1>1, NetProcs DEF Holds
  <2>3. rlock = {}
    BY Zenon, <2>2 DEF IInv, Types
  <2>. QED  BY Zenon, <2>1, <2>3 DEF WriteFree
<1>3. CASE pc[p] \in {"unlist", "enlist"}
  BY Zenon, <1>2, <1>3 DEF CanStep
<1>4. CASE pc[p] = "close"
  <2>1. target[p] \in Clients
    BY Zenon, <1>4 DEF IInv, CloseHasClient
  <2>2. CASE closing[target[p]] = Free
    BY Zenon, <1>4, <2>2 DEF CanStep
  <2>3. CASE closing[target[p]] # Free
    <3>1. closing[target[p]] \in Procs
      BY Zenon, <2>1, <2>3 DEF IInv, Types
    <3>2. pc[closing[target[p]]] = "unlist"
      BY Zenon, <2>1, <2>3 DEF IInv, CloserUnlists
    <3>. QED  BY Zenon, <1>2, <3>1, <3>2 DEF CanStep
  <2>. QED  BY Zenon, <2>2, <2>3
<1>. QED  BY Zenon, <1>3, <1>4

\* What leaves the locks and the goroutines alone.
LEMMA NetOther ==
  ASSUME IInv, Types', UNCHANGED <<closing, wlock, rlock, stopped, pc, target>>,
         \/ UNCHANGED conn
         \/ \E c \in Clients : \E s : conn' = [conn EXCEPT ![c] = s] /\ s # "none"
  PROVE  IInv'
BY Zenon DEF IInv, Types, HolderLoops, Holds, CloseHasClient, CloserUnlists, StartsOnce

\* One goroutine goes on: it holds no closeMutex, keeps or takes the lock only
\* for a loop, and calls Close for a client.
LEMMA NetMove ==
  ASSUME IInv, Types', NEW p \in Procs, NEW l,
         pc' = [pc EXCEPT ![p] = l], pc[p] # "unlist", UNCHANGED closing,
         \/ UNCHANGED target
         \/ \E t : target' = [target EXCEPT ![p] = t],
         l \in {"close", "unlist"} => target'[p] \in Clients,
         \A q \in Procs : q # p => (Holds(q)' => Holds(q)),
         Holds(p)' => l \in {"loop", "close", "unlist"}
  PROVE  HolderLoops' /\ CloseHasClient' /\ CloserUnlists'
<1>1. ASSUME NEW q \in Procs, q # p
      PROVE  pc'[q] = pc[q] /\ target'[q] = target[q]
  BY Zenon, <1>1 DEF IInv, Types
<1>2. pc'[p] = l
  BY Zenon DEF IInv, Types
<1>3. HolderLoops'
  BY Zenon, <1>1, <1>2 DEF IInv, HolderLoops
<1>4. CloseHasClient'
  BY Zenon, <1>1, <1>2 DEF IInv, CloseHasClient
<1>5. CloserUnlists'
  <2>. SUFFICES ASSUME NEW c \in Clients, closing[c] # Free
                PROVE  pc'[closing[c]] = "unlist" /\ target'[closing[c]] = c
    BY Zenon DEF CloserUnlists
  <2>1. closing[c] \in Procs
    BY Zenon DEF IInv, Types
  <2>2. pc[closing[c]] = "unlist" /\ target[closing[c]] = c
    BY Zenon DEF IInv, CloserUnlists
  <2>. QED  BY Zenon, <1>1, <2>1, <2>2
<1>. QED  BY Zenon, <1>3, <1>4, <1>5

\* One goroutine that has started goes on.
LEMMA NetGoesOn ==
  ASSUME IInv, NEW p \in Procs, NEW l, pc' = [pc EXCEPT ![p] = l],
         pc[p] # "off", pc[p] # "enlist", l # "off", l # "enlist",
         p = Stopper => stopped', stopped => stopped',
         \/ UNCHANGED conn
         \/ \E c \in Clients : conn' = [conn EXCEPT ![c] = "shut"]
  PROVE  StartsOnce'
<1>1. ASSUME NEW q \in Procs, q # p  PROVE pc'[q] = pc[q]
  BY Zenon, <1>1 DEF IInv, Types
<1>2. pc'[p] = l
  BY Zenon DEF IInv, Types
<1>3. ASSUME NEW c \in Clients
      PROVE  /\ conn'[c] = "none" => pc'[Reader(c)] = "off"
             /\ pc'[Reader(c)] \in {"off", "enlist"} => pc'[Writer(c)] = "off"
  <2>1. conn'[c] = "none" => conn[c] = "none"
    BY Zenon DEF IInv, Types
  <2>2. /\ conn[c] = "none" => pc[Reader(c)] = "off"
        /\ pc[Reader(c)] \in {"off", "enlist"} => pc[Writer(c)] = "off"
    BY Zenon DEF IInv, StartsOnce
  <2>3. Reader(c) \in Procs /\ Writer(c) \in Procs
    BY Zenon, NetProcs
  <2>. QED  BY Zenon, <1>1, <1>2, <2>1, <2>2, <2>3
<1>4. ~stopped' => pc'[Stopper] = "idle"
  BY Zenon, <1>1, NetLoops DEF IInv, StartsOnce
<1>. QED  BY Zenon, <1>3, <1>4 DEF StartsOnce

\* A connection is accepted, or refused.
LEMMA NetAccept ==
  ASSUME IInv, NEW c \in Clients, Accept(c)
  PROVE  IInv'
<1>1. Reader(c) \in Procs /\ Reader(c) # Stopper
  BY Zenon, NetProcs
<1>2. pc[Reader(c)] = "off" /\ pc[Writer(c)] = "off"
  BY Zenon DEF Accept, IInv, StartsOnce
<1>3. Types'
  BY Zenon, <1>1 DEF Accept, Goto, IInv, Types
<1>4. \A q \in Procs : Holds(q)' <=> Holds(q)
  BY Zenon DEF Accept, Holds
<1>5. ~Holds(Reader(c))
  BY Zenon, <1>1, <1>2 DEF IInv, HolderLoops
<1>6. HolderLoops' /\ CloseHasClient' /\ CloserUnlists'
  BY Zenon, <1>1, <1>2, <1>3, <1>4, <1>5, NetMove DEF Accept, Goto
<1>7. StartsOnce'
  <2>1. ASSUME NEW d \in Clients, d # c
        PROVE  /\ conn'[d] = conn[d] /\ pc'[Reader(d)] = pc[Reader(d)]
               /\ pc'[Writer(d)] = pc[Writer(d)]
    BY Zenon, <2>1, NetProcs DEF Accept, Goto, IInv, Types
  <2>2. conn'[c] = "open" /\ pc'[Writer(c)] = "off"
    BY Zenon, <1>2, NetProcs DEF Accept, Goto, IInv, Types
  <2>3. pc'[Stopper] = pc[Stopper] /\ stopped' = stopped
    BY Zenon, <1>1, NetLoops DEF Accept, Goto, IInv, Types
  <2>4. "open" # "none"
    BY Zenon
  <2>. QED  BY Zenon, <2>1, <2>2, <2>3, <2>4 DEF StartsOnce, IInv
<1>. QED  BY Zenon, <1>3, <1>6, <1>7 DEF IInv

\* The client joins the table.
LEMMA NetEnlist ==
  ASSUME IInv, NEW c \in Clients, NewClientFromWS(c)
  PROVE  IInv'
<1>. DEFINE r == Reader(c)
            w == Writer(c)
<1>1. r \in Procs /\ w \in Procs /\ r # Stopper /\ w # Stopper /\ r # w
  BY Zenon, NetProcs
<1>2. pc[r] = "enlist" /\ pc[w] = "off"
  BY Zenon DEF NewClientFromWS, IInv, StartsOnce
<1>3. Types'
  BY Zenon, <1>1 DEF NewClientFromWS, IInv, Types
<1>4. /\ \A q \in Procs : q # r /\ q # w => pc'[q] = pc[q]
      /\ pc'[r] = "idle" /\ pc'[w] = "idle"
  BY Zenon, <1>1 DEF NewClientFromWS, IInv, Types
<1>. HIDE DEF r, w
<1>5. HolderLoops'
  BY Zenon, <1>2, <1>4 DEF NewClientFromWS, IInv, HolderLoops, Holds
<1>6. CloseHasClient'
  BY Zenon, <1>4 DEF NewClientFromWS, IInv, CloseHasClient
<1>7. CloserUnlists'
  <2>. SUFFICES ASSUME NEW d \in Clients, closing[d] # Free
                PROVE  pc'[closing[d]] = "unlist" /\ target'[closing[d]] = d
    BY Zenon DEF CloserUnlists, NewClientFromWS
  <2>1. closing[d] \in Procs
    BY Zenon DEF IInv, Types
  <2>2. pc[closing[d]] = "unlist" /\ target[closing[d]] = d
    BY Zenon DEF IInv, CloserUnlists
  <2>. QED  BY Zenon, <1>2, <1>4, <2>1, <2>2 DEF NewClientFromWS
<1>8. StartsOnce'
  <2>1. ASSUME NEW d \in Clients, d # c
        PROVE  pc'[Reader(d)] = pc[Reader(d)] /\ pc'[Writer(d)] = pc[Writer(d)]
    BY Zenon, <1>4, <2>1, NetProcs DEF r, w
  <2>2. conn'[c] # "none" /\ pc'[Reader(c)] \notin {"off", "enlist"}
    BY Zenon, <1>2, <1>4 DEF NewClientFromWS, IInv, StartsOnce, r
  <2>3. pc'[Stopper] = pc[Stopper] /\ stopped' = stopped /\ conn' = conn
    BY Zenon, <1>1, <1>4, NetLoops DEF NewClientFromWS
  <2>. QED  BY Zenon, <2>1, <2>2, <2>3 DEF StartsOnce, IInv
<1>. QED  BY Zenon, <1>3, <1>5, <1>6, <1>7, <1>8 DEF IInv

\* The read pump: it may take the lock, call Close and give the lock back.
LEMMA NetReader ==
  ASSUME Constants, IInv, NEW c \in Clients,
         \/ HandleChatRequest(c) \/ Broadcast(c) \/ BroadcastEnd(c)
         \/ ReadFails(c)
  PROVE  IInv'
<1>1. /\ Reader(c) \in Procs /\ Reader(c) # Stopper
      /\ Reader(c) # Checker /\ Reader(c) # Free
  BY Zenon, NetProcs DEF Constants
<1>2. wlock # Reader(c)
  BY Zenon, <1>1 DEF IInv, Types
<1>3. CASE HandleChatRequest(c)
  <2>1. Types'
    BY Zenon, <1>1, <1>3 DEF HandleChatRequest, Goto, IInv, Types
  <2>2. \A q \in Procs : q # Reader(c) => (Holds(q)' => Holds(q))
    BY Zenon, <1>3 DEF HandleChatRequest, Holds
  <2>3. pc[Reader(c)] = "idle" /\ pc' = [pc EXCEPT ![Reader(c)] = "loop"]
    BY Zenon, <1>3 DEF HandleChatRequest, Receives, Goto
  <2>4. HolderLoops' /\ CloseHasClient' /\ CloserUnlists'
    BY Zenon, <1>1, <1>3, <2>1, <2>2, <2>3, NetMove DEF HandleChatRequest
  <2>5. StartsOnce'
    BY Zenon, <1>1, <1>3, <2>3, NetGoesOn DEF HandleChatRequest
  <2>. QED  BY Zenon, <2>1, <2>4, <2>5 DEF IInv
<1>4. ASSUME NEW d, d \in todo[Reader(c)], pc[Reader(c)] = "loop",
             todo' = [todo EXCEPT ![Reader(c)] = @ \ {d}],
             CallClose(Reader(c), d),
             UNCHANGED <<clients, conn, closed, closing, wlock, rlock, stopped>>
      PROVE  IInv'
  <2>1. d \in Clients
    BY Zenon, <1>1, <1>4 DEF IInv, Types
  <2>2. Types'
    BY Zenon, <1>1, <1>4, <2>1 DEF CallClose, IInv, Types
  <2>3. \A q \in Procs : Holds(q)' <=> Holds(q)
    BY Zenon, <1>4 DEF Holds
  <2>4. target'[Reader(c)] = d
    BY Zenon, <1>1, <1>4 DEF CallClose, IInv, Types
  <2>5. HolderLoops' /\ CloseHasClient' /\ CloserUnlists'
    BY Zenon, <1>1, <1>4, <2>1, <2>2, <2>3, <2>4, NetMove DEF CallClose
  <2>6. StartsOnce'
    BY Zenon, <1>1, <1>4, NetGoesOn DEF CallClose
  <2>. QED  BY Zenon, <2>2, <2>5, <2>6 DEF IInv
<1>5. ASSUME NEW d, d \in todo[Reader(c)],
             todo' = [todo EXCEPT ![Reader(c)] = @ \ {d}],
             UNCHANGED <<clients, conn, closed, closing, wlock, rlock, stopped, pc,
                         target>>
      PROVE  IInv'
  <2>1. Types'
    BY Zenon, <1>1, <1>5 DEF IInv, Types
  <2>. QED  BY Zenon, <1>5, <2>1, NetOther
<1>6. CASE Broadcast(c)
  BY Zenon, <1>4, <1>5, <1>6 DEF Broadcast
<1>7. CASE BroadcastEnd(c)
  <2>1. Types'
    BY Zenon, <1>1, <1>7 DEF BroadcastEnd, Goto, IInv, Types
  <2>2. \A q \in Procs : Holds(q)' => Holds(q)
    BY Zenon, <1>7 DEF BroadcastEnd, Holds
  <2>3. ~Holds(Reader(c))'
    BY Zenon, <1>2, <1>7 DEF BroadcastEnd, Holds
  <2>4. pc[Reader(c)] = "loop" /\ pc' = [pc EXCEPT ![Reader(c)] = "idle"]
    BY Zenon, <1>7 DEF BroadcastEnd, Goto
  <2>5. HolderLoops' /\ CloseHasClient' /\ CloserUnlists'
    BY Zenon, <1>1, <1>7, <2>1, <2>2, <2>3, <2>4, NetMove DEF BroadcastEnd
  <2>6. StartsOnce'
    BY Zenon, <1>1, <1>7, <2>4, NetGoesOn DEF BroadcastEnd
  <2>. QED  BY Zenon, <2>1, <2>5, <2>6 DEF IInv
<1>8. CASE ReadFails(c)
  <2>1. Types'
    BY Zenon, <1>1, <1>8 DEF ReadFails, CallClose, IInv, Types
  <2>2. \A q \in Procs : Holds(q)' <=> Holds(q)
    BY Zenon, <1>8 DEF ReadFails, Holds
  <2>3. target'[Reader(c)] = c
    BY Zenon, <1>1, <1>8 DEF ReadFails, CallClose, IInv, Types
  <2>4. HolderLoops' /\ CloseHasClient' /\ CloserUnlists'
    BY Zenon, <1>1, <1>8, <2>1, <2>2, <2>3, NetMove DEF ReadFails, CallClose
  <2>5. StartsOnce'
    BY Zenon, <1>1, <1>8, NetGoesOn DEF ReadFails, CallClose
  <2>. QED  BY Zenon, <2>1, <2>4, <2>5 DEF IInv
<1>. QED  BY Zenon, <1>3, <1>6, <1>7, <1>8

\* The steps of the write pump.
LEMMA NetWriter ==
  ASSUME IInv, NEW c \in Clients, WritePumpEnds(c)
  PROVE  IInv'
<1>1. Writer(c) \in Procs /\ Writer(c) # Stopper
  BY Zenon, NetProcs
<1>2. Types'
  BY Zenon, <1>1 DEF WritePumpEnds, CallClose, IInv, Types
<1>3. \A q \in Procs : Holds(q)' <=> Holds(q)
  BY Zenon DEF WritePumpEnds, Holds
<1>4. target'[Writer(c)] = c
  BY Zenon, <1>1 DEF WritePumpEnds, CallClose, IInv, Types
<1>5. HolderLoops' /\ CloseHasClient' /\ CloserUnlists'
  BY Zenon, <1>1, <1>2, <1>3, <1>4, NetMove DEF WritePumpEnds, CallClose
<1>6. StartsOnce'
  BY Zenon, <1>1, NetGoesOn DEF WritePumpEnds, CallClose
<1>. QED  BY Zenon, <1>2, <1>5, <1>6 DEF IInv

\* The heartbeat checker and Stop.
LEMMA NetLocker ==
  ASSUME Constants, IInv,
         CheckHeartbeats \/ CheckerEnds \/ StopCancel \/ StopAll
  PROVE  IInv'
<1>1. ASSUME NEW p \in {Checker, Stopper}, LockAll(p), pc[p] \in {"idle", "wait"},
             p = Stopper => stopped,
             UNCHANGED <<clients, conn, closing, rlock, stopped, target>>
      PROVE  IInv'
  <2>1. p \in Procs
    BY Zenon, NetLoops
  <2>2. Types'
    BY Zenon, <1>1, <2>1 DEF LockAll, Goto, IInv, Types
  <2>3. \A q \in Procs : q # p => (Holds(q)' => Holds(q))
    BY Zenon, <1>1 DEF LockAll, Holds
  <2>4. HolderLoops' /\ CloseHasClient' /\ CloserUnlists'
    BY Zenon, <1>1, <2>1, <2>2, <2>3, NetMove DEF LockAll, Goto
  <2>5. StartsOnce'
    BY Zenon, <1>1, <2>1, NetGoesOn DEF LockAll, Goto
  <2>. QED  BY Zenon, <2>2, <2>4, <2>5 DEF IInv
<1>2. CASE CheckHeartbeats
  BY Zenon, <1>1, <1>2, NetLoops DEF CheckHeartbeats
<1>3. CASE StopAll
  <2>1. stopped
    BY Zenon, <1>3 DEF StopAll, IInv, StartsOnce
  <2>. QED  BY Zenon, <1>1, <1>3, <2>1, NetLoops DEF StopAll
<1>4. ASSUME NEW p \in {Checker, Stopper}, NEW l \in {"wait", "done"},
             pc[p] = "idle", Goto(p, l), p = Stopper => stopped',
             stopped => stopped',
             UNCHANGED <<clients, conn, closing, wlock, rlock, todo, target>>
      PROVE  IInv'
  <2>1. p \in Procs
    BY Zenon, NetLoops
  <2>2. Types'
    BY Zenon, <1>4, <2>1 DEF Goto, IInv, Types
  <2>3. \A q \in Procs : Holds(q)' <=> Holds(q)
    BY Zenon, <1>4 DEF Holds
  <2>4. ~Holds(p)
    BY Zenon, <1>4, <2>1 DEF IInv, HolderLoops
  <2>5. HolderLoops' /\ CloseHasClient' /\ CloserUnlists'
    BY Zenon, <1>4, <2>1, <2>2, <2>3, <2>4, NetMove DEF Goto
  <2>6. StartsOnce'
    BY Zenon, <1>4, <2>1, NetGoesOn DEF Goto
  <2>. QED  BY Zenon, <2>2, <2>5, <2>6 DEF IInv
<1>5. CASE CheckerEnds
  BY Zenon, <1>4, <1>5, NetLoops DEF CheckerEnds
<1>6. CASE StopCancel
  <2>1. pc[Stopper] = "idle"
    BY Zenon, <1>6 DEF StopCancel, IInv, StartsOnce
  <2>. QED  BY Zenon, <1>4, <1>6, <2>1, NetLoops DEF StopCancel
<1>. QED  BY Zenon, <1>2, <1>3, <1>5, <1>6

\* One client of their loops, and the end.
LEMMA NetVisit ==
  ASSUME Constants, IInv, NEW p \in {Checker, Stopper}, Visit(p) \/ VisitEnd(p)
  PROVE  IInv'
<1>1. p \in Procs
  BY Zenon, NetLoops
<1>2. pc[p] = "loop" /\ wlock = p /\ (p = Stopper => stopped)
  BY Zenon DEF Visit, VisitEnd, IInv, StartsOnce
<1>3. ASSUME NEW d, d \in todo[p], todo' = [todo EXCEPT ![p] = @ \ {d}],
             CallClose(p, d) \/ UNCHANGED <<pc, target>>,
             UNCHANGED <<clients, conn, closed, closing, wlock, rlock, stopped>>
      PROVE  IInv'
  <2>1. d \in Clients
    BY Zenon, <1>1, <1>3 DEF IInv, Types
  <2>2. Types'
    BY Zenon, <1>1, <1>3, <2>1 DEF CallClose, IInv, Types
  <2>3. CASE UNCHANGED <<pc, target>>
    BY Zenon, <1>3, <2>2, <2>3, NetOther
  <2>4. CASE CallClose(p, d)
    <3>1. \A q \in Procs : Holds(q)' <=> Holds(q)
      BY Zenon, <1>3 DEF Holds
    <3>2. target'[p] = d
      BY Zenon, <1>1, <2>4 DEF CallClose, IInv, Types
    <3>3. HolderLoops' /\ CloseHasClient' /\ CloserUnlists'
      BY Zenon, <1>1, <1>2, <1>3, <2>1, <2>2, <2>4, <3>1, <3>2, NetMove DEF CallClose
    <3>4. StartsOnce'
      BY Zenon, <1>1, <1>2, <1>3, <2>4, NetGoesOn DEF CallClose
    <3>. QED  BY Zenon, <2>2, <3>3, <3>4 DEF IInv
  <2>. QED  BY Zenon, <1>3, <2>3, <2>4
<1>4. CASE Visit(p)
  BY Zenon, <1>3, <1>4 DEF Visit
<1>5. CASE VisitEnd(p)
  <2>1. PICK l \in {"done", "idle"} : pc' = [pc EXCEPT ![p] = l]
    BY Zenon, <1>5 DEF VisitEnd, Goto
  <2>2. Types'
    BY Zenon, <1>1, <1>5, <2>1 DEF VisitEnd, IInv, Types
  <2>3. \A q \in Procs : Holds(q)' => Holds(q) /\ q # p
    <3>0. \A c \in Clients : Reader(c) # p
      BY Zenon, NetProcs
    <3>1. p \notin rlock
      BY Zenon, <3>0 DEF IInv, Types
    <3>2. wlock' = Free /\ rlock' = rlock
      BY Zenon, <1>5 DEF VisitEnd
    <3>. QED  BY Zenon, <3>1, <3>2 DEF Holds, Constants
  <2>4. HolderLoops' /\ CloseHasClient' /\ CloserUnlists'
    BY Zenon, <1>1, <1>2, <1>5, <2>1, <2>2, <2>3, NetMove DEF VisitEnd
  <2>5. StartsOnce'
    BY Zenon, <1>1, <1>2, <1>5, <2>1, NetGoesOn DEF VisitEnd
  <2>. QED  BY Zenon, <2>2, <2>4, <2>5 DEF IInv
<1>. QED  BY Zenon, <1>4, <1>5

\* Close, up to the connection.
LEMMA NetCloseConn ==
  ASSUME Constants, IInv, NEW p \in Procs, CloseConn(p)
  PROVE  IInv'
<1>. DEFINE c == target[p]
<1>1. /\ pc[p] = "close" /\ c \in Clients /\ closing[c] = Free
      /\ p = Stopper => stopped
  BY Zenon DEF CloseConn, IInv, CloseHasClient, StartsOnce
<1>2. /\ \A q \in Procs : Holds(q)' <=> Holds(q)
      /\ UNCHANGED <<wlock, rlock, stopped, todo>>
  BY Zenon DEF CloseConn, Holds
<1>3. CASE closed[c]
  <2>1. PICK l \in {"loop", "done"} :
          pc' = [pc EXCEPT ![p] = l] /\ (Holds(p) => l = "loop")
    BY Zenon, <1>3 DEF CloseConn, Returns, Goto
  <2>2. /\ clients' \subseteq clients /\ UNCHANGED <<conn, closing>>
        /\ target' = [target EXCEPT ![p] = Free]
    BY Zenon, <1>3 DEF CloseConn, Returns
  <2>3. Types'
    BY Zenon, <1>2, <2>1, <2>2 DEF IInv, Types
  <2>4. HolderLoops' /\ CloseHasClient' /\ CloserUnlists'
    BY Zenon, <1>1, <1>2, <2>1, <2>2, <2>3, NetMove
  <2>5. StartsOnce'
    BY Zenon, <1>1, <1>2, <2>1, <2>2, NetGoesOn
  <2>. QED  BY Zenon, <2>3, <2>4, <2>5 DEF IInv
<1>4. CASE ~closed[c]
  <2>1. /\ pc' = [pc EXCEPT ![p] = "unlist"]
        /\ conn' = [conn EXCEPT ![c] = "shut"]
        /\ closing' = [closing EXCEPT ![c] = p]
        /\ UNCHANGED <<clients, target>>
    BY Zenon, <1>4 DEF CloseConn, Goto
  <2>2. Types'
    BY Zenon, <1>1, <1>2, <2>1 DEF IInv, Types
  <2>3. pc'[p] = "unlist" /\ \A q \in Procs : q # p => pc'[q] = pc[q]
    BY Zenon, <2>1 DEF IInv, Types
  <2>4. HolderLoops'
    BY Zenon, <1>2, <2>3 DEF IInv, HolderLoops
  <2>5. CloseHasClient'
    BY Zenon, <1>1, <2>1, <2>3 DEF IInv, CloseHasClient
  <2>6. CloserUnlists'
    <3>. SUFFICES ASSUME NEW d \in Clients, closing'[d] # Free
                  PROVE  pc'[closing'[d]] = "unlist" /\ target[closing'[d]] = d
      BY Zenon, <2>1 DEF CloserUnlists
    <3>1. CASE d = c
      <4>1. closing'[d] = p
        BY Zenon, <1>1, <2>1, <3>1 DEF IInv, Types
      <4>. QED  BY Zenon, <2>3, <3>1, <4>1
    <3>2. CASE d # c
      <4>1. closing'[d] = closing[d] /\ closing[d] \in Procs
        BY Zenon, <1>1, <2>1, <3>2 DEF IInv, Types
      <4>2. pc[closing[d]] = "unlist" /\ target[closing[d]] = d
        BY Zenon, <4>1 DEF IInv, CloserUnlists
      <4>. QED  BY Zenon, <1>1, <2>3, <4>1, <4>2
    <3>. QED  BY Zenon, <3>1, <3>2
  <2>7. StartsOnce'
    BY Zenon, <1>1, <1>2, <2>1, NetGoesOn
  <2>. QED  BY Zenon, <2>2, <2>4, <2>5, <2>6, <2>7 DEF IInv
<1>. QED  BY Zenon, <1>3, <1>4

\* Close, the rest: the Close of a client is the only one to hold its
\* closeMutex, and holds no other.
LEMMA NetCloseUnlist ==
  ASSUME Constants, IInv, NEW p \in Procs, CloseUnlist(p)
  PROVE  IInv'
<1>. DEFINE c == target[p]
<1>1. pc[p] = "unlist" /\ c \in Clients /\ (p = Stopper => stopped)
  BY Zenon DEF CloseUnlist, IInv, CloseHasClient, StartsOnce
<1>2. /\ \A q \in Procs : Holds(q)' <=> Holds(q)
      /\ UNCHANGED <<conn, wlock, rlock, stopped, todo>>
      /\ closing' = [closing EXCEPT ![c] = Free]
      /\ target' = [target EXCEPT ![p] = Free]
      /\ clients' = clients \ {c}
  BY Zenon DEF CloseUnlist, Holds, Returns, UnlockClose
<1>3. PICK l \in {"loop", "done"} :
        pc' = [pc EXCEPT ![p] = l] /\ (Holds(p) => l = "loop")
  BY Zenon DEF CloseUnlist, Returns, Goto
<1>4. Types'
  BY Zenon, <1>1, <1>2, <1>3 DEF IInv, Types
<1>5. /\ pc'[p] = l
      /\ \A q \in Procs : q # p => pc'[q] = pc[q] /\ target'[q] = target[q]
  BY Zenon, <1>2, <1>3 DEF IInv, Types
<1>6. HolderLoops'
  BY Zenon, <1>2, <1>3, <1>5 DEF IInv, HolderLoops
<1>7. CloseHasClient'
  BY Zenon, <1>3, <1>5 DEF IInv, CloseHasClient
<1>8. CloserUnlists'
  <2>. SUFFICES ASSUME NEW d \in Clients, closing'[d] # Free
                PROVE  pc'[closing'[d]] = "unlist" /\ target'[closing'[d]] = d
    BY Zenon DEF CloserUnlists
  <2>1. d # c /\ closing'[d] = closing[d] /\ closing[d] \in Procs
    BY Zenon, <1>1, <1>2 DEF IInv, Types
  <2>2. pc[closing[d]] = "unlist" /\ target[closing[d]] = d
    BY Zenon, <2>1 DEF IInv, CloserUnlists
  <2>3. closing[d] # p
    BY Zenon, <2>1, <2>2
  <2>. QED  BY Zenon, <1>5, <2>1, <2>2, <2>3
<1>9. StartsOnce'
  BY Zenon, <1>1, <1>2, <1>3, NetGoesOn
<1>. QED  BY Zenon, <1>4, <1>6, <1>7, <1>8, <1>9 DEF IInv

\* Every step keeps the invariant.
LEMMA NetNext ==
  ASSUME Constants, IInv, [Next]_vars
  PROVE  IInv'
<1>1. ASSUME UNCHANGED <<clients, closing, wlock, rlock, stopped, pc, todo, target>>,
             \/ UNCHANGED conn
             \/ \E c \in Clients : conn' = [conn EXCEPT ![c] = "broken"]
      PROVE  IInv'
  <2>1. Types'
    BY Zenon, <1>1 DEF IInv, Types
  <2>. QED  BY Zenon, <1>1, <2>1, NetOther
<1>2. CASE UNCHANGED vars
  BY Zenon, <1>1, <1>2 DEF vars
<1>3. ASSUME NEW c \in Clients, Break(c)  PROVE IInv'
  BY Zenon, <1>1, <1>3 DEF Break
<1>4. ASSUME NEW c \in Clients,
             \/ GoSilent(c) \/ Answer(c) \/ HandleHeartbeatRequest(c)
             \/ WritePumpSend(c)
      PROVE  IInv'
  BY Zenon, <1>1, <1>4 DEF GoSilent, Answer, HandleHeartbeatRequest, WritePumpSend
<1>. QED
  BY Zenon, <1>2, <1>3, <1>4, NetAccept, NetEnlist, NetReader, NetWriter,
     NetLocker, NetVisit, NetCloseConn, NetCloseUnlist
  DEF Next, HandleLoginRequest, HandlePositionSyncRequest,
      HandleCombatCommandRequest, HandleOtherChat

-----------------------------------------------------------------------------
(* Publish/subscribe.                                                       *)

\* Taking the first item of a sequence without repetitions.
LEMMA PubTail ==
  ASSUME NEW S, NEW s \in Seq(S), s # <<>>, Distinct(s)
  PROVE  /\ Tail(s) \in Seq(S) /\ Head(s) \in S /\ Distinct(Tail(s))
         /\ Head(s) \in Items(s)
         /\ Items(Tail(s)) \subseteq Items(s) /\ Head(s) \notin Items(Tail(s))
<1>1. /\ Tail(s) \in Seq(S) /\ Head(s) \in S /\ Head(s) = s[1] /\ 1 \in DOMAIN s
      /\ \A k \in DOMAIN Tail(s) :
           /\ k \in Nat /\ k + 1 \in DOMAIN s /\ k + 1 # 1
           /\ Tail(s)[k] = s[k + 1]
  BY SMT
<1>2. \A j, k \in DOMAIN Tail(s) : j + 1 = k + 1 => j = k
  BY <1>1
<1>3. Distinct(Tail(s))
  BY Zenon, <1>1, <1>2 DEF Distinct
<1>4. Head(s) \in Items(s)
  BY Zenon, <1>1 DEF Items
<1>5. ASSUME NEW x \in Items(Tail(s))  PROVE x \in Items(s)
  <2>1. PICK k \in DOMAIN Tail(s) : x = Tail(s)[k]
    BY Zenon DEF Items
  <2>. QED  BY Zenon, <1>1, <2>1 DEF Items
<1>6. Head(s) \notin Items(Tail(s))
  <2>1. \A k \in DOMAIN Tail(s) : s[k + 1] # s[1]
    BY Zenon, <1>1 DEF Distinct
  <2>. QED  BY Zenon, <1>1, <2>1 DEF Items
<1>. QED  BY Zenon, <1>1, <1>3, <1>4, <1>5, <1>6

\* Adding an item that is not there.
LEMMA PubAdd ==
  ASSUME NEW S, NEW s \in Seq(S), Distinct(s),
         NEW x \in S, x \notin Items(s)
  PROVE  /\ s \o <<x>> \in Seq(S) /\ Distinct(s \o <<x>>)
         /\ Items(s \o <<x>>) \subseteq Items(s) \cup {x}
<1>1. /\ s \o <<x>> \in Seq(S)
      /\ DOMAIN (s \o <<x>>) = DOMAIN s \cup {Len(s) + 1}
      /\ (s \o <<x>>)[Len(s) + 1] = x
      /\ \A k \in DOMAIN s : (s \o <<x>>)[k] = s[k]
  BY SMT
<1>2. Distinct(s \o <<x>>)
  <2>. SUFFICES ASSUME NEW j \in DOMAIN (s \o <<x>>), NEW k \in DOMAIN (s \o <<x>>),
                       (s \o <<x>>)[j] = (s \o <<x>>)[k]
                PROVE  j = k
    BY Zenon DEF Distinct
  <2>1. \A n \in DOMAIN s : s[n] # x
    BY Zenon DEF Items
  <2>2. CASE j \in DOMAIN s /\ k \in DOMAIN s
    BY Zenon, <1>1, <2>2 DEF Distinct
  <2>3. CASE j \in DOMAIN s /\ k = Len(s) + 1
    BY Zenon, <1>1, <2>1, <2>3
  <2>4. CASE j = Len(s) + 1 /\ k \in DOMAIN s
    BY Zenon, <1>1, <2>1, <2>4
  <2>. QED  BY Zenon, <1>1, <2>2, <2>3, <2>4
<1>3. ASSUME NEW y \in Items(s \o <<x>>)  PROVE y \in Items(s) \cup {x}
  BY Zenon, <1>1, <1>3 DEF Items
<1>. QED  BY Zenon, <1>1, <1>2, <1>3

\* The invariant holds initially.
LEMMA PubInitInv ==
  ASSUME PubInit  PROVE PubIInv
<1>1. PubTypes
  BY DEF PubInit, PubTypes
<1>2. \A k : k \notin DOMAIN stream /\ k \notin DOMAIN loops
  BY DEF PubInit
<1>3. OnePlace
  BY Zenon, <1>2 DEF OnePlace, Distinct
<1>4. \A r : ~OnItsWay(r)
  BY Zenon, <1>2 DEF OnItsWay, Items
<1>5. \A h \in AllEntries, m \in Messages : calls[h][m] = 0
  BY DEF PubInit
<1>6. ASSUME NEW h \in AllEntries, NEW m \in Messages  PROVE Once(h, m)
  <2>1. calls[h][m] = 0 /\ 0 <= 1 /\ 0 <= 2
    BY <1>5
  <2>. QED  BY Zenon, <2>1 DEF Once, AtMostTwice
<1>7. \A m \in Messages : SentOnce(m)
  BY Zenon, <1>4 DEF SentOnce, Sent
<1>. QED  BY Zenon, <1>1, <1>3, <1>6, <1>7 DEF PubIInv

\* The invariant is enough.
LEMMA PubEnough ==
  ASSUME PubIInv  PROVE HandledOnce
<1>. SUFFICES ASSUME NEW h \in AllEntries, NEW m \in Messages
              PROVE  /\ calls[h][m] > 0 => m \in published
                     /\ calls[h][m] > 1 => h \in Entries /\ m \in double
  BY Zenon DEF HandledOnce
<1>1. calls[h][m] \in Nat /\ Once(h, m)
  BY Zenon DEF PubIInv, PubTypes
<1>2. /\ m \notin published => calls[h][m] = 0
      /\ m \notin double => calls[h][m] <= 1
      /\ h \notin Entries => calls[h][m] <= 1
  BY Zenon, <1>1 DEF Once
<1>. QED  BY <1>1, <1>2

\* What is on its way may arrive nowhere: nothing else changes.
LEMMA PubFewer ==
  ASSUME PubIInv, UNCHANGED <<published, double, calls>>,
         \A r \in Received : OnItsWay(r)' => OnItsWay(r)
  PROVE  \A m \in Messages : SentOnce(m)' /\ \A h \in AllEntries : Once(h, m)'
<1>. SUFFICES ASSUME NEW m \in Messages
              PROVE  SentOnce(m)' /\ \A h \in AllEntries : Once(h, m)'
  BY Zenon
<1>1. \A p \in BOOLEAN : [msg |-> m, pattern |-> p] \in Received
  BY DEF Received
<1>2. (Sent(m, FALSE)' => Sent(m, FALSE)) /\ (Sent(m, TRUE)' => Sent(m, TRUE))
  BY Zenon, <1>1 DEF Sent
<1>3. SentOnce(m)'
  BY Zenon, <1>2 DEF PubIInv, SentOnce
<1>4. ASSUME NEW h \in AllEntries  PROVE Once(h, m)'
  BY Zenon, <1>2 DEF PubIInv, Once, AtMostTwice
<1>. QED  BY Zenon, <1>3, <1>4

\* A loop moves without a message, or one starts.
LEMMA PubLoopMoves ==
  ASSUME PubIInv, UNCHANGED <<published, double, calls>>, PubTypes',
         UNCHANGED stream \/ stream' = <<>>,
         \A i \in DOMAIN loops' :
           loops'[i].at = "handle" => i \in DOMAIN loops /\ loops'[i] = loops[i]
  PROVE  PubIInv'
<1>1. Items(stream') \subseteq Items(stream)
  <2>1. CASE stream' = <<>>
    BY <2>1 DEF Items
  <2>. QED  BY Zenon, <2>1
<1>2. Distinct(stream')
  <2>1. CASE stream' = <<>>
    BY <2>1 DEF Distinct
  <2>. QED  BY Zenon, <2>1 DEF PubIInv, OnePlace
<1>3. \A i \in DOMAIN loops' : \A r : Handles(i, r)' => i \in DOMAIN loops /\ Handles(i, r)
  BY Zenon DEF Handles
<1>4. OnePlace'
  <2>1. ASSUME NEW i \in DOMAIN loops', loops'[i].at = "handle"
        PROVE  \E r \in Received : loops'[i].got = <<r>> /\ r \notin Items(stream')
    BY Zenon, <1>1, <2>1 DEF PubIInv, OnePlace
  <2>2. \A i, j \in DOMAIN loops', r \in Received :
          Handles(i, r)' /\ Handles(j, r)' => i = j
    BY Zenon, <1>3 DEF PubIInv, OnePlace
  <2>. QED  BY Zenon, <1>2, <2>1, <2>2 DEF OnePlace, Handles
<1>5. \A r \in Received : OnItsWay(r)' => OnItsWay(r)
  BY Zenon, <1>1, <1>3 DEF OnItsWay
<1>. QED  BY Zenon, <1>4, <1>5, PubFewer DEF PubIInv

\* Subscriptions, Close and a lost connection.
LEMMA PubSubscribes ==
  ASSUME PubIInv,
         \/ \E h \in Handlers : Subscribe(h)
         \/ \E h \in PHandlers : PSubscribe(h)
         \/ Unsubscribe \/ PUnsubscribe \/ Close \/ LoseStream
  PROVE  PubIInv'
<1>1. UNCHANGED <<published, double, calls>> /\ (UNCHANGED stream \/ stream' = <<>>)
  BY Zenon DEF Subscribe, PSubscribe, Unsubscribe, PUnsubscribe, Close, LoseStream
<1>2. /\ handlers' \subseteq Entries /\ patternHandlers' \subseteq PEntries
      /\ subs' \subseteq {"channel", "pattern"}
  <2>1. /\ handlers \subseteq Entries /\ patternHandlers \subseteq PEntries
        /\ subs \subseteq {"channel", "pattern"}
    BY Zenon DEF PubIInv, PubTypes
  <2>2. /\ \A h \in Handlers, n \in 1..MaxRegs : <<"channel", h, n>> \in Entries
        /\ \A h \in PHandlers, n \in 1..MaxRegs : <<"pattern", h, n>> \in PEntries
    BY SMT DEF Entries, PEntries
  <2>3. ASSUME NEW h \in Handlers, handlers' \in Appended(handlers, "channel", h)
        PROVE  handlers' \subseteq Entries
    <3>1. PICK n \in 1..MaxRegs : handlers' = handlers \cup {<<"channel", h, n>>}
      BY Zenon, <2>3 DEF Appended
    <3>2. <<"channel", h, n>> \in Entries
      BY Zenon, <2>2
    <3>. QED  BY Zenon, <2>1, <3>1, <3>2
  <2>4. ASSUME NEW h \in PHandlers,
               patternHandlers' \in Appended(patternHandlers, "pattern", h)
        PROVE  patternHandlers' \subseteq PEntries
    <3>1. PICK n \in 1..MaxRegs :
            patternHandlers' = patternHandlers \cup {<<"pattern", h, n>>}
      BY Zenon, <2>4 DEF Appended
    <3>2. <<"pattern", h, n>> \in PEntries
      BY Zenon, <2>2
    <3>. QED  BY Zenon, <2>1, <3>1, <3>2
  <2>. QED  BY Zenon, <2>1, <2>3, <2>4 DEF Subscribe, PSubscribe,
            Unsubscribe, PUnsubscribe, Close, LoseStream
<1>3. \/ UNCHANGED loops
      \/ loops' = Append(loops, [at |-> "check", got |-> <<>>])
  BY Zenon DEF Subscribe, PSubscribe, Unsubscribe, PUnsubscribe, Close,
               LoseStream, Open
<1>4. [at |-> "check", got |-> <<>>] \in Loop
  BY DEF Loop
<1>5. /\ loops' \in Seq(Loop)
      /\ \A i \in DOMAIN loops' :
           loops'[i].at = "handle" => i \in DOMAIN loops /\ loops'[i] = loops[i]
  <2>1. CASE UNCHANGED loops
    BY Zenon, <2>1 DEF PubIInv, PubTypes
  <2>2. CASE loops' = Append(loops, [at |-> "check", got |-> <<>>])
    BY <1>4, <2>2 DEF PubIInv, PubTypes
  <2>. QED  BY Zenon, <1>3, <2>1, <2>2
<1>6. PubTypes'
  <2>1. stream' \in Seq(Received)
    <3>1. <<>> \in Seq(Received)
      BY SMT
    <3>. QED  BY Zenon, <1>1, <3>1 DEF PubIInv, PubTypes
  <2>. QED  BY Zenon, <1>1, <1>2, <1>5, <2>1 DEF PubIInv, PubTypes
<1>. QED  BY Zenon, <1>1, <1>5, <1>6, PubLoopMoves

\* Redis sends a message that is published once.
LEMMA PubPublish ==
  ASSUME PubIInv, NEW m \in Messages, Publish(m)  PROVE PubIInv'
<1>. DEFINE C == [msg |-> m, pattern |-> FALSE]
            P == [msg |-> m, pattern |-> TRUE]
            t == IF "channel" \in subs THEN <<C>> ELSE <<>>
            u == IF "pattern" \in subs THEN <<P>> ELSE <<>>
<1>1. /\ m \notin published /\ published' = published \cup {m}
      /\ stream' = stream \o t \o u
      /\ double' = IF subs = {"channel", "pattern"} THEN double \cup {m} ELSE double
      /\ UNCHANGED <<handlers, patternHandlers, loops, subs, calls>>
  BY Zenon DEF Publish
<1>2. C \in Received /\ P \in Received /\ C # P
  BY DEF Received
<1>3. ~OnItsWay(C) /\ ~OnItsWay(P)
  BY Zenon, <1>1 DEF PubIInv, SentOnce, Sent
<1>4. stream \in Seq(Received) /\ Distinct(stream) /\ C \notin Items(stream)
  BY Zenon, <1>3 DEF PubIInv, PubTypes, OnePlace, OnItsWay
<1>5. /\ stream \o t \in Seq(Received) /\ Distinct(stream \o t)
      /\ Items(stream \o t) \subseteq Items(stream) \cup {C}
      /\ C \in Items(stream \o t) => "channel" \in subs
  <2>1. CASE "channel" \in subs
    <3>1. t = <<C>>
      BY Zenon, <2>1
    <3>. HIDE DEF C, t
    <3>. QED  BY Zenon, <1>2, <1>4, <2>1, <3>1, PubAdd
  <2>2. CASE "channel" \notin subs
    <3>1. stream \o t = stream
      BY <1>4, <2>2
    <3>. QED  BY Zenon, <1>4, <3>1
  <2>. QED  BY Zenon, <2>1, <2>2
<1>6. P \notin Items(stream \o t)
  BY Zenon, <1>2, <1>3, <1>5 DEF OnItsWay
<1>7. /\ stream' \in Seq(Received) /\ Distinct(stream')
      /\ Items(stream') \subseteq Items(stream) \cup {C, P}
      /\ C \in Items(stream') => "channel" \in subs
      /\ P \in Items(stream') => "pattern" \in subs
  <2>1. C \notin {P}
    BY Zenon, <1>2
  <2>2. CASE "pattern" \in subs
    <3>. DEFINE s == stream \o t
    <3>1. /\ stream' \in Seq(Received) /\ Distinct(stream')
          /\ Items(stream') \subseteq Items(s) \cup {P}
      <4>1. stream' = s \o <<P>>
        BY Zenon, <1>1, <2>2
      <4>2. s \in Seq(Received) /\ Distinct(s) /\ P \notin Items(s)
        BY Zenon, <1>5, <1>6
      <4>. HIDE DEF P, s
      <4>. QED  BY Zenon, <1>2, <4>1, <4>2, PubAdd
    <3>. QED  BY Zenon, <1>5, <2>1, <2>2, <3>1
  <2>3. CASE "pattern" \notin subs
    <3>1. stream' = stream \o t
      BY <1>1, <1>5, <2>3
    <3>. QED  BY Zenon, <1>5, <1>6, <3>1
  <2>. QED  BY Zenon, <2>2, <2>3
<1>8. PubTypes'
  BY Zenon, <1>1, <1>7 DEF PubIInv, PubTypes
<1>9. \A i \in DOMAIN loops : \A r : Handles(i, r)' <=> Handles(i, r)
  BY Zenon, <1>1 DEF Handles
<1>10. OnePlace'
  <2>1. ASSUME NEW i \in DOMAIN loops, loops[i].at = "handle"
        PROVE  \E r \in Received : loops[i].got = <<r>> /\ r \notin Items(stream')
    <3>1. PICK r \in Received : loops[i].got = <<r>> /\ r \notin Items(stream)
      BY Zenon, <2>1 DEF PubIInv, OnePlace
    <3>2. r # C /\ r # P
      BY Zenon, <1>3, <2>1, <3>1 DEF OnItsWay, Handles
    <3>. QED  BY Zenon, <1>7, <3>1, <3>2
  <2>. QED  BY Zenon, <1>1, <1>7, <1>9, <2>1 DEF PubIInv, OnePlace
<1>11. ASSUME NEW n \in Messages
       PROVE  SentOnce(n)' /\ \A h \in AllEntries : Once(h, n)'
  <2>1. SentOnce(n) /\ \A h \in AllEntries : Once(h, n)
    BY Zenon DEF PubIInv
  <2>2. CASE n # m
    <3>1. \A p \in BOOLEAN : /\ [msg |-> n, pattern |-> p] # C
                             /\ [msg |-> n, pattern |-> p] # P
      BY <2>2
    <3>2. \A p \in BOOLEAN : Sent(n, p)' => Sent(n, p)
      BY Zenon, <1>1, <1>7, <1>9, <3>1 DEF Sent, OnItsWay
    <3>3. (Sent(n, FALSE)' => Sent(n, FALSE)) /\ (Sent(n, TRUE)' => Sent(n, TRUE))
      BY Zenon, <3>2
    <3>4. (n \in published' <=> n \in published) /\ (n \in double' <=> n \in double)
      BY Zenon, <1>1, <2>2
    <3>. QED  BY Zenon, <1>1, <2>1, <3>3, <3>4 DEF Once, AtMostTwice, SentOnce
  <2>3. CASE n = m
    <3>1. 0 <= 1 /\ 0 <= 2 /\ \A h \in AllEntries : calls'[h][n] = 0
      <4>1. 0 <= 1 /\ 0 <= 2
        BY SMT
      <4>. QED  BY Zenon, <1>1, <2>1, <2>3, <4>1 DEF Once
    <3>2. Sent(m, FALSE)' => "channel" \in subs
      BY Zenon, <1>1, <1>3, <1>7, <1>9 DEF Sent, OnItsWay
    <3>3. Sent(m, TRUE)' => "pattern" \in subs
      BY Zenon, <1>1, <1>3, <1>7, <1>9 DEF Sent, OnItsWay
    <3>4. n \notin double' => ~(Sent(m, FALSE)' /\ Sent(m, TRUE)')
      BY Zenon, <1>1, <2>3, <3>2, <3>3 DEF PubIInv, PubTypes
    <3>5. n \in published'
      BY Zenon, <1>1, <2>3
    <3>. QED  BY Zenon, <2>3, <3>1, <3>4, <3>5 DEF Once, AtMostTwice, SentOnce
  <2>. QED  BY Zenon, <2>2, <2>3
<1>. QED  BY Zenon, <1>8, <1>10, <1>11 DEF PubIInv

\* A loop takes the first message of the stream, or comes back without one.
LEMMA PubReceive ==
  ASSUME PubIInv, NEW i \in DOMAIN loops, LoopReceives(i)  PROVE PubIInv'
<1>1. /\ loops[i].at = "receive"
      /\ UNCHANGED <<handlers, patternHandlers, subs, published, double, calls>>
  BY Zenon DEF LoopReceives
<1>2. loops \in Seq(Loop) /\ loops[i] \in Loop
  BY DEF PubIInv, PubTypes
<1>3. CASE UNCHANGED <<loops, stream>>
  <2>1. PubTypes'
    BY Zenon, <1>1, <1>3 DEF PubIInv, PubTypes
  <2>. QED  BY Zenon, <1>1, <1>3, <2>1, PubLoopMoves
<1>4. CASE loops' = [loops EXCEPT ![i].at = "check"] /\ UNCHANGED stream
  <2>1. [loops[i] EXCEPT !.at = "check"] \in Loop
    BY <1>2 DEF Loop
  <2>2. loops' \in Seq(Loop) /\ DOMAIN loops' = DOMAIN loops /\ loops'[i].at = "check"
    BY <1>2, <1>4, <2>1 DEF Loop
  <2>3. \A j \in DOMAIN loops : j # i => loops'[j] = loops[j]
    BY Zenon, <1>4
  <2>4. PubTypes'
    BY Zenon, <1>1, <1>4, <2>2 DEF PubIInv, PubTypes
  <2>5. "check" # "handle"
    BY Zenon
  <2>. QED  BY Zenon, <1>1, <1>4, <2>2, <2>3, <2>4, <2>5, PubLoopMoves
<1>5. CASE /\ stream # <<>> /\ stream' = Tail(stream)
           /\ loops' = [loops EXCEPT ![i] = [at |-> "handle", got |-> <<Head(stream)>>]]
  <2>. DEFINE x == Head(stream)
  <2>1. /\ stream' \in Seq(Received) /\ x \in Received /\ Distinct(stream')
        /\ Items(stream') \subseteq Items(stream) /\ x \notin Items(stream')
        /\ x \in Items(stream)
    BY Zenon, <1>5, PubTail DEF PubIInv, PubTypes, OnePlace
  <2>2. [at |-> "handle", got |-> <<x>>] \in Loop
    BY <2>1 DEF Loop
  <2>3. /\ loops' \in Seq(Loop) /\ DOMAIN loops' = DOMAIN loops
        /\ loops'[i] = [at |-> "handle", got |-> <<x>>]
    BY <1>2, <1>5, <2>2
  <2>4. \A j \in DOMAIN loops : j # i => loops'[j] = loops[j]
    BY Zenon, <1>5
  <2>5. PubTypes'
    BY Zenon, <1>1, <2>1, <2>3 DEF PubIInv, PubTypes
  <2>6. loops'[i].got = <<x>>
    BY <2>3
  <2>7. \A r : Handles(i, r)' => r = x
    BY <2>6 DEF Handles
  <2>8. \A j \in DOMAIN loops : \A r : Handles(j, r)' => (j = i /\ r = x) \/ Handles(j, r)
    BY Zenon, <2>4, <2>7 DEF Handles
  <2>9. \A j \in DOMAIN loops : ~Handles(j, x)
    <3>1. ASSUME NEW j \in DOMAIN loops, Handles(j, x)  PROVE FALSE
      <4>1. PICK r \in Received : loops[j].got = <<r>> /\ r \notin Items(stream)
        BY Zenon, <3>1 DEF PubIInv, OnePlace, Handles
      <4>2. r = x
        BY <3>1, <4>1 DEF Handles
      <4>. QED  BY Zenon, <2>1, <4>1, <4>2
    <3>. QED  BY Zenon, <3>1
  <2>10. OnePlace'
    <3>1. ASSUME NEW j \in DOMAIN loops', loops'[j].at = "handle"
          PROVE  \E r \in Received : loops'[j].got = <<r>> /\ r \notin Items(stream')
      <4>1. CASE j = i
        BY Zenon, <2>1, <2>6, <4>1
      <4>2. CASE j # i
        BY Zenon, <2>1, <2>3, <2>4, <3>1, <4>2 DEF PubIInv, OnePlace
      <4>. QED  BY Zenon, <4>1, <4>2
    <3>2. ASSUME NEW j \in DOMAIN loops, NEW k \in DOMAIN loops, NEW r \in Received,
                 Handles(j, r)', Handles(k, r)'
          PROVE  j = k
      BY Zenon, <2>8, <2>9, <3>2 DEF PubIInv, OnePlace
    <3>. QED  BY Zenon, <2>1, <2>3, <3>1, <3>2 DEF OnePlace, Handles
  <2>11. \A r \in Received : OnItsWay(r)' => OnItsWay(r)
    BY Zenon, <2>1, <2>3, <2>8 DEF OnItsWay
  <2>. QED  BY Zenon, <1>1, <2>5, <2>10, <2>11, PubFewer DEF PubIInv
<1>. QED  BY Zenon, <1>3, <1>4, <1>5 DEF LoopReceives

\* The select of a loop.
LEMMA PubCheck ==
  ASSUME PubIInv, NEW i \in DOMAIN loops, LoopChecks(i)  PROVE PubIInv'
<1>. PICK l \in {"ended", "receive"} : loops' = [loops EXCEPT ![i].at = l]
  BY Zenon DEF LoopChecks
<1>1. UNCHANGED <<handlers, patternHandlers, subs, stream, published, double, calls>>
  BY Zenon DEF LoopChecks
<1>2. loops \in Seq(Loop) /\ loops[i] \in Loop
  BY DEF PubIInv, PubTypes
<1>3. [loops[i] EXCEPT !.at = l] \in Loop /\ l # "handle"
  BY <1>2 DEF Loop
<1>4. loops' \in Seq(Loop) /\ DOMAIN loops' = DOMAIN loops /\ loops'[i].at = l
  BY <1>2, <1>3 DEF Loop
<1>5. \A j \in DOMAIN loops : j # i => loops'[j] = loops[j]
  BY Zenon
<1>6. PubTypes'
  BY Zenon, <1>1, <1>4 DEF PubIInv, PubTypes
<1>. QED  BY Zenon, <1>1, <1>3, <1>4, <1>5, <1>6, PubLoopMoves

\* The handlers are called, and the message is on its way no more.
LEMMA PubHandle ==
  ASSUME PubIInv, NEW i \in DOMAIN loops, HandleMessage(i)  PROVE PubIInv'
<1>1. /\ loops[i].at = "handle"
      /\ loops' = [loops EXCEPT ![i] = [at |-> "check", got |-> <<>>]]
      /\ UNCHANGED <<handlers, patternHandlers, subs, stream, published, double>>
  BY Zenon DEF HandleMessage
<1>2. PICK x \in Received : loops[i].got = <<x>> /\ x \notin Items(stream)
  BY Zenon, <1>1 DEF PubIInv, OnePlace
<1>3. x.msg \in Messages /\ x.pattern \in BOOLEAN
      /\ x = [msg |-> x.msg, pattern |-> x.pattern]
  BY <1>2 DEF Received
<1>4. calls' =
        [h \in AllEntries |->
          [calls[h] EXCEPT ![x.msg] = IF h \in Called(x) THEN @ + 1 ELSE @]]
  <2>1. Head(loops[i].got) = x
    BY <1>2
  <2>. QED  BY Zenon, <2>1 DEF HandleMessage
<1>5. /\ loops' \in Seq(Loop) /\ DOMAIN loops' = DOMAIN loops
      /\ loops'[i].at = "check"
  <2>1. [at |-> "check", got |-> <<>>] \in Loop /\ loops \in Seq(Loop)
    BY DEF PubIInv, PubTypes, Loop
  <2>. QED  BY <1>1, <2>1
<1>6. \A j \in DOMAIN loops : \A r : Handles(j, r)' => j # i /\ Handles(j, r)
  <2>1. \A j \in DOMAIN loops : j # i => loops'[j] = loops[j]
    BY Zenon, <1>1
  <2>2. \A r : ~Handles(i, r)'
    BY Zenon, <1>5 DEF Handles
  <2>. QED  BY Zenon, <2>1, <2>2 DEF Handles
<1>7. Handles(i, x) /\ OnItsWay(x)
  BY Zenon, <1>1, <1>2 DEF Handles, OnItsWay
<1>8. ~OnItsWay(x)'
  BY Zenon, <1>1, <1>2, <1>5, <1>6, <1>7 DEF OnItsWay, PubIInv, OnePlace
<1>9. \A r \in Received : OnItsWay(r)' => OnItsWay(r)
  BY Zenon, <1>1, <1>5, <1>6 DEF OnItsWay
<1>10. ASSUME NEW h \in AllEntries, NEW m \in Messages
       PROVE  /\ calls[h][m] \in Nat /\ calls'[h][m] \in Nat
              /\ m # x.msg => calls'[h][m] = calls[h][m]
              /\ h \notin Called(x) => calls'[h][m] = calls[h][m]
              /\ calls[h][m] = 0 => calls'[h][m] <= 1
              /\ calls[h][m] <= 1 => calls'[h][m] <= 2
  BY <1>4 DEF PubIInv, PubTypes
<1>11. PubTypes'
  <2>1. calls' \in [AllEntries -> [Messages -> Nat]]
    <3>1. ASSUME NEW h \in AllEntries  PROVE calls'[h] \in [Messages -> Nat]
      <4>1. calls'[h] =
              [calls[h] EXCEPT ![x.msg] = IF h \in Called(x) THEN @ + 1 ELSE @]
        BY Zenon, <1>4
      <4>2. calls[h] \in [Messages -> Nat]
        BY Zenon DEF PubIInv, PubTypes
      <4>3. calls[h][x.msg] \in Nat /\ calls[h][x.msg] + 1 \in Nat
        BY <1>3, <4>2
      <4>. QED  BY Zenon, <4>1, <4>2, <4>3
    <3>. QED  BY Zenon, <1>4, <3>1
  <2>. QED  BY Zenon, <1>1, <1>5, <2>1 DEF PubIInv, PubTypes
<1>12. OnePlace'
  <2>1. \A j \in DOMAIN loops : loops'[j].at = "handle" => j # i /\ loops'[j] = loops[j]
    BY Zenon, <1>1, <1>5
  <2>. QED  BY Zenon, <1>1, <1>5, <1>6, <2>1 DEF PubIInv, OnePlace
<1>13. ASSUME NEW h \in AllEntries, NEW m \in Messages  PROVE Once(h, m)'
  <2>1. \A p \in BOOLEAN : [msg |-> m, pattern |-> p] \in Received
    BY DEF Received
  <2>2. (Sent(m, FALSE)' => Sent(m, FALSE)) /\ (Sent(m, TRUE)' => Sent(m, TRUE))
    BY Zenon, <1>9, <2>1 DEF Sent
  <2>3. Once(h, m)
    BY Zenon DEF PubIInv
  <2>4. CASE calls'[h][m] = calls[h][m]
    BY Zenon, <1>1, <2>2, <2>3, <2>4 DEF Once, AtMostTwice
  <2>5. CASE m = x.msg /\ h \in Called(x)
    <3>1. Sent(m, x.pattern) /\ ~Sent(m, x.pattern)'
      BY Zenon, <1>3, <1>7, <1>8, <2>5 DEF Sent
    <3>2. m \in published
      BY Zenon, <1>3, <3>1 DEF PubIInv, SentOnce
    <3>3. AtMostTwice(h, m)'
      <4>1. AtMostTwice(h, m) /\ x.pattern \in {TRUE, FALSE}
        BY Zenon, <1>3, <2>3 DEF Once
      <4>2. /\ calls'[h][m] <= 2
            /\ Sent(m, FALSE)' \/ Sent(m, TRUE)' => calls'[h][m] <= 1
        BY Zenon, <1>10, <2>2, <3>1, <4>1 DEF AtMostTwice
      <4>. QED  BY Zenon, <3>1, <4>1, <4>2 DEF AtMostTwice
    <3>4. CASE x.pattern = TRUE
      <4>1. m \notin double => ~Sent(m, FALSE) /\ calls[h][m] = 0
        BY Zenon, <2>3, <3>1, <3>4 DEF Once, PubIInv, SentOnce
      <4>2. h \notin Entries => calls[h][m] = 0
        BY Zenon, <2>3, <3>1, <3>4 DEF Once
      <4>. QED  BY Zenon, <1>1, <1>10, <2>2, <3>1, <3>2, <3>3, <3>4, <4>1, <4>2
                DEF Once
    <3>5. CASE x.pattern = FALSE
      <4>1. m \notin double => ~Sent(m, TRUE) /\ calls[h][m] = 0
        BY Zenon, <2>3, <3>1, <3>5 DEF Once, PubIInv, SentOnce
      <4>2. h \in Entries
        BY Zenon, <2>5, <3>5 DEF Called, PubIInv, PubTypes
      <4>. QED  BY Zenon, <1>1, <1>10, <2>2, <3>1, <3>2, <3>3, <3>5, <4>1, <4>2
                DEF Once
    <3>. QED  BY Zenon, <1>3, <3>4, <3>5
  <2>. QED  BY Zenon, <1>10, <2>4, <2>5
<1>14. ASSUME NEW m \in Messages  PROVE SentOnce(m)'
  <2>1. \A p \in BOOLEAN : [msg |-> m, pattern |-> p] \in Received
    BY DEF Received
  <2>2. (Sent(m, FALSE)' => Sent(m, FALSE)) /\ (Sent(m, TRUE)' => Sent(m, TRUE))
    BY Zenon, <1>9, <2>1 DEF Sent
  <2>. QED  BY Zenon, <1>1, <2>2 DEF PubIInv, SentOnce
<1>. QED  BY Zenon, <1>11, <1>12, <1>13, <1>14 DEF PubIInv

\* Every step keeps the invariant.
LEMMA PubNextInv ==
  ASSUME PubIInv, [PubNext]_pubVars  PROVE PubIInv'
<1>1. CASE PubNext
  <2>1. CASE \E m \in Messages : Publish(m)
    BY Zenon, <2>1, PubPublish
  <2>2. CASE \E i \in DOMAIN loops : LoopChecks(i) \/ LoopReceives(i) \/ HandleMessage(i)
    BY Zenon, <2>2, PubCheck, PubReceive, PubHandle
  <2>. QED  BY Zenon, <1>1, <2>1, <2>2, PubSubscribes DEF PubNext
<1>2. CASE UNCHANGED pubVars
  <2>1. PubTypes'
    BY Zenon, <1>2 DEF PubIInv, PubTypes, pubVars
  <2>. QED  BY Zenon, <1>2, <2>1, PubLoopMoves DEF pubVars
<1>. QED  BY Zenon, <1>1, <1>2

-----------------------------------------------------------------------------
(* The router.                                                              *)

\* The cells of a slice are the first cells of its array.
LEMMA RouteCells ==
  ASSUME NEW a \in [Caps -> Seq(Cell)], NEW h \in Header, h.len <= Len(a[h.cap])
  PROVE  /\ SubSeq(a[h.cap], 1, h.len) \in Seq(Cell)
         /\ Len(SubSeq(a[h.cap], 1, h.len)) = h.len
         /\ \A k \in 1..h.len : SubSeq(a[h.cap], 1, h.len)[k] = a[h.cap][k]
<1>1. h.cap \in Caps /\ h.len \in Nat
  BY DEF Header
<1>2. a[h.cap] \in Seq(Cell)
  BY Zenon, <1>1
<1>. DEFINE s == a[h.cap]
            n == h.len
<1>. HIDE DEF s, n
<1>3. s \in Seq(Cell) /\ n \in Nat /\ n <= Len(s)
  BY Zenon, <1>1, <1>2 DEF s, n
<1>4. /\ SubSeq(s, 1, n) \in Seq(Cell)
      /\ Len(SubSeq(s, 1, n)) = n
      /\ \A k \in 1..n : SubSeq(s, 1, n)[k] = s[k]
  BY <1>3
<1>. QED  BY Zenon, <1>4 DEF s, n

\* Overwriting the first cells of an array adds their IDs to what readers may
\* meet, and nothing else.
LEMMA RouteRewrite ==
  ASSUME array \in [Caps -> Seq(Cell)], \A d \in Caps : Len(array[d]) <= d,
         Caps \subseteq Nat, NEW c \in Caps, NEW body \in Seq(Cell), Len(body) <= c
  PROVE  /\ Rewritten(c, body) \in [Caps -> Seq(Cell)]
         /\ \A d \in Caps : Len(Rewritten(c, body)[d]) <= d
         /\ Len(body) <= Len(Rewritten(c, body)[c])
         /\ \A k \in 1..Len(body) : Rewritten(c, body)[c][k] = body[k]
         /\ \A h, ids : ReadsOnly(array, h, ids) =>
                          ReadsOnly(Rewritten(c, body), h, ids \cup IdsOf(body))
<1>. DEFINE s == array[c]
            m == Len(body)
            rest == SubSeq(s, m + 1, Len(s))
            t == body \o rest
<1>1. s \in Seq(Cell) /\ Len(s) \in Nat /\ Len(s) <= c /\ c \in Nat
  OBVIOUS
<1>2. m \in Nat
  OBVIOUS
<1>3. Rewritten(c, body) = [array EXCEPT ![c] = t]
  BY Zenon DEF Rewritten
<1>. HIDE DEF s, m
<1>4. rest \in Seq(Cell) /\ Len(rest) = IF m < Len(s) THEN Len(s) - m ELSE 0
  BY <1>1, <1>2
<1>5. \A k \in 1..Len(rest) : rest[k] = s[m + k]
  BY <1>1, <1>2
<1>. HIDE DEF rest
<1>6. t \in Seq(Cell) /\ Len(t) = m + Len(rest) /\ Len(rest) \in Nat
  <2>1. ASSUME NEW r \in Seq(Cell)
        PROVE  body \o r \in Seq(Cell) /\ Len(body \o r) = Len(body) + Len(r)
                 /\ Len(r) \in Nat
    OBVIOUS
  <2>. QED  BY Zenon, <1>4, <2>1 DEF m
<1>7. /\ \A k \in 1..m : t[k] = body[k]
      /\ \A k \in 1..Len(rest) : t[m + k] = rest[k]
  BY <1>4 DEF m
<1>8. Len(t) <= c /\ m <= Len(t) /\ Len(s) <= Len(t)
  BY <1>1, <1>2, <1>4, <1>6 DEF m
<1>9. \A k \in 1..Len(s) : k <= m \/ t[k] = s[k]
  <2>. SUFFICES ASSUME NEW k \in 1..Len(s), ~(k <= m)
                PROVE  t[k] = s[k]
    OBVIOUS
  <2>1. k - m \in 1..Len(rest) /\ m + (k - m) = k
    BY <1>1, <1>2, <1>4
  <2>. QED  BY <1>5, <1>7, <2>1
<1>. HIDE DEF t
<1>10. /\ Rewritten(c, body) \in [Caps -> Seq(Cell)]
       /\ Rewritten(c, body)[c] = t
       /\ \A d \in Caps : d # c => Rewritten(c, body)[d] = array[d]
  BY Zenon, <1>3, <1>6
<1>11. ASSUME NEW h, NEW ids, ReadsOnly(array, h, ids)
       PROVE  ReadsOnly(Rewritten(c, body), h, ids \cup IdsOf(body))
  <2>1. /\ h \in Header /\ h.cap \in Caps /\ h.len \in Nat
        /\ h.len <= Len(array[h.cap])
        /\ \A k \in 1..h.len : array[h.cap][k].id \in ids
    BY <1>11 DEF ReadsOnly, Header
  <2>2. CASE h.cap # c
    BY Zenon, <1>10, <2>1, <2>2 DEF ReadsOnly
  <2>3. CASE h.cap = c
    <3>1. h.len <= Len(s) /\ \A k \in 1..h.len : s[k].id \in ids
      BY Zenon, <2>1, <2>3 DEF s
    <3>2. h.len <= Len(t)
      BY <1>1, <1>6, <1>2, <1>8, <2>1, <3>1
    <3>3. ASSUME NEW k \in 1..h.len
          PROVE  t[k].id \in ids \cup IdsOf(body)
      <4>1. k \in 1..Len(s)
        BY <1>1, <2>1, <3>1
      <4>2. CASE k <= m
        <5>1. k \in 1..m /\ DOMAIN body = 1..m
          BY <1>2, <2>1, <4>2 DEF m
        <5>. QED  BY Zenon, <1>7, <5>1 DEF IdsOf
      <4>. QED  BY Zenon, <1>9, <3>1, <4>1, <4>2
    <3>. QED  BY Zenon, <1>10, <2>1, <2>3, <3>2, <3>3 DEF ReadsOnly
  <2>. QED  BY Zenon, <2>2, <2>3
<1>12. \A d \in Caps : Len(Rewritten(c, body)[d]) <= d
  BY Zenon, <1>8, <1>10
<1>. QED  BY Zenon, <1>7, <1>8, <1>10, <1>11, <1>12 DEF m

\* The invariant holds initially.
LEMMA RouteInitInv ==
  ASSUME RouteConstants
  PROVE  RouteInit => RouteIInv
<1>. SUFFICES ASSUME RouteInit PROVE RouteIInv
  OBVIOUS
<1>1. <<>> \in Seq(Cell) /\ Len(<<>>) = 0 /\ DOMAIN <<>> = {}
  OBVIOUS
<1>2. array \in [Caps -> Seq(Cell)] /\ \A c \in Caps : Len(array[c]) <= c
  BY <1>1 DEF RouteInit, RouteConstants
<1>3. changes \in 0..MaxChanges /\ counter \in 0..(Period - 1)
  BY DEF RouteInit, RouteConstants
<1>4. Idle \in CallRecords
  BY <1>1 DEF Idle, Call, CallRecords
<1>5. RouteTypes
  BY Zenon, <1>2, <1>3, <1>4 DEF RouteTypes, RouteInit
<1>6. CallersSafe /\ NotesSafe
  <2>1. Idle.op = "idle" /\ Idle.got = <<>> /\ Idle.id = Nil /\ Idle.to = {}
    BY DEF Idle, Call
  <2>. QED  BY Zenon, <1>1, <2>1 DEF RouteInit, CallersSafe, NotesSafe
<1>. QED  BY Zenon, <1>5, <1>6 DEF RouteIInv

\* A reader that may meet more IDs is otherwise the same.
LEMMA RouteMeet ==
  ASSUME NEW ids \in SUBSET RouteIds
  PROVE  /\ \A r \in CallRecords :
              /\ MayMeet(r, ids) \in CallRecords
              /\ MayMeet(r, ids).slice = r.slice /\ MayMeet(r, ids).got = r.got
              /\ MayMeet(r, ids).id = r.id /\ MayMeet(r, ids).to = r.to
              /\ MayMeet(r, ids).since = r.since \cup ids
         /\ \A n \in [slice : Header, since : SUBSET RouteIds] :
              /\ MayMeet(n, ids) \in [slice : Header, since : SUBSET RouteIds]
              /\ MayMeet(n, ids).slice = n.slice
              /\ MayMeet(n, ids).since = n.since \cup ids
<1>1. ASSUME NEW r \in CallRecords
      PROVE  /\ MayMeet(r, ids) \in CallRecords
             /\ MayMeet(r, ids).slice = r.slice /\ MayMeet(r, ids).got = r.got
             /\ MayMeet(r, ids).id = r.id /\ MayMeet(r, ids).to = r.to
             /\ MayMeet(r, ids).since = r.since \cup ids
  <2>1. r.since \cup ids \in SUBSET RouteIds
    BY DEF CallRecords
  <2>. QED  BY <2>1 DEF CallRecords, MayMeet
<1>2. ASSUME NEW n \in [slice : Header, since : SUBSET RouteIds]
      PROVE  /\ MayMeet(n, ids) \in [slice : Header, since : SUBSET RouteIds]
             /\ MayMeet(n, ids).slice = n.slice
             /\ MayMeet(n, ids).since = n.since \cup ids
  <2>1. n.since \cup ids \in SUBSET RouteIds
    OBVIOUS
  <2>. QED  BY <2>1 DEF MayMeet
<1>. QED  BY Zenon, <1>1, <1>2

\* A change of the list keeps it.
LEMMA RouteChange ==
  ASSUME RouteConstants, RouteIInv, NEW c \in Caps, NEW body \in Seq(Cell),
         Len(body) <= c,
         Len(body) <= changes + 1, array' = Rewritten(c, body),
         NEW h, h = [cap |-> c, len |-> Len(body)],
         instances' = h, Changed(h, IdsOf(body))
  PROVE  RouteIInv'
<1>. DEFINE ids == IdsOf(body)
<1>1. RouteTypes /\ CallersSafe /\ NotesSafe
  BY Zenon DEF RouteIInv
<1>2. /\ array' \in [Caps -> Seq(Cell)]
      /\ \A d \in Caps : Len(array'[d]) <= d
      /\ Len(body) <= Len(array'[c])
      /\ \A k \in 1..Len(body) : array'[c][k] = body[k]
      /\ \A g, S : ReadsOnly(array, g, S) => ReadsOnly(array', g, S \cup ids)
  BY Zenon, <1>1, RouteRewrite DEF RouteTypes, RouteConstants
<1>3. ids \in SUBSET RouteIds /\ Len(body) \in Nat /\ DOMAIN body = 1..Len(body)
  <2>1. \A i \in DOMAIN body : body[i] \in Cell
    OBVIOUS
  <2>2. \A cell \in Cell : cell.id \in RouteIds
    BY DEF Cell
  <2>3. ids \in SUBSET RouteIds
    BY Zenon, <2>1, <2>2 DEF IdsOf
  <2>. QED  BY <2>3
<1>4. h \in Header /\ h.cap = c /\ h.len = Len(body)
  BY <1>3 DEF Header
<1>5. \A k \in 1..Len(body) : body[k].id \in ids
  BY Zenon, <1>3 DEF IdsOf
<1>6. ReadsOnly(array', h, ids)
  BY Zenon, <1>2, <1>4, <1>5 DEF ReadsOnly
<1>. HIDE DEF ids
<1>7. changes' \in 0..MaxChanges /\ Len(body) <= changes'
  BY <1>1, <1>3 DEF RouteTypes, Changed, RouteConstants
<1>8. ASSUME NEW p \in Callers
      PROVE  /\ call'[p] \in CallRecords
             /\ call'[p].op # "idle"
               => ReadsOnly(array', call'[p].slice, call'[p].since)
             /\ \A i \in DOMAIN call'[p].got :
               call'[p].got[i].id \in call'[p].since
             /\ call'[p].id \in call'[p].since \cup {Nil}
             /\ call'[p].to \subseteq call'[p].since
  <2>1. call'[p] = IF call[p].op = "idle" THEN call[p]
                   ELSE MayMeet(call[p], ids)
    BY Zenon DEF Changed, ids
  <2>2. call[p] \in CallRecords
    BY Zenon, <1>1 DEF RouteTypes
  <2>3. CASE call[p].op = "idle"
    BY Zenon, <1>1, <2>1, <2>2, <2>3 DEF CallersSafe
  <2>4. CASE call[p].op # "idle"
    <3>1. /\ call'[p] \in CallRecords
          /\ call'[p].slice = call[p].slice /\ call'[p].got = call[p].got
          /\ call'[p].id = call[p].id /\ call'[p].to = call[p].to
          /\ call'[p].since = call[p].since \cup ids
      <4>1. call'[p] = MayMeet(call[p], ids)
        BY Zenon, <2>1, <2>4
      <4>2. ids \in SUBSET RouteIds
        BY Zenon, <1>3
      <4>. DEFINE q == MayMeet(call[p], ids)
      <4>3. /\ q \in CallRecords
            /\ q.slice = call[p].slice /\ q.got = call[p].got
            /\ q.id = call[p].id /\ q.to = call[p].to
            /\ q.since = call[p].since \cup ids
        BY Zenon, <2>2, <4>2, RouteMeet
      <4>. HIDE DEF q
      <4>. QED  BY Zenon, <4>1, <4>3 DEF q
    <3>2. /\ ReadsOnly(array', call[p].slice, call[p].since \cup ids)
          /\ \A i \in DOMAIN call[p].got : call[p].got[i].id \in call[p].since
          /\ call[p].id \in call[p].since \cup {Nil}
          /\ call[p].to \subseteq call[p].since
      BY Zenon, <1>1, <1>2, <2>4 DEF CallersSafe
    <3>. QED  BY Zenon, <3>1, <3>2
  <2>. QED  BY Zenon, <2>3, <2>4
<1>9. CallersSafe'
  BY Zenon, <1>8 DEF CallersSafe
<1>10. ASSUME NEW n \in notes'
       PROVE  n \in [slice : Header, since : SUBSET RouteIds]
                /\ ReadsOnly(array', n.slice, n.since)
  <2>1. \/ \E o \in notes : n = MayMeet(o, ids)
        \/ n = [slice |-> h, since |-> ids]
    BY Zenon, <1>10 DEF Changed, ids
  <2>2. ASSUME NEW o \in notes, n = MayMeet(o, ids)
        PROVE  n \in [slice : Header, since : SUBSET RouteIds]
                 /\ ReadsOnly(array', n.slice, n.since)
    <3>1. o \in [slice : Header, since : SUBSET RouteIds]
      BY Zenon, <1>1 DEF RouteTypes
    <3>2. /\ n \in [slice : Header, since : SUBSET RouteIds]
          /\ n.slice = o.slice /\ n.since = o.since \cup ids
      <4>1. ids \in SUBSET RouteIds
        BY Zenon, <1>3
      <4>2. /\ MayMeet(o, ids) \in [slice : Header, since : SUBSET RouteIds]
            /\ MayMeet(o, ids).slice = o.slice
            /\ MayMeet(o, ids).since = o.since \cup ids
        BY Zenon, <3>1, <4>1, RouteMeet
      <4>. QED  BY Zenon, <2>2, <4>2
    <3>3. ReadsOnly(array', o.slice, o.since \cup ids)
      BY Zenon, <1>1, <1>2 DEF NotesSafe
    <3>. QED  BY Zenon, <3>2, <3>3
  <2>3. CASE n = [slice |-> h, since |-> ids]
    <3>1. /\ n \in [slice : Header, since : SUBSET RouteIds]
          /\ n.slice = h /\ n.since = ids
      BY <1>3, <1>4, <2>3
    <3>. QED  BY Zenon, <1>6, <3>1
  <2>. QED  BY Zenon, <2>1, <2>2, <2>3
<1>11. RouteTypes'
  <2>1. call' \in [Callers -> CallRecords]
    BY Zenon, <1>8 DEF Changed
  <2>2. counter' = counter
    BY Zenon DEF Changed
  <2>. QED  BY Zenon, <1>1, <1>2, <1>4, <1>7, <1>10, <2>1, <2>2 DEF RouteTypes
<1>. QED  BY Zenon, <1>9, <1>10, <1>11 DEF RouteIInv, NotesSafe

\* A registration keeps it.
LEMMA RouteRegister ==
  ASSUME RouteConstants, RouteIInv, NEW new \in Cell,
         RegisterServiceInstance(new)
  PROVE  RouteIInv'
<1>. DEFINE cells == IF instances = Nil THEN <<>> ELSE Cells(instances)
            known == {i \in DOMAIN cells : cells[i].id = new.id}
            n == Len(cells)
            c == IF known # {} \/ (instances # Nil /\ n < instances.cap)
                   THEN instances.cap ELSE NextCap(n)
            body == IF known # {} THEN [cells EXCEPT ![CHOOSE i \in known :
              TRUE] = new]
                    ELSE Append(cells, new)
            h == [cap |-> c, len |-> Len(body)]
<1>1. array' = Rewritten(c, body) /\ instances' = h /\ Changed(h, IdsOf(body))
  BY Zenon DEF RegisterServiceInstance
<1>2. RouteTypes
  BY Zenon DEF RouteIInv
<1>3. changes \in Nat /\ changes < MaxChanges /\ MaxChanges \in Nat
  BY <1>1, <1>2 DEF RouteTypes, Changed, RouteConstants
<1>4. /\ cells \in Seq(Cell) /\ n \in Nat /\ n <= changes
      /\ instances # Nil => /\ instances.cap \in Caps
                             /\ n <= instances.cap
  <2>1. CASE instances = Nil
    BY <1>3, <2>1
  <2>2. CASE instances # Nil
    <3>1. /\ instances \in Header /\ instances.len <= Len(array[instances.cap])
          /\ instances.len <= changes /\ array \in [Caps -> Seq(Cell)]
          /\ \A d \in Caps : Len(array[d]) <= d
      BY Zenon, <1>2, <2>2 DEF RouteTypes
    <3>2. cells \in Seq(Cell) /\ n = instances.len
      BY Zenon, <2>2, <3>1, RouteCells DEF Cells
    <3>3. instances.len \in Nat /\ instances.cap \in Caps
      BY <3>1 DEF Header
    <3>4. array[instances.cap] \in Seq(Cell)
            /\ Len(array[instances.cap]) <= instances.cap
      BY Zenon, <3>1, <3>3
    <3>5. Len(array[instances.cap]) \in Nat /\ instances.cap \in Nat
      <4>1. \A s \in Seq(Cell) : Len(s) \in Nat
        OBVIOUS
      <4>. QED  BY Zenon, <3>3, <3>4, <4>1 DEF RouteConstants
    <3>. HIDE DEF n, cells
    <3>6. n \in Nat /\ n <= changes /\ n <= instances.cap
      BY <1>3, <3>1, <3>2, <3>3, <3>4, <3>5
    <3>. QED  BY Zenon, <2>2, <3>2, <3>3, <3>6
  <2>. QED  BY Zenon, <2>1, <2>2
<1>5. DOMAIN cells = 1..n
  BY <1>4
<1>6. known # {} => instances # Nil
  BY <1>5
<1>. HIDE DEF cells
<1>7. (CHOOSE i \in known : TRUE) \in known \/ known = {}
  BY Zenon
<1>8. /\ body \in Seq(Cell)
      /\ Len(body) = IF known # {} THEN n ELSE n + 1
  <2>1. CASE known # {}
    <3>1. cells \in [1..n -> Cell]
      BY <1>4, <1>5
    <3>2. body \in [1..n -> Cell]
      BY Zenon, <2>1, <3>1
    <3>. HIDE DEF body, n
    <3>. QED  BY <1>4, <2>1, <3>2
  <2>2. CASE known = {}
    <3>1. Append(cells, new) \in Seq(Cell) /\ Len(Append(cells, new)) = n + 1
      BY <1>4
    <3>. QED  BY Zenon, <2>2, <3>1
  <2>. QED  BY Zenon, <2>1, <2>2
<1>. HIDE DEF body, known, n
<1>9. c \in Caps /\ Len(body) <= c /\ Len(body) <= changes + 1
  <2>1. CASE known # {}
    BY <1>3, <1>4, <1>6, <1>8, <2>1
  <2>2. CASE known = {} /\ instances # Nil /\ n < instances.cap
    <3>1. instances.cap \in Nat
      BY <1>4, <2>2 DEF RouteConstants
    <3>. QED  BY <1>3, <1>4, <1>8, <2>2, <3>1
  <2>3. CASE known = {} /\ ~(instances # Nil /\ n < instances.cap)
    <3>1. n \in 0..(MaxChanges - 1)
      BY <1>3, <1>4
    <3>2. NextCap(n) \in Caps /\ NextCap(n) > n
      BY Zenon, <3>1 DEF RouteConstants, NextCap
    <3>3. NextCap(n) \in Nat
      BY <3>2 DEF RouteConstants
    <3>4. c = NextCap(n)
      BY Zenon, <2>3
    <3>. QED  BY <1>3, <1>4, <1>8, <2>3, <3>2, <3>3, <3>4
  <2>. QED  BY Zenon, <2>1, <2>2, <2>3
<1>. HIDE DEF c
<1>. QED  BY Zenon, <1>1, <1>8, <1>9, RouteChange

\* A deregistration keeps it.
LEMMA RouteDeregister ==
  ASSUME RouteConstants, RouteIInv, NEW id \in RouteIds,
         DeregisterServiceInstance(id)
  PROVE  RouteIInv'
<1>. DEFINE cells == Cells(instances)
            n == instances.len
            body(i) == SubSeq(cells, 1, i - 1) \o SubSeq(cells, i + 1, n)
            h == Shortened(instances)
<1>1. PICK i \in 1..n : /\ array' = Rewritten(h.cap, body(i))
                        /\ instances' = h
                        /\ Changed(h, IdsOf(body(i)))
  BY Zenon DEF DeregisterServiceInstance
<1>2. /\ instances \in Header /\ n <= Len(array[instances.cap]) /\ n <= changes
      /\ array \in [Caps -> Seq(Cell)] /\ \A d \in Caps : Len(array[d]) <= d
  BY Zenon DEF RouteIInv, RouteTypes, DeregisterServiceInstance
<1>3. cells \in Seq(Cell) /\ Len(cells) = n
  BY Zenon, <1>2, RouteCells DEF Cells
<1>4. n \in Nat /\ instances.cap \in Caps
  BY <1>2 DEF Header
<1>5. h = [cap |-> instances.cap, len |-> n - 1] /\ h.cap = instances.cap
  BY <1>2 DEF Shortened, Header
<1>. HIDE DEF cells, n, h
<1>6. body(i) \in Seq(Cell) /\ Len(body(i)) = n - 1
  <2>1. /\ SubSeq(cells, 1, i - 1) \in Seq(Cell)
        /\ Len(SubSeq(cells, 1, i - 1)) = i - 1
    BY <1>3, <1>4
  <2>2. /\ SubSeq(cells, i + 1, n) \in Seq(Cell)
        /\ Len(SubSeq(cells, i + 1, n)) = n - i
    BY <1>3, <1>4
  <2>3. ASSUME NEW s \in Seq(Cell), NEW t \in Seq(Cell)
        PROVE  s \o t \in Seq(Cell) /\ Len(s \o t) = Len(s) + Len(t)
    OBVIOUS
  <2>4. /\ body(i) \in Seq(Cell)
        /\ Len(body(i)) = (i - 1) + (n - i)
    BY Zenon, <2>1, <2>2, <2>3
  <2>. HIDE DEF body
  <2>. QED  BY <1>4, <2>4
<1>. HIDE DEF body
<1>7. Len(body(i)) <= instances.cap /\ Len(body(i)) <= changes + 1
  <2>1. array[instances.cap] \in Seq(Cell)
          /\ Len(array[instances.cap]) <= instances.cap
    BY Zenon, <1>2, <1>4
  <2>2. \A s \in Seq(Cell) : Len(s) \in Nat
    OBVIOUS
  <2>3. Len(array[instances.cap]) \in Nat /\ instances.cap \in Nat
    BY Zenon, <1>4, <2>1, <2>2 DEF RouteConstants
  <2>4. changes \in Nat
    BY DEF RouteIInv, RouteTypes, RouteConstants
  <2>. QED  BY <1>2, <1>4, <1>6, <2>1, <2>3, <2>4
<1>. QED  BY Zenon, <1>1, <1>4, <1>5, <1>6, <1>7, RouteChange

\* A step of a caller keeps it when it leaves the caller safe.
LEMMA RouteCaller ==
  ASSUME RouteIInv, NEW p \in Callers, NEW r \in CallRecords,
         call' = [call EXCEPT ![p] = r],
         UNCHANGED <<array, instances, changes, notes>>,
         counter' \in 0..(Period - 1),
         r.op # "idle" => ReadsOnly(array, r.slice, r.since),
         \A i \in DOMAIN r.got : r.got[i].id \in r.since,
         r.id \in r.since \cup {Nil},
         r.to \subseteq r.since
  PROVE  RouteIInv'
<1>1. RouteTypes /\ CallersSafe /\ NotesSafe
  BY Zenon DEF RouteIInv
<1>2. call \in [Callers -> CallRecords]
  BY Zenon, <1>1 DEF RouteTypes
<1>3. call' \in [Callers -> CallRecords] /\ \A q \in Callers :
        call'[q] = IF q = p THEN r ELSE call[q]
  BY Zenon, <1>2
<1>4. RouteTypes'
  BY Zenon, <1>1, <1>3 DEF RouteTypes
<1>5. CallersSafe'
  BY Zenon, <1>1, <1>3 DEF CallersSafe
<1>. QED  BY Zenon, <1>1, <1>4, <1>5 DEF RouteIInv, NotesSafe

\* The IDs of a caller's copies are those of their cells; the idle caller has
\* none.
LEMMA RouteIdle ==
  /\ Idle \in CallRecords /\ Idle.op = "idle" /\ Idle.got = <<>>
  /\ DOMAIN Idle.got = {} /\ Idle.id = Nil /\ Idle.to = {}
<1>1. <<>> \in Seq(Cell) /\ DOMAIN <<>> = {}
  OBVIOUS
<1>2. Idle \in CallRecords /\ Idle.op = "idle" /\ Idle.got = <<>>
        /\ Idle.id = Nil /\ Idle.to = {}
  BY <1>1 DEF Idle, Call, CallRecords
<1>. QED  BY Zenon, <1>1, <1>2

\* The lookup takes the list of now.
LEMMA RouteLookUp ==
  ASSUME RouteIInv, NEW p \in Callers, NEW op \in {"route", "broadcast"},
         LookUp(p, op)
  PROVE  RouteIInv'
<1>. DEFINE ids == IdsOf(Cells(instances))
            r == Call(op, instances, <<>>, Nil, ids, {})
<1>1. /\ instances \in Header /\ instances.len <= Len(array[instances.cap])
      /\ array \in [Caps -> Seq(Cell)]
      /\ counter \in 0..(Period - 1)
  BY Zenon DEF RouteIInv, RouteTypes, LookUp
<1>2. /\ Cells(instances) \in Seq(Cell)
      /\ Len(Cells(instances)) = instances.len
      /\ \A k \in 1..instances.len :
        Cells(instances)[k] = array[instances.cap][k]
  BY Zenon, <1>1, RouteCells DEF Cells
<1>3. /\ DOMAIN Cells(instances) = 1..instances.len
      /\ \A i \in DOMAIN Cells(instances) : Cells(instances)[i] \in Cell
  BY <1>2
<1>4. \A k \in 1..instances.len : array[instances.cap][k].id \in ids
  BY Zenon, <1>2, <1>3 DEF IdsOf
<1>5. ids \in SUBSET RouteIds
  <2>1. \A cell \in Cell : cell.id \in RouteIds
    BY DEF Cell
  <2>. QED  BY Zenon, <1>3, <2>1 DEF IdsOf
<1>. HIDE DEF ids
<1>6. ReadsOnly(array, instances, ids)
  BY Zenon, <1>1, <1>4 DEF ReadsOnly
<1>7. <<>> \in Seq(Cell) /\ DOMAIN <<>> = {}
  OBVIOUS
<1>8. /\ r \in CallRecords /\ r.slice = instances /\ r.got = <<>> /\ r.id = Nil
      /\ r.since = ids /\ r.to = {}
  BY <1>1, <1>5, <1>7 DEF Call, CallRecords
<1>9. /\ call' = [call EXCEPT ![p] = r]
        /\ UNCHANGED <<array, instances, changes, notes>>
      /\ counter' = counter
  BY Zenon DEF LookUp, ids
<1>. HIDE DEF r
<1>10. counter' \in 0..(Period - 1)
  BY Zenon, <1>1, <1>9
<1>11. \A i \in DOMAIN r.got : r.got[i].id \in r.since
  BY Zenon, <1>7, <1>8
<1>12. r.id \in r.since \cup {Nil} /\ r.to \subseteq r.since
  BY Zenon, <1>8
<1>. QED  BY Zenon, <1>6, <1>8, <1>9, <1>10, <1>11, <1>12, RouteCaller

\* Copying one more field of a cell reads an ID of the set, or keeps one.
LEMMA RouteCopy ==
  ASSUME RouteIInv, NEW p \in Callers, CopyNext(p)
  PROVE  RouteIInv'
<1>. DEFINE c == call[p]
            cell == array[c.slice.cap][Len(c.got) + 1]
<1>1. /\ c \in CallRecords /\ c.op # "idle" /\ array \in [Caps -> Seq(Cell)]
      /\ ReadsOnly(array, c.slice, c.since)
      /\ \A i \in DOMAIN c.got : c.got[i].id \in c.since
      /\ c.id \in c.since \cup {Nil}
      /\ c.to \subseteq c.since
      /\ counter \in 0..(Period - 1)
  BY Zenon DEF RouteIInv, RouteTypes, CallersSafe, CopyNext
<1>2. /\ Len(c.got) < c.slice.len
      /\ UNCHANGED <<array, instances, changes, notes>> /\ counter' = counter
  BY Zenon DEF CopyNext
<1>3. /\ call' = [call EXCEPT ![p] =
                   IF c.id = Nil THEN [c EXCEPT !.id = cell.id]
                   ELSE [c EXCEPT !.id = Nil,
                                  !.got = Append(@, [id |-> c.id, up |-> cell.up])]]
  BY Zenon DEF CopyNext
<1>. HIDE DEF c
<1>4. /\ c.slice \in Header /\ c.got \in Seq(Cell)
        /\ c.since \in SUBSET RouteIds
      /\ c.slice.cap \in Caps /\ c.slice.len \in Nat /\ Len(c.got) \in Nat
      /\ c.slice.len <= Len(array[c.slice.cap])
  BY <1>1 DEF CallRecords, ReadsOnly, Header
<1>5. Len(c.got) + 1 \in 1..c.slice.len
  BY <1>2, <1>4
<1>6. cell.id \in c.since
  BY Zenon, <1>1, <1>5 DEF ReadsOnly
<1>7. cell.up \in BOOLEAN
  <2>1. array[c.slice.cap] \in Seq(Cell)
    BY Zenon, <1>1, <1>4
  <2>2. ASSUME NEW s \in Seq(Cell), NEW m \in Nat, m <= Len(s), NEW k \in 1..m
        PROVE  s[k] \in Cell
    BY <2>2
  <2>3. cell \in Cell
    BY Zenon, <1>4, <1>5, <2>1, <2>2
  <2>. HIDE DEF cell
  <2>. QED  BY <2>3 DEF Cell
<1>. HIDE DEF cell
<1>8. counter' \in 0..(Period - 1)
  BY Zenon, <1>1, <1>2
<1>9. CASE c.id = Nil
  <2>. DEFINE r == [c EXCEPT !.id = cell.id]
  <2>1. /\ r \in CallRecords /\ r.slice = c.slice /\ r.got = c.got
          /\ r.id = cell.id
        /\ r.since = c.since /\ r.to = c.to
    BY <1>1, <1>4, <1>6 DEF CallRecords
  <2>2. call' = [call EXCEPT ![p] = r]
    BY Zenon, <1>3, <1>9
  <2>. HIDE DEF r
  <2>3. /\ ReadsOnly(array, r.slice, r.since)
        /\ r.id \in r.since \cup {Nil} /\ r.to \subseteq r.since
        /\ \A i \in DOMAIN r.got : r.got[i].id \in r.since
    BY Zenon, <1>1, <1>6, <2>1
  <2>. QED  BY Zenon, <1>2, <1>8, <2>1, <2>2, <2>3, RouteCaller
<1>10. CASE c.id # Nil
  <2>. DEFINE copy == [id |-> c.id, up |-> cell.up]
              got == Append(c.got, copy)
              r == [c EXCEPT !.id = Nil, !.got = Append(@, copy)]
  <2>1. c.id \in c.since /\ copy \in Cell /\ copy.id = c.id
    <3>1. c.id \in c.since
      BY Zenon, <1>1, <1>10
    <3>. QED  BY <1>4, <1>7, <3>1 DEF Cell
  <2>2. call' = [call EXCEPT ![p] = r]
    BY Zenon, <1>3, <1>10
  <2>. HIDE DEF copy
  <2>3. /\ got \in Seq(Cell)
        /\ \A i \in DOMAIN got : (i \in DOMAIN c.got /\ got[i] = c.got[i])
          \/ got[i] = copy
    BY <1>4, <2>1
  <2>4. /\ r \in CallRecords /\ r.slice = c.slice /\ r.got = got /\ r.id = Nil
        /\ r.since = c.since /\ r.to = c.to
    <3>. HIDE DEF got
    <3>1. r = [c EXCEPT !.id = Nil, !.got = got]
      BY Zenon DEF got
    <3>. HIDE DEF r
    <3>. QED  BY <1>1, <2>3, <3>1 DEF CallRecords
  <2>. HIDE DEF r, got
  <2>5. /\ ReadsOnly(array, r.slice, r.since)
        /\ r.id \in r.since \cup {Nil} /\ r.to \subseteq r.since
    BY Zenon, <1>1, <2>4
  <2>6. \A i \in DOMAIN r.got : r.got[i].id \in r.since
    BY Zenon, <1>1, <2>1, <2>3, <2>4
  <2>. QED  BY Zenon, <1>2, <1>8, <2>2, <2>4, <2>5, <2>6, RouteCaller
<1>. QED  BY Zenon, <1>9, <1>10

\* Sending to copies, or returning, keeps it.
LEMMA RouteSend ==
  ASSUME RouteConstants, RouteIInv, NEW p \in Callers,
         SelectInstance(p) \/ BroadcastMessage(p) \/ Return(p)
  PROVE  RouteIInv'
<1>. DEFINE c == call[p]
<1>1. /\ c \in CallRecords /\ counter \in 0..(Period - 1)
      /\ c.op # "idle" => ReadsOnly(array, c.slice, c.since)
      /\ \A i \in DOMAIN c.got : c.got[i].id \in c.since
      /\ c.id \in c.since \cup {Nil}
  BY Zenon DEF RouteIInv, RouteTypes, CallersSafe
<1>2. UNCHANGED <<array, instances, changes, notes>>
  BY Zenon DEF SelectInstance, BroadcastMessage, Return
<1>3. counter' \in 0..(Period - 1)
  <2>1. counter' = counter \/ counter' = (counter + 1) % Period
    BY Zenon DEF SelectInstance, BroadcastMessage, Return
  <2>. QED  BY <1>1, <2>1 DEF RouteConstants
<1>4. \/ call' = [call EXCEPT ![p] = Idle]
      \/ \E ids \in SUBSET {c.got[i].id : i \in DOMAIN c.got} :
        call' = [call EXCEPT ![p].to = ids]
  <2>1. Up(c.got) \subseteq DOMAIN c.got /\ Selected(c.got) \subseteq Up(c.got)
    BY Zenon DEF Up, Selected
  <2>2. CASE SelectInstance(p)
    <3>1. \/ call' = [call EXCEPT ![p] = Idle]
          \/ \E i \in Selected(c.got) :
            call' = [call EXCEPT ![p].to = {c.got[i].id}]
      BY Zenon, <2>2 DEF SelectInstance
    <3>2. \A i \in Selected(c.got) : {c.got[i].id} \in SUBSET {c.got[j].id :
            j \in DOMAIN c.got}
      BY Zenon, <2>1
    <3>. QED  BY Zenon, <3>1, <3>2
  <2>3. CASE BroadcastMessage(p)
    <3>1. \/ call' = [call EXCEPT ![p] = Idle]
          \/ call' = [call EXCEPT ![p] = [c EXCEPT !.to = {c.got[i].id :
            i \in Up(c.got)}]]
      BY Zenon, <2>3 DEF BroadcastMessage
    <3>2. {c.got[i].id : i \in Up(c.got)} \in SUBSET {c.got[i].id :
            i \in DOMAIN c.got}
      BY Zenon, <2>1
    <3>. QED  BY Zenon, <3>1, <3>2
  <2>4. CASE Return(p)
    BY Zenon, <2>4 DEF Return
  <2>. QED  BY Zenon, <2>2, <2>3, <2>4
<1>5. CASE call' = [call EXCEPT ![p] = Idle]
  BY Zenon, <1>2, <1>3, <1>5, RouteIdle, RouteCaller
<1>6. ASSUME NEW ids \in SUBSET {c.got[i].id : i \in DOMAIN c.got},
             call' = [call EXCEPT ![p].to = ids]
      PROVE  RouteIInv'
  <2>. DEFINE r == [c EXCEPT !.to = ids]
  <2>1. call' = [call EXCEPT ![p] = r]
    BY Zenon, <1>6
  <2>. HIDE DEF c
  <2>2. ids \subseteq c.since
    BY Zenon, <1>1, <1>6
  <2>3. ids \in SUBSET RouteIds
    BY <1>1, <2>2 DEF CallRecords
  <2>4. /\ r \in CallRecords /\ r.op = c.op /\ r.slice = c.slice
          /\ r.got = c.got
        /\ r.id = c.id /\ r.since = c.since /\ r.to = ids
    BY <1>1, <2>3 DEF CallRecords
  <2>. HIDE DEF r
  <2>5. /\ r.op # "idle" => ReadsOnly(array, r.slice, r.since)
        /\ \A i \in DOMAIN r.got : r.got[i].id \in r.since
        /\ r.id \in r.since \cup {Nil}
        /\ r.to \subseteq r.since
    BY Zenon, <1>1, <2>2, <2>4
  <2>. QED  BY Zenon, <1>2, <1>3, <2>1, <2>4, <2>5, RouteCaller
<1>. QED  BY Zenon, <1>4, <1>5, <1>6

\* Every step keeps the invariant.
LEMMA RouteNextInv ==
  ASSUME RouteConstants
  PROVE  RouteIInv /\ [RouteNext]_routeVars => RouteIInv'
<1>. SUFFICES ASSUME RouteIInv, [RouteNext]_routeVars
              PROVE  RouteIInv'
  OBVIOUS
<1>1. ASSUME UNCHANGED <<array, instances, changes, counter, call>>,
             notes' \subseteq notes
      PROVE  RouteIInv'
  BY Zenon, <1>1 DEF RouteIInv, RouteTypes, CallersSafe, NotesSafe
<1>2. CASE WatchDiscovery
  BY Zenon, <1>1, <1>2 DEF WatchDiscovery
<1>3. ASSUME NEW n \in notes, RunWatch(n)
      PROVE  RouteIInv'
  BY Zenon, <1>1, <1>3 DEF RunWatch
<1>4. CASE UNCHANGED routeVars
  BY Zenon, <1>1, <1>4 DEF routeVars
<1>5. ASSUME NEW p \in Callers,
             Route(p) \/ RouteAsync(p) \/ LookUp(p, "broadcast")
      PROVE  RouteIInv'
  BY Zenon, <1>5, RouteLookUp DEF Route, RouteAsync
<1>. QED  BY Zenon, <1>2, <1>3, <1>4, <1>5, RouteRegister, RouteDeregister,
             RouteCopy, RouteSend
          DEF RouteNext

\* What readers meet was registered since their lookup.
LEMMA RouteEnough == RouteIInv => RoutedToRegistered /\ RouteTypeOK
<1>. SUFFICES ASSUME RouteIInv
              PROVE  RoutedToRegistered /\ RouteTypeOK
  OBVIOUS
<1>1. ASSUME NEW n \in notes
      PROVE  IdsOf(Cells(n.slice)) \subseteq n.since
  <2>1. /\ ReadsOnly(array, n.slice, n.since) /\ n.slice \in Header
        /\ array \in [Caps -> Seq(Cell)]
          /\ n.slice.len <= Len(array[n.slice.cap])
    BY Zenon DEF RouteIInv, RouteTypes, NotesSafe, ReadsOnly
  <2>2. /\ Cells(n.slice) \in Seq(Cell)
        /\ Len(Cells(n.slice)) = n.slice.len
        /\ \A k \in 1..n.slice.len : Cells(n.slice)[k] = array[n.slice.cap][k]
    BY Zenon, <2>1, RouteCells DEF Cells
  <2>3. DOMAIN Cells(n.slice) = 1..n.slice.len
    BY <2>2
  <2>. QED  BY Zenon, <2>1, <2>2, <2>3 DEF ReadsOnly, IdsOf
<1>2. RoutedToRegistered
  BY Zenon, <1>1 DEF RouteIInv, CallersSafe, RoutedToRegistered
<1>3. \A p \in Callers : call[p].to \subseteq RouteIds
  <2>1. \A r \in CallRecords : r.to \subseteq RouteIds
    BY DEF CallRecords
  <2>. QED  BY Zenon, <2>1 DEF RouteIInv, RouteTypes
<1>4. RouteTypeOK
  BY Zenon, <1>3 DEF RouteIInv, RouteTypes, RouteTypeOK
<1>. QED  BY Zenon, <1>2, <1>4

-----------------------------------------------------------------------------
(* The types of the WebSocket server and of publish/subscribe.             *)

\* The types hold initially.
LEMMA NetTypesInit ==
  ASSUME Constants, Init  PROVE TypeOK
<1>1. Types
  BY Zenon, NetInit DEF IInv
<1>2. send \in [Clients -> 0..SendCap]
  BY DEF Init, Constants
<1>3. conn \in [Clients -> {"none", "open", "broken", "shut"}]
  BY Zenon DEF Init
<1>4. closed \in [Clients -> BOOLEAN] /\ late \in [Clients -> BOOLEAN]
  BY Zenon DEF Init
<1>5. stopped \in BOOLEAN
  BY Zenon DEF Init
<1>. QED  BY Zenon, <1>1, <1>2, <1>3, <1>4, <1>5 DEF Types, TypeOK

\* Every step keeps the types: no Send channel is filled beyond its capacity.
LEMMA NetTypesNext ==
  ASSUME Constants, IInv, IInv', TypeOK, [Next]_vars  PROVE TypeOK'
<1>. DEFINE Sends == send' \in [Clients -> 0..SendCap]
            Conns == conn' \in [Clients -> {"none", "open", "broken", "shut"}]
            Flags == /\ closed' \in [Clients -> BOOLEAN]
                     /\ late' \in [Clients -> BOOLEAN]
                     /\ stopped' \in BOOLEAN
<1>1. SUFFICES Sends /\ Conns /\ Flags
  BY Zenon DEF IInv, Types, TypeOK
<1>2. /\ send \in [Clients -> 0..SendCap]
      /\ conn \in [Clients -> {"none", "open", "broken", "shut"}]
      /\ closed \in [Clients -> BOOLEAN] /\ late \in [Clients -> BOOLEAN]
      /\ stopped \in BOOLEAN
  BY Zenon DEF TypeOK
<1>3. ASSUME NEW c \in Clients
      PROVE  /\ SendMessage(c) \in [Clients -> 0..SendCap]
             /\ [send EXCEPT ![c] = 0] \in [Clients -> 0..SendCap]
  BY <1>2 DEF SendMessage, Constants
<1>4. ASSUME NEW c \in Clients, NEW s \in {"open", "broken", "shut"}
      PROVE  [conn EXCEPT ![c] = s] \in [Clients -> {"none", "open", "broken", "shut"}]
  BY Zenon, <1>2
<1>5. ASSUME NEW c \in Clients, NEW b \in BOOLEAN
      PROVE  /\ [closed EXCEPT ![c] = b] \in [Clients -> BOOLEAN]
             /\ [late EXCEPT ![c] = b] \in [Clients -> BOOLEAN]
  BY Zenon, <1>2
<1>6. CASE UNCHANGED <<conn, closed, send, late, stopped>>
  BY Zenon, <1>2, <1>6
<1>7. ASSUME NEW c \in Clients, Accept(c) \/ Break(c)  PROVE Sends /\ Conns /\ Flags
  BY Zenon, <1>2, <1>4, <1>7 DEF Accept, Break
<1>8. ASSUME NEW c \in Clients, GoSilent(c) \/ HandleHeartbeatRequest(c)
      PROVE  Sends /\ Conns /\ Flags
  BY Zenon, <1>2, <1>3, <1>5, <1>8 DEF GoSilent, HandleHeartbeatRequest
<1>9. ASSUME NEW c \in Clients, Answer(c) \/ BroadcastEnd(c) \/ WritePumpSend(c)
      PROVE  Sends /\ Conns /\ Flags
  BY Zenon, <1>2, <1>3, <1>9 DEF Answer, BroadcastEnd, WritePumpSend
<1>10. ASSUME NEW c \in Clients, Broadcast(c)  PROVE Sends /\ Conns /\ Flags
  <2>1. PICK d \in todo[Reader(c)] : send' = SendMessage(d) \/ send' = send
    BY Zenon, <1>10 DEF Broadcast
  <2>2. d \in Clients
    BY Zenon, NetProcs, <2>1 DEF TypeOK
  <2>. QED  BY Zenon, <1>2, <1>3, <1>10, <2>1, <2>2 DEF Broadcast
<1>11. ASSUME NEW p \in Procs, CloseConn(p)  PROVE Sends /\ Conns /\ Flags
  <2>1. target[p] \in Clients
    BY Zenon, <1>11 DEF CloseConn, IInv, CloseHasClient
  <2>2. /\ closed' = closed \/ closed' = [closed EXCEPT ![target[p]] = TRUE]
        /\ conn' = conn \/ conn' = [conn EXCEPT ![target[p]] = "shut"]
        /\ UNCHANGED <<send, late, stopped>>
    BY Zenon, <1>11 DEF CloseConn
  <2>3. Conns
    BY Zenon, <1>2, <1>4, <2>1, <2>2
  <2>4. Sends /\ Flags
    BY Zenon, <1>2, <1>5, <2>1, <2>2
  <2>. QED  BY Zenon, <2>3, <2>4
<1>12. ASSUME NEW p \in Procs, CloseUnlist(p)  PROVE Sends /\ Conns /\ Flags
  <2>1. target[p] \in Clients
    BY Zenon, <1>12 DEF CloseUnlist, IInv, CloseHasClient
  <2>2. /\ send' = [send EXCEPT ![target[p]] = 0]
        /\ late' = [late EXCEPT ![target[p]] = FALSE]
        /\ UNCHANGED <<conn, closed, stopped>>
    BY Zenon, <1>12 DEF CloseUnlist
  <2>3. Sends
    BY Zenon, <1>3, <2>1, <2>2
  <2>4. Conns /\ Flags
    BY Zenon, <1>2, <1>5, <2>1, <2>2
  <2>. QED  BY Zenon, <2>3, <2>4
<1>13. CASE StopCancel
  BY Zenon, <1>2, <1>13 DEF StopCancel
<1>14. ASSUME NEW c \in Clients,
              \/ NewClientFromWS(c) \/ HandleChatRequest(c) \/ ReadFails(c)
              \/ WritePumpEnds(c)
       PROVE  UNCHANGED <<conn, closed, send, late, stopped>>
  BY Zenon, <1>14
     DEF NewClientFromWS, HandleChatRequest, ReadFails, WritePumpEnds
<1>15. CASE \/ CheckHeartbeats \/ CheckerEnds \/ StopAll
            \/ \E p \in {Checker, Stopper} : Visit(p) \/ VisitEnd(p)
  <2>1. UNCHANGED <<conn, closed, send, late, stopped>>
    BY Zenon, <1>15 DEF CheckHeartbeats, CheckerEnds, StopAll, Visit, VisitEnd
  <2>. QED  BY Zenon, <1>6, <2>1
<1>16. CASE UNCHANGED vars
  BY Zenon, <1>6, <1>16 DEF vars
<1>. HIDE DEF Sends, Conns, Flags
<1>. QED
  BY Zenon, <1>6, <1>7, <1>8, <1>9, <1>10, <1>11, <1>12, <1>13, <1>14, <1>15, <1>16
  DEF Next, HandleLoginRequest, HandlePositionSyncRequest, HandleOtherChat,
      HandleCombatCommandRequest

\* The types hold initially.
LEMMA PubTypesInit ==
  ASSUME PubConstants, PubInit  PROVE PubTypeOK
<1>1. stream \in Seq(Received) /\ \A i : i \notin DOMAIN loops
  BY DEF PubInit
<1>2. calls \in [AllEntries -> [Messages -> 0..2]]
  BY DEF PubInit
<1>3. pubsub \in 0..opened /\ opened \in 0..MaxOpen
  BY DEF PubInit, PubConstants
<1>4. {activeChannels, isRunning, stopClosed, dead} \subseteq BOOLEAN
  BY Zenon DEF PubInit
<1>5. handlers \subseteq Entries /\ patternHandlers \subseteq PEntries
  BY Zenon DEF PubInit
<1>. QED  BY Zenon, <1>1, <1>2, <1>3, <1>4, <1>5 DEF PubTypeOK

\* Every step keeps the types: no entry is called three times for a message,
\* and every redis.PubSub object has its number.
LEMMA PubTypesNext ==
  ASSUME PubConstants, PubIInv, PubIInv', PubTypeOK, [PubNext]_pubVars
  PROVE  PubTypeOK'
<1>1. calls' \in [AllEntries -> [Messages -> 0..2]]
  <2>1. calls' \in [AllEntries -> [Messages -> Nat]]
    BY Zenon DEF PubIInv, PubTypes
  <2>2. \A h \in AllEntries, m \in Messages : calls'[h][m] <= 2
    BY Zenon DEF PubIInv, Once, AtMostTwice
  <2>3. \A n \in Nat : n <= 2 => n \in 0..2
    BY SMT
  <2>. QED  BY Zenon, <2>1, <2>2, <2>3
<1>2. \A i \in DOMAIN loops' :
        loops'[i].at \in {"check", "receive", "handle", "ended"}
  <2>1. loops' \in Seq(Loop)
    BY Zenon DEF PubIInv, PubTypes
  <2>2. \A i \in DOMAIN loops' : loops'[i] \in Loop
    BY <2>1
  <2>3. \A l \in Loop : l.at \in {"check", "receive", "handle", "ended"}
    BY DEF Loop
  <2>. QED  BY Zenon, <2>2, <2>3
<1>3. /\ handlers' \subseteq Entries /\ patternHandlers' \subseteq PEntries
      /\ stream' \in Seq(Received)
  BY Zenon DEF PubIInv, PubTypes
<1>4. /\ activeChannels \in BOOLEAN /\ isRunning \in BOOLEAN
      /\ stopClosed \in BOOLEAN /\ dead \in BOOLEAN
  BY Zenon DEF PubTypeOK
<1>. DEFINE Flags == /\ activeChannels' \in BOOLEAN /\ isRunning' \in BOOLEAN
                     /\ stopClosed' \in BOOLEAN /\ dead' \in BOOLEAN
            Counts == pubsub' \in 0..opened' /\ opened' \in 0..MaxOpen
<1>. SUFFICES Flags /\ Counts
  BY Zenon, <1>1, <1>2, <1>3 DEF PubTypeOK
<1>5. \A n \in 0..MaxOpen : \A k \in 0..n : /\ 0 \in 0..n
                                            /\ n < MaxOpen => /\ n + 1 \in 0..MaxOpen
                                                              /\ n + 1 \in 0..(n + 1)
  BY DEF PubConstants
<1>6. pubsub \in 0..opened /\ opened \in 0..MaxOpen
  BY Zenon DEF PubTypeOK
<1>7. ASSUME Open
      PROVE  Counts /\ (isRunning' = isRunning \/ isRunning' = TRUE)
  BY Zenon, <1>5, <1>6, <1>7 DEF Open
<1>8. ASSUME NEW h, Subscribe(h) \/ PSubscribe(h)  PROVE Flags /\ Counts
  <2>1. Open
    BY Zenon, <1>8 DEF Subscribe, PSubscribe
  <2>2. /\ activeChannels' = activeChannels \/ activeChannels' = TRUE
        /\ UNCHANGED <<stopClosed, dead>>
    BY Zenon, <1>8 DEF Subscribe, PSubscribe
  <2>3. /\ Counts
        /\ isRunning' = isRunning \/ isRunning' = TRUE
    BY Zenon, <1>7, <2>1
  <2>. QED  BY Zenon, <1>4, <2>2, <2>3
<1>9. CASE Unsubscribe \/ PUnsubscribe
  BY Zenon, <1>4, <1>6, <1>9 DEF Unsubscribe, PUnsubscribe
<1>10. CASE Close
  <2>1. Counts
    BY Zenon, <1>5, <1>6, <1>10 DEF Close
  <2>2. Flags
    BY Zenon, <1>4, <1>10 DEF Close
  <2>. QED  BY Zenon, <2>1, <2>2
<1>11. CASE (\E m \in Messages : Publish(m)) \/ LoseStream
  BY Zenon, <1>4, <1>6, <1>11 DEF Publish, LoseStream
<1>12. ASSUME NEW i \in DOMAIN loops,
              LoopChecks(i) \/ LoopReceives(i) \/ HandleMessage(i)
       PROVE  Flags /\ Counts
  BY Zenon, <1>4, <1>6, <1>12 DEF LoopChecks, LoopReceives, HandleMessage
<1>13. CASE UNCHANGED pubVars
  BY Zenon, <1>4, <1>6, <1>13 DEF pubVars
<1>. HIDE DEF Flags, Counts
<1>. QED  BY Zenon, <1>8, <1>9, <1>10, <1>11, <1>12, <1>13 DEF PubNext
=============================================================================
