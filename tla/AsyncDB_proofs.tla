--------------------------- MODULE AsyncDB_proofs ---------------------------
(* Proofs about the asynchronous database layer, for every set of           *)
(* operations, batches and workers and every queue size, batch size and     *)
(* retry limit.                                                             *)
EXTENDS AsyncDB, TLAPS

\* Appending a new element to a sequence without repetitions.
LEMMA AppendFacts ==
  ASSUME NEW S, NEW s \in Seq(S), NEW e \in S
  PROVE  /\ Append(s, e) \in Seq(S)
         /\ Len(Append(s, e)) = Len(s) + 1
         /\ Append(s, e) # <<>>
         /\ Range(Append(s, e)) = Range(s) \cup {e}
         /\ IsInjective(s) /\ e \notin Range(s) => IsInjective(Append(s, e))
  <1>1. Append(s, e) \in Seq(S) /\ Len(Append(s, e)) = Len(s) + 1
    OBVIOUS
  <1>0. Append(s, e) # <<>>
    <2>1. Len(s) \in Nat /\ Len(<<>>) = 0
      OBVIOUS
    <2> QED
      BY <1>1, <2>1
  <1>2. \A i \in 1..Len(s) : Append(s, e)[i] = s[i]
    OBVIOUS
  <1>3. Append(s, e)[Len(s) + 1] = e
    OBVIOUS
  <1>4. DOMAIN s = 1..Len(s) /\ DOMAIN Append(s, e) = 1..(Len(s) + 1) /\ Len(s) \in Nat
    OBVIOUS
  <1>5. Range(Append(s, e)) = Range(s) \cup {e}
    BY <1>2, <1>3, <1>4 DEF Range
  <1>6. IsInjective(s) /\ e \notin Range(s) => IsInjective(Append(s, e))
    BY <1>2, <1>3, <1>4 DEF Range, IsInjective
  <1> QED
    BY Zenon, <1>0, <1>1, <1>5, <1>6

\* Removing the first element of a sequence without repetitions.
LEMMA TailFacts ==
  ASSUME NEW S, NEW s \in Seq(S), s # <<>>
  PROVE  /\ Tail(s) \in Seq(S)
         /\ Len(Tail(s)) = Len(s) - 1
         /\ Head(s) \in S
         /\ Head(s) \in Range(s)
         /\ Range(s) = Range(Tail(s)) \cup {Head(s)}
         /\ IsInjective(s) => IsInjective(Tail(s)) /\ Head(s) \notin Range(Tail(s))
  <1>1. Tail(s) \in Seq(S) /\ Len(Tail(s)) = Len(s) - 1 /\ Head(s) \in S
    OBVIOUS
  <1>2. \A i \in 1..(Len(s) - 1) : Tail(s)[i] = s[i + 1]
    OBVIOUS
  <1>3. Head(s) = s[1] /\ Len(s) \in Nat \ {0}
    OBVIOUS
  <1>4. DOMAIN s = 1..Len(s) /\ DOMAIN Tail(s) = 1..(Len(s) - 1)
    OBVIOUS
  <1>5. Head(s) \in Range(s)
    BY <1>3, <1>4 DEF Range
  <1>6. Range(Tail(s)) \subseteq Range(s)
    BY <1>2, <1>3, <1>4 DEF Range
  <1>7. Range(s) \subseteq Range(Tail(s)) \cup {Head(s)}
    <2> SUFFICES ASSUME NEW i \in 1..Len(s), i # 1
                 PROVE  s[i] \in Range(Tail(s))
      BY Zenon, <1>3, <1>4 DEF Range
    <2>1. i - 1 \in 1..(Len(s) - 1) /\ Tail(s)[i - 1] = s[i]
      BY <1>2, <1>3
    <2> QED
      BY Zenon, <2>1, <1>4 DEF Range
  <1>8. IsInjective(s) => IsInjective(Tail(s)) /\ Head(s) \notin Range(Tail(s))
    BY <1>2, <1>3, <1>4 DEF Range, IsInjective
  <1> QED
    BY Zenon, <1>1, <1>5, <1>6, <1>7, <1>8

-----------------------------------------------------------------------------
(* The types, and how the program counters go with the rest of the state.   *)

\* a worker holds an operation exactly while it runs it or sleeps on it
HeldControl == \A w \in Worker : held[w] = NoOp <=> wpc[w] \in {"select", "exit"}

\* the callback of a timer in the map has not run
TimerControl == \A b \in BatchID : batchTimers[b] => pendingTimers[b] > 0

\* only the holder of batchMu flushes, and Close and WaitForCompletion hold
\* it in processPendingBatches only
LockControl ==
  /\ batchMu = "free" => flush = <<>>
  /\ batchMu = "close" => closer = "marked"
  /\ batchMu = "wait" => waiter = "called"

\* the queue is closed after the last worker has left
CloseControl == queueClosed => WorkersDone

Control == HeldControl /\ TimerControl /\ LockControl /\ CloseControl

\* Every action keeps the types.
LEMMA TypeStep ==
  ASSUME TypeOK, Control, [Next]_vars
  PROVE  TypeOK'
  <1> USE AsyncAssumption
  <1> USE DEF opVars, batchVars, workVars, waitVars
  <1>0. SubmissionType /\ BatchType /\ WorkerType /\ OperationType /\ CallerType
    BY Zenon DEF TypeOK
  <1>1. ASSUME NEW o \in Op, CheckOpen(o) PROVE TypeOK'
    <2>1. SubmissionType'
      BY Zenon, <1>0, <1>1 DEF SubmissionType, CheckOpen
    <2>2. BatchType' /\ WorkerType' /\ OperationType' /\ CallerType'
      BY <1>0, <1>1 DEF BatchType, WorkerType, OperationType, CallerType, CheckOpen
    <2> QED
      BY Zenon, <2>1, <2>2 DEF TypeOK
  <1>2. ASSUME NEW o \in Op, SubmitDirect(o) PROVE TypeOK'
    <2>1. Append(queue, o) \in Seq(Op) /\ Len(Append(queue, o)) = Len(queue) + 1 /\ Len(queue) \in Nat
      BY <1>0, <1>2 DEF SubmissionType
    <2>2. SubmissionType'
      <3>1. CASE queueClosed
        BY Zenon, <1>0, <1>2, <2>1, <3>1 DEF SubmissionType, SubmitDirect, HasRoom
      <3>2. CASE ~queueClosed /\ HasRoom
        <4>1. queue' = Append(queue, o) /\ subm' = [subm EXCEPT ![o] = "accepted"] /\ lost' = lost
          BY Zenon, <1>2, <3>2 DEF SubmitDirect, HasRoom
        <4>2. Len(queue) + 1 <= QueueSize
          BY <2>1, <3>2 DEF HasRoom
        <4> QED
          BY Zenon, <1>0, <2>1, <4>1, <4>2 DEF SubmissionType
      <3>3. CASE ~queueClosed /\ ~HasRoom
        BY Zenon, <1>0, <1>2, <2>1, <3>3 DEF SubmissionType, SubmitDirect, HasRoom
      <3> QED
        BY Zenon, <1>2, <3>1, <3>2, <3>3 DEF SubmitDirect
    <2>3. CallerType'
      <3>1. CASE queueClosed
        BY Zenon, <1>0, <1>2, <2>1, <3>1 DEF CallerType, SubmitDirect, HasRoom
      <3>2. CASE ~queueClosed /\ HasRoom
        BY Zenon, <1>0, <1>2, <2>1, <3>2 DEF CallerType, SubmitDirect, HasRoom
      <3>3. CASE ~queueClosed /\ ~HasRoom
        BY Zenon, <1>0, <1>2, <2>1, <3>3 DEF CallerType, SubmitDirect, HasRoom
      <3> QED
        BY Zenon, <1>2, <3>1, <3>2, <3>3 DEF SubmitDirect
    <2>4. BatchType' /\ WorkerType' /\ OperationType'
      BY Zenon, <1>0, <1>2 DEF BatchType, WorkerType, OperationType, SubmitDirect
    <2> QED
      BY Zenon, <2>2, <2>3, <2>4 DEF TypeOK
  <1>3. ASSUME NEW o \in Op, NEW b \in BatchID, AddToBatch(o, b) PROVE TypeOK'
    <2>1. Append(batchQueues[b], o) \in Seq(Op)
      BY <1>0, <1>3 DEF BatchType
    <2>2. SubmissionType'
      <3>1. CASE BatchFull(Append(batchQueues[b], o))
        BY Zenon, <1>0, <1>3, <2>1, <3>1 DEF SubmissionType, AddToBatch, WithoutBatch
      <3>2. CASE ~BatchFull(Append(batchQueues[b], o))
        BY Zenon, <1>0, <1>3, <2>1, <3>2 DEF SubmissionType, AddToBatch, WithoutBatch
      <3> QED
        BY Zenon, <1>3, <3>1, <3>2 DEF AddToBatch
    <2>3. BatchType'
      <3>1. CASE BatchFull(Append(batchQueues[b], o))
        <4>1. /\ batchQueues' = [batchQueues EXCEPT ![b] = <<>>]
              /\ flush' = Append(batchQueues[b], o) /\ batchMu' = "submit"
              /\ UNCHANGED <<batchTimers, pendingTimers>>
          BY Zenon, <1>3, <3>1 DEF AddToBatch, WithoutBatch
        <4>2. batchQueues' \in [BatchID -> Seq(Op)]
          BY <1>0, <4>1 DEF BatchType
        <4> QED
          BY Zenon, <1>0, <2>1, <4>1, <4>2 DEF BatchType
      <3>2. CASE ~BatchFull(Append(batchQueues[b], o))
        <4>1. /\ batchQueues' = [batchQueues EXCEPT ![b] = Append(batchQueues[b], o)]
              /\ batchTimers' = [batchTimers EXCEPT ![b] = TRUE]
              /\ pendingTimers' = [pendingTimers EXCEPT ![b] = IF batchTimers[b] THEN @ ELSE @ + 1]
              /\ UNCHANGED <<batchMu, flush>>
          BY Zenon, <1>3, <3>2 DEF AddToBatch
        <4>2. batchQueues' \in [BatchID -> Seq(Op)]
          BY Zenon, <1>0, <2>1, <4>1 DEF BatchType
        <4>3. batchTimers' \in [BatchID -> BOOLEAN] /\ pendingTimers' \in [BatchID -> Nat]
          BY <1>0, <4>1 DEF BatchType
        <4> QED
          BY Zenon, <1>0, <4>1, <4>2, <4>3 DEF BatchType
      <3> QED
        BY Zenon, <1>3, <3>1, <3>2 DEF AddToBatch
    <2>4. WorkerType' /\ OperationType' /\ CallerType'
      BY Zenon, <1>0, <1>3 DEF WorkerType, OperationType, CallerType, AddToBatch
    <2> QED
      BY Zenon, <2>2, <2>3, <2>4 DEF TypeOK
  <1>4. ASSUME NEW b \in BatchID, TimerFires(b) PROVE TypeOK'
    <2>1. pendingTimers[b] - 1 \in Nat
      BY <1>0, <1>4 DEF BatchType, TimerFires
    <2>2. BatchType'
      BY <1>0, <1>4, <2>1 DEF BatchType, TimerFires, WithoutBatch, WithoutTimer
    <2>3. SubmissionType' /\ WorkerType' /\ OperationType' /\ CallerType'
      BY Zenon, <1>0, <1>4 DEF SubmissionType, WorkerType, OperationType, CallerType, TimerFires
    <2> QED
      BY Zenon, <2>2, <2>3 DEF TypeOK
  <1>5. ASSUME NEW who \in {"close", "wait"}, BeginPending(who) PROVE TypeOK'
    <2>1. BatchType'
      <3>1. PICK stopped \in SUBSET {b \in BatchID : batchTimers[b]} :
              pendingTimers' = [b \in BatchID |->
                IF b \in stopped THEN pendingTimers[b] - 1 ELSE pendingTimers[b]]
        BY Zenon, <1>5 DEF BeginPending
      <3>2. \A b \in stopped : b \in BatchID /\ pendingTimers[b] - 1 \in Nat
        BY <1>0, <3>1 DEF BatchType, Control, TimerControl
      <3>3. pendingTimers' \in [BatchID -> Nat]
        BY Zenon, <1>0, <3>1, <3>2 DEF BatchType
      <3> QED
        BY Zenon, <1>0, <1>5, <3>3 DEF BatchType, BeginPending
    <2>2. SubmissionType' /\ WorkerType' /\ OperationType' /\ CallerType'
      BY Zenon, <1>0, <1>5 DEF SubmissionType, WorkerType, OperationType, CallerType, BeginPending
    <2> QED
      BY Zenon, <2>1, <2>2 DEF TypeOK
  <1>6. ASSUME NEW b \in BatchID, NextPending(b) PROVE TypeOK'
    <2>1. BatchType'
      BY Zenon, <1>0, <1>6 DEF BatchType, NextPending, WithoutBatch
    <2>2. SubmissionType' /\ WorkerType' /\ OperationType' /\ CallerType'
      BY Zenon, <1>0, <1>6 DEF SubmissionType, WorkerType, OperationType, CallerType, NextPending
    <2> QED
      BY Zenon, <2>1, <2>2 DEF TypeOK
  <1>7. ASSUME FlushOne PROVE TypeOK'
    <2>1. Tail(flush) \in Seq(Op) /\ Head(flush) \in Op
      BY <1>0, <1>7 DEF BatchType, FlushOne
    <2>2. /\ Append(queue, Head(flush)) \in Seq(Op)
          /\ Len(Append(queue, Head(flush))) = Len(queue) + 1 /\ Len(queue) \in Nat
      BY <1>0, <1>7, <2>1 DEF SubmissionType
    <2>3. SubmissionType'
      <3>1. CASE queueClosed
        BY Zenon, <1>0, <1>7, <2>1, <2>2, <3>1 DEF SubmissionType, FlushOne, HasRoom
      <3>2. CASE ~queueClosed /\ HasRoom
        <4>1. queue' = Append(queue, Head(flush)) /\ subm' = subm /\ lost' = lost
          BY Zenon, <1>7, <3>2 DEF FlushOne, HasRoom
        <4>2. Len(queue) + 1 <= QueueSize
          BY <2>1, <2>2, <3>2 DEF HasRoom
        <4> QED
          BY Zenon, <1>0, <2>1, <2>2, <4>1, <4>2 DEF SubmissionType
      <3>3. CASE ~queueClosed /\ ~HasRoom
        BY Zenon, <1>0, <1>7, <2>1, <2>2, <3>3 DEF SubmissionType, FlushOne, HasRoom
      <3> QED
        BY Zenon, <1>7, <3>1, <3>2, <3>3 DEF FlushOne
    <2>4. BatchType'
      <3>1. CASE queueClosed
        BY Zenon, <1>0, <1>7, <2>1, <2>2, <3>1 DEF BatchType, FlushOne, HasRoom
      <3>2. CASE ~queueClosed /\ HasRoom
        BY Zenon, <1>0, <1>7, <2>1, <2>2, <3>2 DEF BatchType, FlushOne, HasRoom
      <3>3. CASE ~queueClosed /\ ~HasRoom
        BY Zenon, <1>0, <1>7, <2>1, <2>2, <3>3 DEF BatchType, FlushOne, HasRoom
      <3> QED
        BY Zenon, <1>7, <3>1, <3>2, <3>3 DEF FlushOne
    <2>5. CallerType'
      <3>1. CASE queueClosed
        BY Zenon, <1>0, <1>7, <2>1, <2>2, <3>1 DEF CallerType, FlushOne, HasRoom
      <3>2. CASE ~queueClosed /\ HasRoom
        BY Zenon, <1>0, <1>7, <2>1, <2>2, <3>2 DEF CallerType, FlushOne, HasRoom
      <3>3. CASE ~queueClosed /\ ~HasRoom
        BY Zenon, <1>0, <1>7, <2>1, <2>2, <3>3 DEF CallerType, FlushOne, HasRoom
      <3> QED
        BY Zenon, <1>7, <3>1, <3>2, <3>3 DEF FlushOne
    <2>6. WorkerType' /\ OperationType'
      BY Zenon, <1>0, <1>7 DEF WorkerType, OperationType, FlushOne
    <2> QED
      BY Zenon, <2>3, <2>4, <2>5, <2>6 DEF TypeOK
  <1>8. ASSUME Unlock PROVE TypeOK'
    <2>1. BatchType'
      BY Zenon, <1>0, <1>8 DEF BatchType, Unlock
    <2>2. CallerType'
      BY Zenon, <1>0, <1>8 DEF CallerType, Unlock
    <2>3. SubmissionType' /\ WorkerType' /\ OperationType'
      BY Zenon, <1>0, <1>8 DEF SubmissionType, WorkerType, OperationType, Unlock
    <2> QED
      BY Zenon, <2>1, <2>2, <2>3 DEF TypeOK
  <1>9. ASSUME NEW w \in Worker, Take(w) PROVE TypeOK'
    <2>1. /\ Tail(queue) \in Seq(Op) /\ Head(queue) \in Op
          /\ Len(Tail(queue)) = Len(queue) - 1 /\ Len(queue) \in Nat
      BY <1>0, <1>9 DEF SubmissionType, Take
    <2>2. SubmissionType'
      BY <1>0, <1>9, <2>1 DEF SubmissionType, Take
    <2>3. WorkerType'
      BY Zenon, <1>0, <1>9, <2>1 DEF WorkerType, Take
    <2>4. BatchType' /\ OperationType' /\ CallerType'
      BY <1>0, <1>9 DEF BatchType, OperationType, CallerType, Take
    <2> QED
      BY Zenon, <2>2, <2>3, <2>4 DEF TypeOK
  <1>10. ASSUME NEW w \in Worker, Exit(w) PROVE TypeOK'
    <2>1. WorkerType'
      BY Zenon, <1>0, <1>10 DEF WorkerType, Exit
    <2>2. SubmissionType' /\ BatchType' /\ OperationType' /\ CallerType'
      BY <1>0, <1>10 DEF SubmissionType, BatchType, OperationType, CallerType, Exit
    <2> QED
      BY Zenon, <2>1, <2>2 DEF TypeOK
  <1>11. ASSUME NEW w \in Worker, RunCancelled(w) PROVE TypeOK'
    <2>1. held[w] \in Op
      BY Zenon, <1>0, <1>11 DEF WorkerType, Control, HeldControl, RunCancelled
    <2>2. WorkerType'
      BY Zenon, <1>0, <1>11, <2>1 DEF WorkerType, RunCancelled, Complete
    <2>3. OperationType'
      BY <1>0, <1>11, <2>1 DEF OperationType, RunCancelled, Complete
    <2>4. SubmissionType' /\ BatchType' /\ CallerType'
      BY <1>0, <1>11 DEF SubmissionType, BatchType, CallerType, RunCancelled
    <2> QED
      BY Zenon, <2>2, <2>3, <2>4 DEF TypeOK
  <1>12. ASSUME NEW w \in Worker, RunOk(w) PROVE TypeOK'
    <2>1. held[w] \in Op
      BY Zenon, <1>0, <1>12 DEF WorkerType, Control, HeldControl, RunOk
    <2>2. WorkerType'
      BY Zenon, <1>0, <1>12, <2>1 DEF WorkerType, RunOk, Complete
    <2>3. OperationType'
      BY <1>0, <1>12, <2>1 DEF OperationType, RunOk, Complete
    <2>4. SubmissionType' /\ BatchType' /\ CallerType'
      BY <1>0, <1>12 DEF SubmissionType, BatchType, CallerType, RunOk
    <2> QED
      BY Zenon, <2>2, <2>3, <2>4 DEF TypeOK
  <1>13. ASSUME NEW w \in Worker, RunError(w) PROVE TypeOK'
    <2>1. held[w] \in Op
      BY Zenon, <1>0, <1>13 DEF WorkerType, Control, HeldControl, RunError
    <2>2. WorkerType'
      <3>1. CASE CanRetry(held[w])
        BY Zenon, <1>0, <1>13, <2>1, <3>1 DEF WorkerType, RunError, Complete, CanRetry
      <3>2. CASE ~CanRetry(held[w])
        BY Zenon, <1>0, <1>13, <2>1, <3>2 DEF WorkerType, RunError, Complete, CanRetry
      <3> QED
        BY Zenon, <1>13, <3>1, <3>2 DEF RunError
    <2>3. OperationType'
      <3>1. CASE CanRetry(held[w])
        BY <1>0, <1>13, <2>1, <3>1 DEF OperationType, RunError, Complete, CanRetry
      <3>2. CASE ~CanRetry(held[w])
        BY <1>0, <1>13, <2>1, <3>2 DEF OperationType, RunError, Complete, CanRetry
      <3> QED
        BY Zenon, <1>13, <3>1, <3>2 DEF RunError
    <2>4. SubmissionType' /\ BatchType' /\ CallerType'
      BY <1>0, <1>13 DEF SubmissionType, BatchType, CallerType, RunError
    <2> QED
      BY Zenon, <2>2, <2>3, <2>4 DEF TypeOK
  <1>14. ASSUME NEW w \in Worker, Requeue(w) PROVE TypeOK'
    <2>1. held[w] \in Op
      BY Zenon, <1>0, <1>14 DEF WorkerType, Control, HeldControl, Requeue
    <2>2. /\ Append(queue, held[w]) \in Seq(Op)
          /\ Len(Append(queue, held[w])) = Len(queue) + 1 /\ Len(queue) \in Nat
      BY <1>0, <1>14, <2>1 DEF SubmissionType
    <2>3. SubmissionType'
      <3>1. CASE HasRoom
        <4>1. queue' = Append(queue, held[w]) /\ subm' = subm /\ lost' = lost
          BY Zenon, <1>14, <3>1 DEF Requeue, HasRoom
        <4>2. Len(queue) + 1 <= QueueSize
          BY <2>1, <2>2, <3>1 DEF HasRoom
        <4> QED
          BY Zenon, <1>0, <2>1, <2>2, <4>1, <4>2 DEF SubmissionType
      <3>2. CASE ~HasRoom
        BY Zenon, <1>0, <1>14, <2>1, <2>2, <3>2 DEF SubmissionType, Requeue, HasRoom
      <3> QED
        BY Zenon, <1>14, <3>1, <3>2 DEF Requeue
    <2>4. WorkerType'
      BY Zenon, <1>0, <1>14, <2>1, <2>2 DEF WorkerType, Requeue, HasRoom
    <2>5. CallerType'
      <3>1. CASE HasRoom
        BY Zenon, <1>0, <1>14, <2>1, <2>2, <3>1 DEF CallerType, Requeue, HasRoom
      <3>2. CASE ~HasRoom
        BY Zenon, <1>0, <1>14, <2>1, <2>2, <3>2 DEF CallerType, Requeue, HasRoom
      <3> QED
        BY Zenon, <1>14, <3>1, <3>2 DEF Requeue
    <2>6. BatchType' /\ OperationType'
      BY Zenon, <1>0, <1>14 DEF BatchType, OperationType, Requeue
    <2> QED
      BY Zenon, <2>3, <2>4, <2>5, <2>6 DEF TypeOK
  <1>15. ASSUME CloseMark PROVE TypeOK'
    <2>1. CallerType'
      BY Zenon, <1>0, <1>15 DEF CallerType, CloseMark
    <2>2. SubmissionType' /\ BatchType' /\ WorkerType' /\ OperationType'
      BY Zenon, <1>0, <1>15 DEF SubmissionType, BatchType, WorkerType, OperationType, CloseMark
    <2> QED
      BY Zenon, <2>1, <2>2 DEF TypeOK
  <1>16. ASSUME CloseStop PROVE TypeOK'
    <2>1. CallerType'
      BY Zenon, <1>0, <1>16 DEF CallerType, CloseStop
    <2>2. SubmissionType' /\ BatchType' /\ WorkerType' /\ OperationType'
      BY Zenon, <1>0, <1>16 DEF SubmissionType, BatchType, WorkerType, OperationType, CloseStop
    <2> QED
      BY Zenon, <2>1, <2>2 DEF TypeOK
  <1>17. ASSUME CloseQueue PROVE TypeOK'
    <2>1. CallerType'
      BY Zenon, <1>0, <1>17 DEF CallerType, CloseQueue
    <2>2. SubmissionType' /\ BatchType' /\ WorkerType' /\ OperationType'
      BY Zenon, <1>0, <1>17 DEF SubmissionType, BatchType, WorkerType, OperationType, CloseQueue
    <2> QED
      BY Zenon, <2>1, <2>2 DEF TypeOK
  <1>18. ASSUME WaitCall PROVE TypeOK'
    <2>1. CallerType'
      BY Zenon, <1>0, <1>18 DEF CallerType, WaitCall, Accepted
    <2>2. SubmissionType' /\ BatchType' /\ WorkerType' /\ OperationType'
      BY Zenon, <1>0, <1>18 DEF SubmissionType, BatchType, WorkerType, OperationType, WaitCall
    <2> QED
      BY Zenon, <2>1, <2>2 DEF TypeOK
  <1>19. ASSUME PollQueue PROVE TypeOK'
    <2>1. CallerType'
      BY Zenon, <1>0, <1>19 DEF CallerType, PollQueue
    <2>2. SubmissionType' /\ BatchType' /\ WorkerType' /\ OperationType'
      BY Zenon, <1>0, <1>19 DEF SubmissionType, BatchType, WorkerType, OperationType, PollQueue
    <2> QED
      BY Zenon, <2>1, <2>2 DEF TypeOK
  <1>20. ASSUME PollBatches PROVE TypeOK'
    <2>1. CallerType'
      BY Zenon, <1>0, <1>20 DEF CallerType, PollBatches
    <2>2. SubmissionType' /\ BatchType' /\ WorkerType' /\ OperationType'
      BY Zenon, <1>0, <1>20 DEF SubmissionType, BatchType, WorkerType, OperationType, PollBatches
    <2> QED
      BY Zenon, <2>1, <2>2 DEF TypeOK
  <1>21. ASSUME WaitTimeout PROVE TypeOK'
    <2>1. CallerType'
      BY Zenon, <1>0, <1>21 DEF CallerType, WaitTimeout
    <2>2. SubmissionType' /\ BatchType' /\ WorkerType' /\ OperationType'
      BY Zenon, <1>0, <1>21 DEF SubmissionType, BatchType, WorkerType, OperationType, WaitTimeout
    <2> QED
      BY Zenon, <2>1, <2>2 DEF TypeOK
  <1>22. CASE UNCHANGED vars
    BY <1>0, <1>22 DEF vars, TypeOK, SubmissionType, BatchType, WorkerType, OperationType, CallerType
  <1> QED
    BY Zenon, <1>1, <1>2, <1>3, <1>4, <1>5, <1>6, <1>7, <1>8, <1>9, <1>10, <1>11, <1>12, <1>13, <1>14, <1>15, <1>16, <1>17, <1>18, <1>19, <1>20, <1>21, <1>22
    DEF Next, Submit, WorkerStep, FlushStep, Close, Wait

\* Every action keeps Control.
LEMMA ControlStep ==
  ASSUME TypeOK, Control, [Next]_vars
  PROVE  Control'
  <1> USE AsyncAssumption
  <1> USE DEF opVars, batchVars, workVars, waitVars, queueClosed, WorkersDone
  <1>0. /\ HeldControl /\ TimerControl /\ LockControl /\ CloseControl
        /\ SubmissionType /\ BatchType /\ WorkerType /\ CallerType
    BY Zenon DEF TypeOK, Control
  <1>1. ASSUME NEW o \in Op, CheckOpen(o) PROVE Control'
    BY Zenon, <1>0, <1>1 DEF Control, HeldControl, TimerControl, LockControl, CloseControl, CheckOpen
  <1>2. ASSUME NEW o \in Op, SubmitDirect(o) PROVE Control'
    BY Zenon, <1>0, <1>2 DEF Control, HeldControl, TimerControl, LockControl, CloseControl, SubmitDirect
  <1>3. ASSUME NEW o \in Op, NEW b \in BatchID, AddToBatch(o, b) PROVE Control'
    <2>1. TimerControl'
      <3>1. CASE BatchFull(Append(batchQueues[b], o))
        BY Zenon, <1>0, <1>3, <3>1 DEF TimerControl, AddToBatch
      <3>2. CASE ~BatchFull(Append(batchQueues[b], o))
        <4>1. /\ batchTimers' = [batchTimers EXCEPT ![b] = TRUE]
              /\ pendingTimers' = [pendingTimers EXCEPT ![b] = IF batchTimers[b] THEN @ ELSE @ + 1]
          BY Zenon, <1>3, <3>2 DEF AddToBatch
        <4> QED
          BY <1>0, <4>1 DEF TimerControl, BatchType
      <3> QED
        BY Zenon, <3>1, <3>2
    <2>2. LockControl'
      BY Zenon, <1>0, <1>3 DEF LockControl, BatchType, AddToBatch, WithoutBatch
    <2>3. HeldControl' /\ CloseControl'
      BY Zenon, <1>0, <1>3 DEF HeldControl, CloseControl, AddToBatch
    <2> QED
      BY Zenon, <2>1, <2>2, <2>3 DEF Control
  <1>4. ASSUME NEW b \in BatchID, TimerFires(b) PROVE Control'
    <2>1. TimerControl'
      BY Zenon, <1>0, <1>4 DEF TimerControl, BatchType, TimerFires, WithoutTimer
    <2>2. LockControl'
      BY Zenon, <1>0, <1>4 DEF LockControl, BatchType, TimerFires, WithoutTimer
    <2>3. HeldControl' /\ CloseControl'
      BY Zenon, <1>0, <1>4 DEF HeldControl, CloseControl, TimerFires
    <2> QED
      BY Zenon, <2>1, <2>2, <2>3 DEF Control
  <1>5. ASSUME NEW who \in {"close", "wait"}, BeginPending(who) PROVE Control'
    <2>1. TimerControl'
      BY Zenon, <1>0, <1>5 DEF TimerControl, BatchType, BeginPending
    <2>2. LockControl'
      BY Zenon, <1>0, <1>5 DEF LockControl, BatchType, BeginPending
    <2>3. HeldControl' /\ CloseControl'
      BY Zenon, <1>0, <1>5 DEF HeldControl, CloseControl, BeginPending
    <2> QED
      BY Zenon, <2>1, <2>2, <2>3 DEF Control
  <1>6. ASSUME NEW b \in BatchID, NextPending(b) PROVE Control'
    <2>1. LockControl'
      BY Zenon, <1>0, <1>6 DEF LockControl, BatchType, NextPending
    <2>2. HeldControl' /\ TimerControl' /\ CloseControl'
      BY Zenon, <1>0, <1>6 DEF HeldControl, TimerControl, CloseControl, NextPending
    <2> QED
      BY Zenon, <2>1, <2>2 DEF Control
  <1>7. ASSUME FlushOne PROVE Control'
    <2>1. LockControl'
      BY Zenon, <1>0, <1>7 DEF LockControl, BatchType, FlushOne
    <2>2. HeldControl' /\ TimerControl' /\ CloseControl'
      BY Zenon, <1>0, <1>7 DEF HeldControl, TimerControl, CloseControl, FlushOne
    <2> QED
      BY Zenon, <2>1, <2>2 DEF Control
  <1>8. ASSUME Unlock PROVE Control'
    <2>1. LockControl'
      BY Zenon, <1>0, <1>8 DEF LockControl, BatchType, Unlock
    <2>2. CloseControl'
      BY Zenon, <1>0, <1>8 DEF CloseControl, WorkerType, Unlock
    <2>3. HeldControl' /\ TimerControl'
      BY Zenon, <1>0, <1>8 DEF HeldControl, TimerControl, Unlock
    <2> QED
      BY Zenon, <2>1, <2>2, <2>3 DEF Control
  <1>9. ASSUME NEW w \in Worker, Take(w) PROVE Control'
    <2>1. HeldControl'
      BY <1>0, <1>9 DEF HeldControl, WorkerType, SubmissionType, Take
    <2>2. CloseControl'
      BY Zenon, <1>0, <1>9 DEF CloseControl, WorkerType, SubmissionType, HeldControl, Take
    <2>3. TimerControl' /\ LockControl'
      BY Zenon, <1>0, <1>9 DEF TimerControl, LockControl, Take
    <2> QED
      BY Zenon, <2>1, <2>2, <2>3 DEF Control
  <1>10. ASSUME NEW w \in Worker, Exit(w) PROVE Control'
    <2>1. HeldControl'
      BY Zenon, <1>0, <1>10 DEF HeldControl, WorkerType, Exit
    <2>2. CloseControl'
      BY Zenon, <1>0, <1>10 DEF CloseControl, WorkerType, Exit
    <2>3. TimerControl' /\ LockControl'
      BY Zenon, <1>0, <1>10 DEF TimerControl, LockControl, Exit
    <2> QED
      BY Zenon, <2>1, <2>2, <2>3 DEF Control
  <1>11. ASSUME NEW w \in Worker, RunCancelled(w) PROVE Control'
    <2>1. HeldControl'
      BY Zenon, <1>0, <1>11 DEF HeldControl, WorkerType, RunCancelled, Complete
    <2>2. CloseControl'
      BY Zenon, <1>0, <1>11 DEF CloseControl, WorkerType, RunCancelled, Complete
    <2>3. TimerControl' /\ LockControl'
      BY Zenon, <1>0, <1>11 DEF TimerControl, LockControl, RunCancelled
    <2> QED
      BY Zenon, <2>1, <2>2, <2>3 DEF Control
  <1>12. ASSUME NEW w \in Worker, RunOk(w) PROVE Control'
    <2>1. HeldControl'
      BY Zenon, <1>0, <1>12 DEF HeldControl, WorkerType, RunOk, Complete
    <2>2. CloseControl'
      BY Zenon, <1>0, <1>12 DEF CloseControl, WorkerType, RunOk, Complete
    <2>3. TimerControl' /\ LockControl'
      BY Zenon, <1>0, <1>12 DEF TimerControl, LockControl, RunOk
    <2> QED
      BY Zenon, <2>1, <2>2, <2>3 DEF Control
  <1>13. ASSUME NEW w \in Worker, RunError(w) PROVE Control'
    <2>1. HeldControl'
      BY Zenon, <1>0, <1>13 DEF HeldControl, WorkerType, RunError, Complete
    <2>2. CloseControl'
      BY Zenon, <1>0, <1>13 DEF CloseControl, WorkerType, RunError, Complete
    <2>3. TimerControl' /\ LockControl'
      BY Zenon, <1>0, <1>13 DEF TimerControl, LockControl, RunError
    <2> QED
      BY Zenon, <2>1, <2>2, <2>3 DEF Control
  <1>14. ASSUME NEW w \in Worker, Requeue(w) PROVE Control'
    <2>1. HeldControl'
      BY Zenon, <1>0, <1>14 DEF HeldControl, WorkerType, Requeue
    <2>2. CloseControl'
      BY Zenon, <1>0, <1>14 DEF CloseControl, WorkerType, Requeue
    <2>3. TimerControl' /\ LockControl'
      BY Zenon, <1>0, <1>14 DEF TimerControl, LockControl, Requeue
    <2> QED
      BY Zenon, <2>1, <2>2, <2>3 DEF Control
  <1>15. ASSUME CloseMark PROVE Control'
    <2>1. LockControl'
      BY Zenon, <1>0, <1>15 DEF LockControl, BatchType, CloseMark
    <2>2. CloseControl'
      BY Zenon, <1>0, <1>15 DEF CloseControl, WorkerType, CloseMark
    <2>3. HeldControl' /\ TimerControl'
      BY Zenon, <1>0, <1>15 DEF HeldControl, TimerControl, CloseMark
    <2> QED
      BY Zenon, <2>1, <2>2, <2>3 DEF Control
  <1>16. ASSUME CloseStop PROVE Control'
    <2>1. LockControl'
      BY Zenon, <1>0, <1>16 DEF LockControl, BatchType, CloseStop
    <2>2. CloseControl'
      BY Zenon, <1>0, <1>16 DEF CloseControl, WorkerType, CloseStop
    <2>3. HeldControl' /\ TimerControl'
      BY Zenon, <1>0, <1>16 DEF HeldControl, TimerControl, CloseStop
    <2> QED
      BY Zenon, <2>1, <2>2, <2>3 DEF Control
  <1>17. ASSUME CloseQueue PROVE Control'
    <2>1. LockControl'
      BY Zenon, <1>0, <1>17 DEF LockControl, BatchType, CloseQueue
    <2>2. CloseControl'
      BY Zenon, <1>0, <1>17 DEF CloseControl, WorkerType, CloseQueue
    <2>3. HeldControl' /\ TimerControl'
      BY Zenon, <1>0, <1>17 DEF HeldControl, TimerControl, CloseQueue
    <2> QED
      BY Zenon, <2>1, <2>2, <2>3 DEF Control
  <1>18. ASSUME WaitCall PROVE Control'
    <2>1. LockControl'
      BY Zenon, <1>0, <1>18 DEF LockControl, BatchType, WaitCall
    <2>2. HeldControl' /\ TimerControl' /\ CloseControl'
      BY Zenon, <1>0, <1>18 DEF HeldControl, TimerControl, CloseControl, WaitCall
    <2> QED
      BY Zenon, <2>1, <2>2 DEF Control
  <1>19. ASSUME PollQueue PROVE Control'
    <2>1. LockControl'
      BY Zenon, <1>0, <1>19 DEF LockControl, BatchType, PollQueue
    <2>2. HeldControl' /\ TimerControl' /\ CloseControl'
      BY Zenon, <1>0, <1>19 DEF HeldControl, TimerControl, CloseControl, PollQueue
    <2> QED
      BY Zenon, <2>1, <2>2 DEF Control
  <1>20. ASSUME PollBatches PROVE Control'
    <2>1. LockControl'
      BY Zenon, <1>0, <1>20 DEF LockControl, BatchType, PollBatches
    <2>2. HeldControl' /\ TimerControl' /\ CloseControl'
      BY Zenon, <1>0, <1>20 DEF HeldControl, TimerControl, CloseControl, PollBatches
    <2> QED
      BY Zenon, <2>1, <2>2 DEF Control
  <1>21. ASSUME WaitTimeout PROVE Control'
    BY Zenon, <1>0, <1>21 DEF Control, HeldControl, TimerControl, LockControl, CloseControl, WaitTimeout
  <1>22. CASE UNCHANGED vars
    BY Zenon, <1>0, <1>22 DEF vars, Control, HeldControl, TimerControl, LockControl, CloseControl
  <1> QED
    BY Zenon, <1>1, <1>2, <1>3, <1>4, <1>5, <1>6, <1>7, <1>8, <1>9, <1>10, <1>11, <1>12, <1>13, <1>14, <1>15, <1>16, <1>17, <1>18, <1>19, <1>20, <1>21, <1>22
    DEF Next, Submit, WorkerStep, FlushStep, Close, Wait

-----------------------------------------------------------------------------
(* Where the operations are.                                                *)

\* An empty queue or batch holds nothing.
LEMMA EmptyFacts == Range(<<>>) = {} /\ IsInjective(<<>>)
  BY DEF Range, IsInjective

Places == NoCopies /\ AcceptedIsSomewhere

\* An action that moves no operation keeps Places.
LEMMA PlacesFrame ==
  ASSUME Places, UNCHANGED <<queue, batchQueues, flush, held, callbacks, lost>>,
         \A o \in Op : subm'[o] = "accepted" <=> subm[o] = "accepted"
  PROVE  Places'
  BY Zenon DEF Places, NoCopies, NoRepeats, BatchesDisjoint, HeldDistinct, OnePlace,
         AcceptedIsSomewhere, Queued, Batched, Flushing, Held, Called

\* Moving a whole batch into an empty flush keeps Places.
LEMMA BatchMoves ==
  ASSUME Places, BatchType, NEW b \in BatchID, flush = <<>>,
         UNCHANGED <<subm, queue, held, callbacks, lost>>,
         flush' = batchQueues[b], batchQueues' = [batchQueues EXCEPT ![b] = <<>>]
  PROVE  Places'
  <1>0. NoRepeats /\ BatchesDisjoint /\ HeldDistinct /\ OnePlace /\ AcceptedIsSomewhere
    BY Zenon DEF Places, NoCopies
  <1>1. /\ Range(flush') = Range(batchQueues[b]) /\ IsInjective(flush')
        /\ Range(batchQueues'[b]) = {} /\ IsInjective(batchQueues'[b])
        /\ \A c \in BatchID \ {b} : batchQueues'[c] = batchQueues[c]
        /\ Range(flush) = {}
    BY Zenon, <1>0, EmptyFacts DEF BatchType, NoRepeats
  <1>2. NoRepeats' /\ BatchesDisjoint' /\ HeldDistinct'
    BY Zenon, <1>0, <1>1 DEF NoRepeats, BatchesDisjoint, HeldDistinct
  <1>3. \A p \in Op : Batched(p)' => Batched(p) /\ p \notin Range(batchQueues[b])
    BY Zenon, <1>0, <1>1 DEF Batched, BatchesDisjoint
  <1>4. \A p \in Op : Flushing(p)' <=> p \in Range(batchQueues[b])
    BY Zenon, <1>1 DEF Flushing
  <1>5. OnePlace'
    BY Zenon, <1>0, <1>3, <1>4 DEF OnePlace, Queued, Batched, Held, Called
  <1>6. \A p \in Op : Batched(p) <=> Batched(p)' \/ Flushing(p)'
    BY Zenon, <1>1, <1>3, <1>4 DEF Batched
  <1>7. \A p \in Op : ~Flushing(p)
    BY Zenon, <1>1 DEF Flushing
  <1>8. AcceptedIsSomewhere'
    BY Zenon, <1>0, <1>6, <1>7 DEF AcceptedIsSomewhere, Queued, Held, Called
  <1> QED
    BY Zenon, <1>2, <1>5, <1>8 DEF Places, NoCopies

\* Handing a result to the callback keeps Places.
LEMMA CompleteMoves ==
  ASSUME Places, WorkerType, OperationType, HeldControl, NEW w \in Worker, NEW res, Complete(w, res),
         wpc[w] = "run", UNCHANGED <<subm, queue, batchQueues, flush, lost>>
  PROVE  Places'
  <1> USE AsyncAssumption
  <1>0. NoRepeats /\ BatchesDisjoint /\ HeldDistinct /\ OnePlace /\ AcceptedIsSomewhere
    BY Zenon DEF Places, NoCopies
  <1> DEFINE o == held[w]
  <1>1. o \in Op /\ Held(o)
    BY Zenon DEF HeldControl, WorkerType, Held
  <1>2. ~Queued(o) /\ ~Batched(o) /\ ~Flushing(o) /\ ~Called(o) /\ o \notin lost
    BY Zenon, <1>0, <1>1 DEF OnePlace
  <1>3. HeldDistinct' /\ \A p \in Op : Held(p)' <=> Held(p) /\ p # o
    BY Zenon, <1>0, <1>1 DEF Complete, WorkerType, HeldDistinct, Held
  <1>4. callbacks'[o] = 1 /\ \A p \in Op \ {o} : callbacks'[p] = callbacks[p]
    BY <1>1, <1>2 DEF Complete, OperationType, Called
  <1>5. \A p \in Op : Called(p)' <=> Called(p) \/ p = o
    BY <1>1, <1>4 DEF Called
  <1>6. NoRepeats' /\ BatchesDisjoint'
    BY Zenon, <1>0 DEF NoRepeats, BatchesDisjoint
  <1>7. OnePlace'
    BY Zenon, <1>0, <1>2, <1>3, <1>4, <1>5 DEF OnePlace, Queued, Batched, Flushing
  <1>8. AcceptedIsSomewhere'
    BY Zenon, <1>0, <1>1, <1>3, <1>5 DEF AcceptedIsSomewhere, Queued, Batched, Flushing
  <1> QED
    BY Zenon, <1>3, <1>6, <1>7, <1>8 DEF Places, NoCopies

\* Every action keeps Places: it moves operations, and never copies one.
LEMMA PlacesStep ==
  ASSUME TypeOK, Control, Places, [Next]_vars
  PROVE  Places'
  <1> USE AsyncAssumption
  <1> USE DEF opVars, batchVars, workVars, waitVars
  <1>0. /\ NoRepeats /\ BatchesDisjoint /\ HeldDistinct /\ OnePlace /\ AcceptedIsSomewhere
        /\ SubmissionType /\ BatchType /\ WorkerType /\ OperationType /\ HeldControl /\ LockControl
    BY Zenon DEF TypeOK, Control, Places, NoCopies
  <1>1. ASSUME NEW o \in Op, CheckOpen(o) PROVE Places'
    BY Zenon, <1>0, <1>1, PlacesFrame DEF SubmissionType, CheckOpen
  <1>2. ASSUME NEW o \in Op, SubmitDirect(o) PROVE Places'
    <2>1. CASE UNCHANGED queue
      BY <1>0, <1>2, <2>1, PlacesFrame, AppendFacts DEF SubmissionType, SubmitDirect
    <2>2. CASE queue' = Append(queue, o) /\ subm' = [subm EXCEPT ![o] = "accepted"]
      <3>1. UNCHANGED <<batchQueues, flush, held, callbacks, lost>>
        BY Zenon, <1>2 DEF SubmitDirect
      <3>2. ~Queued(o) /\ ~Batched(o) /\ ~Flushing(o) /\ ~Held(o) /\ ~Called(o) /\ o \notin lost
        BY Zenon, <1>0, <1>2 DEF SubmitDirect, AcceptedIsSomewhere
      <3>3. Range(queue') = Range(queue) \cup {o} /\ IsInjective(queue')
        BY Zenon, <1>0, <2>2, <3>2, AppendFacts DEF SubmissionType, NoRepeats, Queued
      <3>4. NoRepeats' /\ BatchesDisjoint' /\ HeldDistinct'
        BY Zenon, <1>0, <3>1, <3>3 DEF NoRepeats, BatchesDisjoint, HeldDistinct
      <3>5. OnePlace'
        BY Zenon, <1>0, <3>1, <3>2, <3>3 DEF OnePlace, Queued, Batched, Flushing, Held, Called
      <3>6. AcceptedIsSomewhere'
        BY Zenon, <1>0, <2>2, <3>1, <3>2, <3>3
        DEF AcceptedIsSomewhere, SubmissionType, Queued, Batched, Flushing, Held, Called
      <3> QED
        BY Zenon, <3>4, <3>5, <3>6 DEF Places, NoCopies
    <2> QED
      BY Zenon, <1>2, <2>1, <2>2 DEF SubmitDirect
  <1>3. ASSUME NEW o \in Op, NEW b \in BatchID, AddToBatch(o, b) PROVE Places'
    <2>1. UNCHANGED <<queue, held, callbacks, lost>> /\ subm' = [subm EXCEPT ![o] = "accepted"]
      BY Zenon, <1>3 DEF AddToBatch
    <2>2. ~Queued(o) /\ ~Batched(o) /\ ~Flushing(o) /\ ~Held(o) /\ ~Called(o) /\ o \notin lost
      BY Zenon, <1>0, <1>3 DEF AddToBatch, AcceptedIsSomewhere
    <2>3. flush = <<>> /\ Range(flush) = {}
      BY Zenon, <1>0, <1>3, EmptyFacts DEF AddToBatch, LockControl
    <2> DEFINE batch == Append(batchQueues[b], o)
    <2>4. Range(batch) = Range(batchQueues[b]) \cup {o} /\ IsInjective(batch)
      <3>1. batchQueues[b] \in Seq(Op) /\ IsInjective(batchQueues[b]) /\ o \notin Range(batchQueues[b])
        BY Zenon, <1>0, <2>2 DEF BatchType, NoRepeats, Batched
      <3> QED
        BY <3>1, AppendFacts
    <2> HIDE DEF batch
    <2>5. CASE flush' = batch /\ batchQueues' = [batchQueues EXCEPT ![b] = <<>>]
      <3>1. /\ Range(flush') = Range(batchQueues[b]) \cup {o} /\ IsInjective(flush')
            /\ batchQueues'[b] = <<>>
            /\ Range(batchQueues'[b]) = {} /\ IsInjective(batchQueues'[b])
            /\ \A c \in BatchID \ {b} : batchQueues'[c] = batchQueues[c]
        BY Zenon, <1>0, <2>4, <2>5, EmptyFacts DEF BatchType
      <3>2. NoRepeats' /\ BatchesDisjoint' /\ HeldDistinct'
        BY Zenon, <1>0, <2>1, <3>1 DEF NoRepeats, BatchesDisjoint, HeldDistinct
      <3>3. \A p \in Op : Batched(p)' => Batched(p) /\ p \notin Range(batchQueues[b])
        BY Zenon, <1>0, <3>1 DEF Batched, BatchesDisjoint
      <3>4. \A p \in Op : Flushing(p)' <=> p \in Range(batchQueues[b]) \/ p = o
        BY Zenon, <3>1 DEF Flushing
      <3>5. OnePlace'
        <4>1. OnePlace
          BY Zenon, <1>0
        <4>2. \A p \in Op : /\ Queued(p)' <=> Queued(p)
                            /\ Held(p)' <=> Held(p)
                            /\ Called(p)' <=> Called(p)
                            /\ callbacks'[p] = callbacks[p] /\ (p \in lost' <=> p \in lost)
          BY Zenon, <2>1 DEF Queued, Held, Called
        <4>3. \A p \in Op : p \in Range(batchQueues[b]) => Batched(p)
          BY Zenon DEF Batched
        <4> SUFFICES ASSUME NEW p \in Op
                     PROVE  /\ Queued(p)' => ~(Batched(p)' \/ Flushing(p)' \/ Held(p)' \/ Called(p)' \/ p \in lost')
                            /\ Batched(p)' => ~(Flushing(p)' \/ Held(p)' \/ Called(p)' \/ p \in lost')
                            /\ Flushing(p)' => ~(Held(p)' \/ Called(p)' \/ p \in lost')
                            /\ Held(p)' => ~(Called(p)' \/ p \in lost')
                            /\ Called(p)' => callbacks'[p] = 1 /\ p \notin lost'
          BY Zenon DEF OnePlace
        <4> QED
          BY Zenon, <2>2, <3>3, <3>4, <4>1, <4>2, <4>3 DEF OnePlace
      <3>6. \A p \in Op : Batched(p) \/ p = o <=> Batched(p)' \/ Flushing(p)'
        BY Zenon, <3>1, <3>3, <3>4 DEF Batched
      <3>7. AcceptedIsSomewhere'
        BY Zenon, <1>0, <2>1, <2>2, <2>3, <3>6
        DEF AcceptedIsSomewhere, SubmissionType, Queued, Flushing, Held, Called
      <3> QED
        BY Zenon, <3>2, <3>5, <3>7 DEF Places, NoCopies
    <2>6. CASE flush' = flush /\ batchQueues' = [batchQueues EXCEPT ![b] = batch]
      <3>1. /\ Range(batchQueues'[b]) = Range(batchQueues[b]) \cup {o} /\ IsInjective(batchQueues'[b])
            /\ \A c \in BatchID \ {b} : batchQueues'[c] = batchQueues[c]
        BY Zenon, <1>0, <2>4, <2>6 DEF BatchType
      <3>2. NoRepeats' /\ BatchesDisjoint' /\ HeldDistinct'
        BY <1>0, <2>1, <2>2, <2>6, <3>1 DEF NoRepeats, BatchesDisjoint, HeldDistinct, Batched
      <3>3. \A p \in Op : Batched(p)' <=> Batched(p) \/ p = o
        BY Zenon, <3>1 DEF Batched
      <3>4. OnePlace'
        BY Zenon, <1>0, <2>1, <2>2, <2>6, <3>3 DEF OnePlace, Queued, Flushing, Held, Called
      <3>5. AcceptedIsSomewhere'
        BY Zenon, <1>0, <2>1, <2>2, <2>6, <3>3
        DEF AcceptedIsSomewhere, SubmissionType, Queued, Flushing, Held, Called
      <3> QED
        BY Zenon, <3>2, <3>4, <3>5 DEF Places, NoCopies
    <2> QED
      BY Zenon, <1>3, <2>5, <2>6 DEF AddToBatch, WithoutBatch, batch
  <1>4. ASSUME NEW b \in BatchID, TimerFires(b) PROVE Places'
    <2>1. /\ UNCHANGED <<subm, queue, held, callbacks, lost>>
          /\ flush' = batchQueues[b] /\ batchQueues' = [batchQueues EXCEPT ![b] = <<>>]
      BY Zenon, <1>4 DEF TimerFires, WithoutBatch
    <2>2. flush = <<>>
      BY Zenon, <1>0, <1>4 DEF TimerFires, LockControl
    <2> QED
      BY Zenon, <1>0, <2>1, <2>2, BatchMoves
  <1>5. ASSUME NEW who \in {"close", "wait"}, BeginPending(who) PROVE Places'
    BY Zenon, <1>0, <1>5, PlacesFrame DEF BeginPending
  <1>6. ASSUME NEW b \in BatchID, NextPending(b) PROVE Places'
    <2>1. /\ UNCHANGED <<subm, queue, held, callbacks, lost>>
          /\ flush' = batchQueues[b] /\ batchQueues' = [batchQueues EXCEPT ![b] = <<>>]
      BY Zenon, <1>6 DEF NextPending, WithoutBatch
    <2>2. flush = <<>>
      BY Zenon, <1>0, <1>6 DEF NextPending, LockControl
    <2> QED
      BY Zenon, <1>0, <2>1, <2>2, BatchMoves
  <1>7. ASSUME FlushOne PROVE Places'
    <2>1. UNCHANGED <<subm, batchQueues, held, callbacks>>
      BY Zenon, <1>7 DEF FlushOne
    <2> DEFINE o == Head(flush)
    <2>2. /\ o \in Op /\ Flushing(o) /\ Range(flush) = Range(Tail(flush)) \cup {o}
          /\ IsInjective(Tail(flush)) /\ o \notin Range(Tail(flush))
      BY Zenon, <1>0, <1>7, TailFacts DEF FlushOne, BatchType, NoRepeats, Flushing
    <2> HIDE DEF o
    <2>3. ~Queued(o) /\ ~Batched(o) /\ ~Held(o) /\ ~Called(o) /\ o \notin lost
      BY Zenon, <1>0, <2>2 DEF OnePlace
    <2>4. CASE UNCHANGED <<flush, queue, lost>>
      BY Zenon, <2>1, <2>4, PlacesFrame
    <2>5. CASE flush' = Tail(flush) /\ queue' = Append(queue, o) /\ UNCHANGED lost
      <3>1. Range(queue') = Range(queue) \cup {o} /\ IsInjective(queue')
        BY <1>0, <2>2, <2>3, <2>5, AppendFacts DEF SubmissionType, NoRepeats, Queued
      <3>2. NoRepeats' /\ BatchesDisjoint' /\ HeldDistinct'
        BY Zenon, <1>0, <2>1, <2>2, <2>5, <3>1 DEF NoRepeats, BatchesDisjoint, HeldDistinct
      <3>3. OnePlace'
        BY Zenon, <1>0, <2>1, <2>2, <2>3, <2>5, <3>1 DEF OnePlace, Queued, Batched, Flushing, Held, Called
      <3>4. AcceptedIsSomewhere'
        BY Zenon, <1>0, <2>1, <2>2, <2>3, <2>5, <3>1
        DEF AcceptedIsSomewhere, Queued, Batched, Flushing, Held, Called
      <3> QED
        BY Zenon, <3>2, <3>3, <3>4 DEF Places, NoCopies
    <2>6. CASE flush' = Tail(flush) /\ UNCHANGED queue /\ lost' = lost \cup {o}
      <3>2. NoRepeats' /\ BatchesDisjoint' /\ HeldDistinct'
        BY Zenon, <1>0, <2>1, <2>2, <2>6 DEF NoRepeats, BatchesDisjoint, HeldDistinct
      <3>3. OnePlace'
        BY Zenon, <1>0, <2>1, <2>2, <2>3, <2>6 DEF OnePlace, Queued, Batched, Flushing, Held, Called
      <3>4. AcceptedIsSomewhere'
        BY Zenon, <1>0, <2>1, <2>2, <2>3, <2>6 DEF AcceptedIsSomewhere, Queued, Batched, Flushing, Held, Called
      <3> QED
        BY Zenon, <3>2, <3>3, <3>4 DEF Places, NoCopies
    <2> QED
      BY Zenon, <1>7, <2>4, <2>5, <2>6 DEF FlushOne, o
  <1>8. ASSUME Unlock PROVE Places'
    BY Zenon, <1>0, <1>8, PlacesFrame DEF Unlock
  <1>9. ASSUME NEW w \in Worker, Take(w) PROVE Places'
    <2>1. UNCHANGED <<subm, batchQueues, flush, callbacks, lost>>
      BY Zenon, <1>9 DEF Take
    <2> DEFINE o == Head(queue)
    <2>2. /\ o \in Op /\ Queued(o) /\ Range(queue) = Range(Tail(queue)) \cup {o}
          /\ IsInjective(Tail(queue)) /\ o \notin Range(Tail(queue))
      BY Zenon, <1>0, <1>9, TailFacts DEF Take, SubmissionType, NoRepeats, Queued
    <2>3. queue' = Tail(queue) /\ held' = [held EXCEPT ![w] = o] /\ held[w] = NoOp
      BY Zenon, <1>0, <1>9 DEF Take, HeldControl
    <2> HIDE DEF o
    <2>4. ~Batched(o) /\ ~Flushing(o) /\ ~Held(o) /\ ~Called(o) /\ o \notin lost
      BY Zenon, <1>0, <2>2 DEF OnePlace
    <2>5. NoRepeats' /\ BatchesDisjoint'
      BY Zenon, <1>0, <2>1, <2>2, <2>3 DEF NoRepeats, BatchesDisjoint
    <2>6. held'[w] = o /\ \A v \in Worker \ {w} : held'[v] = held[v]
      BY Zenon, <1>0, <2>3 DEF WorkerType
    <2>7. HeldDistinct'
      BY Zenon, <1>0, <2>4, <2>6 DEF HeldDistinct, Held
    <2>8. \A p \in Op : Held(p)' <=> Held(p) \/ p = o
      BY Zenon, <2>3, <2>6 DEF Held
    <2>9. OnePlace'
      BY Zenon, <1>0, <2>1, <2>2, <2>3, <2>4, <2>8 DEF OnePlace, Queued, Batched, Flushing, Called
    <2>10. AcceptedIsSomewhere'
      BY Zenon, <1>0, <2>1, <2>2, <2>3, <2>8 DEF AcceptedIsSomewhere, Queued, Batched, Flushing, Called
    <2> QED
      BY Zenon, <2>5, <2>7, <2>9, <2>10 DEF Places, NoCopies
  <1>10. ASSUME NEW w \in Worker, Exit(w) PROVE Places'
    BY Zenon, <1>0, <1>10, PlacesFrame DEF Exit
  <1>11. ASSUME NEW w \in Worker, RunCancelled(w) PROVE Places'
    <2>1. UNCHANGED <<subm, queue, batchQueues, flush, lost>> /\ wpc[w] = "run"
      BY Zenon, <1>11 DEF RunCancelled
    <2>2. PICK res : Complete(w, res)
      BY Zenon, <1>11 DEF RunCancelled
    <2> QED
      BY Zenon, <1>0, <2>1, <2>2, CompleteMoves
  <1>12. ASSUME NEW w \in Worker, RunOk(w) PROVE Places'
    <2>1. UNCHANGED <<subm, queue, batchQueues, flush, lost>> /\ wpc[w] = "run"
      BY Zenon, <1>12 DEF RunOk
    <2>2. PICK res : Complete(w, res)
      BY Zenon, <1>12 DEF RunOk
    <2> QED
      BY Zenon, <1>0, <2>1, <2>2, CompleteMoves
  <1>13. ASSUME NEW w \in Worker, RunError(w) PROVE Places'
    <2>1. UNCHANGED <<subm, queue, batchQueues, flush, lost>> /\ wpc[w] = "run"
      BY Zenon, <1>13 DEF RunError
    <2>2. CASE Complete(w, "failed")
      BY Zenon, <1>0, <2>1, <2>2, CompleteMoves
    <2>3. CASE UNCHANGED <<held, callbacks>>
      BY Zenon, <2>1, <2>3, PlacesFrame
    <2> QED
      BY Zenon, <1>13, <2>2, <2>3 DEF RunError
  <1>14. ASSUME NEW w \in Worker, Requeue(w) PROVE Places'
    <2>1. UNCHANGED <<subm, batchQueues, flush, callbacks>> /\ held' = [held EXCEPT ![w] = NoOp]
      BY Zenon, <1>14 DEF Requeue
    <2> DEFINE o == held[w]
    <2>2. o \in Op /\ Held(o)
      BY Zenon, <1>0, <1>14 DEF Requeue, HeldControl, WorkerType, Held
    <2>3. ~Queued(o) /\ ~Batched(o) /\ ~Flushing(o) /\ ~Called(o) /\ o \notin lost
      BY Zenon, <1>0, <2>2 DEF OnePlace
    <2>4. HeldDistinct' /\ \A p \in Op : Held(p)' <=> Held(p) /\ p # o
      BY Zenon, <1>0, <2>1, <2>2 DEF WorkerType, HeldDistinct, Held
    <2>5. CASE queue' = Append(queue, o) /\ UNCHANGED lost
      <3>1. Range(queue') = Range(queue) \cup {o} /\ IsInjective(queue')
        BY <1>0, <2>2, <2>3, <2>5, AppendFacts DEF SubmissionType, NoRepeats, Queued
      <3>2. NoRepeats' /\ BatchesDisjoint'
        BY Zenon, <1>0, <2>1, <3>1 DEF NoRepeats, BatchesDisjoint
      <3>3. OnePlace'
        BY Zenon, <1>0, <2>1, <2>3, <2>4, <2>5, <3>1 DEF OnePlace, Queued, Batched, Flushing, Called
      <3>4. AcceptedIsSomewhere'
        BY Zenon, <1>0, <2>1, <2>2, <2>4, <2>5, <3>1 DEF AcceptedIsSomewhere, Queued, Batched, Flushing, Called
      <3> QED
        BY Zenon, <2>4, <3>2, <3>3, <3>4 DEF Places, NoCopies
    <2>6. CASE UNCHANGED queue /\ lost' = lost \cup {o}
      <3>2. NoRepeats' /\ BatchesDisjoint'
        BY Zenon, <1>0, <2>1, <2>6 DEF NoRepeats, BatchesDisjoint
      <3>3. OnePlace'
        BY Zenon, <1>0, <2>1, <2>3, <2>4, <2>6 DEF OnePlace, Queued, Batched, Flushing, Called
      <3>4. AcceptedIsSomewhere'
        BY Zenon, <1>0, <2>1, <2>2, <2>4, <2>6 DEF AcceptedIsSomewhere, Queued, Batched, Flushing, Called
      <3> QED
        BY Zenon, <2>4, <3>2, <3>3, <3>4 DEF Places, NoCopies
    <2> QED
      BY Zenon, <1>14, <2>5, <2>6 DEF Requeue
  <1>15. ASSUME CloseMark PROVE Places'
    BY Zenon, <1>0, <1>15, PlacesFrame DEF CloseMark
  <1>16. ASSUME CloseStop PROVE Places'
    BY Zenon, <1>0, <1>16, PlacesFrame DEF CloseStop
  <1>17. ASSUME CloseQueue PROVE Places'
    BY Zenon, <1>0, <1>17, PlacesFrame DEF CloseQueue
  <1>18. ASSUME WaitCall PROVE Places'
    BY Zenon, <1>0, <1>18, PlacesFrame DEF WaitCall
  <1>19. ASSUME PollQueue PROVE Places'
    BY Zenon, <1>0, <1>19, PlacesFrame DEF PollQueue
  <1>20. ASSUME PollBatches PROVE Places'
    BY Zenon, <1>0, <1>20, PlacesFrame DEF PollBatches
  <1>21. ASSUME WaitTimeout PROVE Places'
    BY Zenon, <1>0, <1>21, PlacesFrame DEF WaitTimeout
  <1>22. ASSUME UNCHANGED vars PROVE Places'
    BY Zenon, <1>0, <1>22, PlacesFrame DEF vars
  <1> QED
    BY Zenon, <1>1, <1>2, <1>3, <1>4, <1>5, <1>6, <1>7, <1>8, <1>9, <1>10, <1>11, <1>12, <1>13, <1>14, <1>15, <1>16, <1>17, <1>18, <1>19, <1>20, <1>21, <1>22
    DEF Next, Submit, WorkerStep, FlushStep, Close, Wait

-----------------------------------------------------------------------------
(* Retries and answers.                                                     *)

Answers ==
  \A o \in Op :
    /\ ~Called(o) => attempts[o] = retryCount[o] /\ result[o] = "none"
    /\ attempts[o] <= MaxRetries + 1
    /\ result[o] = "failed" => attempts[o] = MaxRetries + 1

\* Every action keeps Answers.
LEMMA AnswersStep ==
  ASSUME TypeOK, Control, Places, Answers, [Next]_vars
  PROVE  Answers'
  <1> USE AsyncAssumption
  <1> USE DEF opVars, batchVars, workVars, waitVars
  <1>0. /\ HeldControl /\ WorkerType /\ OperationType /\ OnePlace
    BY Zenon DEF TypeOK, Control, Places, NoCopies
  <1>1. ASSUME NEW o \in Op, CheckOpen(o) PROVE Answers'
    BY Zenon, <1>0, <1>1 DEF Answers, Called, CheckOpen
  <1>2. ASSUME NEW o \in Op, SubmitDirect(o) PROVE Answers'
    BY Zenon, <1>0, <1>2 DEF Answers, Called, SubmitDirect
  <1>3. ASSUME NEW o \in Op, NEW b \in BatchID, AddToBatch(o, b) PROVE Answers'
    BY Zenon, <1>0, <1>3 DEF Answers, Called, AddToBatch
  <1>4. ASSUME NEW b \in BatchID, TimerFires(b) PROVE Answers'
    BY Zenon, <1>0, <1>4 DEF Answers, Called, TimerFires
  <1>5. ASSUME NEW who \in {"close", "wait"}, BeginPending(who) PROVE Answers'
    BY Zenon, <1>0, <1>5 DEF Answers, Called, BeginPending
  <1>6. ASSUME NEW b \in BatchID, NextPending(b) PROVE Answers'
    BY Zenon, <1>0, <1>6 DEF Answers, Called, NextPending
  <1>7. ASSUME FlushOne PROVE Answers'
    BY Zenon, <1>0, <1>7 DEF Answers, Called, FlushOne
  <1>8. ASSUME Unlock PROVE Answers'
    BY Zenon, <1>0, <1>8 DEF Answers, Called, Unlock
  <1>9. ASSUME NEW w \in Worker, Take(w) PROVE Answers'
    BY Zenon, <1>0, <1>9 DEF Answers, Called, Take
  <1>10. ASSUME NEW w \in Worker, Exit(w) PROVE Answers'
    BY Zenon, <1>0, <1>10 DEF Answers, Called, Exit
  <1>11. ASSUME NEW w \in Worker, RunCancelled(w) PROVE Answers'
    <2> DEFINE o == held[w]
    <2>1. o \in Op /\ ~Called(o) /\ retryCount[o] \in 0..MaxRetries
      BY Zenon, <1>0, <1>11 DEF RunCancelled, HeldControl, WorkerType, OperationType, OnePlace, Held
    <2>2. callbacks'[o] > 0 /\ \A p \in Op \ {o} : callbacks'[p] = callbacks[p]
      BY <1>0, <1>11, <2>1 DEF RunCancelled, Complete, OperationType, Called
    <2> QED
      BY Zenon, <1>0, <1>11, <2>1, <2>2 DEF Answers, Called, RunCancelled, Complete, OperationType
  <1>12. ASSUME NEW w \in Worker, RunOk(w) PROVE Answers'
    <2> DEFINE o == held[w]
    <2>1. o \in Op /\ ~Called(o) /\ retryCount[o] \in 0..MaxRetries
      BY Zenon, <1>0, <1>12 DEF RunOk, HeldControl, WorkerType, OperationType, OnePlace, Held
    <2>2. callbacks'[o] > 0 /\ \A p \in Op \ {o} : callbacks'[p] = callbacks[p]
      BY <1>0, <1>12, <2>1 DEF RunOk, Complete, OperationType, Called
    <2> QED
      BY <1>0, <1>12, <2>1, <2>2 DEF Answers, Called, RunOk, Complete, OperationType
  <1>13. ASSUME NEW w \in Worker, RunError(w) PROVE Answers'
    <2> DEFINE o == held[w]
    <2>1. o \in Op /\ ~Called(o) /\ retryCount[o] \in 0..MaxRetries
      BY Zenon, <1>0, <1>13 DEF RunError, HeldControl, WorkerType, OperationType, OnePlace, Held
    <2>2. attempts' = [attempts EXCEPT ![o] = @ + 1]
      BY Zenon, <1>13 DEF RunError
    <2>3. CASE CanRetry(o)
      BY <1>0, <1>13, <2>1, <2>2, <2>3 DEF Answers, Called, RunError, CanRetry, OperationType
    <2>4. CASE ~CanRetry(o)
      <3>1. retryCount[o] = MaxRetries /\ Complete(w, "failed") /\ UNCHANGED retryCount
        BY <1>13, <2>1, <2>4 DEF RunError, CanRetry
      <3>2. callbacks'[o] > 0 /\ \A p \in Op \ {o} : callbacks'[p] = callbacks[p]
        BY <1>0, <2>1, <3>1 DEF Complete, OperationType, Called
      <3> QED
        BY <1>0, <2>1, <2>2, <3>1, <3>2 DEF Answers, Called, Complete, OperationType
    <2> QED
      BY Zenon, <2>3, <2>4
  <1>14. ASSUME NEW w \in Worker, Requeue(w) PROVE Answers'
    BY Zenon, <1>0, <1>14 DEF Answers, Called, Requeue
  <1>15. ASSUME CloseMark PROVE Answers'
    BY Zenon, <1>0, <1>15 DEF Answers, Called, CloseMark
  <1>16. ASSUME CloseStop PROVE Answers'
    BY Zenon, <1>0, <1>16 DEF Answers, Called, CloseStop
  <1>17. ASSUME CloseQueue PROVE Answers'
    BY Zenon, <1>0, <1>17 DEF Answers, Called, CloseQueue
  <1>18. ASSUME WaitCall PROVE Answers'
    BY Zenon, <1>0, <1>18 DEF Answers, Called, WaitCall
  <1>19. ASSUME PollQueue PROVE Answers'
    BY Zenon, <1>0, <1>19 DEF Answers, Called, PollQueue
  <1>20. ASSUME PollBatches PROVE Answers'
    BY Zenon, <1>0, <1>20 DEF Answers, Called, PollBatches
  <1>21. ASSUME WaitTimeout PROVE Answers'
    BY Zenon, <1>0, <1>21 DEF Answers, Called, WaitTimeout
  <1>22. ASSUME UNCHANGED vars PROVE Answers'
    BY Zenon, <1>0, <1>22 DEF Answers, Called, vars
  <1> QED
    BY Zenon, <1>1, <1>2, <1>3, <1>4, <1>5, <1>6, <1>7, <1>8, <1>9, <1>10, <1>11, <1>12, <1>13, <1>14, <1>15, <1>16, <1>17, <1>18, <1>19, <1>20, <1>21, <1>22
    DEF Next, Submit, WorkerStep, FlushStep, Close, Wait

-----------------------------------------------------------------------------
(* Batches and their timers.                                                *)

\* Every action keeps BatchHasFlusher.
LEMMA FlusherStep ==
  ASSUME TypeOK, Control, BatchHasFlusher, [Next]_vars
  PROVE  BatchHasFlusher'
  <1> USE AsyncAssumption
  <1> USE DEF opVars, batchVars, workVars, waitVars
  <1>0. BatchType /\ TimerControl
    BY Zenon DEF TypeOK, Control
  <1>1. ASSUME NEW o \in Op, CheckOpen(o) PROVE BatchHasFlusher'
    BY Zenon, <1>0, <1>1 DEF BatchHasFlusher, CheckOpen
  <1>2. ASSUME NEW o \in Op, SubmitDirect(o) PROVE BatchHasFlusher'
    BY Zenon, <1>0, <1>2 DEF BatchHasFlusher, SubmitDirect
  <1>3. ASSUME NEW o \in Op, NEW b \in BatchID, AddToBatch(o, b) PROVE BatchHasFlusher'
    <2>1. CASE BatchFull(Append(batchQueues[b], o))
      BY Zenon, <1>0, <1>3, <2>1 DEF BatchHasFlusher, AddToBatch, WithoutBatch, BatchType
    <2>2. CASE ~BatchFull(Append(batchQueues[b], o))
      <3>1. /\ batchQueues' = [batchQueues EXCEPT ![b] = Append(batchQueues[b], o)]
            /\ batchTimers'[b] = TRUE /\ batchMu = "free"
            /\ pendingTimers' = [pendingTimers EXCEPT ![b] = IF batchTimers[b] THEN @ ELSE @ + 1]
        BY Zenon, <1>0, <1>3, <2>2 DEF AddToBatch, BatchType
      <3>2. pendingTimers'[b] > 0
        BY <1>0, <3>1 DEF BatchType, TimerControl
      <3> QED
        BY Zenon, <1>0, <3>1, <3>2 DEF BatchHasFlusher, BatchType
    <2> QED
      BY Zenon, <2>1, <2>2
  <1>4. ASSUME NEW b \in BatchID, TimerFires(b) PROVE BatchHasFlusher'
    BY Zenon, <1>0, <1>4 DEF BatchHasFlusher, TimerFires, WithoutBatch, BatchType
  <1>5. ASSUME NEW who \in {"close", "wait"}, BeginPending(who) PROVE BatchHasFlusher'
    BY Zenon, <1>0, <1>5 DEF BatchHasFlusher, BeginPending
  <1>6. ASSUME NEW b \in BatchID, NextPending(b) PROVE BatchHasFlusher'
    BY Zenon, <1>0, <1>6 DEF BatchHasFlusher, NextPending, WithoutBatch, BatchType
  <1>7. ASSUME FlushOne PROVE BatchHasFlusher'
    BY Zenon, <1>0, <1>7 DEF BatchHasFlusher, FlushOne
  <1>8. ASSUME Unlock PROVE BatchHasFlusher'
    BY Zenon, <1>0, <1>8 DEF BatchHasFlusher, Unlock
  <1>9. ASSUME NEW w \in Worker, Take(w) PROVE BatchHasFlusher'
    BY Zenon, <1>0, <1>9 DEF BatchHasFlusher, Take
  <1>10. ASSUME NEW w \in Worker, Exit(w) PROVE BatchHasFlusher'
    BY Zenon, <1>0, <1>10 DEF BatchHasFlusher, Exit
  <1>11. ASSUME NEW w \in Worker, RunCancelled(w) PROVE BatchHasFlusher'
    BY Zenon, <1>0, <1>11 DEF BatchHasFlusher, RunCancelled
  <1>12. ASSUME NEW w \in Worker, RunOk(w) PROVE BatchHasFlusher'
    BY Zenon, <1>0, <1>12 DEF BatchHasFlusher, RunOk
  <1>13. ASSUME NEW w \in Worker, RunError(w) PROVE BatchHasFlusher'
    BY Zenon, <1>0, <1>13 DEF BatchHasFlusher, RunError
  <1>14. ASSUME NEW w \in Worker, Requeue(w) PROVE BatchHasFlusher'
    BY Zenon, <1>0, <1>14 DEF BatchHasFlusher, Requeue
  <1>15. ASSUME CloseMark PROVE BatchHasFlusher'
    BY Zenon, <1>0, <1>15 DEF BatchHasFlusher, CloseMark
  <1>16. ASSUME CloseStop PROVE BatchHasFlusher'
    BY Zenon, <1>0, <1>16 DEF BatchHasFlusher, CloseStop
  <1>17. ASSUME CloseQueue PROVE BatchHasFlusher'
    BY Zenon, <1>0, <1>17 DEF BatchHasFlusher, CloseQueue
  <1>18. ASSUME WaitCall PROVE BatchHasFlusher'
    BY Zenon, <1>0, <1>18 DEF BatchHasFlusher, WaitCall
  <1>19. ASSUME PollQueue PROVE BatchHasFlusher'
    BY Zenon, <1>0, <1>19 DEF BatchHasFlusher, PollQueue
  <1>20. ASSUME PollBatches PROVE BatchHasFlusher'
    BY Zenon, <1>0, <1>20 DEF BatchHasFlusher, PollBatches
  <1>21. ASSUME WaitTimeout PROVE BatchHasFlusher'
    BY Zenon, <1>0, <1>21 DEF BatchHasFlusher, WaitTimeout
  <1>22. ASSUME UNCHANGED vars PROVE BatchHasFlusher'
    BY Zenon, <1>0, <1>22 DEF BatchHasFlusher, vars
  <1> QED
    BY Zenon, <1>1, <1>2, <1>3, <1>4, <1>5, <1>6, <1>7, <1>8, <1>9, <1>10, <1>11, <1>12, <1>13, <1>14, <1>15, <1>16, <1>17, <1>18, <1>19, <1>20, <1>21, <1>22
    DEF Next, Submit, WorkerStep, FlushStep, Close, Wait

-----------------------------------------------------------------------------
(* Close.                                                                   *)

Panics == panicked # "retry" /\ (panicked = "flush" => batchMu # "close")

\* Every action keeps Panics: workers have left before the queue is closed,
\* and Close's own flush precedes it.
LEMMA PanicsStep ==
  ASSUME TypeOK, Control, Panics, [Next]_vars
  PROVE  Panics'
  <1> USE AsyncAssumption
  <1> USE DEF opVars, batchVars, workVars, waitVars
  <1>0. CASE UNCHANGED vars
    BY Zenon, <1>0 DEF Panics, vars
  <1>1. ASSUME Next PROVE panicked = "no"
    BY Zenon, <1>1 DEF Next
  <1>2. CASE FlushOne
    <2>1. queueClosed => batchMu # "close"
      BY Zenon DEF Control, LockControl, queueClosed
    <2> QED
      BY Zenon, <1>2, <2>1 DEF Panics, FlushOne
  <1>3. ASSUME NEW w \in Worker, Requeue(w) PROVE Panics'
    <2>1. ~queueClosed
      BY Zenon, <1>3 DEF Requeue, Control, CloseControl, WorkersDone
    <2> QED
      BY Zenon, <1>3, <2>1 DEF Panics, Requeue
  <1>4. ASSUME NEW o \in Op, Submit(o) PROVE panicked' \in {panicked, "submit"}
    BY Zenon, <1>4 DEF Submit, CheckOpen, SubmitDirect, AddToBatch
  <1>5. ASSUME NEW w \in Worker, WorkerStep(w), ~Requeue(w) PROVE panicked' = panicked
    BY Zenon, <1>5 DEF WorkerStep, Take, Exit, RunCancelled, RunOk, RunError
  <1>6. ASSUME FlushStep, ~FlushOne PROVE panicked' = panicked
    BY Zenon, <1>6 DEF FlushStep, Unlock, NextPending
  <1>7. ASSUME Close \/ Wait \/ \E b \in BatchID : TimerFires(b) PROVE panicked' = panicked
    BY Zenon, <1>7 DEF Close, Wait, TimerFires, CloseMark, BeginPending, CloseStop, CloseQueue,
                WaitCall, PollQueue, PollBatches, WaitTimeout
  <1> QED
    BY Zenon, <1>0, <1>1, <1>2, <1>3, <1>4, <1>5, <1>6, <1>7 DEF Panics, Next

-----------------------------------------------------------------------------
(* WaitForCompletion.                                                       *)

WaitInv ==
  /\ waitSet \subseteq Accepted
  /\ waiter \in {"polling", "sawempty", "done"} => \A o \in waitSet : ~Batched(o) /\ ~Flushing(o)
  /\ waiter \in {"sawempty", "done"} => \A o \in waitSet : Queued(o) => retryCount[o] > 0
  /\ \A w \in Worker : wpc[w] = "sleep" => retryCount[held[w]] > 0

\* An action that moves no operation keeps WaitInv, unless WaitForCompletion
\* comes to a conclusion that does not follow.
LEMMA WaitFrame ==
  ASSUME WaitInv, UNCHANGED <<subm, queue, batchQueues, flush, retryCount, wpc, held, waitSet>>,
         waiter' \in {"polling", "sawempty", "done"} =>
           waiter \in {"polling", "sawempty", "done"} \/ \A o \in waitSet : ~Batched(o) /\ ~Flushing(o),
         waiter' \in {"sawempty", "done"} => waiter \in {"sawempty", "done"}
  PROVE  WaitInv'
  <1>1. \A o : (Batched(o)' <=> Batched(o)) /\ (Flushing(o)' <=> Flushing(o)) /\ (Queued(o)' <=> Queued(o))
    BY Zenon DEF Batched, Flushing, Queued
  <1>2. Accepted' = Accepted
    BY Zenon DEF Accepted
  <1> QED
    BY Zenon, <1>1, <1>2 DEF WaitInv

\* Every action keeps WaitInv: an accepted operation never returns to a batch.
LEMMA WaitStep ==
  ASSUME TypeOK, Control, WaitInv, [Next]_vars
  PROVE  WaitInv'
  <1> USE AsyncAssumption
  <1> USE DEF opVars, batchVars, workVars, waitVars
  <1>0. /\ SubmissionType /\ BatchType /\ WorkerType /\ OperationType /\ CallerType
        /\ HeldControl /\ LockControl /\ WaitInv
    BY Zenon DEF TypeOK, Control
  <1>1. ASSUME NEW o \in Op, CheckOpen(o) PROVE WaitInv'
    BY Zenon, <1>0, <1>1 DEF WaitInv, Accepted, Batched, Flushing, Queued, SubmissionType, CheckOpen
  <1>2. ASSUME NEW o \in Op, SubmitDirect(o) PROVE WaitInv'
    <2>1. o \notin waitSet
      BY Zenon, <1>0, <1>2 DEF WaitInv, Accepted, SubmitDirect
    <2>2. Range(Append(queue, o)) = Range(queue) \cup {o}
      BY <1>0, AppendFacts DEF SubmissionType
    <2> QED
      BY Zenon, <1>0, <1>2, <2>1, <2>2
      DEF WaitInv, Accepted, Batched, Flushing, Queued, SubmissionType, SubmitDirect
  <1>3. ASSUME NEW o \in Op, NEW b \in BatchID, AddToBatch(o, b) PROVE WaitInv'
    <2>1. o \notin waitSet /\ \A p \in waitSet : p \in Op /\ p # o
      BY Zenon, <1>0, <1>3 DEF WaitInv, Accepted, AddToBatch
    <2>2. Range(Append(batchQueues[b], o)) = Range(batchQueues[b]) \cup {o}
      BY <1>0, AppendFacts DEF BatchType
    <2>3. \A p \in waitSet : Batched(p)' \/ Flushing(p)' => Batched(p) \/ Flushing(p)
      <3>1. CASE BatchFull(Append(batchQueues[b], o))
        BY Zenon, <1>0, <1>3, <2>1, <2>2, <3>1, EmptyFacts DEF AddToBatch, WithoutBatch, BatchType, Batched, Flushing
      <3>2. CASE ~BatchFull(Append(batchQueues[b], o))
        BY Zenon, <1>0, <1>3, <2>1, <2>2, <3>2 DEF AddToBatch, BatchType, Batched, Flushing
      <3> QED
        BY Zenon, <3>1, <3>2
    <2>4. UNCHANGED <<queue, retryCount, wpc, held, waiter, waitSet>> /\ subm' = [subm EXCEPT ![o] = "accepted"]
      BY Zenon, <1>3 DEF AddToBatch
    <2> QED
      BY Zenon, <1>0, <2>3, <2>4 DEF WaitInv, Accepted, Queued, SubmissionType
  <1>4. ASSUME NEW b \in BatchID, TimerFires(b) PROVE WaitInv'
    <2>1. \A p : Batched(p)' \/ Flushing(p)' => Batched(p) \/ Flushing(p)
      BY Zenon, <1>0, <1>4, EmptyFacts DEF TimerFires, WithoutBatch, BatchType, Batched, Flushing
    <2> QED
      BY Zenon, <1>0, <1>4, <2>1 DEF WaitInv, Accepted, Queued, TimerFires
  <1>5. ASSUME NEW who \in {"close", "wait"}, BeginPending(who) PROVE WaitInv'
    BY Zenon, <1>5, WaitFrame DEF BeginPending
  <1>6. ASSUME NEW b \in BatchID, NextPending(b) PROVE WaitInv'
    <2>1. \A p : Batched(p)' \/ Flushing(p)' => Batched(p) \/ Flushing(p)
      BY Zenon, <1>0, <1>6, EmptyFacts DEF NextPending, WithoutBatch, BatchType, Batched, Flushing
    <2> QED
      BY Zenon, <1>0, <1>6, <2>1 DEF WaitInv, Accepted, Queued, NextPending
  <1>7. ASSUME FlushOne PROVE WaitInv'
    <2>1. /\ Head(flush) \in Op /\ Head(flush) \in Range(flush)
          /\ Range(flush) = Range(Tail(flush)) \cup {Head(flush)}
      BY Zenon, <1>0, <1>7, TailFacts DEF FlushOne, BatchType
    <2>2. Range(Append(queue, Head(flush))) = Range(queue) \cup {Head(flush)}
      BY <1>0, <2>1, AppendFacts DEF SubmissionType
    <2>3. waiter \in {"sawempty", "done"} => Head(flush) \notin waitSet
      BY Zenon, <1>0, <2>1 DEF WaitInv, Flushing
    <2> QED
      BY Zenon, <1>0, <1>7, <2>1, <2>2, <2>3 DEF WaitInv, Accepted, Batched, Flushing, Queued, FlushOne
  <1>8. ASSUME Unlock PROVE WaitInv'
    <2>1. CASE batchMu = "wait"
      <3>1. \A p : ~Batched(p) /\ ~Flushing(p)
        <4>1. flush = <<>> /\ \A b \in BatchID : batchQueues[b] = <<>>
          BY Zenon, <1>8, <2>1 DEF Unlock
        <4> QED
          BY Zenon, <4>1, EmptyFacts DEF Batched, Flushing
      <3> QED
        BY Zenon, <1>8, <2>1, <3>1, WaitFrame DEF Unlock
    <2>2. CASE batchMu # "wait"
      BY Zenon, <1>8, <2>2, WaitFrame DEF Unlock
    <2> QED
      BY Zenon, <2>1, <2>2
  <1>9. ASSUME NEW w \in Worker, Take(w) PROVE WaitInv'
    <2>1. Range(queue) = Range(Tail(queue)) \cup {Head(queue)}
      BY Zenon, <1>0, <1>9, TailFacts DEF Take, SubmissionType
    <2> QED
      BY Zenon, <1>0, <1>9, <2>1 DEF WaitInv, Accepted, Batched, Flushing, Queued, WorkerType, Take
  <1>10. ASSUME NEW w \in Worker, Exit(w) PROVE WaitInv'
    BY Zenon, <1>0, <1>10 DEF WaitInv, Accepted, Batched, Flushing, Queued, WorkerType, Exit
  <1>11. ASSUME NEW w \in Worker, RunCancelled(w) PROVE WaitInv'
    BY Zenon, <1>0, <1>11 DEF WaitInv, Accepted, Batched, Flushing, Queued, WorkerType, RunCancelled, Complete
  <1>12. ASSUME NEW w \in Worker, RunOk(w) PROVE WaitInv'
    BY Zenon, <1>0, <1>12 DEF WaitInv, Accepted, Batched, Flushing, Queued, WorkerType, RunOk, Complete
  <1>13. ASSUME NEW w \in Worker, RunError(w) PROVE WaitInv'
    <2>1. held[w] \in Op
      BY Zenon, <1>0, <1>13 DEF RunError, HeldControl, WorkerType
    <2>2. \A p \in Op : retryCount[p] > 0 => retryCount'[p] > 0
      BY <1>0, <1>13, <2>1 DEF RunError, OperationType
    <2>3. \A v \in Worker : wpc'[v] = "sleep" => held'[v] \in Op /\ retryCount'[held'[v]] > 0
      <3>1. \A v \in Worker : wpc[v] = "sleep" => held[v] \in Op
        BY Zenon, <1>0 DEF HeldControl, WorkerType
      <3>2. CASE CanRetry(held[w])
        BY <1>0, <1>13, <2>1, <2>2, <3>1, <3>2 DEF RunError, WorkerType, OperationType, WaitInv
      <3>3. CASE ~CanRetry(held[w])
        BY Zenon, <1>0, <1>13, <2>1, <2>2, <3>1, <3>3 DEF RunError, Complete, WorkerType, WaitInv
      <3> QED
        BY Zenon, <3>2, <3>3
    <2>4. UNCHANGED <<subm, queue, batchQueues, flush, waiter, waitSet>>
      BY Zenon, <1>13 DEF RunError
    <2> QED
      BY Zenon, <1>0, <2>2, <2>3, <2>4 DEF WaitInv, Accepted, Batched, Flushing, Queued
  <1>14. ASSUME NEW w \in Worker, Requeue(w) PROVE WaitInv'
    <2>1. held[w] \in Op /\ retryCount[held[w]] > 0
      BY Zenon, <1>0, <1>14 DEF Requeue, HeldControl, WorkerType, WaitInv
    <2>2. Range(Append(queue, held[w])) = Range(queue) \cup {held[w]}
      BY <1>0, <2>1, AppendFacts DEF SubmissionType
    <2> QED
      BY Zenon, <1>0, <1>14, <2>1, <2>2 DEF WaitInv, Accepted, Batched, Flushing, Queued, WorkerType, Requeue
  <1>15. ASSUME CloseMark PROVE WaitInv'
    BY Zenon, <1>15, WaitFrame DEF CloseMark
  <1>16. ASSUME CloseStop PROVE WaitInv'
    BY Zenon, <1>16, WaitFrame DEF CloseStop
  <1>17. ASSUME CloseQueue PROVE WaitInv'
    BY Zenon, <1>17, WaitFrame DEF CloseQueue
  <1>18. ASSUME WaitCall PROVE WaitInv'
    BY Zenon, <1>0, <1>18 DEF WaitInv, Accepted, WaitCall
  <1>19. ASSUME PollQueue PROVE WaitInv'
    <2>1. \A p : ~Queued(p)
      BY Zenon, <1>19, EmptyFacts DEF PollQueue, QueueSeenEmpty, Queued
    <2> QED
      BY Zenon, <1>0, <1>19, <2>1 DEF WaitInv, Accepted, Batched, Flushing, Queued, PollQueue
  <1>20. ASSUME PollBatches PROVE WaitInv'
    BY Zenon, <1>20, WaitFrame DEF PollBatches
  <1>21. ASSUME WaitTimeout PROVE WaitInv'
    BY Zenon, <1>21, WaitFrame DEF WaitTimeout
  <1>22. ASSUME UNCHANGED vars PROVE WaitInv'
    BY Zenon, <1>22, WaitFrame DEF vars
  <1> QED
    BY Zenon, <1>1, <1>2, <1>3, <1>4, <1>5, <1>6, <1>7, <1>8, <1>9, <1>10, <1>11, <1>12, <1>13, <1>14, <1>15, <1>16, <1>17, <1>18, <1>19, <1>20, <1>21, <1>22
    DEF Next, Submit, WorkerStep, FlushStep, Close, Wait

-----------------------------------------------------------------------------
(* The theorems.                                                            *)

IInv == TypeOK /\ Control /\ Places /\ Answers /\ BatchHasFlusher /\ Panics /\ WaitInv

\* The invariant holds when NewAsyncDB returns.
LEMMA InitInv == Init => IInv
  <1> SUFFICES ASSUME Init PROVE IInv
    BY Zenon
  <1> USE AsyncAssumption
  <1>1. TypeOK
    BY DEF Init, TypeOK, SubmissionType, BatchType, WorkerType, OperationType, CallerType
  <1>2. Control
    BY Zenon DEF Init, Control, HeldControl, TimerControl, LockControl, CloseControl, queueClosed
  <1>3. \A o \in Op : ~Queued(o) /\ ~Batched(o) /\ ~Flushing(o) /\ ~Held(o) /\ ~Called(o) /\ o \notin lost
    BY EmptyFacts DEF Init, Queued, Batched, Flushing, Held, Called
  <1>4. NoRepeats /\ BatchesDisjoint /\ HeldDistinct
    BY Zenon, EmptyFacts DEF Init, NoRepeats, BatchesDisjoint, HeldDistinct
  <1>5. Places
    BY Zenon, <1>3, <1>4 DEF Init, Places, NoCopies, OnePlace, AcceptedIsSomewhere
  <1>6. Answers
    BY DEF Init, Answers
  <1>7. BatchHasFlusher /\ Panics
    BY Zenon DEF Init, BatchHasFlusher, Panics
  <1>8. WaitInv
    BY Zenon DEF Init, WaitInv
  <1> QED
    BY Zenon, <1>1, <1>2, <1>5, <1>6, <1>7, <1>8 DEF IInv

\* IInv is an inductive invariant of the asynchronous database layer.
THEOREM Invariance == Spec => []IInv
  <1>1. IInv /\ [Next]_vars => IInv'
    BY Zenon, TypeStep, ControlStep, PlacesStep, AnswersStep, FlusherStep, PanicsStep, WaitStep DEF IInv
  <1> QED
    BY InitInv, <1>1, PTL DEF Spec

\* The queue stays within its capacity and every variable in its type.
THEOREM TypeCorrect == Spec => []TypeOK
  <1>1. IInv => TypeOK
    BY Zenon DEF IInv
  <1> QED
    BY <1>1, Invariance, PTL

\* No operation is in two places or called back twice (processBatch, worker,
\* processOperation), whatever the queue size, batch size and retry limit.
THEOREM NeverCopied == Spec => []NoCopies
  <1>1. IInv => NoCopies
    BY Zenon DEF IInv, Places
  <1> QED
    BY <1>1, Invariance, PTL

\* An accepted operation never disappears without being counted as dropped.
THEOREM NeverVanishes == Spec => []AcceptedIsSomewhere
  <1>1. IInv => AcceptedIsSomewhere
    BY Zenon DEF IInv, Places
  <1> QED
    BY <1>1, Invariance, PTL

\* The callback hears of a failure only after MaxRetries + 1 attempts.
THEOREM FailsOnlyExhausted == Spec => []FailureMeansExhausted
  <1>1. IInv => FailureMeansExhausted
    BY Zenon DEF IInv, Answers, FailureMeansExhausted
  <1> QED
    BY <1>1, Invariance, PTL

\* A batch is never stranded without a timer or a flush in progress.
THEOREM NeverStranded == Spec => []BatchHasFlusher
  <1>1. IInv => BatchHasFlusher
    BY Zenon DEF IInv
  <1> QED
    BY <1>1, Invariance, PTL

\* No worker and no flush of Close itself sends on the closed queue.
THEOREM OrderlyClose == Spec => []CloseIsOrderly
  <1>1. IInv => CloseIsOrderly
    <2> SUFFICES ASSUME IInv PROVE CloseIsOrderly
      BY Zenon
    <2>1. queueClosed => \A w \in Worker : held[w] = NoOp
      BY Zenon DEF IInv, Control, HeldControl, CloseControl, WorkersDone
    <2> QED
      BY Zenon, <2>1 DEF IInv, Panics, CloseIsOrderly
  <1> QED
    BY <1>1, Invariance, PTL

\* WaitForCompletion leaves no earlier operation in a batch or a flush, and
\* in the queue only retries.
THEOREM WaitingDrains == Spec => []WaitDrains
  <1>1. IInv => WaitDrains
    BY Zenon DEF IInv, WaitInv, WaitDrains
  <1> QED
    BY <1>1, Invariance, PTL

-----------------------------------------------------------------------------
(* Refinement of AsyncService.                                              *)

\* The abstract phases after one operation changed its phase.
LEMMA PhaseMoves ==
  ASSUME NEW o \in Op, \A p \in Op \ {o} : PhaseOf(p)' = PhaseOf(p)
  PROVE  [p \in Op |-> PhaseOf(p)]' = [[p \in Op |-> PhaseOf(p)] EXCEPT ![o] = PhaseOf(o)']
  BY Zenon

\* Every step of the layer is a step of AsyncService on one operation, or
\* leaves what callers see unchanged.
LEMMA ServiceStep ==
  ASSUME IInv, [Next]_vars
  PROVE  [Service!Next]_(Service!vars)
  <1> USE AsyncAssumption
  <1> USE DEF opVars, batchVars, workVars, waitVars
  <1>0. /\ SubmissionType /\ BatchType /\ WorkerType /\ OperationType /\ HeldControl
        /\ OnePlace /\ AcceptedIsSomewhere /\ Answers
    BY Zenon DEF IInv, TypeOK, Control, Places, NoCopies
  <1> DEFINE G == [Service!Next]_(Service!vars)
  <1>a. ASSUME UNCHANGED <<subm, callbacks, lost, attempts, result>> PROVE G
    BY Zenon, <1>a DEF Service!vars, PhaseOf, Called
  <1>b. ASSUME NEW o \in Op, subm[o] \in {"new", "checked"},
               UNCHANGED <<callbacks, lost, attempts, result>>,
               NEW to \in {"checked", "accepted", "rejected"}, subm' = [subm EXCEPT ![o] = to]
        PROVE  G
    <2>1. ~Called(o) /\ o \notin lost /\ PhaseOf(o) = "idle"
      BY Zenon, <1>0, <1>b DEF AcceptedIsSomewhere, PhaseOf
    <2>2. subm'[o] = to /\ \A p \in Op \ {o} : subm'[p] = subm[p]
      BY Zenon, <1>0, <1>b DEF SubmissionType
    <2>3. \A p \in Op \ {o} : PhaseOf(p)' = PhaseOf(p)
      BY Zenon, <1>b, <2>2 DEF PhaseOf, Called
    <2>4. CASE to = "checked"
      <3>1. PhaseOf(o)' = PhaseOf(o)
        BY Zenon, <2>1, <2>2, <2>4 DEF PhaseOf
      <3> QED
        BY Zenon, <1>b, <2>3, <3>1 DEF Service!vars
    <2>5. CASE to = "accepted"
      <3>1. PhaseOf(o)' = "pending"
        BY Zenon, <1>b, <2>1, <2>2, <2>5 DEF PhaseOf, Called
      <3>2. Service!Accept(o)
        BY Zenon, <1>b, <2>1, <2>3, <3>1, PhaseMoves DEF Service!Accept, Service!Move
      <3> QED
        BY Zenon, <3>2 DEF Service!Next
    <2>6. CASE to = "rejected"
      <3>1. PhaseOf(o)' = "refused"
        BY Zenon, <2>2, <2>6 DEF PhaseOf
      <3>2. Service!Refuse(o)
        BY Zenon, <1>b, <2>1, <2>3, <3>1, PhaseMoves DEF Service!Refuse, Service!Move
      <3> QED
        BY Zenon, <3>2 DEF Service!Next
    <2> QED
      BY Zenon, <2>4, <2>5, <2>6
  <1>c. ASSUME NEW o \in Op, Flushing(o) \/ Held(o), lost' = lost \cup {o},
               UNCHANGED <<subm, callbacks, attempts, result>>
        PROVE  G
    <2>1. subm[o] = "accepted" /\ ~Called(o) /\ o \notin lost
      BY Zenon, <1>0, <1>c DEF OnePlace, AcceptedIsSomewhere
    <2>2. PhaseOf(o) = "pending" /\ PhaseOf(o)' = "dropped"
      BY Zenon, <1>c, <2>1 DEF PhaseOf, Called
    <2>3. \A p \in Op \ {o} : PhaseOf(p)' = PhaseOf(p)
      BY Zenon, <1>c DEF PhaseOf, Called
    <2>4. Service!Drop(o)
      BY Zenon, <1>c, <2>2, <2>3, PhaseMoves DEF Service!Drop, Service!Move
    <2> QED
      BY Zenon, <2>4 DEF Service!Next
  <1>d. ASSUME NEW w \in Worker, wpc[w] \in {"run", "sleep"}
        PROVE  /\ held[w] \in Op /\ Held(held[w])
               /\ subm[held[w]] = "accepted" /\ ~Called(held[w]) /\ held[w] \notin lost
               /\ PhaseOf(held[w]) = "pending"
               /\ attempts[held[w]] = retryCount[held[w]] /\ retryCount[held[w]] \in 0..MaxRetries
    <2>1. held[w] \in Op /\ Held(held[w])
      BY Zenon, <1>0, <1>d DEF HeldControl, WorkerType, Held
    <2>2. subm[held[w]] = "accepted" /\ ~Called(held[w]) /\ held[w] \notin lost
      BY Zenon, <1>0, <2>1 DEF OnePlace, AcceptedIsSomewhere
    <2> QED
      BY Zenon, <1>0, <2>1, <2>2 DEF PhaseOf, Answers, OperationType
  <1>e. ASSUME NEW w \in Worker, wpc[w] = "run", NEW res, Complete(w, res), UNCHANGED <<subm, lost>>
        PROVE  Service!Answer(held[w], res)
    <2>0. PICK o \in Op : o = held[w]
      BY Zenon, <1>d, <1>e
    <2>1. subm[o] = "accepted" /\ ~Called(o) /\ PhaseOf(o) = "pending"
      BY Zenon, <1>d, <1>e, <2>0
    <2>2. callbacks'[o] > 0 /\ \A p \in Op \ {o} : callbacks'[p] = callbacks[p]
      BY <1>0, <1>e, <2>0, <2>1 DEF Complete, OperationType, Called
    <2>3. PhaseOf(o)' = "answered" /\ \A p \in Op \ {o} : PhaseOf(p)' = PhaseOf(p)
      BY Zenon, <1>e, <2>1, <2>2 DEF PhaseOf, Called
    <2>4. result' = [result EXCEPT ![o] = res]
      BY Zenon, <1>e, <2>0 DEF Complete
    <2> QED
      BY Zenon, <2>0, <2>1, <2>3, <2>4, PhaseMoves DEF Service!Answer, Service!Move
  <1>1. ASSUME NEW o \in Op, CheckOpen(o) PROVE G
    BY Zenon, <1>1, <1>b DEF CheckOpen
  <1>2. ASSUME NEW o \in Op, SubmitDirect(o) PROVE G
    <2>1. CASE UNCHANGED subm
      BY Zenon, <1>2, <1>a, <2>1 DEF SubmitDirect
    <2>2. CASE ~UNCHANGED subm
      BY Zenon, <1>2, <1>b, <2>2 DEF SubmitDirect
    <2> QED
      BY Zenon, <2>1, <2>2
  <1>3. ASSUME NEW o \in Op, NEW b \in BatchID, AddToBatch(o, b) PROVE G
    BY Zenon, <1>3, <1>b DEF AddToBatch
  <1>4. ASSUME FlushOne PROVE G
    <2>1. Head(flush) \in Op /\ Flushing(Head(flush))
      BY Zenon, <1>0, <1>4, TailFacts DEF FlushOne, BatchType, Flushing
    <2>2. CASE UNCHANGED lost
      BY Zenon, <1>4, <1>a, <2>2 DEF FlushOne
    <2>3. CASE lost' = lost \cup {Head(flush)}
      BY Zenon, <1>4, <1>c, <2>1, <2>3 DEF FlushOne
    <2> QED
      BY Zenon, <1>4, <2>2, <2>3 DEF FlushOne
  <1>5. ASSUME NEW w \in Worker, RunCancelled(w) PROVE G
    <2>1. Service!Cancel(held[w])
      BY Zenon, <1>5, <1>e DEF RunCancelled, Service!Cancel
    <2> QED
      BY Zenon, <1>5, <1>d, <2>1 DEF RunCancelled, Service!Next
  <1>6. ASSUME NEW w \in Worker, RunOk(w) PROVE G
    <2>1. Service!Answer(held[w], "ok")
      BY Zenon, <1>6, <1>e DEF RunOk
    <2>2. held[w] \in Op /\ attempts[held[w]] < MaxRetries + 1
      BY <1>6, <1>d DEF RunOk
    <2>3. Service!Succeed(held[w])
      BY Zenon, <1>6, <2>1, <2>2 DEF RunOk, Service!Succeed, Service!Try
    <2> QED
      BY Zenon, <2>2, <2>3 DEF Service!Next
  <1>7. ASSUME NEW w \in Worker, RunError(w) PROVE G
    <2>0. /\ held[w] \in Op /\ PhaseOf(held[w]) = "pending"
          /\ attempts[held[w]] = retryCount[held[w]] /\ retryCount[held[w]] \in 0..MaxRetries
      BY Zenon, <1>7, <1>d DEF RunError
    <2>1. Service!Try(held[w])
      BY <1>7, <2>0 DEF RunError, Service!Try
    <2>2. CASE CanRetry(held[w])
      <3>1. UNCHANGED <<subm, callbacks, lost, result>> /\ attempts[held[w]] + 1 < MaxRetries + 1
        BY <1>7, <2>0, <2>2 DEF RunError, CanRetry
      <3>2. [p \in Op |-> PhaseOf(p)]' = [p \in Op |-> PhaseOf(p)]
        BY Zenon, <3>1 DEF PhaseOf, Called
      <3>3. Service!Retry(held[w])
        BY Zenon, <2>0, <2>1, <3>1, <3>2 DEF Service!Retry
      <3> QED
        BY Zenon, <2>0, <3>3 DEF Service!Next
    <2>3. CASE ~CanRetry(held[w])
      <3>1. Service!Answer(held[w], "failed")
        BY Zenon, <1>7, <1>e, <2>3 DEF RunError
      <3>2. attempts[held[w]] + 1 = MaxRetries + 1
        BY <2>0, <2>3 DEF CanRetry
      <3>3. Service!Fail(held[w])
        BY Zenon, <2>1, <3>1, <3>2 DEF Service!Fail
      <3> QED
        BY Zenon, <2>0, <3>3 DEF Service!Next
    <2> QED
      BY Zenon, <2>2, <2>3
  <1>8. ASSUME NEW w \in Worker, Requeue(w) PROVE G
    <2>1. held[w] \in Op /\ Held(held[w])
      BY Zenon, <1>8, <1>d DEF Requeue
    <2>2. CASE UNCHANGED lost
      BY Zenon, <1>8, <1>a, <2>2 DEF Requeue
    <2>3. CASE lost' = lost \cup {held[w]}
      BY Zenon, <1>8, <1>c, <2>1, <2>3 DEF Requeue
    <2> QED
      BY Zenon, <1>8, <2>2, <2>3 DEF Requeue
  <1>9. ASSUME NEW w \in Worker, Take(w) \/ Exit(w) PROVE G
    BY Zenon, <1>9, <1>a DEF Take, Exit
  <1>10. ASSUME NEW b \in BatchID, TimerFires(b) \/ NextPending(b) PROVE G
    BY Zenon, <1>10, <1>a DEF TimerFires, NextPending
  <1>11. CASE Unlock \/ Close
    BY Zenon, <1>11, <1>a DEF Unlock, Close, CloseMark, BeginPending, CloseStop, CloseQueue
  <1>12. CASE Wait
    BY Zenon, <1>12, <1>a DEF Wait, WaitCall, BeginPending, PollQueue, PollBatches, WaitTimeout
  <1>13. CASE UNCHANGED vars
    BY Zenon, <1>13, <1>a DEF vars
  <1> QED
    BY Zenon, <1>1, <1>2, <1>3, <1>4, <1>5, <1>6, <1>7, <1>8, <1>9, <1>10, <1>11, <1>12, <1>13
    DEF Next, Submit, WorkerStep, FlushStep

\* The asynchronous database layer implements AsyncService, for every queue
\* size, batch size, retry limit and number of workers.
THEOREM Refinement == Spec => ImplementsService
  <1>1. Init => Service!Init
    BY Zenon DEF Init, Service!Init, PhaseOf
  <1>2. IInv /\ [Next]_vars => [Service!Next]_(Service!vars)
    BY Zenon, ServiceStep
  <1> QED
    BY <1>1, <1>2, Invariance, PTL DEF Spec, ImplementsService, Service!Spec
=============================================================================
