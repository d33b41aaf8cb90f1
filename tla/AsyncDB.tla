------------------------------- MODULE AsyncDB -------------------------------
(***************************************************************************)
(* The asynchronous database layer (pkg/db/async.go): submitters hand      *)
(* operations to a bounded queue, directly or through per-statement        *)
(* batches that are flushed when full, by a timer, by Close or by          *)
(* WaitForCompletion; workers run them, retry failures and call back.      *)
(*                                                                         *)
(* An operation is a model value; its SQL text is abstracted to the choice *)
(* between "not batchable" and one of the batch identifiers.  Statistics   *)
(* counters and averages steer nothing and are left out.  The database's   *)
(* answer (success, error, context already cancelled) is a free choice.    *)
(***************************************************************************)
EXTENDS Integers, Sequences, Functions

CONSTANTS
  Op,           \* operations that may be submitted
  BatchID,      \* batch identifiers getBatchID can return
  Worker,       \* worker goroutines
  QueueSize,    \* capacity of the queue channel
  BatchSize,    \* operations that make a batch full
  MaxRetries,   \* retries allowed after a failed attempt
  NoOp          \* "this worker holds no operation"

ASSUME AsyncAssumption ==
  /\ QueueSize \in Nat \ {0}
  /\ BatchSize \in Nat
  /\ MaxRetries \in Nat
  /\ NoOp \notin Op

VARIABLES
  subm,           \* where each submission call stands
  queue,          \* the channel
  batchQueues,    \* the operations waiting in each batch
  batchTimers,    \* the batches that have an entry in the timer map
  pendingTimers,  \* AfterFunc callbacks per batch that have not run yet
  batchMu,        \* who holds batchMu across a flush ("free" if nobody)
  flush,          \* what the holder of batchMu has still to enqueue
  wpc,            \* where each worker stands
  held,           \* the operation each worker is processing
  retryCount,     \* AsyncOperation.RetryCount
  attempts,       \* history: how often an operation reached the database
  result,         \* history: the result handed to the callback
  callbacks,      \* history: how often the callback was started
  lost,           \* history: operations dropped by an ignored enqueue error
  closer,         \* progress of Close
  waiter,         \* progress of WaitForCompletion's goroutine
  waitRet,        \* what WaitForCompletion returned
  waitSet,        \* history: operations accepted when it was called
  panicked        \* who sent on the closed queue ("no" if nobody)

vars == <<subm, queue, batchQueues, batchTimers, pendingTimers, batchMu, flush,
          wpc, held, retryCount, attempts, result, callbacks, lost, closer,
          waiter, waitRet, waitSet, panicked>>

opVars    == <<retryCount, attempts, result, callbacks>>
batchVars == <<batchQueues, batchTimers, pendingTimers, batchMu, flush>>
workVars  == <<wpc, held>>
waitVars  == <<waiter, waitRet, waitSet>>

isClosed    == closer # "open"
queueClosed == closer = "closed"

\* mutant: stopChan is closed only after waiting for the workers
stopClosedLate == queueClosed

stopClosed == closer \in {"stopping", "closed"}

Init ==
  /\ subm = [o \in Op |-> "new"]
  /\ queue = <<>>
  /\ batchQueues = [b \in BatchID |-> <<>>]
  /\ batchTimers = [b \in BatchID |-> FALSE]
  /\ pendingTimers = [b \in BatchID |-> 0]
  /\ batchMu = "free"
  /\ flush = <<>>
  /\ wpc = [w \in Worker |-> "select"]
  /\ held = [w \in Worker |-> NoOp]
  /\ retryCount = [o \in Op |-> 0]
  /\ attempts = [o \in Op |-> 0]
  /\ result = [o \in Op |-> "none"]
  /\ callbacks = [o \in Op |-> 0]
  /\ lost = {}
  /\ closer = "open"
  /\ waiter = "idle"
  /\ waitRet = "none"
  /\ waitSet = {}
  /\ panicked = "no"

-----------------------------------------------------------------------------
(* Submission.  The closed check and the enqueue are separate steps: no     *)
(* lock is held between them.                                               *)

\* QueryAsync, ExecAsync: the unlocked closed check
CheckOpen(o) ==
  /\ subm[o] = "new"
  /\ subm' = [subm EXCEPT ![o] = IF isClosed THEN "rejected" ELSE "checked"]
  /\ UNCHANGED <<queue, batchVars, workVars, opVars, lost, closer, waitVars, panicked>>

\* enqueueOperation: the non-blocking send succeeds
HasRoom == Len(queue) < QueueSize

\* QueryAsync, ExecAsync of a statement that is not batchable: the result of
\* enqueueOperation is returned to the submitter
SubmitDirect(o) ==
  /\ subm[o] = "checked"
  /\ \/ /\ queueClosed
        /\ panicked' = "submit"
        /\ UNCHANGED <<subm, queue>>
     \/ /\ ~queueClosed /\ HasRoom
        /\ queue' = Append(queue, o)
        /\ subm' = [subm EXCEPT ![o] = "accepted"]
        /\ UNCHANGED panicked
     \/ /\ ~queueClosed /\ ~HasRoom
        /\ subm' = [subm EXCEPT ![o] = "rejected"]
        /\ UNCHANGED <<queue, panicked>>
  /\ UNCHANGED <<batchVars, workVars, opVars, lost, closer, waitVars>>

BatchFull(batch) == Len(batch) >= BatchSize

\* mutant: a processed batch stays in the map
WithoutBatchKept(b) == batchQueues

\* processBatch: delete(a.batchQueues, batchID)
WithoutBatch(b) == [batchQueues EXCEPT ![b] = <<>>]

\* addToBatch: a full batch is taken out of the map and flushed by the
\* submitter, whose timer entry stays; otherwise a timer is started if the
\* batch has none
AddToBatch(o, b) ==
  /\ subm[o] = "checked"
  /\ batchMu = "free"
  /\ subm' = [subm EXCEPT ![o] = "accepted"]
  /\ LET batch == Append(batchQueues[b], o) IN
     \/ /\ BatchFull(batch)
        /\ batchQueues' = WithoutBatch(b)
        /\ flush' = batch
        /\ batchMu' = "submit"
        /\ UNCHANGED <<batchTimers, pendingTimers>>
     \/ /\ ~BatchFull(batch)
        /\ batchQueues' = [batchQueues EXCEPT ![b] = batch]
        /\ batchTimers' = [batchTimers EXCEPT ![b] = TRUE]
        /\ pendingTimers' = [pendingTimers EXCEPT ![b] = IF batchTimers[b] THEN @ ELSE @ + 1]
        /\ UNCHANGED <<batchMu, flush>>
  /\ UNCHANGED <<queue, workVars, opVars, lost, closer, waitVars, panicked>>

-----------------------------------------------------------------------------
(* Flushing.  The holder of batchMu enqueues one operation per step, so     *)
(* workers may make room in between.                                        *)

\* mutant: the entry of a fired timer stays in the map
WithoutTimerKept(b) == batchTimers

\* processBatchByTimer: delete(a.batchTimers, batchID)
WithoutTimer(b) == [batchTimers EXCEPT ![b] = FALSE]

\* processBatchByTimer
TimerFires(b) ==
  /\ pendingTimers[b] > 0
  /\ batchMu = "free"
  /\ batchTimers' = WithoutTimer(b)
  /\ pendingTimers' = [pendingTimers EXCEPT ![b] = @ - 1]
  /\ batchQueues' = WithoutBatch(b)
  /\ flush' = batchQueues[b]
  /\ batchMu' = IF batchQueues[b] = <<>> THEN "free" ELSE "timer"
  /\ UNCHANGED <<subm, queue, workVars, opVars, lost, closer, waitVars, panicked>>

\* processPendingBatches, called by Close ("close") or WaitForCompletion
\* ("wait"): timers are stopped, except those whose callback has already
\* started and is waiting for batchMu
BeginPending(who) ==
  /\ \/ who = "close" /\ closer = "marked"
     \/ who = "wait" /\ waiter = "called"
  /\ batchMu = "free"
  /\ batchMu' = who
  /\ batchTimers' = [b \in BatchID |-> FALSE]
  /\ \E stopped \in SUBSET {b \in BatchID : batchTimers[b]} :
       pendingTimers' = [b \in BatchID |->
         IF b \in stopped THEN pendingTimers[b] - 1 ELSE pendingTimers[b]]
  /\ UNCHANGED <<subm, queue, batchQueues, flush, workVars, opVars, lost, closer, waitVars, panicked>>

\* processPendingBatches, the loop over the map: the next batch to process
NextPending(b) ==
  /\ batchMu \in {"close", "wait"}
  /\ flush = <<>>
  /\ batchQueues[b] # <<>>
  /\ flush' = batchQueues[b]
  /\ batchQueues' = WithoutBatch(b)
  /\ UNCHANGED <<subm, queue, batchTimers, pendingTimers, batchMu, workVars, opVars, lost, closer,
                 waitVars, panicked>>

\* processBatch: one iteration of the enqueue loop, whose error is ignored
FlushOne ==
  /\ flush # <<>>
  /\ \/ /\ queueClosed
        /\ panicked' = "flush"
        /\ UNCHANGED <<flush, queue, lost>>
     \/ /\ ~queueClosed /\ HasRoom
        /\ flush' = Tail(flush)
        /\ queue' = Append(queue, Head(flush))
        /\ UNCHANGED <<lost, panicked>>
     \/ /\ ~queueClosed /\ ~HasRoom
        /\ flush' = Tail(flush)
        /\ lost' = lost \cup {Head(flush)}
        /\ UNCHANGED <<queue, panicked>>
  /\ UNCHANGED <<subm, batchQueues, batchTimers, pendingTimers, batchMu, workVars, opVars, closer, waitVars>>

\* the deferred batchMu.Unlock, and the caller's next line
Unlock ==
  /\ batchMu # "free"
  /\ flush = <<>>
  /\ batchMu \in {"close", "wait"} => \A b \in BatchID : batchQueues[b] = <<>>
  /\ batchMu' = "free"
  /\ closer' = IF batchMu = "close" THEN "flushed" ELSE closer
  /\ waiter' = IF batchMu = "wait" THEN "polling" ELSE waiter
  /\ UNCHANGED <<subm, queue, batchQueues, batchTimers, pendingTimers, flush, workVars, opVars, lost,
                 waitRet, waitSet, panicked>>

-----------------------------------------------------------------------------
(* Workers.                                                                 *)

\* worker: select picks the queue (also when stopChan is closed)
Take(w) ==
  /\ wpc[w] = "select"
  /\ queue # <<>>
  /\ queue' = Tail(queue)
  /\ held' = [held EXCEPT ![w] = Head(queue)]
  /\ wpc' = [wpc EXCEPT ![w] = "run"]
  /\ UNCHANGED <<subm, batchVars, opVars, lost, closer, waitVars, panicked>>

\* worker: select picks stopChan (also when the queue is not empty)
Exit(w) ==
  /\ wpc[w] = "select"
  /\ stopClosed
  /\ wpc' = [wpc EXCEPT ![w] = "exit"]
  /\ UNCHANGED <<subm, queue, batchVars, held, opVars, lost, closer, waitVars, panicked>>

\* completeOperation
Complete(w, res) ==
  /\ callbacks' = [callbacks EXCEPT ![held[w]] = @ + 1]
  /\ result' = [result EXCEPT ![held[w]] = res]
  /\ wpc' = [wpc EXCEPT ![w] = "select"]
  /\ held' = [held EXCEPT ![w] = NoOp]

\* processOperation: the operation's context is already cancelled
RunCancelled(w) ==
  /\ wpc[w] = "run"
  /\ Complete(w, "cancelled")
  /\ UNCHANGED <<subm, queue, batchVars, retryCount, attempts, lost, closer, waitVars, panicked>>

\* processOperation: the database answers without error
RunOk(w) ==
  /\ wpc[w] = "run"
  /\ attempts' = [attempts EXCEPT ![held[w]] = @ + 1]
  /\ Complete(w, "ok")
  /\ UNCHANGED <<subm, queue, batchVars, retryCount, lost, closer, waitVars, panicked>>

\* mutant: one retry too many
CanRetryOffByOne(o) == retryCount[o] <= MaxRetries

CanRetry(o) == retryCount[o] < MaxRetries

\* processOperation: the database, or the result handler, returns an error
RunError(w) ==
  /\ wpc[w] = "run"
  /\ attempts' = [attempts EXCEPT ![held[w]] = @ + 1]
  /\ \/ /\ CanRetry(held[w])
        /\ retryCount' = [retryCount EXCEPT ![held[w]] = @ + 1]
        /\ wpc' = [wpc EXCEPT ![w] = "sleep"]
        /\ UNCHANGED <<held, callbacks, result>>
     \/ /\ ~CanRetry(held[w])
        /\ Complete(w, "failed")
        /\ UNCHANGED retryCount
  /\ UNCHANGED <<subm, queue, batchVars, lost, closer, waitVars, panicked>>

\* mutant: after the retry interval the operation is forgotten
RequeueForgets(w) ==
  /\ wpc[w] = "sleep"
  /\ wpc' = [wpc EXCEPT ![w] = "select"]
  /\ held' = [held EXCEPT ![w] = NoOp]
  /\ UNCHANGED <<subm, queue, batchVars, opVars, lost, closer, waitVars, panicked>>

\* processOperation after the retry interval: enqueueOperation, whose error
\* is ignored
Requeue(w) ==
  /\ wpc[w] = "sleep"
  /\ wpc' = [wpc EXCEPT ![w] = "select"]
  /\ held' = [held EXCEPT ![w] = NoOp]
  /\ \/ /\ HasRoom
        /\ queue' = Append(queue, held[w])
        /\ UNCHANGED lost
     \/ /\ ~HasRoom
        /\ lost' = lost \cup {held[w]}
        /\ UNCHANGED queue
  /\ panicked' = IF queueClosed THEN "retry" ELSE panicked
  /\ UNCHANGED <<subm, batchVars, opVars, closer, waitVars>>

-----------------------------------------------------------------------------
(* Close and WaitForCompletion.                                             *)

\* Close: the first caller marks the layer closed; later calls return at once
CloseMark ==
  /\ closer = "open"
  /\ closer' = "marked"
  /\ UNCHANGED <<subm, queue, batchVars, workVars, opVars, lost, waitVars, panicked>>

\* Close: close(stopChan)
CloseStop ==
  /\ closer = "flushed"
  /\ closer' = "stopping"
  /\ UNCHANGED <<subm, queue, batchVars, workVars, opVars, lost, waitVars, panicked>>

\* mutant: Close does not wait for the workers
WorkersDoneSkipped == TRUE

\* wg.Wait returns
WorkersDone == \A w \in Worker : wpc[w] = "exit"

\* Close: wg.Wait, then close(queue)
CloseQueue ==
  /\ closer = "stopping"
  /\ WorkersDone
  /\ closer' = "closed"
  /\ UNCHANGED <<subm, queue, batchVars, workVars, opVars, lost, waitVars, panicked>>

Accepted == {o \in Op : subm[o] = "accepted"}

\* WaitForCompletion: the call and the start of its goroutine
WaitCall ==
  /\ waiter = "idle"
  /\ waiter' = "called"
  /\ waitSet' = Accepted
  /\ UNCHANGED <<subm, queue, batchVars, workVars, opVars, lost, closer, waitRet, panicked>>

\* mutant: the length of the queue is not looked at
QueueSeenEmptyAlways == TRUE

QueueSeenEmpty == queue = <<>>

\* WaitForCompletion: the goroutine reads len(queue) ...
PollQueue ==
  /\ waiter = "polling"
  /\ QueueSeenEmpty
  /\ waiter' = "sawempty"
  /\ UNCHANGED <<subm, queue, batchVars, workVars, opVars, lost, closer, waitRet, waitSet, panicked>>

\* ... and then len(batchQueues); no lock it holds stops workers, submitters
\* or timers between the two reads
PollBatches ==
  /\ waiter = "sawempty"
  /\ \/ /\ \A b \in BatchID : batchQueues[b] = <<>>
        /\ waiter' = "done"
        /\ waitRet' = IF waitRet = "none" THEN "nil" ELSE waitRet
     \/ /\ \E b \in BatchID : batchQueues[b] # <<>>
        /\ waiter' = "polling"
        /\ UNCHANGED waitRet
  /\ UNCHANGED <<subm, queue, batchVars, workVars, opVars, lost, closer, waitSet, panicked>>

\* WaitForCompletion: the timeout comes first; the goroutine goes on
WaitTimeout ==
  /\ waiter \in {"called", "polling", "sawempty"}
  /\ waitRet = "none"
  /\ waitRet' = "timeout"
  /\ UNCHANGED <<subm, queue, batchVars, workVars, opVars, lost, closer, waiter, waitSet, panicked>>

-----------------------------------------------------------------------------
Submit(o) == CheckOpen(o) \/ SubmitDirect(o) \/ \E b \in BatchID : AddToBatch(o, b)

WorkerStep(w) == Take(w) \/ Exit(w) \/ RunCancelled(w) \/ RunOk(w) \/ RunError(w) \/ Requeue(w)

FlushStep == FlushOne \/ Unlock \/ (\E b \in BatchID : NextPending(b))

Close == CloseMark \/ BeginPending("close") \/ CloseStop \/ CloseQueue

Wait == WaitCall \/ BeginPending("wait") \/ PollQueue \/ PollBatches \/ WaitTimeout

\* a panic in any goroutine ends the process
Next ==
  /\ panicked = "no"
  /\ \/ \E o \in Op : Submit(o)
     \/ \E b \in BatchID : TimerFires(b)
     \/ \E w \in Worker : WorkerStep(w)
     \/ FlushStep
     \/ Close
     \/ Wait

Spec == Init /\ [][Next]_vars

(* Fairness: a goroutine that can run does (Go's scheduler), a database     *)
(* call returns (OperationTimeout bounds it), a timer fires, a mutex that   *)
(* is released is eventually granted.  Nobody is obliged to submit, to call *)
(* Close or to call WaitForCompletion; Close, once begun, continues.        *)
Fairness ==
  /\ \A o \in Op : WF_vars(panicked = "no" /\ subm[o] # "new" /\ Submit(o))
  /\ \A b \in BatchID : WF_vars(panicked = "no" /\ TimerFires(b))
  /\ \A w \in Worker : WF_vars(panicked = "no" /\ WorkerStep(w))
  /\ WF_vars(panicked = "no" /\ FlushStep)
  /\ WF_vars(panicked = "no" /\ isClosed /\ Close)

FairSpec == Spec /\ Fairness

-----------------------------------------------------------------------------
(* Properties.                                                              *)

Queued(o)   == o \in Range(queue)
Batched(o)  == \E b \in BatchID : o \in Range(batchQueues[b])
Flushing(o) == o \in Range(flush)
Held(o)     == \E w \in Worker : held[w] = o
Called(o)   == callbacks[o] > 0

SubmissionType ==
  /\ subm \in [Op -> {"new", "checked", "accepted", "rejected"}]
  /\ queue \in Seq(Op) /\ Len(queue) <= QueueSize
  /\ lost \in SUBSET Op

BatchType ==
  /\ batchQueues \in [BatchID -> Seq(Op)]
  /\ batchTimers \in [BatchID -> BOOLEAN]
  /\ pendingTimers \in [BatchID -> Nat]
  /\ batchMu \in {"free", "submit", "timer", "close", "wait"}
  /\ flush \in Seq(Op)

WorkerType ==
  /\ wpc \in [Worker -> {"select", "run", "sleep", "exit"}]
  /\ held \in [Worker -> Op \cup {NoOp}]

OperationType ==
  /\ retryCount \in [Op -> 0..MaxRetries]
  /\ attempts \in [Op -> Nat]
  /\ result \in [Op -> {"none", "ok", "failed", "cancelled"}]
  /\ callbacks \in [Op -> Nat]

CallerType ==
  /\ closer \in {"open", "marked", "flushed", "stopping", "closed"}
  /\ waiter \in {"idle", "called", "polling", "sawempty", "done"}
  /\ waitRet \in {"none", "nil", "timeout"}
  /\ waitSet \in SUBSET Op
  /\ panicked \in {"no", "submit", "flush", "retry"}

\* The shape of the state: in particular the queue never exceeds its
\* capacity and no operation is retried more than MaxRetries times.
TypeOK == SubmissionType /\ BatchType /\ WorkerType /\ OperationType /\ CallerType

NoRepeats ==
  /\ IsInjective(queue) /\ IsInjective(flush)
  /\ \A b \in BatchID : IsInjective(batchQueues[b])

BatchesDisjoint ==
  \A b, c \in BatchID : b # c => Range(batchQueues[b]) \cap Range(batchQueues[c]) = {}

HeldDistinct == \A v, w \in Worker : held[v] = held[w] /\ held[v] # NoOp => v = w

OnePlace ==
  \A o \in Op :
    /\ Queued(o) => ~(Batched(o) \/ Flushing(o) \/ Held(o) \/ Called(o) \/ o \in lost)
    /\ Batched(o) => ~(Flushing(o) \/ Held(o) \/ Called(o) \/ o \in lost)
    /\ Flushing(o) => ~(Held(o) \/ Called(o) \/ o \in lost)
    /\ Held(o) => ~(Called(o) \/ o \in lost)
    /\ Called(o) => callbacks[o] = 1 /\ o \notin lost

\* No operation is ever in two places, or twice in one: it waits in the
\* queue, waits in a batch, is being flushed, is with a worker, has been
\* called back once or was dropped (processBatch, worker, processOperation).
NoCopies == NoRepeats /\ BatchesDisjoint /\ HeldDistinct /\ OnePlace

\* An operation whose submission returned nil is somewhere, and no other
\* operation is anywhere: nothing disappears without trace between batch,
\* queue, worker and retry (addToBatch, enqueueOperation, processOperation).
AcceptedIsSomewhere ==
  \A o \in Op : subm[o] = "accepted" <=>
    Queued(o) \/ Batched(o) \/ Flushing(o) \/ Held(o) \/ Called(o) \/ o \in lost

\* Retries: an operation reaches the database at most MaxRetries + 1 times,
\* and its callback hears of a failure only after all of these were used
\* (processOperation's retry branch).
FailureMeansExhausted ==
  \A o \in Op :
    /\ attempts[o] <= MaxRetries + 1
    /\ result[o] = "failed" => attempts[o] = MaxRetries + 1

\* A batch that holds operations will be flushed by somebody: a timer is
\* pending for it, or Close or WaitForCompletion is about to process it
\* (addToBatch, processBatchByTimer, processPendingBatches).
BatchHasFlusher ==
  \A b \in BatchID : batchQueues[b] # <<>> =>
    pendingTimers[b] > 0 \/ batchMu \in {"close", "wait"}

\* Close closes the queue only when no worker is left that could send a
\* retry on it, and its own flush never meets a closed queue: a send on the
\* closed channel comes from a late submitter, timer or WaitForCompletion.
CloseIsOrderly ==
  /\ queueClosed => \A w \in Worker : held[w] = NoOp
  /\ panicked # "retry"
  /\ panicked = "flush" => batchMu # "close"

\* Once WaitForCompletion's goroutine has flushed the batches and seen the
\* queue empty, an operation accepted before the call is in no batch and no
\* flush, and is in the queue only as a retry.
WaitDrains ==
  waiter \in {"sawempty", "done"} =>
    \A o \in waitSet : /\ ~Batched(o) /\ ~Flushing(o)
                        /\ Queued(o) => retryCount[o] > 0

\* what a caller sees of an operation
PhaseOf(o) ==
  IF subm[o] = "rejected" THEN "refused"
  ELSE IF subm[o] # "accepted" THEN "idle"
  ELSE IF Called(o) THEN "answered"
  ELSE IF o \in lost THEN "dropped"
  ELSE "pending"

Service == INSTANCE AsyncService WITH
  Tries <- MaxRetries + 1, phase <- [o \in Op |-> PhaseOf(o)], tries <- attempts, answer <- result

\* The layer implements AsyncService: whatever batches, timers, workers,
\* retries, Close and WaitForCompletion do in between, an accepted operation
\* is answered once or dropped, never both, and fails only after its last try.
ImplementsService == Service!Spec

\* While the layer is open an accepted operation is called back in the end,
\* unless an enqueue onto the full queue dropped it.
CalledOrLost ==
  \A o \in Op : subm[o] = "accepted" ~> Called(o) \/ o \in lost \/ isClosed

\* Close terminates, unless a send on the closed queue ends the process.
CloseTerminates ==
  closer = "marked" ~> closer = "closed" \/ panicked # "no"

=============================================================================
