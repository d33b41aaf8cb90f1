\* two operations over one batch and a queue of one: full batches, timers,
\* drops on a full queue, retries, Close and WaitForCompletion interleave
CONSTANTS
  Op = {o1, o2}
  BatchID = {b1}
  Worker = {w1}
  QueueSize = 1
  BatchSize = 2
  MaxRetries = 1
  NoOp = NoOp
SPECIFICATION FairSpec
INVARIANTS NoCopies AcceptedIsSomewhere FailureMeansExhausted BatchHasFlusher CloseIsOrderly WaitDrains
PROPERTIES ImplementsService CalledOrLost CloseTerminates
CHECK_DEADLOCK FALSE
