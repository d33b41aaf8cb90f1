\* two keys in batches of one: the ticker, Close and two goroutines started by
\* a Set; one statement fails or is dropped
CONSTANTS
  Key = {k1, k2}
  Writer = {c1}
  Reader = {}
  Kicker = {f1, f2}
  BatchSize = 1
  MaxDirtySize = 2
  MaxWrites = 2
  MaxFaults = 1
  NoRow = NoRow
  Miss = Miss
  Clean = Clean
SPECIFICATION FlushSpec
INVARIANTS FlushedOnce PendingIsOwned CleanMeansStored
PROPERTY FlushedInTheEnd
CHECK_DEADLOCK FALSE
