\* two keys, one client that writes and one that reads, one fault
CONSTANTS
  Key = {k1, k2}
  Writer = {c1}
  Reader = {c2}
  Kicker = {f1, f2}
  BatchSize = 2
  MaxDirtySize = 3
  MaxWrites = 2
  MaxFaults = 1
  NoRow = NoRow
  Miss = Miss
  Clean = Clean
SPECIFICATION ReadSpec
SYMMETRY Symmetry
INVARIANT CacheIsFresh
CHECK_DEADLOCK FALSE
