\* one key rewritten while a Flush holds it
CONSTANTS
  Key = {k1}
  Writer = {c1}
  Reader = {}
  Kicker = {f1, f2}
  BatchSize = 1
  MaxDirtySize = 2
  MaxWrites = 2
  MaxFaults = 0
  NoRow = NoRow
  Miss = Miss
  Clean = Clean
SPECIFICATION Spec
INVARIANT NoLostUpdate
CHECK_DEADLOCK FALSE
