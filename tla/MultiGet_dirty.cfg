\* a request of three identifiers is enough
CONSTANTS
  Id = {a, b, c}
  MaxIds = 3
SPECIFICATION MultiSpec
INVARIANT DirtyIsNotAsked
CHECK_DEADLOCK FALSE
