\* one identifier is enough
CONSTANTS
  Id = {a, b}
  MaxIds = 2
SPECIFICATION MultiSpec
INVARIANT CacheErrorIgnored
CHECK_DEADLOCK FALSE
