CONSTANTS
  s1 = s1
  s2 = s2
  Sessions = {s1, s2}
  None = None
SPECIFICATION Spec
PROPERTY SessionsEnd
CHECK_DEADLOCK FALSE
