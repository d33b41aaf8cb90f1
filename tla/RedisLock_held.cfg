\* one process, two tokens, no faults, prompt and late goroutines
CONSTANTS
  Token = {t1, t2}
  Process = {p1}
  Owner <- MCOwner
  Timeouts = {0}
  DefaultTimeout = 3
  RenewInterval = 1
  StopCapacity = 1
  MaxFaults = 0
  NoToken = NoToken
SPECIFICATION Spec
INVARIANT RenewedWhileHeld
CHECK_DEADLOCK FALSE
