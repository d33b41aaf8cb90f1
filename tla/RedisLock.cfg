\* two tokens of one process; timeouts of 3 and 6 ticks, a
\* configured interval that is too long for the shorter one; two faults
CONSTANTS
  Token = {t1, t2}
  Process = {p1}
  Owner <- MCOwner
  Timeouts = {0, 3}
  DefaultTimeout = 6
  RenewInterval = 2
  StopCapacity = 1
  MaxFaults = 2
  NoToken = NoToken
SPECIFICATION FairSpec
INVARIANTS HolderKeepsKey ClosedOnce RenewedUnlessCrossed LeaseKept
PROPERTIES FreedInTheEnd RenewalEnds
CHECK_DEADLOCK FALSE
