SPECIFICATION Spec
CONSTANTS
  r1 = r1
  r2 = r2
  r3 = r3
  ip = ip
  token = token
  Requests <- MCRequests
  Keys = {ip, token}
  Checks <- MCChecks
  Limit <- MCLimit
  Window <- MCWindow
  MaxClock = 3
  MaxFaults = 1
  None = None
SYMMETRY MCSymmetry
INVARIANTS TypeOK AtMostMax RefusedForCause
PROPERTY KeptInWindow
CHECK_DEADLOCK FALSE
