SPECIFICATION Spec
CONSTANTS
  a1 = a1
  k1 = k1
  k2 = k2
  Accounts = {a1}
  Keys = {k1}
  Owner <- MCOwner1
  Requests = {r1}
  MaxFaults = 0
  None = None
INVARIANT DeletedIsUncached
