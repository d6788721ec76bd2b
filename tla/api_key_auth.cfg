SPECIFICATION FairSpec
CONSTANTS
  a1 = a1
  k1 = k1
  k2 = k2
  Accounts = {a1}
  Keys = {k1, k2}
  Owner <- MCOwner2
  Requests = {r1, r2}
  MaxFaults = 1
  None = None
INVARIANT TypeOK
PROPERTIES ShutStaysShut CacheConverges
