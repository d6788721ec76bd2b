SPECIFICATION FairSpec
CONSTANTS
  Accounts = {a1}
  Changes = {c1, c2}
  Subs = {}
  Workers = {w1, w2}
  Contents <- MCDeposit
  Limits <- MCLimits
  MaxFaults = 0
  None = None
PROPERTY EnqueuedIsApplied
CHECK_DEADLOCK FALSE
