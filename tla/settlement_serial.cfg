SPECIFICATION FairSpec
CONSTANTS
  Accounts = {a1}
  Changes = {c1, c2}
  Subs = {s1}
  Workers = {w1}
  Contents <- MCContents
  Limits <- MCTwoLimits
  MaxFaults = 1
  None = None
INVARIANTS EveryChangeCounts CacheIsLatest ReadsAreCurrent
PROPERTIES ImplementsLedger EnqueuedIsApplied
