SPECIFICATION Spec
CONSTANTS
  Accounts = {a1}
  Changes = {c1, c2, c3}
  Subs = {s1}
  Workers = {w1, w2}
  Contents <- MCSpendOrDeposit
  Limits <- MCLimits
  MaxFaults = 1
  None = None
SYMMETRY MCSymmetry
INVARIANTS TypeOK TasksNameRows OneSettlerPerChange RecordedUseWithinLimit BalancesAreBacked NoLockCycle
PROPERTY SettlesOnce
