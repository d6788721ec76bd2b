SPECIFICATION FairSpec
CONSTANTS
  Events = {e1}
  Models = {m1}
  Versions = {v1, v2}
  Workers = {w1, w2, w3}
  MaxFaults = 2
  Unpriced = Unpriced
  None = None
INVARIANTS TypeOK OneCharger ChargeIsRecorded ChargeIsCounted
PROPERTIES ImplementsSubmission UsageIsPushed
