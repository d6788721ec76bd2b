SPECIFICATION FairSpec
CONSTANTS
  u1 = u1
  u2 = u2
  m1 = m1
  m2 = m2
  m3 = m3
  Upstreams = {u1, u2}
  Models = {m1, m2, m3}
  Host <- MCHost
  Requests = {r1}
  Updates = {a1}
  Count = 2
  MaxFaults = 2
  None = None
INVARIANTS TypeOK OfflineHasCause
PROPERTIES MaintenanceIsStable RecoversEventually
