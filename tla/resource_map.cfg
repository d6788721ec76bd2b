SPECIFICATION Spec
CONSTANTS
  u1 = u1
  u2 = u2
  o1 = o1
  o2 = o2
  o3 = o3
  Upstreams = {u1, u2}
  Nameless = {u1}
  Originals = {o1, o2, o3}
  Given <- MCGiven
  Ids = {i1, i2, i3, i4}
  Requests = {r1, r2}
  MaxFaults = 1
  None = None
SYMMETRY MCSymmetry
INVARIANTS TypeOK RowsNameObjects DeletedMeansGone NothingIsLost ResultIsWrapped BilledBeforeKnown
