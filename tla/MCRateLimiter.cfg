\* Two addresses, two requests at a time; a bucket of two requests, eviction after three units of time.
CONSTANTS
  Addresses = {a1, a2}
  Requests = {r1, r2}
  Limiters = {l1, l2, l3}
  Capacity = 2
  Cost = 1
  Idle = 3
  Stall = 1
  MaxTime = 5
  NoAddress = NoAddress
  NoLimiter = NoLimiter
SPECIFICATION Spec
INVARIANTS TypeOK BurstBound
PROPERTIES IsTokenBucket
SYMMETRY MCSymmetry
CHECK_DEADLOCK FALSE
