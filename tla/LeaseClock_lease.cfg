\* Three workers; the longest delays a lease of 30 allows: 20 + 4 + 4 + 1 = 29.
CONSTANTS
  Workers = {w1, w2, w3}
  Lease = 30
  Skew = 1
  Delay = 2
  Grace = 2
  MaxTime = 80
SPECIFICATION Spec
SYMMETRY Symmetry
INVARIANTS Exclusive WaitIsBounded LeaseInvariant
PROPERTIES LockKept
CHECK_DEADLOCK FALSE
