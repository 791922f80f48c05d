SPECIFICATION Spec
CONSTANTS
  Users = {u1}
  Creators = {c1}
  Batches = {b1}
  Threads = {w1, w2}
  MaxTime = 1
  IdleSleep = 3
  MaxCalls = 3
  MaxFaults = 0
  Null = Null
SYMMETRY Symmetry
INVARIANTS CancelledNotDelivered
CHECK_DEADLOCK FALSE
