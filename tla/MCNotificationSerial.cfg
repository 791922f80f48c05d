SPECIFICATION Spec
CONSTANTS
  Users = {u1, u2}
  Creators = {c1}
  Batches = {b1, b2}
  Threads = {w1}
  MaxTime = 2
  IdleSleep = 3
  MaxCalls = 3
  MaxFaults = 1
  Null = Null
SYMMETRY Symmetry
INVARIANTS NothingDangles ArrivesOnce ListedOnce CancelledNotDelivered KeysAreCurrent
PROPERTIES ImplementsLifecycle
CHECK_DEADLOCK FALSE
